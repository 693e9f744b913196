----------------------------- MODULE MCLuaLibs -----------------------------
(***************************************************************************)
(* Tables, the string table and the libraries for TLC.  They share no      *)
(* state, so a behaviour is about one of them and leaves the others as     *)
(* they begin.                                                             *)
(***************************************************************************)
EXTENDS MCLuaTable, LuaStringTable, LuaSort, LuaReferences, LuaBuffer, LuaRequire, LuaPattern

VARIABLE part  \* what the behaviour is about

allVars == <<part, vars, strtVars, sortVars, refVars, bufferVars, requireVars, patternVars>>

\* Four texts: each has a chain of four of its own, two share one of two, and
\* all share the only one of the smallest table.
MCTextHash == [s \in Texts |-> CASE s = "w" -> 0 [] s = "x" -> 1 [] s = "y" -> 3 [] OTHER -> 2]

\* All short arrays of three numbers, and arrays long enough to recurse twice.
MCSortInputs ==
    UNION {[1 .. k -> 1 .. 3] : k \in 0 .. 6}
    \cup {[k \in 1 .. 12 |-> k], [k \in 1 .. 12 |-> 13 - k], [k \in 1 .. 13 |-> 1],
          [k \in 1 .. 12 |-> (5 * k) % 13], [k \in 1 .. 12 |-> (7 * k) % 4]}
MCUnorderedInputs == {[k \in 1 .. m |-> k] : m \in 0 .. 5}

ab == {"a", "b"}
MCSubjects ==
    UNION {[1 .. k -> ab] : k \in 0 .. 2}
    \cup {<<"a", "b", "a">>, <<"a", ")", "b">>, <<"a", "a", "b", "b">>, <<"a", "b", "a", "b">>}

MCPieces ==
    {<<Char("a")>>, <<Char("b")>>, <<Repeat(ab, "*")>>, <<Repeat({"a"}, "+")>>,
     <<Repeat({"a"}, "?")>>, <<Open>>, <<Close>>, <<Open, Close>>,
     <<Open, Repeat(ab, "-"), Close>>, <<Open, Repeat({"a"}, "*"), Close>>,
     <<Open, Open, Repeat(ab, "?"), Close>>, <<Back(1)>>, <<Back(2)>>, <<Dollar>>,
     <<Balance("a", "b")>>, <<Frontier({"b", ZeroChar})>>, <<Malformed>>}

MCReplacements ==
    {ReplaceBy(<<[char |-> "x"], [digit |-> 1]>>), ReplaceBy(<<[digit |-> 0], [digit |-> 2]>>),
     Gives("table", KeepsText), Gives("function", Text(<<"x", "y">>)),
     Gives("function", InvalidCapture)}

AnyInit ==
    /\ part \in {"table", "strings", "sort", "references", "buffer", "require", "pattern"}
    /\ IF part = "table" THEN Init ELSE Init /\ Len(t.array) = 0 /\ isdummy(t)
    /\ StrtInit /\ RefInit /\ BufferInit /\ RequireInit
    /\ IF part = "sort" THEN SortInit ELSE SortIdle
    /\ IF part = "pattern" THEN PatternInit ELSE PatternIdle

Sorting ==
    /\ part = "sort" /\ SortNext
    /\ UNCHANGED <<part, vars, strtVars, refVars, bufferVars, requireVars, patternVars>>

AnyNext ==
    \/ /\ part = "table" /\ Next
       /\ UNCHANGED <<part, strtVars, sortVars, refVars, bufferVars, requireVars, patternVars>>
    \/ /\ part = "strings" /\ StrtNext
       /\ UNCHANGED <<part, vars, sortVars, refVars, bufferVars, requireVars, patternVars>>
    \/ Sorting
    \/ /\ part = "references" /\ RefNext
       /\ UNCHANGED <<part, vars, strtVars, sortVars, bufferVars, requireVars, patternVars>>
    \/ /\ part = "buffer" /\ BufferNext
       /\ UNCHANGED <<part, vars, strtVars, sortVars, refVars, requireVars, patternVars>>
    \/ /\ part = "require" /\ RequireNext
       /\ UNCHANGED <<part, vars, strtVars, sortVars, refVars, bufferVars, patternVars>>
    \/ /\ part = "pattern" /\ PatternNext
       /\ UNCHANGED <<part, vars, strtVars, sortVars, refVars, bufferVars, requireVars>>

AnySpec == AnyInit /\ [][AnyNext]_allVars /\ WF_allVars(Sorting)

\* Patterns are evaluated once, when they are complete.
MatchesFirstWay == [][FirstWay]_patternVars
GsubFollowsGmatch == [][GsubAsGmatch]_patternVars

\* With "<" the sort ends: nothing but its own steps is waited for, and no
\* partition leaves the range it was given (auxsort).
SortEnds == (part = "sort" /\ order = "<") ~> sortPc = "done"
=============================================================================
