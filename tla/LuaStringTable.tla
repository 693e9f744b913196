--------------------------- MODULE LuaStringTable ---------------------------
(***************************************************************************)
(* The table of interned strings (lstring.c) and its sweep (lgc.c): chains *)
(* of strings that grow, shrink and move while the collector visits them   *)
(* one chain at a step.                                                    *)
(*                                                                         *)
(* A string is its text: two strings with one text would be a fault, so    *)
(* each entry of a chain is a record of its own.  LuaGC has the rest of    *)
(* the collector; here its mark phase marks the strings in use, in any     *)
(* order, and all of them by the time it ends.                             *)
(***************************************************************************)
EXTENDS Integers, Sequences, FiniteSets

CONSTANTS
    Texts,          \* the contents of strings
    TextHash,       \* the hash value of each text
    FixedTexts,     \* texts with the FIXEDBIT: reserved words, event names
    MINSTRTABSIZE,  \* the initial number of chains
    MaxStrtSize     \* a table of this size does not grow (MAX_INT / 2)

ASSUME StrtConstants ==
    /\ TextHash \in [Texts -> Nat]
    /\ FixedTexts \subseteq Texts
    /\ MINSTRTABSIZE \in Nat \ {0} /\ MaxStrtSize \in Nat

VARIABLES
    hash,          \* strt.hash: the chains 0 .. size - 1, newest entry first
    nuse,          \* strt.nuse
    strtState,     \* gcstate: "mark" (up to propagate), "sweepstring" or "sweep"
    currentwhite,  \* 0 or 1
    sweepstrgc,    \* the next chain to sweep
    inUse          \* texts of strings the program can reach

strtVars == <<hash, nuse, strtState, currentwhite, sweepstrgc, inUse>>

otherwhite == 1 - currentwhite
Black == 2  \* marked, neither white
Marks == {0, 1, Black}
size(h) == Cardinality(DOMAIN h)
Entry(t, mark) == [text |-> t, mark |-> mark]
isFixed(e) == e.text \in FixedTexts
isdead(e) == e.mark = otherwhite /\ ~isFixed(e)

\* All entries, as pairs of a chain and a place in it.
Places(h) == UNION {{c} \X DOMAIN h[c] : c \in DOMAIN h}
At(h, pl) == h[pl[1]][pl[2]]

(***************************************************************************)
(* lstring.c                                                               *)
(***************************************************************************)
\* "cannot resize during GC traverse"
Moves == strtState # "sweepstring"

\* The strings of all chains in the order they are met.
met(h) ==
    LET Upto[c \in 0 .. size(h)] == IF c = 0 THEN <<>> ELSE Upto[c - 1] \o h[c - 1]
    IN  Upto[size(h)]

\* Those that go to chain c of n: each is put in front of those before.
front(all, c, n) ==
    LET Upto[i \in 0 .. Len(all)] ==
            IF i = 0 THEN <<>>
            ELSE IF TextHash[all[i].text] % n = c THEN <<all[i]>> \o Upto[i - 1] ELSE Upto[i - 1]
    IN  Upto[Len(all)]

Rehashed(h, n) == LET all == met(h) IN [c \in 0 .. n - 1 |-> front(all, c, n)]

luaS_resize(h, n) == IF Moves THEN Rehashed(h, n) ELSE h

\* Mutant: a dead string is found and left dead.
Found_dead(h, pl) == h

\* "string may be dead": the entry found is alive again.
Found(h, pl) ==
    IF At(h, pl).mark = otherwhite THEN [h EXCEPT ![pl[1]][pl[2]].mark = currentwhite] ELSE h

\* The new entry is linked before the table grows.  When there is no memory
\* for that, the caller gets an error and no string.
newlstr(t, nomemory) ==
    LET c == TextHash[t] % size(hash)
        linked == [hash EXCEPT ![c] = <<Entry(t, currentwhite)>> \o @]
        crowded == nuse + 1 > size(hash) /\ size(hash) <= MaxStrtSize
        fails == crowded /\ Moves /\ nomemory
    IN  /\ hash' = IF crowded /\ ~fails THEN luaS_resize(linked, 2 * size(hash)) ELSE linked
        /\ nuse' = nuse + 1
        /\ inUse' = IF fails THEN inUse ELSE inUse \cup {t}

luaS_newlstr(t, nomemory) ==
    LET c == TextHash[t] % size(hash)
        same == {n \in 1 .. Len(hash[c]) : hash[c][n].text = t}
        first == CHOOSE n \in same : \A m \in same : n <= m
    IN  /\ IF same # {}
           THEN hash' = Found(hash, <<c, first>>) /\ inUse' = inUse \cup {t} /\ UNCHANGED nuse
           ELSE newlstr(t, nomemory)
        /\ UNCHANGED <<strtState, currentwhite, sweepstrgc>>

(***************************************************************************)
(* lgc.c                                                                   *)
(***************************************************************************)
\* The program forgets a string.
Forget(t) ==
    /\ t \in inUse
    /\ inUse' = inUse \ {t}
    /\ UNCHANGED <<hash, nuse, strtState, currentwhite, sweepstrgc>>

Blackened(h, T) == [c \in DOMAIN h |-> [n \in 1 .. Len(h[c]) |->
                    IF h[c][n].text \in T THEN [h[c][n] EXCEPT !.mark = Black] ELSE h[c][n]]]

\* Some string is marked while the mark phase goes on.
reallymarkobject(t) ==
    /\ strtState = "mark" /\ t \in inUse
    /\ hash' = Blackened(hash, {t})
    /\ UNCHANGED <<nuse, strtState, currentwhite, sweepstrgc, inUse>>

\* The end of the mark phase.
atomic ==
    /\ strtState = "mark"
    /\ hash' = Blackened(hash, inUse)
    /\ currentwhite' = otherwhite /\ sweepstrgc' = 0 /\ strtState' = "sweepstring"
    /\ UNCHANGED <<nuse, inUse>>

\* A chain after its sweep: the dead are freed, the others turn white.
sweepwholelist(chain) ==
    LET Kept[n \in 0 .. Len(chain)] ==
            IF n = 0 THEN <<>>
            ELSE IF isdead(chain[n]) THEN Kept[n - 1]
            ELSE Append(Kept[n - 1], [chain[n] EXCEPT !.mark = currentwhite])
    IN  Kept[Len(chain)]

\* Mutant: the last chain is not swept.
nothingMoreToSweep_early(chain) == chain >= size(hash) - 1

nothingMoreToSweep(chain) == chain >= size(hash)

\* singlestep in GCSsweepstring.
sweepstring ==
    LET kept == sweepwholelist(hash[sweepstrgc])
    IN  /\ strtState = "sweepstring"
        /\ hash' = [hash EXCEPT ![sweepstrgc] = kept]
        /\ nuse' = nuse - (Len(hash[sweepstrgc]) - Len(kept))
        /\ sweepstrgc' = sweepstrgc + 1
        /\ strtState' = IF nothingMoreToSweep(sweepstrgc + 1) THEN "sweep" ELSE "sweepstring"
        /\ UNCHANGED <<currentwhite, inUse>>

\* The end of the sweep.  When there is no memory to shrink the table, the
\* step fails and is done again.
checkSizes(nomemory) ==
    LET toobig == nuse < size(hash) \div 4 /\ size(hash) > MINSTRTABSIZE * 2
    IN  /\ strtState = "sweep" /\ ~(toobig /\ nomemory)
        /\ hash' = IF toobig THEN luaS_resize(hash, size(hash) \div 2) ELSE hash
        /\ strtState' = "mark"
        /\ UNCHANGED <<nuse, currentwhite, sweepstrgc, inUse>>

\* A full collection that begins in the mark phase first sweeps what is marked.
luaC_fullgc ==
    /\ strtState = "mark"
    /\ sweepstrgc' = 0 /\ strtState' = "sweepstring"
    /\ UNCHANGED <<hash, nuse, currentwhite, inUse>>

StrtInit ==
    /\ hash = [c \in 0 .. MINSTRTABSIZE - 1 |-> <<>>]
    /\ nuse = 0 /\ strtState = "mark" /\ currentwhite = 0 /\ sweepstrgc = 0 /\ inUse = {}

StrtNext ==
    \/ \E t \in Texts, nomemory \in BOOLEAN : luaS_newlstr(t, nomemory)
    \/ \E t \in Texts : Forget(t)
    \/ \E t \in Texts : reallymarkobject(t)
    \/ atomic
    \/ sweepstring
    \/ \E nomemory \in BOOLEAN : checkSizes(nomemory)
    \/ luaC_fullgc

StrtSpec == StrtInit /\ [][StrtNext]_strtVars

(***************************************************************************)
(* Properties.                                                             *)
(***************************************************************************)
\* Equal strings are one object: no text is in the table twice, each is in
\* the chain its hash names, whatever resizes and sweeps came in between, and
\* a string in use is never freed (luaS_newlstr, luaS_resize, sweeplist).
Interned ==
    /\ \A p, q \in Places(hash) : At(hash, p).text = At(hash, q).text => p = q
    /\ \A p \in Places(hash) : TextHash[At(hash, p).text] % size(hash) = p[1]
    /\ nuse = Cardinality(Places(hash))
    /\ inUse \subseteq {At(hash, p).text : p \in Places(hash)}

\* The sweep misses nothing: behind it no string is dead or still marked, and
\* outside of it no dead string waits for the colours to change their meaning
\* (luaS_resize's early return, sweepstrgc).
SweepComplete ==
    /\ \A p \in Places(hash) :
         strtState # "sweepstring" \/ p[1] < sweepstrgc => ~isdead(At(hash, p))
    /\ strtState = "sweepstring" =>
         \A p \in Places(hash) : p[1] < sweepstrgc => At(hash, p).mark # Black
=============================================================================
