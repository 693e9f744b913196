------------------------------ MODULE LuaDump ------------------------------
(***************************************************************************)
(* Precompiled chunks: the writer (ldump.c) and the loader (lundump.c).    *)
(*                                                                         *)
(* A chunk is a sequence of blocks, one for each call of the lua_Writer.   *)
(* The writer fails once it has taken room blocks.  The loader is a record *)
(* S: the chunk, the place at, the value v just read, and err once         *)
(* error() was called.  Line information is left out.                      *)
(***************************************************************************)
EXTENDS LuaExpr, LuaVerify

NULL == <<>>      \* no string; a string of a chunk is never empty, it ends in '\0'
Header == "header"

(***************************************************************************)
(* ldump.c                                                                 *)
(***************************************************************************)
DumpString(s) == IF s = NULL THEN <<0>> ELSE <<Len(s) + 1, s>>

DumpConstant(o) ==
    CASE o[1] = "nil" -> <<"nil">>
      [] o[1] \in {"bool", "num"} -> o
      [] o[1] = "str" -> <<"str">> \o DumpString(o[2])

\* All of the sequences, after their number.
DumpAll(seqs) ==
    LET Joint[n \in 0 .. Len(seqs)] == IF n = 0 THEN <<Len(seqs)>> ELSE Joint[n - 1] \o seqs[n]
    IN  Joint[Len(seqs)]

\* Mutant: a stripped function says nothing of its upvalue names.
DumpDebug_short(f, strip) ==
    IF strip THEN <<0>>
    ELSE DumpAll([n \in 1 .. Len(f.locvars) |->
                    DumpString(<<f.locvars[n].name>>)
                        \o <<f.locvars[n].startpc, f.locvars[n].endpc>>])
         \o DumpAll([n \in 1 .. Len(f.upvalues) |-> DumpString(<<f.upvalues[n]>>)])

DumpDebug(f, strip) ==
    IF strip THEN <<0, 0>>
    ELSE DumpAll([n \in 1 .. Len(f.locvars) |->
                    DumpString(<<f.locvars[n].name>>)
                        \o <<f.locvars[n].startpc, f.locvars[n].endpc>>])
         \o DumpAll([n \in 1 .. Len(f.upvalues) |-> DumpString(<<f.upvalues[n]>>)])

\* A function from its parent's source needs no source of its own.
RECURSIVE DumpFunction(_, _, _)
DumpFunction(f, p, strip) ==
    DumpString(IF f.source = p \/ strip THEN NULL ELSE f.source)
        \o <<f.nups, f.numparams, <<f.is_vararg, f.hasarg, f.needsarg>>, f.maxstacksize>>
        \o <<Len(f.code), f.code>>
        \o DumpAll([n \in 1 .. Len(f.k) |-> DumpConstant(f.k[n])])
        \o DumpAll([n \in 1 .. Len(f.p) |-> DumpFunction(f.p[n], f.source, strip)])
        \o DumpDebug(f, strip)

luaU_dump(f, strip, room) ==
    LET blocks == <<Header>> \o DumpFunction(f, NULL, strip)
        status == IF Len(blocks) > room THEN 1 ELSE 0
    IN  [out |-> IF status = 1 THEN SubSeq(blocks, 1, room) ELSE blocks, status |-> status]

(***************************************************************************)
(* lundump.c                                                               *)
(***************************************************************************)
LoadError(S) == [S EXCEPT !.err = TRUE]

LoadBlock(S) ==
    IF S.err \/ S.at > Len(S.chunk) THEN LoadError(S)
    ELSE [S EXCEPT !.v = S.chunk[S.at], !.at = @ + 1]

LoadInt(S) == LET r == LoadBlock(S) IN IF r.err \/ r.v < 0 THEN LoadError(r) ELSE r

LoadString(S) ==
    LET r == LoadBlock(S)
    IN  IF r.err THEN r ELSE IF r.v = 0 THEN [r EXCEPT !.v = NULL] ELSE LoadBlock(r)

LoadConstant(S) ==
    LET t == LoadBlock(S)
        r == IF t.v = "str" THEN LoadString(t) ELSE LoadBlock(t)
    IN  IF t.err THEN t
        ELSE CASE t.v = "nil" -> [t EXCEPT !.v = <<"nil">>]
               [] t.v \in {"bool", "num", "str"} -> IF r.err THEN r ELSE [r EXCEPT !.v = <<t.v, r.v>>]
               [] OTHER -> LoadError(t)

LoadLocVar(S) ==
    LET name == LoadString(S)
        startpc == LoadInt(name)
        endpc == LoadInt(startpc)
    IN  IF endpc.err THEN endpc
        ELSE [endpc EXCEPT !.v = [name |-> name.v[1], startpc |-> startpc.v, endpc |-> endpc.v]]

LoadUpvalueName(S) == LET r == LoadString(S) IN IF r.err THEN r ELSE [r EXCEPT !.v = r.v[1]]

RECURSIVE LoadFunction(_, _, _), LoadRest(_, _, _, _, _)

\* The n elements of a vector still to come, after those in done.
LoadRest(S, kind, n, done, parent) ==
    LET r == CASE kind = "k" -> LoadConstant(S)
               [] kind = "p" -> LoadFunction(S, parent.source, parent.depth)
               [] kind = "locvars" -> LoadLocVar(S)
               [] kind = "upvalues" -> LoadUpvalueName(S)
    IN  IF S.err \/ n = 0 THEN [S EXCEPT !.v = done]
        ELSE LoadRest(r, kind, n - 1, Append(done, r.v), parent)

LoadVector(S, kind, parent) ==
    LET n == LoadInt(S) IN IF n.err THEN n ELSE LoadRest(n, kind, n.v, <<>>, parent)

LoadFunction(S, p, depth0) ==
    LET depth == depth0 + 1
        src == LoadString(S)
        source == IF src.v = NULL THEN p ELSE src.v
        parent == [source |-> source, depth |-> depth]
        nups == LoadBlock(src)
        numparams == LoadBlock(nups)
        vararg == LoadBlock(numparams)
        maxstack == LoadBlock(vararg)
        code == LoadBlock(LoadInt(maxstack))
        k == LoadVector(code, "k", parent)
        protos == LoadVector(k, "p", parent)
        locvars == LoadVector(protos, "locvars", parent)
        upvalues == LoadVector(locvars, "upvalues", parent)
        f == [source |-> source, nups |-> nups.v, numparams |-> numparams.v,
              is_vararg |-> vararg.v[1], hasarg |-> vararg.v[2], needsarg |-> vararg.v[3],
              maxstacksize |-> maxstack.v, code |-> code.v, k |-> k.v, p |-> protos.v,
              locvars |-> locvars.v, upvalues |-> upvalues.v, ok |-> TRUE]
    IN  IF depth > LUAI_MAXCCALLS THEN LoadError(S)
        ELSE IF upvalues.err THEN upvalues
        ELSE IF ~luaG_checkcode(f) THEN LoadError(upvalues)
        ELSE [upvalues EXCEPT !.v = f]

luaU_undump(chunk) ==
    LET S == LoadBlock([chunk |-> chunk, at |-> 1, v |-> 0, err |-> FALSE])
    IN  IF S.err THEN S
        ELSE IF S.v # Header THEN LoadError(S) ELSE LoadFunction(S, <<"=?">>, 0)

(***************************************************************************)
(* What stripping leaves of a function.                                    *)
(***************************************************************************)
RECURSIVE Stripped(_)
Stripped(f) == [f EXCEPT !.source = <<"=?">>, !.locvars = <<>>, !.upvalues = <<>>,
                         !.p = [n \in 1 .. Len(f.p) |-> Stripped(f.p[n])]]
============================================================================
