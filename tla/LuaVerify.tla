----------------------------- MODULE LuaVerify -----------------------------
(***************************************************************************)
(* The bytecode verifier (symbexec of ldebug.c), which lua_assert runs on  *)
(* every function the compiler closes and lundump.c on every function it   *)
(* loads.  This is the full check, reg = NO_REG: no register is traced.    *)
(***************************************************************************)
EXTENDS LuaCode

checkreg(pt, r) == r < pt.maxstacksize

precheck(pt) ==
    /\ pt.maxstacksize <= MAXSTACK
    /\ pt.numparams + (IF pt.hasarg THEN 1 ELSE 0) <= pt.maxstacksize
    /\ pt.needsarg => pt.hasarg
    /\ Len(pt.upvalues) <= pt.nups
    /\ Len(pt.code) > 0 /\ pt.code[Len(pt.code)].op = "RETURN"

checkArgMode(pt, r, mode) ==
    CASE mode = "N" -> r = 0
      [] mode = "U" -> TRUE
      [] mode = "R" -> checkreg(pt, r)
      [] mode = "K" -> IF ISK(r) THEN INDEXK(r) < Len(pt.k) ELSE checkreg(pt, r)

\* The instruction after an open call or vararg must consume the values.
OpenOp(pt, pc) ==
    LET i == pt.code[pc + 2]
    IN  i.op \in {"CALL", "TAILCALL", "RETURN", "SETLIST"} /\ i.b = 0

LongSetList(i) == i.op = "SETLIST" /\ i.c = 0

\* A jump may not land on the count of an OP_SETLIST; counts may look like one.
checkdest(pt, dest) ==
    LET runs == {j \in 0 .. dest : \A d \in 1 .. j : LongSetList(pt.code[dest - d + 1])}
        j == CHOOSE j \in runs : \A n \in runs : n <= j
    IN  0 <= dest /\ dest < Len(pt.code) /\ j % 2 = 0

checkoperands(pt, pc) ==
    LET i == pt.code[pc + 1]
        m == luaP_opmodes[i.op]
    IN  /\ checkreg(pt, i.a)
        /\ m.m = "ABC" => checkArgMode(pt, i.b, m.b) /\ checkArgMode(pt, i.c, m.c)
        /\ m.m = "ABx" /\ m.b = "K" => i.b < Len(pt.k)
        /\ m.m = "AsBx" => checkdest(pt, pc + 1 + i.b)
        /\ m.t => pc + 2 < Len(pt.code) /\ pt.code[pc + 2].op = "JMP"

checkinstruction(pt, pc) ==
    LET i == pt.code[pc + 1]
    IN  CASE i.op = "LOADBOOL" ->
                i.c = 1 => pc + 2 < Len(pt.code) /\ ~LongSetList(pt.code[pc + 2])
          [] i.op \in {"GETUPVAL", "SETUPVAL"} -> i.b < pt.nups
          [] i.op \in {"GETGLOBAL", "SETGLOBAL"} -> pt.k[i.b + 1][1] = "str"
          [] i.op = "SELF" -> checkreg(pt, i.a + 1)
          [] i.op = "CONCAT" -> i.b < i.c
          [] i.op = "TFORLOOP" -> i.c >= 1 /\ checkreg(pt, i.a + 2 + i.c)
          [] i.op \in {"FORLOOP", "FORPREP"} -> checkreg(pt, i.a + 3)
          [] i.op \in {"CALL", "TAILCALL"} ->
                /\ i.b # 0 => checkreg(pt, i.a + i.b - 1)
                /\ i.c = 0 => OpenOp(pt, pc)
                /\ i.c > 1 => checkreg(pt, i.a + i.c - 2)
          [] i.op = "RETURN" -> i.b > 1 => checkreg(pt, i.a + i.b - 2)
          [] i.op = "SETLIST" ->
                /\ i.b > 0 => checkreg(pt, i.a + i.b)
                /\ i.c = 0 => pc + 1 < Len(pt.code) - 1
          [] i.op = "CLOSURE" ->
                /\ i.b < Len(pt.p)
                /\ pc + pt.p[i.b + 1].nups < Len(pt.code)
                /\ \A j \in 1 .. pt.p[i.b + 1].nups : pt.code[pc + 1 + j].op \in {"GETUPVAL", "MOVE"}
          [] i.op = "VARARG" ->
                /\ pt.is_vararg /\ ~pt.needsarg
                /\ i.b = 0 => OpenOp(pt, pc)
                /\ checkreg(pt, i.a + i.b - 2)
          [] OTHER -> TRUE

RECURSIVE symbexec(_, _)
symbexec(pt, pc) ==
    \/ pc >= Len(pt.code)
    \/ /\ checkoperands(pt, pc)
       /\ checkinstruction(pt, pc)
       /\ symbexec(pt, IF LongSetList(pt.code[pc + 1]) THEN pc + 2 ELSE pc + 1)

luaG_checkcode(pt) == precheck(pt) /\ symbexec(pt, 0)
============================================================================
