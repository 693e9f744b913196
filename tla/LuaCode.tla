------------------------------ MODULE LuaCode ------------------------------
(***************************************************************************)
(* The code generator (lcode.c): how the parser's expression descriptors   *)
(* become instructions, with the jump lists threaded through the operands  *)
(* of the jumps themselves and the stack discipline of the registers.      *)
(*                                                                         *)
(* The generator is sequential, so its functions are operators.  Most of   *)
(* them take and return a record x with at least the fields fs (the        *)
(* FuncState) and e (the expdesc being worked on).  A failed lua_assert    *)
(* clears fs.ok; a syntax error (a limit) sets fs.err.                     *)
(* Line information is left out.                                           *)
(***************************************************************************)
EXTENDS Integers, Sequences, FiniteSets

CONSTANTS
    MAXINDEXRK,         \* largest constant index an RK operand holds
    MAXARG_C,           \* largest batch number OP_SETLIST holds in C
    LFIELDS_PER_FLUSH,  \* list items stored by one OP_SETLIST
    MAXSTACK            \* registers of a function

ASSUME CodeLimits ==
    /\ {MAXINDEXRK, MAXARG_C, LFIELDS_PER_FLUSH, MAXSTACK} \subseteq Nat \ {0}
    /\ MAXARG_C <= 511

NO_JUMP == -1
NO_REG == 255
LUA_MULTRET == -1
BITRK == 256
ISK(r) == r >= BITRK
INDEXK(r) == r - BITRK

(***************************************************************************)
(* Instructions.  b also holds Bx and sBx.                                 *)
(***************************************************************************)
luaP_opnames == <<"MOVE", "LOADK", "LOADBOOL", "LOADNIL", "GETUPVAL", "GETGLOBAL",
    "GETTABLE", "SETGLOBAL", "SETUPVAL", "SETTABLE", "NEWTABLE", "SELF", "ADD", "SUB",
    "MUL", "DIV", "MOD", "POW", "UNM", "NOT", "LEN", "CONCAT", "JMP", "EQ", "LT", "LE",
    "TEST", "TESTSET", "CALL", "TAILCALL", "RETURN", "FORLOOP", "FORPREP", "TFORLOOP",
    "SETLIST", "CLOSE", "CLOSURE", "VARARG">>

\* T A B C mode of every opcode, in the order of luaP_opnames.
luaP_opmodes ==
    LET M(t, a, b, c, m) == [t |-> t = 1, a |-> a = 1, b |-> b, c |-> c, m |-> m]
        modes == <<
      M(0,1,"R","N","ABC"), M(0,1,"K","N","ABx"), M(0,1,"U","U","ABC"), M(0,1,"R","N","ABC"),
      M(0,1,"U","N","ABC"), M(0,1,"K","N","ABx"), M(0,1,"R","K","ABC"), M(0,0,"K","N","ABx"),
      M(0,0,"U","N","ABC"), M(0,0,"K","K","ABC"), M(0,1,"U","U","ABC"), M(0,1,"R","K","ABC"),
      M(0,1,"K","K","ABC"), M(0,1,"K","K","ABC"), M(0,1,"K","K","ABC"), M(0,1,"K","K","ABC"),
      M(0,1,"K","K","ABC"), M(0,1,"K","K","ABC"), M(0,1,"R","N","ABC"), M(0,1,"R","N","ABC"),
      M(0,1,"R","N","ABC"), M(0,1,"R","R","ABC"), M(0,0,"R","N","AsBx"), M(1,0,"K","K","ABC"),
      M(1,0,"K","K","ABC"), M(1,0,"K","K","ABC"), M(1,1,"R","U","ABC"), M(1,1,"R","U","ABC"),
      M(0,1,"U","U","ABC"), M(0,1,"U","U","ABC"), M(0,0,"U","N","ABC"), M(0,1,"R","N","AsBx"),
      M(0,1,"R","N","AsBx"), M(1,0,"N","U","ABC"), M(0,0,"U","U","ABC"), M(0,0,"N","N","ABC"),
      M(0,1,"U","N","ABx"), M(0,1,"U","N","ABC")>>
    IN  [op \in {luaP_opnames[n] : n \in DOMAIN luaP_opnames} |->
            modes[CHOOSE n \in DOMAIN luaP_opnames : luaP_opnames[n] = op]]

TModes == {op \in DOMAIN luaP_opmodes : luaP_opmodes[op].t}

Instr(op, a, b, c) == [op |-> op, a |-> a, b |-> b, c |-> c]

\* The batch number of an OP_SETLIST too large for C is a word of its own, and
\* reads as an instruction to whoever looks at it.  The scaled number c stands
\* for the real number c + 511 - MAXARG_C; batches up to MAXARG_C + 37 fit.
CountWord(c) ==
    LET w == c + 511 - MAXARG_C
    IN  Instr(luaP_opnames[(w % 64) + 1], (w \div 64) % 256, 0, 0)
CountOf(i) ==
    ((CHOOSE n \in DOMAIN luaP_opnames : luaP_opnames[n] = i.op) - 1) + 64 * i.a
        - (511 - MAXARG_C)

(***************************************************************************)
(* FuncState.  pc is Len(code); instruction pc is code[pc + 1].            *)
(***************************************************************************)
PC(fs) == Len(fs.code)
Ins(fs, pc) == fs.code[pc + 1]
SetIns(fs, pc, i) == [fs EXCEPT !.code[pc + 1] = i]
LuaAssert(fs, p) == IF p THEN fs ELSE [fs EXCEPT !.ok = FALSE]
SyntaxErrorIf(fs, p) == IF p THEN [fs EXCEPT !.err = TRUE] ELSE fs

Exp(k, info) == [k |-> k, info |-> info, aux |-> 0, t |-> NO_JUMP, f |-> NO_JUMP]
hasjumps(e) == e.t # e.f
isnumeral(e) == e.k = "VKNUM" /\ e.t = NO_JUMP /\ e.f = NO_JUMP
hasmultret(k) == k \in {"VCALL", "VVARARG"}

(***************************************************************************)
(* Jump lists.  A jump not yet patched holds the offset to the next one.   *)
(***************************************************************************)
getjump(fs, pc) ==
    IF Ins(fs, pc).b = NO_JUMP THEN NO_JUMP ELSE pc + 1 + Ins(fs, pc).b

RECURSIVE JumpsFrom(_, _)
JumpsFrom(fs, list) ==
    IF list = NO_JUMP THEN {} ELSE {list} \cup JumpsFrom(fs, getjump(fs, list))

getjumpcontrol(fs, pc) ==
    IF pc >= 1 /\ Ins(fs, pc - 1).op \in TModes THEN pc - 1 ELSE pc

fixjump(fs, pc, dest) ==
    LuaAssert([fs EXCEPT !.code[pc + 1].b = dest - (pc + 1)], dest # NO_JUMP)

YieldsValue(fs, pc) == Ins(fs, getjumpcontrol(fs, pc)).op = "TESTSET"

need_value(fs, list) == \E pc \in JumpsFrom(fs, list) : ~YieldsValue(fs, pc)

patchtestreg(i, reg) ==
    IF reg # NO_REG /\ reg # i.b THEN [i EXCEPT !.a = reg] ELSE Instr("TEST", i.b, 0, i.c)

\* The tests of these jumps, which are to hold no value (or one in reg).
PatchTests(fs, jumps, reg) ==
    LET tests == {getjumpcontrol(fs, pc) : pc \in {p \in jumps : YieldsValue(fs, p)}}
    IN  [fs EXCEPT !.code = [n \in 1 .. Len(@) |->
            IF n - 1 \in tests THEN patchtestreg(@[n], reg) ELSE @[n]]]

removevalues(fs, list) == PatchTests(fs, JumpsFrom(fs, list), NO_REG)

patchlistaux(fs, list, vtarget, reg, dtarget) ==
    LET jumps == JumpsFrom(fs, list)
        dest == [pc \in jumps |-> IF YieldsValue(fs, pc) THEN vtarget ELSE dtarget]
        fs1 == PatchTests(fs, jumps, reg)
    IN  LuaAssert([fs1 EXCEPT !.code = [n \in 1 .. Len(@) |->
                      IF n - 1 \in jumps THEN [@[n] EXCEPT !.b = dest[n - 1] - n] ELSE @[n]]],
                  \A pc \in jumps : dest[pc] # NO_JUMP)

dischargejpc(fs) == [patchlistaux(fs, fs.jpc, PC(fs), NO_REG, PC(fs)) EXCEPT !.jpc = NO_JUMP]

RECURSIVE LastJump(_, _)
LastJump(fs, list) ==
    IF getjump(fs, list) = NO_JUMP THEN list ELSE LastJump(fs, getjump(fs, list))

\* luaK_concat(fs, &l1, l2): the new fs, and the new l1.
luaK_concat(fs, l1, l2) ==
    IF l1 = NO_JUMP \/ l2 = NO_JUMP THEN fs ELSE fixjump(fs, LastJump(fs, l1), l2)
Joined(l1, l2) == IF l1 = NO_JUMP THEN l2 ELSE l1

luaK_getlabel(fs) == [fs EXCEPT !.lasttarget = PC(fs)]

luaK_patchtohere(fs, list) ==
    LET fs1 == luaK_getlabel(fs)
    IN  [luaK_concat(fs1, fs1.jpc, list) EXCEPT !.jpc = Joined(fs1.jpc, list)]

luaK_patchlist(fs, list, target) ==
    IF target = PC(fs) THEN luaK_patchtohere(fs, list)
    ELSE patchlistaux(LuaAssert(fs, target < PC(fs)), list, target, NO_REG, target)

(***************************************************************************)
(* Emission of instructions.                                               *)
(***************************************************************************)
luaK_code(fs, i) == [dischargejpc(fs) EXCEPT !.code = Append(@, i)]

luaK_codeABC(fs, op, a, b, c) ==
    luaK_code(LuaAssert(fs, /\ luaP_opmodes[op].m = "ABC"
                            /\ luaP_opmodes[op].b # "N" \/ b = 0
                            /\ luaP_opmodes[op].c # "N" \/ c = 0), Instr(op, a, b, c))

luaK_codeABx(fs, op, a, bx) ==
    luaK_code(LuaAssert(fs, luaP_opmodes[op].m \in {"ABx", "AsBx"} /\ luaP_opmodes[op].c = "N"),
              Instr(op, a, bx, 0))

\* The jump stands at PC(fs), in front of the jumps that were to come here.
luaK_jump(fs) ==
    LET fs1 == luaK_codeABx([fs EXCEPT !.jpc = NO_JUMP], "JMP", 0, NO_JUMP)
    IN  luaK_concat(fs1, PC(fs), fs.jpc)

\* The jump stands at PC(fs) + 1.
condjump(fs, op, a, b, c) == luaK_jump(luaK_codeABC(fs, op, a, b, c))

luaK_ret(fs, first, nret) == luaK_codeABC(fs, "RETURN", first, nret + 1, 0)

luaK_nil(fs, from, n) ==
    LET prev == Ins(fs, PC(fs) - 1)
        clean == PC(fs) = 0 /\ from >= fs.nactvar
        joins == PC(fs) > 0 /\ prev.op = "LOADNIL" /\ prev.a <= from /\ from <= prev.b + 1
    IN  CASE PC(fs) > fs.lasttarget /\ clean -> fs
          [] PC(fs) > fs.lasttarget /\ joins ->
                IF from + n - 1 > prev.b
                THEN [fs EXCEPT !.code[PC(fs)].b = from + n - 1] ELSE fs
          [] OTHER -> luaK_codeABC(fs, "LOADNIL", from, from + n - 1, 0)

(***************************************************************************)
(* Registers and constants.                                                *)
(***************************************************************************)
\* Mutant: the limit is noticed one register late.
luaK_checkstack_late(fs, n) ==
    LET newstack == fs.freereg + n
    IN  IF newstack > fs.maxstacksize + 1
        THEN [SyntaxErrorIf(fs, newstack >= MAXSTACK) EXCEPT !.maxstacksize = newstack]
        ELSE fs

luaK_checkstack(fs, n) ==
    LET newstack == fs.freereg + n
    IN  IF newstack > fs.maxstacksize
        THEN [SyntaxErrorIf(fs, newstack >= MAXSTACK) EXCEPT !.maxstacksize = newstack]
        ELSE fs

luaK_reserveregs(fs, n) == [luaK_checkstack(fs, n) EXCEPT !.freereg = @ + n]

freereg(fs, reg) ==
    IF ~ISK(reg) /\ reg >= fs.nactvar
    THEN LuaAssert([fs EXCEPT !.freereg = @ - 1], reg = fs.freereg - 1) ELSE fs

\* Mutant: the register of an expression stays reserved.
freeexp_none(fs, e) == fs

freeexp(fs, e) == IF e.k = "VNONRELOC" THEN freereg(fs, e.info) ELSE fs

addk(fs, v) == IF \E n \in DOMAIN fs.k : fs.k[n] = v THEN fs ELSE [fs EXCEPT !.k = Append(@, v)]
KIndex(fs, v) == (CHOOSE n \in DOMAIN fs.k : fs.k[n] = v) - 1

(***************************************************************************)
(* Expressions to registers.                                               *)
(***************************************************************************)
getcode(x) == Ins(x.fs, x.e.info)
OnFS(x, fs) == [x EXCEPT !.fs = fs]

\* Emits an instruction whose target register is still open.
Relocatable(x, fs) == [x EXCEPT !.fs = fs, !.e.k = "VRELOCABLE", !.e.info = PC(fs) - 1]
InRegister(x, reg) == [x EXCEPT !.e.k = "VNONRELOC", !.e.info = reg]

luaK_setreturns(x, nresults) ==
    CASE x.e.k = "VCALL" -> [x EXCEPT !.fs.code[x.e.info + 1].c = nresults + 1]
      [] x.e.k = "VVARARG" ->
            OnFS(x, luaK_reserveregs(
                SetIns(x.fs, x.e.info, [getcode(x) EXCEPT !.b = nresults + 1, !.a = x.fs.freereg]), 1))
      [] OTHER -> x

luaK_setmultret(x) == luaK_setreturns(x, LUA_MULTRET)

luaK_setoneret(x) ==
    CASE x.e.k = "VCALL" -> InRegister(x, getcode(x).a)
      [] x.e.k = "VVARARG" ->
            [x EXCEPT !.fs.code[x.e.info + 1].b = 2, !.e.k = "VRELOCABLE"]
      [] OTHER -> x

luaK_dischargevars(x) ==
    LET i == x.e.info
    IN  CASE x.e.k = "VLOCAL" -> InRegister(x, i)
          [] x.e.k = "VUPVAL" -> Relocatable(x, luaK_codeABC(x.fs, "GETUPVAL", 0, i, 0))
          [] x.e.k = "VGLOBAL" -> Relocatable(x, luaK_codeABx(x.fs, "GETGLOBAL", 0, i))
          [] x.e.k = "VINDEXED" ->
                Relocatable(x, luaK_codeABC(freereg(freereg(x.fs, x.e.aux), i),
                                            "GETTABLE", 0, i, x.e.aux))
          [] OTHER -> luaK_setoneret(x)

code_label(fs, a, b, jump) == luaK_codeABC(luaK_getlabel(fs), "LOADBOOL", a, b, jump)

\* A numeral keeps its value in info.
luaK_numberK(x) == addk(x.fs, <<"num", x.e.info>>)

discharge2reg(x0, reg) ==
    LET x == luaK_dischargevars(x0)
        kfs == luaK_numberK(x)
        Loaded(fs) == InRegister(OnFS(x, fs), reg)
    IN  CASE x.e.k = "VNIL" -> Loaded(luaK_nil(x.fs, reg, 1))
          [] x.e.k = "VFALSE" -> Loaded(luaK_codeABC(x.fs, "LOADBOOL", reg, 0, 0))
          [] x.e.k = "VTRUE" -> Loaded(luaK_codeABC(x.fs, "LOADBOOL", reg, 1, 0))
          [] x.e.k = "VK" -> Loaded(luaK_codeABx(x.fs, "LOADK", reg, x.e.info))
          [] x.e.k = "VKNUM" ->
                Loaded(luaK_codeABx(kfs, "LOADK", reg, KIndex(kfs, <<"num", x.e.info>>)))
          [] x.e.k = "VRELOCABLE" -> Loaded([x.fs EXCEPT !.code[x.e.info + 1].a = reg])
          [] x.e.k = "VNONRELOC" ->
                Loaded(IF reg # x.e.info
                       THEN luaK_codeABC(x.fs, "MOVE", reg, x.e.info, 0) ELSE x.fs)
          [] OTHER -> OnFS(x, LuaAssert(x.fs, x.e.k \in {"VVOID", "VJMP"}))

discharge2anyreg(x) ==
    IF x.e.k = "VNONRELOC" THEN x
    ELSE discharge2reg(OnFS(x, luaK_reserveregs(x.fs, 1)), x.fs.freereg)

exp2reg(x0, reg) ==
    LET x1 == discharge2reg(x0, reg)
        isjmp == x1.e.k = "VJMP"
        t == IF isjmp THEN Joined(x1.e.t, x1.e.info) ELSE x1.e.t
        f == x1.e.f
        fs1 == IF isjmp THEN luaK_concat(x1.fs, x1.e.t, x1.e.info) ELSE x1.fs
        needed == need_value(fs1, t) \/ need_value(fs1, f)
        fs2 == IF isjmp THEN fs1 ELSE luaK_jump(fs1)   \* skip the two LOADBOOLs
        p_f == PC(fs2)
        fs3 == code_label(code_label(fs2, reg, 0, 1), reg, 1, 0)
        fs4 == IF needed
               THEN luaK_patchtohere(fs3, IF isjmp THEN NO_JUMP ELSE PC(fs1)) ELSE fs1
        final == PC(fs4)
        Patched(fs, list, p) == patchlistaux(fs, list, final, reg, IF needed THEN p ELSE NO_JUMP)
        fs5 == IF t # f
               THEN Patched(Patched(luaK_getlabel(fs4), f, p_f), t, p_f + 1) ELSE fs1
    IN  [x1 EXCEPT !.fs = fs5, !.e = Exp("VNONRELOC", reg)]

luaK_exp2nextreg(x) ==
    LET x1 == luaK_dischargevars(x)
        fs1 == freeexp(x1.fs, x1.e)
    IN  exp2reg(OnFS(x1, luaK_reserveregs(fs1, 1)), fs1.freereg)

luaK_exp2anyreg(x) ==
    LET x1 == luaK_dischargevars(x)
    IN  CASE x1.e.k = "VNONRELOC" /\ ~hasjumps(x1.e) -> x1
          [] x1.e.k = "VNONRELOC" /\ hasjumps(x1.e) /\ x1.e.info >= x1.fs.nactvar ->
                exp2reg(x1, x1.e.info)
          [] OTHER -> luaK_exp2nextreg(x1)

luaK_exp2val(x) == IF hasjumps(x.e) THEN luaK_exp2anyreg(x) ELSE luaK_dischargevars(x)

\* The operand is RK of the resulting descriptor.
RK(e) == IF e.k = "VK" THEN BITRK + e.info ELSE e.info

luaK_exp2RK(x0) ==
    LET x == luaK_exp2val(x0)
        v == CASE x.e.k = "VNIL" -> <<"nil">>
               [] x.e.k = "VKNUM" -> <<"num", x.e.info>>
               [] OTHER -> <<"bool", x.e.k = "VTRUE">>
        kfs == addk(x.fs, v)
    IN  CASE x.e.k \in {"VKNUM", "VTRUE", "VFALSE", "VNIL"} /\ Len(x.fs.k) <= MAXINDEXRK ->
                [x EXCEPT !.fs = kfs, !.e.k = "VK", !.e.info = KIndex(kfs, v)]
          [] x.e.k = "VK" /\ x.e.info <= MAXINDEXRK -> x
          [] OTHER -> luaK_exp2anyreg(x)

\* Stores x.e in var.
luaK_storevar(x, var) ==
    LET any == luaK_exp2anyreg(x)
        rk == luaK_exp2RK(x)
        Freed(y, fs) == OnFS(y, freeexp(fs, y.e))
    IN  CASE var.k = "VLOCAL" -> exp2reg(OnFS(x, freeexp(x.fs, x.e)), var.info)
          [] var.k = "VUPVAL" -> Freed(any, luaK_codeABC(any.fs, "SETUPVAL", any.e.info, var.info, 0))
          [] var.k = "VGLOBAL" -> Freed(any, luaK_codeABx(any.fs, "SETGLOBAL", any.e.info, var.info))
          [] var.k = "VINDEXED" ->
                Freed(rk, luaK_codeABC(rk.fs, "SETTABLE", var.info, var.aux, RK(rk.e)))
          [] OTHER -> OnFS(x, LuaAssert(x.fs, FALSE))

luaK_self(x, key) ==
    LET x1 == luaK_exp2anyreg(x)
        fs1 == freeexp(x1.fs, x1.e)
        func == fs1.freereg
        kx == luaK_exp2RK([fs |-> luaK_reserveregs(fs1, 2), e |-> key])
    IN  InRegister(OnFS(x1, freeexp(luaK_codeABC(kx.fs, "SELF", func, x1.e.info, RK(kx.e)), kx.e)),
                   func)

\* x.e is the table, key its key.
luaK_indexed(x, key) ==
    LET kx == luaK_exp2RK([fs |-> x.fs, e |-> key])
    IN  [x EXCEPT !.fs = kx.fs, !.e.aux = RK(kx.e), !.e.k = "VINDEXED"]

(***************************************************************************)
(* Conditions.                                                             *)
(***************************************************************************)
invertjump(x) ==
    LET pc == getjumpcontrol(x.fs, x.e.info)
        i == Ins(x.fs, pc)
    IN  LuaAssert(SetIns(x.fs, pc, [i EXCEPT !.a = 1 - @]), i.op \in TModes \ {"TEST", "TESTSET"})

\* The jump is the last instruction of the resulting fs.
jumponcond(x, cond) ==
    LET ie == getcode(x)
        x1 == discharge2anyreg(x)
    IN  IF x.e.k = "VRELOCABLE" /\ ie.op = "NOT"
        THEN OnFS(x, condjump([x.fs EXCEPT !.code = SubSeq(@, 1, Len(@) - 1)],
                              "TEST", ie.b, 0, 1 - cond))
        ELSE OnFS(x1, condjump(freeexp(x1.fs, x1.e), "TESTSET", NO_REG, x1.e.info, cond))

luaK_goiftrue(x0) ==
    LET x == luaK_dischargevars(x0)
        y == CASE x.e.k \in {"VK", "VKNUM", "VTRUE"} -> x
               [] x.e.k = "VFALSE" -> OnFS(x, luaK_jump(x.fs))
               [] x.e.k = "VJMP" -> OnFS(x, invertjump(x))
               [] OTHER -> jumponcond(x, 0)
        pc == CASE x.e.k \in {"VK", "VKNUM", "VTRUE"} -> NO_JUMP
                [] x.e.k = "VJMP" -> x.e.info
                [] OTHER -> PC(y.fs) - 1
    IN  [y EXCEPT !.fs = luaK_patchtohere(luaK_concat(y.fs, y.e.f, pc), y.e.t),
                  !.e.f = Joined(@, pc), !.e.t = NO_JUMP]

luaK_goiffalse(x0) ==
    LET x == luaK_dischargevars(x0)
        y == CASE x.e.k \in {"VNIL", "VFALSE", "VJMP"} -> x
               [] x.e.k = "VTRUE" -> OnFS(x, luaK_jump(x.fs))
               [] OTHER -> jumponcond(x, 1)
        pc == CASE x.e.k \in {"VNIL", "VFALSE"} -> NO_JUMP
                [] x.e.k = "VJMP" -> x.e.info
                [] OTHER -> PC(y.fs) - 1
    IN  [y EXCEPT !.fs = luaK_patchtohere(luaK_concat(y.fs, y.e.t, pc), y.e.f),
                  !.e.t = Joined(@, pc), !.e.f = NO_JUMP]

codenot(x0) ==
    LET x == luaK_dischargevars(x0)
        any == discharge2anyreg(x)
        y == CASE x.e.k \in {"VNIL", "VFALSE"} -> [x EXCEPT !.e.k = "VTRUE"]
               [] x.e.k \in {"VK", "VKNUM", "VTRUE"} -> [x EXCEPT !.e.k = "VFALSE"]
               [] x.e.k = "VJMP" -> OnFS(x, invertjump(x))
               [] OTHER -> Relocatable(any, luaK_codeABC(freeexp(any.fs, any.e),
                                                         "NOT", 0, any.e.info, 0))
    IN  [y EXCEPT !.fs = removevalues(removevalues(@, y.e.t), y.e.f),
                  !.e.t = y.e.f, !.e.f = y.e.t]

(***************************************************************************)
(* Operators.  Numbers are small integers, quotients are exact; NAN stands *)
(* for every result that is no number.                                     *)
(***************************************************************************)
NAN == 9999
Arith(op, a, b) ==
    CASE a = NAN \/ b = NAN -> NAN
      [] op = "ADD" -> a + b
      [] op = "SUB" -> a - b
      [] op = "MUL" -> a * b
      [] op = "DIV" -> IF b > 0 THEN a \div b ELSE NAN
      [] op = "MOD" -> IF b > 0 THEN a % b ELSE NAN
      [] op = "POW" -> IF b > 0 THEN a ^ b ELSE IF b = 0 THEN 1 ELSE NAN
      [] op = "UNM" -> -a

\* e1 op e2 is folded into a constant.
constfolding(op, e1, e2) ==
    /\ isnumeral(e1) /\ isnumeral(e2)
    /\ op \in {"DIV", "MOD"} => e2.info # 0
    /\ op \notin {"LEN", "CONCAT"}
    /\ Arith(op, e1.info, e2.info) # NAN

\* x.e is the second operand, e1 the first; the result is x.e.
codearith(x, op, e1) ==
    LET unary == op \in {"UNM", "LEN"}
        x2 == IF unary THEN x ELSE luaK_exp2RK(x)
        x1 == luaK_exp2RK([x2 EXCEPT !.e = e1])
        o1 == RK(x1.e)
        o2 == IF unary THEN 0 ELSE RK(x2.e)
        fs == IF o1 > o2 THEN freeexp(freeexp(x1.fs, x1.e), x2.e)
                         ELSE freeexp(freeexp(x1.fs, x2.e), x1.e)
    IN  IF constfolding(op, e1, x.e)
        THEN [x EXCEPT !.e = [e1 EXCEPT !.info = Arith(op, e1.info, x.e.info)]]
        ELSE Relocatable(x1, luaK_codeABC(fs, op, 0, o1, o2))

codecomp(x, op, cond, e1) ==
    LET x1 == luaK_exp2RK([x EXCEPT !.e = e1])
        x2 == luaK_exp2RK([x1 EXCEPT !.e = x.e])
        swap == cond = 0 /\ op # "EQ"
        o1 == IF swap THEN RK(x2.e) ELSE RK(x1.e)
        o2 == IF swap THEN RK(x1.e) ELSE RK(x2.e)
        fs == condjump(freeexp(freeexp(x2.fs, x2.e), x1.e), op, IF swap THEN 1 ELSE cond, o1, o2)
    IN  [x2 EXCEPT !.fs = fs, !.e = [x1.e EXCEPT !.k = "VJMP", !.info = PC(fs) - 1]]

luaK_prefix(x, op) ==
    LET zero == Exp("VKNUM", 0)
        Code(y, o) == codearith([y EXCEPT !.e = zero], o, y.e)
    IN  CASE op = "not" -> codenot(x)
          [] op = "-" -> Code(IF isnumeral(x.e) THEN x ELSE luaK_exp2anyreg(x), "UNM")
          [] op = "#" -> Code(luaK_exp2anyreg(x), "LEN")

ArithOp == [op \in {"+", "-", "*", "/", "%", "^"} |->
    CASE op = "+" -> "ADD" [] op = "-" -> "SUB" [] op = "*" -> "MUL"
      [] op = "/" -> "DIV" [] op = "%" -> "MOD" [] op = "^" -> "POW"]

luaK_infix(x, op) ==
    CASE op = "and" -> luaK_goiftrue(x)
      [] op = "or" -> luaK_goiffalse(x)
      [] op = ".." -> luaK_exp2nextreg(x)
      [] op \in DOMAIN ArithOp -> IF isnumeral(x.e) THEN x ELSE luaK_exp2RK(x)
      [] OTHER -> luaK_exp2RK(x)

\* x.e is the second operand, e1 the first as luaK_infix left it.
luaK_posfix(x, op, e1) ==
    LET d == luaK_dischargevars(x)
        v == luaK_exp2val(x)
        i == getcode(v)
    IN  CASE op = "and" ->
                [d EXCEPT !.fs = luaK_concat(LuaAssert(@, e1.t = NO_JUMP), d.e.f, e1.f),
                          !.e.f = Joined(@, e1.f)]
          [] op = "or" ->
                [d EXCEPT !.fs = luaK_concat(LuaAssert(@, e1.f = NO_JUMP), d.e.t, e1.t),
                          !.e.t = Joined(@, e1.t)]
          [] op = ".." /\ v.e.k = "VRELOCABLE" /\ i.op = "CONCAT" ->
                [v EXCEPT !.fs = SetIns(freeexp(LuaAssert(v.fs, e1.info = i.b - 1), e1),
                                        v.e.info, [i EXCEPT !.b = e1.info]),
                          !.e = [e1 EXCEPT !.k = "VRELOCABLE", !.info = v.e.info]]
          [] op = ".." -> codearith(luaK_exp2nextreg(v), "CONCAT", e1)
          [] op \in DOMAIN ArithOp -> codearith(x, ArithOp[op], e1)
          [] op = "==" -> codecomp(x, "EQ", 1, e1)
          [] op = "~=" -> codecomp(x, "EQ", 0, e1)
          [] op = "<" -> codecomp(x, "LT", 1, e1)
          [] op = "<=" -> codecomp(x, "LE", 1, e1)
          [] op = ">" -> codecomp(x, "LT", 0, e1)
          [] op = ">=" -> codecomp(x, "LE", 0, e1)

luaK_setlist(fs, base, nelems, tostore) ==
    LET c == ((nelems - 1) \div LFIELDS_PER_FLUSH) + 1
        b == IF tostore = LUA_MULTRET THEN 0 ELSE tostore
        fs1 == LuaAssert(fs, tostore # 0)
    IN  [IF c <= MAXARG_C THEN luaK_codeABC(fs1, "SETLIST", base, b, c)
         ELSE luaK_code(luaK_codeABC(fs1, "SETLIST", base, b, 0), CountWord(c))
         EXCEPT !.freereg = base + 1]
============================================================================
