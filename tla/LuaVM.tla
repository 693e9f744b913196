------------------------------- MODULE LuaVM -------------------------------
(***************************************************************************)
(* The virtual machine (lvm.c): luaV_execute over the Protos the compiler  *)
(* builds, with the calls of ldo.c and the upvalues of lfunc.c, and the    *)
(* metamethods of ltm.c.                                                   *)
(*                                                                         *)
(* Values are tagged tuples: <<"nil">>, <<"bool", b>>, <<"num", n>>,       *)
(* <<"str", s>> (s a sequence of pieces of text), <<"tab", id>>,           *)
(* <<"fun", id>> and <<"C", name>> for the functions of the host.          *)
(* The machine is a record:                                                *)
(*   st      the stack; st[i] for i in 0 .. StackSize - 1                  *)
(*   top     L->top                                                        *)
(*   fr      the CallInfos of running functions, with their closure and pc *)
(*   uvs     the upvalues, open (their stack slot) or closed (their value) *)
(*   cls     the Lua closures: a Proto and its upvalues                    *)
(*   tabs    the tables, as functions of the keys that hold a value        *)
(*   meta    the metatable of each table, or nil                           *)
(*   glob    the global variables                                          *)
(*   trace   what the program passed to the host                           *)
(*   status  "run", "error" or "fuel" (more than the allowed instructions) *)
(*   ok      FALSE once a lua_assert failed                                *)
(* Strings are not compared with < and are no numerals.  Garbage           *)
(* collection, hooks, yields and line information are in other modules.    *)
(***************************************************************************)
EXTENDS LuaCode, TLC

CONSTANTS
    StackSize,      \* slots of the stack
    Instructions,   \* how many instructions a program may execute
    MAXTAGLOOP      \* steps of an __index chain

ASSUME MachineLimits == {StackSize, Instructions, MAXTAGLOOP} \subseteq Nat \ {0}

Nil == <<"nil">>
Bool(b) == <<"bool", b>>
Num(n) == <<"num", n>>
IsFunction(v) == v[1] \in {"fun", "C"}
l_isfalse(v) == v = Nil \/ v = Bool(FALSE)
Fail(vm) == [vm EXCEPT !.status = "error"]
Running(vm) == vm.status = "run"

(***************************************************************************)
(* Tables, metatables and the host's functions, shared with LuaRef.        *)
(***************************************************************************)
TabGet(t, k) == IF k \in DOMAIN t THEN t[k] ELSE Nil
TabSet(t, k, v) ==
    IF v = Nil THEN [j \in DOMAIN t \ {k} |-> t[j]]
    ELSE [j \in DOMAIN t \cup {k} |-> IF j = k THEN v ELSE t[j]]
luaH_getn(t) == CHOOSE n \in 0 .. Cardinality(DOMAIN t) :
    /\ \A i \in 1 .. n : Num(i) \in DOMAIN t
    /\ Num(n + 1) \notin DOMAIN t

Str(s) == <<"str", <<s>>>>
luaT_gettmbyobj(vm, v, event) ==
    IF v[1] = "tab" /\ vm.meta[v[2]] # Nil THEN TabGet(vm.tabs[vm.meta[v[2]][2]], Str(event))
    ELSE Nil

luaH_new(vm) == [vm EXCEPT !.tabs = Append(@, <<>>), !.meta = Append(@, Nil)]
LastTable(vm) == <<"tab", Len(vm.tabs)>>

\* What the host's functions do: [vm, results].
\*   echo   is seen by the host and returns its arguments
\*   setmt  sets the metatable of its first argument and returns it
\*   iter   counts to 2, for the generic for
HostCall(vm, name, args) ==
    LET arg(n) == IF n <= Len(args) THEN args[n] ELSE Nil
    IN  CASE name = "echo" -> [vm |-> [vm EXCEPT !.trace = Append(@, args)], results |-> args]
          [] name = "setmt" ->
                [vm |-> [vm EXCEPT !.meta[arg(1)[2]] = arg(2)], results |-> <<arg(1)>>]
          [] name = "iter" ->
                [vm |-> vm, results |-> CASE arg(2) = Nil -> <<Num(1), Num(10)>>
                                          [] arg(2) = Num(1) -> <<Num(2)>>
                                          [] OTHER -> <<Nil>>]

(***************************************************************************)
(* Frames, upvalues and calls.                                             *)
(***************************************************************************)
CI(vm) == vm.fr[Len(vm.fr)]
Closure(vm) == vm.cls[CI(vm).cl]
P(vm) == Closure(vm).p
Reg(vm, n) == vm.st[CI(vm).base + n]
SetReg(vm, n, v) == [vm EXCEPT !.st[CI(vm).base + n] = v]
RKOf(vm, n) == IF ISK(n) THEN P(vm).k[INDEXK(n) + 1] ELSE Reg(vm, n)
Jump(vm, offset) == [vm EXCEPT !.fr[Len(vm.fr)].pc = @ + offset]
Asserted(vm, p) == IF p THEN vm ELSE [vm EXCEPT !.ok = FALSE]
Fits(vm, top) == IF top <= StackSize THEN vm ELSE Fail(vm)

UpGet(vm, u) == IF vm.uvs[u].open THEN vm.st[vm.uvs[u].at] ELSE vm.uvs[u].v
UpSet(vm, u, v) ==
    IF vm.uvs[u].open THEN [vm EXCEPT !.st[vm.uvs[u].at] = v] ELSE [vm EXCEPT !.uvs[u].v = v]

luaF_findupval(vm, level) ==
    LET old == {u \in DOMAIN vm.uvs : vm.uvs[u].open /\ vm.uvs[u].at = level}
    IN  IF old # {} THEN [vm |-> vm, u |-> CHOOSE u \in old : TRUE]
        ELSE [vm |-> [vm EXCEPT !.uvs = Append(@, [open |-> TRUE, at |-> level, v |-> Nil])],
              u |-> Len(vm.uvs) + 1]

luaF_close(vm, level) ==
    [vm EXCEPT !.uvs = [u \in 1 .. Len(@) |->
        IF @[u].open /\ @[u].at >= level
        THEN [open |-> FALSE, at |-> 0, v |-> vm.st[@[u].at]] ELSE @[u]]]

\* Results vs, wanted of them, from slot res on; top is set after them.
luaD_poscall(vm, res, wanted, vs) ==
    LET n == IF wanted = LUA_MULTRET THEN Len(vs) ELSE wanted
        val(i) == IF i <= Len(vs) THEN vs[i] ELSE Nil
    IN  IF res + n > StackSize THEN Fail(vm)
        ELSE [vm EXCEPT !.top = res + n,
                        !.st = [s \in DOMAIN @ |-> IF s \in res .. res + n - 1
                                                   THEN val(s - res + 1) ELSE @[s]]]

\* The actual arguments of a vararg function move below its frame.
adjust_varargs(vm, p, func, actual0) ==
    LET actual == IF actual0 < p.numparams THEN p.numparams ELSE actual0
        base == func + 1 + actual
        args == [i \in 1 .. actual |-> IF i <= actual0 THEN vm.st[func + i] ELSE Nil]
        extra == actual - p.numparams
        argtab == [k \in {Num(i) : i \in 1 .. extra} \cup {Str("n")} |->
                      IF k = Str("n") THEN Num(extra) ELSE args[p.numparams + k[2]]]
        live == [k \in {k \in DOMAIN argtab : argtab[k] # Nil} |-> argtab[k]]
        vm1 == IF p.needsarg THEN [luaH_new(vm) EXCEPT !.tabs[Len(vm.tabs) + 1] = live] ELSE vm
        after == base + p.numparams
    IN  [base |-> base, top |-> after + (IF p.needsarg THEN 1 ELSE 0),
         vm |-> [vm1 EXCEPT !.st = [s \in DOMAIN @ |->
                    CASE s \in func + 1 .. func + p.numparams -> Nil
                      [] s \in func + p.numparams + 1 .. func + actual -> args[s - func]
                      [] s \in base .. after - 1 -> args[s - base + 1]
                      [] s = after /\ p.needsarg -> LastTable(vm1)
                      [] OTHER -> @[s]]]]

\* __call: the object becomes the first argument.
tryfuncTM(vm, func) ==
    [vm EXCEPT !.top = @ + 1,
               !.st = [s \in DOMAIN @ |->
                    CASE s = func -> luaT_gettmbyobj(vm, vm.st[func], "__call")
                      [] s > func /\ s <= vm.top -> @[s - 1]
                      [] OTHER -> @[s]]]

EnterLua(vm, func, nresults) ==
    LET cl == vm.st[func][2]
        p == vm.cls[cl].p
        nargs == vm.top - func - 1
        fixed == [base |-> func + 1, vm |-> vm,
                  top |-> IF nargs > p.numparams THEN func + 1 + p.numparams ELSE vm.top]
        a == IF p.is_vararg THEN adjust_varargs(vm, p, func, nargs) ELSE fixed
        citop == a.base + p.maxstacksize
    IN  IF func + 1 + (IF p.is_vararg THEN nargs + p.numparams ELSE 0) + p.maxstacksize >= StackSize
        THEN Fail(vm)
        ELSE [a.vm EXCEPT !.top = citop,
                !.st = [s \in DOMAIN @ |-> IF s \in a.top .. citop - 1 THEN Nil ELSE @[s]],
                !.fr = Append(@, [func |-> func, base |-> a.base, top |-> citop, cl |-> cl, pc |-> 0,
                                  nresults |-> nresults])]

\* A Lua function becomes the running one, a function of the host is called.
luaD_precall(vm0, func, nresults) ==
    LET callable == IsFunction(vm0.st[func])
                        \/ IsFunction(luaT_gettmbyobj(vm0, vm0.st[func], "__call"))
        vm == IF IsFunction(vm0.st[func]) THEN vm0 ELSE tryfuncTM(vm0, func)
        h == HostCall(vm, vm.st[func][2], [i \in 1 .. vm.top - func - 1 |-> vm.st[func + i]])
    IN  IF ~callable \/ vm0.top >= StackSize THEN Fail(vm0)
        ELSE IF vm.st[func][1] = "fun" THEN EnterLua(vm, func, nresults)
        ELSE luaD_poscall(h.vm, func, nresults, h.results)

RECURSIVE luaV_execute(_, _), luaD_call(_, _, _), callTMres(_, _, _)

\* Calls func and runs it to its end.
luaD_call(vm, func, nresults) ==
    LET vm1 == luaD_precall(vm, func, nresults)
    IN  luaV_execute(vm1, Len(vm.fr) + 1)

RestoreTop(vm) == IF Running(vm) THEN [vm EXCEPT !.top = CI(vm).top] ELSE vm

\* Calls f on the arguments above the frame; the result, adjusted to one, is v.
callTMres(vm, f, args) ==
    LET base == vm.top
        pushed == [Fits(vm, base + 4) EXCEPT !.top = base + 1 + Len(args),
                     !.st = [s \in DOMAIN @ |->
                        IF s = base THEN f
                        ELSE IF s \in base + 1 .. base + Len(args) THEN args[s - base] ELSE @[s]]]
        done == luaD_call(pushed, base, 1)
    IN  IF Running(pushed) /\ Running(done)
        THEN [vm |-> [done EXCEPT !.top = base], v |-> done.st[base]]
        ELSE [vm |-> Fail(IF Running(pushed) THEN done ELSE vm), v |-> Nil]

(***************************************************************************)
(* Indexing, arithmetic and comparison, with their metamethods.            *)
(***************************************************************************)
RECURSIVE luaV_gettable(_, _, _, _)
luaV_gettable(vm, t, key, loop) ==
    LET raw == TabGet(vm.tabs[t[2]], key)
        tm == luaT_gettmbyobj(vm, t, "__index")
    IN  CASE loop = MAXTAGLOOP -> [vm |-> Fail(vm), v |-> Nil]
          [] loop < MAXTAGLOOP /\ t[1] = "tab" /\ (raw # Nil \/ tm = Nil) -> [vm |-> vm, v |-> raw]
          [] loop < MAXTAGLOOP /\ t[1] # "tab" -> [vm |-> Fail(vm), v |-> Nil]
          [] OTHER -> IF IsFunction(tm) THEN callTMres(vm, tm, <<t, key>>)
                      ELSE luaV_gettable(vm, tm, key, loop + 1)

\* luaH_set has no place for nil.
RECURSIVE luaV_settable(_, _, _, _, _)
luaV_settable(vm, t, key, val, loop) ==
    LET raw == TabGet(vm.tabs[t[2]], key)
        tm == luaT_gettmbyobj(vm, t, "__newindex")
    IN  CASE loop = MAXTAGLOOP \/ t[1] # "tab" -> Fail(vm)
          [] loop < MAXTAGLOOP /\ t[1] = "tab" /\ key = Nil -> Fail(vm)
          [] loop < MAXTAGLOOP /\ t[1] = "tab" /\ key # Nil /\ (raw # Nil \/ tm = Nil) ->
                [vm EXCEPT !.tabs[t[2]] = TabSet(@, key, val)]
          [] OTHER -> IF IsFunction(tm) THEN callTMres(vm, tm, <<t, key, val>>).vm
                      ELSE luaV_settable(vm, tm, key, val, loop + 1)

call_binTM(vm, a, b, event) ==
    LET tm1 == luaT_gettmbyobj(vm, a, event)
        tm == IF tm1 = Nil THEN luaT_gettmbyobj(vm, b, event) ELSE tm1
    IN  IF tm = Nil THEN [vm |-> Fail(vm), v |-> Nil] ELSE callTMres(vm, tm, <<a, b>>)

Event == [op \in {"ADD", "SUB", "MUL", "DIV", "MOD", "POW", "UNM"} |->
    CASE op = "ADD" -> "__add" [] op = "SUB" -> "__sub" [] op = "MUL" -> "__mul"
      [] op = "DIV" -> "__div" [] op = "MOD" -> "__mod" [] op = "POW" -> "__pow"
      [] op = "UNM" -> "__unm"]

ArithVM(vm, op, b, c) ==
    IF b[1] = "num" /\ c[1] = "num" THEN [vm |-> vm, v |-> Num(Arith(op, b[2], c[2]))]
    ELSE call_binTM(vm, b, c, Event[op])

\* The comparison metamethod two tables share, or nil.
get_compTM(vm, a, b, event) ==
    LET tm == luaT_gettmbyobj(vm, a, event)
    IN  IF tm = luaT_gettmbyobj(vm, b, event) THEN tm ELSE Nil

Truth(r) == [vm |-> r.vm, v |-> Bool(~l_isfalse(r.v))]

luaV_equalval(vm, a, b) ==
    LET tm == get_compTM(vm, a, b, "__eq")
    IN  IF a # b /\ a[1] = "tab" /\ b[1] = "tab" /\ tm # Nil
        THEN Truth(callTMres(vm, tm, <<a, b>>))
        ELSE [vm |-> vm, v |-> Bool(a = b /\ a # Num(NAN))]

call_orderTM(vm, a, b, event) == callTMres(vm, get_compTM(vm, a, b, event), <<a, b>>)

luaV_lessthan(vm, a, b) ==
    CASE a[1] = "num" /\ b[1] = "num" ->
            [vm |-> vm, v |-> Bool(a[2] < b[2] /\ NAN \notin {a[2], b[2]})]
      [] a[1] = b[1] /\ a[1] # "num" /\ get_compTM(vm, a, b, "__lt") # Nil ->
            Truth(call_orderTM(vm, a, b, "__lt"))
      [] OTHER -> [vm |-> Fail(vm), v |-> Nil]

lessequal(vm, a, b) ==
    LET lt == call_orderTM(vm, b, a, "__lt")
    IN  CASE a[1] = "num" /\ b[1] = "num" ->
                [vm |-> vm, v |-> Bool(a[2] <= b[2] /\ NAN \notin {a[2], b[2]})]
          [] a[1] = b[1] /\ a[1] # "num" /\ get_compTM(vm, a, b, "__le") # Nil ->
                Truth(call_orderTM(vm, a, b, "__le"))
          [] a[1] = b[1] /\ a[1] # "num" /\ get_compTM(vm, a, b, "__le") = Nil
                /\ get_compTM(vm, b, a, "__lt") # Nil ->
                [vm |-> lt.vm, v |-> Bool(l_isfalse(lt.v))]
          [] OTHER -> [vm |-> Fail(vm), v |-> Nil]

Stringlike(v) == v[1] \in {"str", "num"}
Text(v) == IF v[1] = "str" THEN v[2] ELSE <<ToString(v[2])>>

\* Joins the total values that end in register last, as many strings as it
\* can at a time; the result is in the first of the registers.
RECURSIVE luaV_concat(_, _, _)
luaV_concat(vm, total, last) ==
    LET a == Reg(vm, last - 1)
        b == Reg(vm, last)
        runs == {n \in 2 .. total : \A i \in 0 .. n - 1 : Stringlike(Reg(vm, last - i))}
        n == IF Stringlike(a) /\ Stringlike(b) THEN CHOOSE n \in runs : \A m \in runs : m <= n ELSE 2
        Joint[i \in 0 .. n] == IF i = 0 THEN <<>> ELSE Text(Reg(vm, last - i + 1)) \o Joint[i - 1]
        tm == call_binTM(vm, a, b, "__concat")
        vm1 == IF Stringlike(a) /\ Stringlike(b)
               THEN SetReg(vm, last - n + 1, <<"str", Joint[n]>>)
               ELSE IF Running(tm.vm) THEN SetReg(tm.vm, last - 1, tm.v) ELSE tm.vm
    IN  IF total <= 1 \/ ~Running(vm) THEN vm
        ELSE luaV_concat(vm1, total - (n - 1), last - (n - 1))

(***************************************************************************)
(* One instruction.  The pc already points to the next one.                *)
(***************************************************************************)
luaG_checkopenop(i) == i.op \in {"CALL", "TAILCALL", "RETURN", "SETLIST"} /\ i.b = 0

ValueTo(r, a) == IF Running(r.vm) THEN SetReg(r.vm, a, r.v) ELSE r.vm
SetTop(vm, i, ra) == IF i.b # 0 THEN [vm EXCEPT !.top = ra + i.b] ELSE vm
NextInstr(vm) == P(vm).code[CI(vm).pc + 1]

\* The test instructions skip the jump after them or take it.
Test(r, taken) ==
    IF ~Running(r.vm) THEN r.vm
    ELSE IF taken THEN Jump(r.vm, NextInstr(r.vm).b + 1) ELSE Jump(r.vm, 1)

Truthy(r) == IF r.v = Bool(TRUE) THEN 1 ELSE 0

OpCall(vm, i) ==
    LET ra == CI(vm).base + i.a
        vm1 == luaD_precall(SetTop(vm, i, ra), ra, i.c - 1)
    IN  IF Running(vm1) /\ Len(vm1.fr) = Len(vm.fr) /\ i.c - 1 >= 0 THEN RestoreTop(vm1) ELSE vm1

\* A Lua function called in tail position takes over the caller's frame.
OpTailCall(vm, i) ==
    LET ra == CI(vm).base + i.a
        vm1 == luaD_precall(SetTop(Asserted(vm, i.c - 1 = LUA_MULTRET), i, ra), ra, LUA_MULTRET)
        new == CI(vm1)
        old == CI(vm)
        vm2 == luaF_close(vm1, old.base)
        down == new.func - old.func
        moved == [func |-> old.func, base |-> new.base - down, top |-> new.top - down,
                  cl |-> new.cl, pc |-> 0, nresults |-> old.nresults]
    IN  IF ~Running(vm1) \/ Len(vm1.fr) = Len(vm.fr) THEN vm1
        ELSE [vm2 EXCEPT !.top = moved.top,
                !.fr = Append(SubSeq(@, 1, Len(vm.fr) - 1), moved),
                !.st = [s \in DOMAIN @ |-> IF s \in old.func .. moved.top - 1 THEN @[s + down]
                                           ELSE @[s]]]

OpReturn(vm, i) ==
    LET ra == CI(vm).base + i.a
        end == IF i.b # 0 THEN ra + i.b - 1 ELSE vm.top
        vs == [n \in 1 .. end - ra |-> vm.st[ra + n - 1]]
        vm1 == luaF_close(vm, CI(vm).base)
        vm2 == luaD_poscall([vm1 EXCEPT !.fr = SubSeq(@, 1, Len(@) - 1)],
                            CI(vm).func, CI(vm).nresults, vs)
    IN  IF vm2.fr # <<>> /\ CI(vm).nresults # LUA_MULTRET THEN RestoreTop(vm2) ELSE vm2

OpForLoop(vm, i) ==
    LET step == Reg(vm, i.a + 2)[2]
        idx == Num(Arith("ADD", Reg(vm, i.a)[2], step))
        limit == Reg(vm, i.a + 1)[2]
    IN  IF IF 0 < step THEN idx[2] <= limit ELSE limit <= idx[2]
        THEN Jump(SetReg(SetReg(vm, i.a, idx), i.a + 3, idx), i.b) ELSE vm

OpForPrep(vm, i) ==
    IF \A n \in 0 .. 2 : Reg(vm, i.a + n)[1] = "num"
    THEN Jump(SetReg(vm, i.a, Num(Arith("SUB", Reg(vm, i.a)[2], Reg(vm, i.a + 2)[2]))), i.b)
    ELSE Fail(vm)

OpTForLoop(vm, i) ==
    LET ra == CI(vm).base + i.a
        cb == ra + 3
        vm1 == [vm EXCEPT !.top = cb + 3,
                          !.st = [s \in DOMAIN @ |-> IF s \in cb .. cb + 2 THEN @[s - 3] ELSE @[s]]]
        vm2 == RestoreTop(luaD_call(vm1, cb, i.c))
        first == vm2.st[cb]
    IN  IF cb + 3 > StackSize THEN Fail(vm)
        ELSE Test([vm |-> IF first # Nil /\ Running(vm2) THEN [vm2 EXCEPT !.st[cb - 1] = first]
                          ELSE vm2], first # Nil)

OpSetList(vm, i) ==
    LET ra == CI(vm).base + i.a
        n == IF i.b = 0 THEN vm.top - ra - 1 ELSE i.b
        vm1 == IF i.b = 0 THEN RestoreTop(vm) ELSE vm
        c == IF i.c = 0 THEN CountOf(NextInstr(vm)) ELSE i.c
        vm2 == IF i.c = 0 THEN Jump(vm1, 1) ELSE vm1
        from == (c - 1) * LFIELDS_PER_FLUSH
        Stored[m \in 0 .. n] == IF m = 0 THEN vm.tabs[vm.st[ra][2]]
                                ELSE TabSet(Stored[m - 1], Num(from + m), vm.st[ra + m])
    IN  IF vm.st[ra][1] = "tab" THEN [vm2 EXCEPT !.tabs[vm.st[ra][2]] = Stored[n]]
        ELSE [vm EXCEPT !.ok = FALSE, !.status = "error"]

OpClosure(vm, i) ==
    LET p == P(vm).p[i.b + 1]
        pc == CI(vm).pc
        pseudo(j) == P(vm).code[pc + j]
        Captured[j \in 0 .. p.nups] ==
            IF j = 0 THEN [vm |-> vm, us |-> <<>>]
            ELSE LET r == Captured[j - 1]
                     f == luaF_findupval(r.vm, CI(vm).base + pseudo(j).b)
                 IN  IF pseudo(j).op = "GETUPVAL"
                     THEN [r EXCEPT !.us = Append(@, Closure(vm).ups[pseudo(j).b + 1])]
                     ELSE [vm |-> Asserted(f.vm, pseudo(j).op = "MOVE"), us |-> Append(r.us, f.u)]
        all == Captured[p.nups]
    IN  SetReg([Jump(all.vm, p.nups) EXCEPT !.cls = Append(@, [p |-> p, ups |-> all.us])],
               i.a, <<"fun", Len(vm.cls) + 1>>)

OpVararg(vm, i) ==
    LET ci == CI(vm)
        ra == ci.base + i.a
        n == ci.base - ci.func - P(vm).numparams - 1
        b == IF i.b = 0 THEN n ELSE i.b - 1
        val(j) == IF j < n THEN vm.st[ci.base - n + j] ELSE Nil
    IN  IF ra + b > StackSize THEN Fail(vm)
        ELSE [vm EXCEPT !.top = IF i.b = 0 THEN ra + n ELSE @,
                        !.st = [s \in DOMAIN @ |-> IF s \in ra .. ra + b - 1 THEN val(s - ra)
                                                   ELSE @[s]]]

OpLen(vm, i) ==
    LET v == Reg(vm, i.b)
    IN  CASE v[1] = "tab" -> SetReg(vm, i.a, Num(luaH_getn(vm.tabs[v[2]])))
          [] v[1] = "str" -> SetReg(vm, i.a, Num(Len(v[2])))
          [] OTHER -> Fail(vm)

OpConcat(vm, i) ==
    LET vm1 == luaV_concat(vm, i.c - i.b + 1, i.c)
    IN  IF Running(vm1) THEN SetReg(vm1, i.a, Reg(vm1, i.b)) ELSE vm1

OpSelf(vm, i) ==
    LET o == Reg(vm, i.b)
    IN  ValueTo(luaV_gettable(SetReg(vm, i.a + 1, o), o, RKOf(vm, i.c), 0), i.a)

Step(vm0) ==
    LET i == NextInstr(vm0)
        vm == Asserted([Jump(vm0, 1) EXCEPT !.fuel = @ - 1],
                       vm0.top = CI(vm0).top \/ luaG_checkopenop(i))
        eq == luaV_equalval(vm, RKOf(vm, i.b), RKOf(vm, i.c))
        lt == luaV_lessthan(vm, RKOf(vm, i.b), RKOf(vm, i.c))
        le == lessequal(vm, RKOf(vm, i.b), RKOf(vm, i.c))
        falseB == IF l_isfalse(Reg(vm, i.b)) THEN 1 ELSE 0
        falseA == IF l_isfalse(Reg(vm, i.a)) THEN 1 ELSE 0
        here == [vm |-> vm]
    IN  CASE i.op = "MOVE" -> SetReg(vm, i.a, Reg(vm, i.b))
          [] i.op = "LOADK" -> SetReg(vm, i.a, P(vm).k[i.b + 1])
          [] i.op = "LOADBOOL" -> Jump(SetReg(vm, i.a, Bool(i.b = 1)), IF i.c # 0 THEN 1 ELSE 0)
          [] i.op = "LOADNIL" ->
                [vm EXCEPT !.st = [s \in DOMAIN @ |->
                    IF s \in CI(vm).base + i.a .. CI(vm).base + i.b THEN Nil ELSE @[s]]]
          [] i.op = "GETUPVAL" -> SetReg(vm, i.a, UpGet(vm, Closure(vm).ups[i.b + 1]))
          [] i.op = "SETUPVAL" -> UpSet(vm, Closure(vm).ups[i.b + 1], Reg(vm, i.a))
          [] i.op = "GETGLOBAL" -> SetReg(vm, i.a, TabGet(vm.glob, P(vm).k[i.b + 1]))
          [] i.op = "SETGLOBAL" ->
                [vm EXCEPT !.glob = TabSet(@, P(vm).k[i.b + 1], Reg(vm, i.a))]
          [] i.op = "GETTABLE" ->
                ValueTo(luaV_gettable(vm, Reg(vm, i.b), RKOf(vm, i.c), 0), i.a)
          [] i.op = "SETTABLE" ->
                luaV_settable(vm, Reg(vm, i.a), RKOf(vm, i.b), RKOf(vm, i.c), 0)
          [] i.op = "NEWTABLE" -> LET n == luaH_new(vm) IN SetReg(n, i.a, LastTable(n))
          [] i.op = "SELF" -> OpSelf(vm, i)
          [] i.op \in {"ADD", "SUB", "MUL", "DIV", "MOD", "POW"} ->
                ValueTo(ArithVM(vm, i.op, RKOf(vm, i.b), RKOf(vm, i.c)), i.a)
          [] i.op = "UNM" -> ValueTo(ArithVM(vm, "UNM", Reg(vm, i.b), Reg(vm, i.b)), i.a)
          [] i.op = "NOT" -> SetReg(vm, i.a, Bool(falseB = 1))
          [] i.op = "LEN" -> OpLen(vm, i)
          [] i.op = "CONCAT" -> OpConcat(vm, i)
          [] i.op = "JMP" -> Jump(vm, i.b)
          [] i.op = "EQ" -> Test(eq, Truthy(eq) = i.a)
          [] i.op = "LT" -> Test(lt, Truthy(lt) = i.a)
          [] i.op = "LE" -> Test(le, Truthy(le) = i.a)
          [] i.op = "TEST" -> Test(here, falseA # i.c)
          [] i.op = "TESTSET" ->
                IF falseB # i.c THEN Test([vm |-> SetReg(vm, i.a, Reg(vm, i.b))], TRUE)
                ELSE Test(here, FALSE)
          [] i.op = "CALL" -> OpCall(vm, i)
          [] i.op = "TAILCALL" -> OpTailCall(vm, i)
          [] i.op = "RETURN" -> OpReturn(vm, i)
          [] i.op = "FORLOOP" -> OpForLoop(vm, i)
          [] i.op = "FORPREP" -> OpForPrep(vm, i)
          [] i.op = "TFORLOOP" -> OpTForLoop(vm, i)
          [] i.op = "SETLIST" -> OpSetList(vm, i)
          [] i.op = "CLOSE" -> luaF_close(vm, CI(vm).base + i.a)
          [] i.op = "CLOSURE" -> OpClosure(vm, i)
          [] i.op = "VARARG" -> OpVararg(vm, i)

\* Runs until the frame at depth has returned.
luaV_execute(vm, depth) ==
    CASE ~Running(vm) \/ Len(vm.fr) < depth -> vm
      [] Running(vm) /\ Len(vm.fr) >= depth /\ vm.fuel = 0 -> [vm EXCEPT !.status = "fuel"]
      [] OTHER -> luaV_execute(Step(vm), depth)

(***************************************************************************)
(* A finished program run by the host.                                     *)
(***************************************************************************)
NewMachine(glob) ==
    [st |-> [s \in 0 .. StackSize - 1 |-> Nil], top |-> 0, fr |-> <<>>, uvs |-> <<>>, cls |-> <<>>,
     tabs |-> <<>>, meta |-> <<>>, glob |-> glob, trace |-> <<>>, status |-> "run", ok |-> TRUE,
     fuel |-> Instructions]

\* Runs the main function f on args; its results are left from slot 0 on.
RunMain(f, glob, args) ==
    LET vm == NewMachine(glob)
        loaded == [vm EXCEPT !.cls = <<[p |-> f, ups |-> <<>>]>>, !.top = 1 + Len(args),
                     !.st = [s \in DOMAIN @ |-> IF s = 0 THEN <<"fun", 1>>
                                ELSE IF s <= Len(args) THEN args[s] ELSE Nil]]
    IN  luaD_call(loaded, 0, LUA_MULTRET)

Results(vm) == [n \in 1 .. vm.top |-> vm.st[n - 1]]
============================================================================
