------------------------------- MODULE LuaRef ------------------------------
(***************************************************************************)
(* What a Lua program means, by the definition of the language: an         *)
(* evaluator over the abstract syntax of LuaSyntax, with an environment of *)
(* variables where the compiler has registers, upvalues and jumps.         *)
(*                                                                         *)
(* The state s holds the variables (cells), the functions created (funs),  *)
(* and the tables, metatables, globals and trace of LuaVM; an environment  *)
(* gives the cell of every visible local, and the extra arguments of the   *)
(* function (dots).  A call or a turn of a loop takes one unit of fuel;    *)
(* it takes the machine at least two instructions.                         *)
(* Where the language leaves an order open (stores of a multiple           *)
(* assignment), it is the one of the implementation.                       *)
(***************************************************************************)
EXTENDS LuaSyntax, LuaVM

NewState(glob) ==
    [cells |-> <<>>, funs |-> <<>>, tabs |-> <<>>, meta |-> <<>>, glob |-> glob, trace |-> <<>>,
     status |-> "run", fuel |-> Instructions \div 2]

First(vs) == IF vs = <<>> THEN Nil ELSE vs[1]
Nth(vs, n) == IF n <= Len(vs) THEN vs[n] ELSE Nil
Value(s, v) == [s |-> s, vs |-> <<v>>]
Erroneous(s) == [s |-> Fail(s), vs |-> <<>>]

Bind(env, s, names, vs) ==
    LET n == Len(s.cells)
        last(x) == CHOOSE i \in DOMAIN names : names[i] = x /\ \A j \in DOMAIN names : names[j] = x => j <= i
        bound == {names[i] : i \in DOMAIN names}
    IN  [env |-> [env EXCEPT !.vars = [x \in DOMAIN @ \cup bound |->
                                          IF x \in bound THEN n + last(x) ELSE @[x]]],
         s |-> [s EXCEPT !.cells = @ \o [i \in 1 .. Len(names) |-> Nth(vs, i)]]]

RECURSIVE Eval(_, _, _), EvalList(_, _, _), Call(_, _, _), Exec(_, _, _), Block(_, _, _),
          Index(_, _, _), SetIndex(_, _, _, _), Items(_, _, _, _, _), Loop(_, _, _), Targets(_, _, _)

Metamethod(s, v, event) == luaT_gettmbyobj(s, v, event)

Index(s, t, k) ==
    LET raw == TabGet(s.tabs[t[2]], k)
        h == Metamethod(s, t, "__index")
    IN  IF t[1] # "tab" THEN Erroneous(s)
        ELSE IF raw # Nil \/ h = Nil THEN Value(s, raw)
        ELSE IF IsFunction(h)
             THEN LET r == Call(s, h, <<t, k>>) IN [r EXCEPT !.vs = <<First(@)>>]
             ELSE Index(s, h, k)

SetIndex(s, t, k, v) ==
    LET h == Metamethod(s, t, "__newindex")
    IN  IF t[1] # "tab" \/ k = Nil THEN Fail(s)
        ELSE IF TabGet(s.tabs[t[2]], k) # Nil \/ h = Nil
             THEN [s EXCEPT !.tabs[t[2]] = TabSet(@, k, v)]
        ELSE IF IsFunction(h) THEN Call(s, h, <<t, k, v>>).s ELSE SetIndex(s, h, k, v)

Handle(s, a, b, event) ==
    LET h == IF Metamethod(s, a, event) # Nil THEN Metamethod(s, a, event)
             ELSE Metamethod(s, b, event)
        r == Call(s, h, <<a, b>>)
    IN  IF h = Nil THEN Erroneous(s) ELSE [r EXCEPT !.vs = <<First(@)>>]

Compare(s, a, b, event) ==
    LET h == Metamethod(s, a, event)
        r == Call(s, h, <<a, b>>)
    IN  IF h = Nil \/ h # Metamethod(s, b, event) THEN Erroneous(s)
        ELSE [r EXCEPT !.vs = <<Bool(~l_isfalse(First(@)))>>]
Negate(r) == [r EXCEPT !.vs = <<Bool(l_isfalse(First(@)))>>]

Equal(s, a, b) ==
    IF /\ a # b /\ a[1] = "tab" /\ b[1] = "tab" /\ Metamethod(s, a, "__eq") # Nil
       /\ Metamethod(s, a, "__eq") = Metamethod(s, b, "__eq")
    THEN Compare(s, a, b, "__eq") ELSE Value(s, Bool(a = b /\ a # Num(NAN)))

Less(s, a, b, strict) ==
    LET nums == a[1] = "num" /\ b[1] = "num"
        holds == NAN \notin {a[2], b[2]} /\ (a[2] < b[2] \/ (~strict /\ a[2] = b[2]))
    IN  CASE nums -> Value(s, Bool(holds))
          [] ~nums /\ a[1] # b[1] -> Erroneous(s)
          [] ~nums /\ a[1] = b[1] /\ strict -> Compare(s, a, b, "__lt")
          [] OTHER -> LET le == Compare(s, a, b, "__le")
                      IN  IF Running(le.s) THEN le ELSE Negate(Compare(s, b, a, "__lt"))

Operate(s, op, a, b) ==
    CASE op \in DOMAIN ArithOp ->
            IF a[1] = "num" /\ b[1] = "num" THEN Value(s, Num(Arith(ArithOp[op], a[2], b[2])))
            ELSE Handle(s, a, b, Event[ArithOp[op]])
      [] op = ".." -> IF Stringlike(a) /\ Stringlike(b)
                      THEN Value(s, <<"str", Text(a) \o Text(b)>>) ELSE Handle(s, a, b, "__concat")
      [] op = "==" -> Equal(s, a, b)
      [] op = "~=" -> Negate(Equal(s, a, b))
      [] op = "<" -> Less(s, a, b, TRUE)
      [] op = ">" -> Less(s, b, a, TRUE)
      [] op = "<=" -> Less(s, a, b, FALSE)
      [] op = ">=" -> Less(s, b, a, FALSE)

Unary(s, op, a) ==
    CASE op = "not" -> Value(s, Bool(l_isfalse(a)))
      [] op = "-" -> IF a[1] = "num" THEN Value(s, Num(Arith("UNM", a[2], a[2])))
                     ELSE Handle(s, a, a, "__unm")
      [] op = "#" -> CASE a[1] = "tab" -> Value(s, Num(luaH_getn(s.tabs[a[2]])))
                       [] a[1] = "str" -> Value(s, Num(Len(a[2])))
                       [] OTHER -> Erroneous(s)

\* Calls f; a host function, a Lua function or an object with __call.
Call(s, f, args) ==
    LET h == HostCall(s, f[2], args)
        fn == s.funs[f[2]]
        nfix == Len(fn.params)
        env0 == [fn.env EXCEPT !.dots = SubSeq(args, nfix + 1, Len(args))]
        b == Bind(env0, [s EXCEPT !.fuel = @ - 1], fn.params, args)
        r == Block(b.s, b.env, fn.body)
        tm == Metamethod(s, f, "__call")
    IN  CASE ~Running(s) -> [s |-> s, vs |-> <<>>]
          [] Running(s) /\ f[1] = "C" -> [s |-> h.vm, vs |-> h.results]
          [] Running(s) /\ f[1] = "fun" /\ s.fuel = 0 -> [s |-> [s EXCEPT !.status = "fuel"], vs |-> <<>>]
          [] Running(s) /\ f[1] = "fun" /\ s.fuel > 0 -> [s |-> r.s, vs |-> r.vs]
          [] OTHER -> IF tm = Nil THEN Erroneous(s) ELSE Call(s, tm, <<f>> \o args)

\* The values of an expression list: all of the last one's, one of the others.
EvalList(s, env, es) ==
    IF es = <<>> THEN [s |-> s, vs |-> <<>>]
    ELSE LET r == Eval(s, env, es[1])
             rest == EvalList(r.s, env, Tail(es))
         IN  IF Len(es) = 1 THEN r ELSE [s |-> rest.s, vs |-> <<First(r.vs)>> \o rest.vs]

One(s, env, e) == LET r == Eval(s, env, e) IN [s |-> r.s, v |-> First(r.vs)]

Items(s, env, t, is, n) ==
    LET i == is[1]
        r == Eval(s, env, i[Len(i)])
        vs == IF i[1] = "item" /\ Len(is) = 1 THEN r.vs ELSE <<First(r.vs)>>
        Stored[m \in 0 .. Len(vs)] == IF m = 0 THEN r.s.tabs[t]
                                      ELSE TabSet(Stored[m - 1], Num(n + m), vs[m])
        tab == IF i[1] = "item" THEN Stored[Len(vs)] ELSE TabSet(r.s.tabs[t], Str(i[2]), vs[1])
    IN  IF is = <<>> \/ ~Running(s) THEN s
        ELSE IF ~Running(r.s) THEN r.s
        ELSE Items([r.s EXCEPT !.tabs[t] = tab], env, t, Tail(is), IF i[1] = "item" THEN n + 1 ELSE n)

Eval(s, env, e) ==
    LET kind == e[1]
        a == One(s, env, e[2])
        args == EvalList(a.s, env, e[Len(e)])
        k == One(a.s, env, e[3])
        left == One(s, env, e[3])
        right == One(left.s, env, e[4])
        m == Index(a.s, a.v, Str(e[3]))
        margs == EvalList(m.s, env, e[Len(e)])
        new == luaH_new(s)
    IN  CASE ~Running(s) -> [s |-> s, vs |-> <<>>]
          [] Running(s) /\ kind = "nil" -> Value(s, Nil)
          [] Running(s) /\ kind = "true" -> Value(s, Bool(TRUE))
          [] Running(s) /\ kind = "false" -> Value(s, Bool(FALSE))
          [] Running(s) /\ kind = "num" -> Value(s, Num(e[2]))
          [] Running(s) /\ kind = "str" -> Value(s, Str(e[2]))
          [] Running(s) /\ kind = "dots" -> [s |-> s, vs |-> env.dots]
          [] Running(s) /\ kind = "var" ->
                Value(s, IF e[2] \in DOMAIN env.vars THEN s.cells[env.vars[e[2]]]
                         ELSE TabGet(s.glob, Str(e[2])))
          [] Running(s) /\ kind = "paren" -> [s |-> a.s, vs |-> <<a.v>>]
          [] Running(s) /\ kind = "index" -> IF Running(k.s) THEN Index(k.s, a.v, k.v) ELSE Erroneous(k.s)
          [] Running(s) /\ kind = "call" -> Call(args.s, a.v, args.vs)
          [] Running(s) /\ kind = "method" ->
                IF Running(margs.s) THEN Call(margs.s, First(m.vs), <<a.v>> \o margs.vs) ELSE margs
          [] Running(s) /\ kind = "table" ->
                LET t == Items(new, env, Len(new.tabs), e[2], 0)
                IN  IF Running(t) THEN Value(t, LastTable(new)) ELSE [s |-> t, vs |-> <<>>]
          [] Running(s) /\ kind = "func" ->
                Value([s EXCEPT !.funs = Append(@, [params |-> e[2], body |-> e[4], env |-> env])],
                      <<"fun", Len(s.funs) + 1>>)
          [] Running(s) /\ kind = "un" -> IF Running(left.s) THEN Unary(left.s, e[2], left.v)
                                         ELSE Erroneous(left.s)
          [] Running(s) /\ kind = "bin" ->
                CASE ~Running(left.s) -> Erroneous(left.s)
                  [] Running(left.s) /\ e[2] = "and" ->
                        IF l_isfalse(left.v) THEN Value(left.s, left.v) ELSE Value(right.s, right.v)
                  [] Running(left.s) /\ e[2] = "or" ->
                        IF l_isfalse(left.v) THEN Value(right.s, right.v) ELSE Value(left.s, left.v)
                  [] OTHER -> IF Running(right.s) THEN Operate(right.s, e[2], left.v, right.v)
                              ELSE Erroneous(right.s)

(***************************************************************************)
(* Statements: the state, the environment, how the statement ended         *)
(* ("next", "break" or "return") and the values returned.                  *)
(***************************************************************************)
Went(s, env) == [s |-> s, env |-> env, flow |-> "next", vs |-> <<>>]

Block(s, env, stats) ==
    LET r == Exec(s, env, stats[1])
    IN  IF stats = <<>> \/ ~Running(s) THEN Went(s, env)
        ELSE IF r.flow # "next" \/ ~Running(r.s) THEN r ELSE Block(r.s, r.env, Tail(stats))

\* Iterates: step(s) says whether to go on and with which environment.
Loop(s, env, w) ==
    LET c == One(s, env, w[2])
        r == Block([c.s EXCEPT !.fuel = @ - 1], env, w[3])
    IN  IF s.fuel = 0 THEN Went([s EXCEPT !.status = "fuel"], env)
        ELSE IF ~Running(c.s) \/ l_isfalse(c.v) THEN Went(c.s, env)
        ELSE IF r.flow = "return" THEN r
        ELSE IF r.flow = "break" \/ ~Running(r.s) THEN Went(r.s, env)
        ELSE Loop(r.s, env, w)

RECURSIVE Repeat(_, _, _), NumLoop(_, _, _, _, _, _), GenLoop(_, _, _, _, _)
Repeat(s, env, w) ==
    LET r == Block([s EXCEPT !.fuel = @ - 1], env, w[2])
        c == One(r.s, r.env, w[3])     \* the condition sees the block's locals
    IN  IF s.fuel = 0 THEN Went([s EXCEPT !.status = "fuel"], env)
        ELSE IF r.flow = "return" THEN r
        ELSE IF r.flow = "break" \/ ~Running(r.s) THEN Went(r.s, env)
        ELSE IF ~Running(c.s) \/ ~l_isfalse(c.v) THEN Went(c.s, env)
        ELSE Repeat(c.s, env, w)

NumLoop(s, env, w, i, limit, step) ==
    LET b == Bind(env, [s EXCEPT !.fuel = @ - 1], <<w[2]>>, <<Num(i)>>)
        r == Block(b.s, b.env, w[4])
    IN  IF IF step > 0 THEN i > limit ELSE i < limit THEN Went(s, env)
        ELSE IF s.fuel = 0 THEN Went([s EXCEPT !.status = "fuel"], env)
        ELSE IF r.flow = "return" THEN r
        ELSE IF r.flow = "break" \/ ~Running(r.s) THEN Went(r.s, env)
        ELSE NumLoop(r.s, env, w, i + step, limit, step)

GenLoop(s, env, w, fst, control) ==
    LET c == Call(s, fst[1], <<Nth(fst, 2), control>>)
        b == Bind(env, [c.s EXCEPT !.fuel = @ - 1], w[2], c.vs)
        r == Block(b.s, b.env, w[4])
    IN  IF s.fuel = 0 THEN Went([s EXCEPT !.status = "fuel"], env)
        ELSE IF ~Running(c.s) \/ First(c.vs) = Nil THEN Went(c.s, env)
        ELSE IF r.flow = "return" THEN r
        ELSE IF r.flow = "break" \/ ~Running(r.s) THEN Went(r.s, env)
        ELSE GenLoop(r.s, env, w, fst, First(c.vs))

\* The places a multiple assignment stores to, evaluated before its values.
Targets(s, env, ts) ==
    LET t == ts[1]
        a == One(s, env, t[2])
        k == One(a.s, env, t[3])
        place == IF t[1] = "var" THEN <<"var", t[2]>> ELSE <<"slot", a.v, k.v>>
        rest == Targets(IF t[1] = "var" THEN s ELSE k.s, env, Tail(ts))
    IN  IF ts = <<>> THEN [s |-> s, places |-> <<>>]
        ELSE [s |-> rest.s, places |-> <<place>> \o rest.places]

Assigned(s, env, place, v) ==
    CASE place[1] = "slot" -> SetIndex(s, place[2], place[3], v)
      [] place[1] = "var" /\ place[2] \in DOMAIN env.vars ->
            [s EXCEPT !.cells[env.vars[place[2]]] = v]
      [] OTHER -> [s EXCEPT !.glob = TabSet(@, Str(place[2]), v)]

Assignment(s, env, ts, es) ==
    LET p == Targets(s, env, ts)
        r == EvalList(p.s, env, es)
        n == Len(ts)
        Done[i \in 0 .. n] ==
            IF i = 0 THEN r.s
            ELSE IF ~Running(Done[i - 1]) THEN Done[i - 1]
            ELSE Assigned(Done[i - 1], env, p.places[n - i + 1], Nth(r.vs, n - i + 1))
    IN  IF Running(p.s) THEN Done[n] ELSE p.s

RECURSIVE If(_, _, _, _)
If(s, env, clauses, else) ==
    LET c == One(s, env, clauses[1][1])
    IN  IF clauses = <<>> THEN Block(s, env, else)
        ELSE IF ~Running(c.s) THEN Went(c.s, env)
        ELSE IF ~l_isfalse(c.v) THEN Block(c.s, env, clauses[1][2])
        ELSE If(c.s, env, Tail(clauses), else)

Exec(s, env, st) ==
    LET kind == st[1]
        Scoped(r) == [r EXCEPT !.env = env]
        r == EvalList(s, env, st[3])
        b == Bind(env, r.s, st[2], r.vs)
        self == Bind(env, s, <<st[2]>>, <<Nil>>)
        fun == One(self.s, self.env, st[3])
    IN  CASE kind = "local" -> Went(b.s, b.env)
          [] kind = "assign" -> Went(Assignment(s, env, st[2], st[3]), env)
          [] kind = "call" -> Went(Eval(s, env, st[2]).s, env)
          [] kind = "return" -> LET v == EvalList(s, env, st[2])
                                IN  [s |-> v.s, env |-> env, flow |-> "return", vs |-> v.vs]
          [] kind = "break" -> [Went(s, env) EXCEPT !.flow = "break"]
          [] kind = "do" -> Scoped(Block(s, env, st[2]))
          [] kind = "while" -> Scoped(Loop(s, env, st))
          [] kind = "repeat" -> Scoped(Repeat(s, env, st))
          [] kind = "fornum" ->
                LET step == IF Len(st[3]) = 3 THEN First(SubSeq(r.vs, 3, 3)) ELSE Num(1)
                    ns == <<Nth(r.vs, 1), Nth(r.vs, 2), step>>
                IN  IF Running(r.s) /\ \A n \in 1 .. 3 : ns[n][1] = "num"
                    THEN Scoped(NumLoop(r.s, env, st, ns[1][2], ns[2][2], ns[3][2]))
                    ELSE Went(Fail(r.s), env)
          [] kind = "forin" ->
                IF Running(r.s)
                THEN Scoped(GenLoop(r.s, env, st, <<Nth(r.vs, 1), Nth(r.vs, 2)>>, Nth(r.vs, 3)))
                ELSE Went(r.s, env)
          [] kind = "if" -> Scoped(If(s, env, st[2], st[3]))
          [] kind = "localfunc" ->
                Went([fun.s EXCEPT !.cells[self.env.vars[st[2]]] = fun.v], self.env)

RefMain(prog, glob, args) == Block(NewState(glob), [vars |-> <<>>, dots |-> args], prog)

(***************************************************************************)
(* What the host can see of a value: functions are alike, tables are their *)
(* contents.                                                               *)
(***************************************************************************)
RECURSIVE Seen(_, _, _)
Seen(m, v, depth) ==
    CASE v[1] = "fun" -> <<"fun">>
      [] v[1] = "tab" /\ depth = 0 -> <<"tab">>
      [] v[1] = "tab" /\ depth > 0 ->
            LET t == m.tabs[v[2]] IN <<"tab", [k \in DOMAIN t |-> Seen(m, t[k], depth - 1)]>>
      [] OTHER -> v
SeenAll(m, vs) == [n \in 1 .. Len(vs) |-> Seen(m, vs[n], 2)]

\* The machine vm ended as the definition r says.
Agree(vm, r) ==
    \/ vm.status = "fuel" /\ r.s.status = "fuel"
    \/ /\ vm.status = r.s.status
       /\ vm.status = "run" => SeenAll(vm, Results(vm)) = SeenAll(r.s, r.vs)
       /\ Len(vm.trace) = Len(r.s.trace)
       /\ \A n \in DOMAIN vm.trace : SeenAll(vm, vm.trace[n]) = SeenAll(r.s, r.s.trace[n])
       /\ DOMAIN vm.glob = DOMAIN r.s.glob
       /\ \A k \in DOMAIN vm.glob : Seen(vm, vm.glob[k], 2) = Seen(r.s, r.s.glob[k], 2)
============================================================================
