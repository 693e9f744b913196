----------------------------- MODULE LuaParser -----------------------------
(***************************************************************************)
(* The parser (lparser.c) above the level of expressions: functions,       *)
(* blocks and statements.                                                  *)
(*                                                                         *)
(* A program is a sequence of pieces, each a simple statement or the head  *)
(* or the end of a compound one; statement(p, s) is the parser after it    *)
(* read the piece s.  p is a record:                                       *)
(*   fss     the FuncStates, outermost first: ls->fs and its prev chain    *)
(*   cs      the open constructs, i.e. the C stack of the parser           *)
(*   status  "parsing", "done" or "error" (luaX_syntaxerror)               *)
(*   main    the Proto of the finished main function                       *)
(*   prog    the abstract syntax of the finished program, which LuaRef     *)
(*           gives a meaning independent of the compiler                   *)
(***************************************************************************)
EXTENDS LuaExpr, LuaSyntax

(***************************************************************************)
(* Functions and blocks.                                                   *)
(***************************************************************************)
open_func == [code |-> <<>>, lasttarget |-> -1, jpc |-> NO_JUMP, freereg |-> 0, k |-> <<>>,
              p |-> <<>>, locvars |-> <<>>, actvar |-> <<>>, nactvar |-> 0, upvalues |-> <<>>,
              bl |-> <<>>, numparams |-> 0, is_vararg |-> FALSE, hasarg |-> FALSE,
              needsarg |-> FALSE, maxstacksize |-> 2, ok |-> TRUE, err |-> FALSE]

\* The finished Proto.  luaG_checkcode(f) is asserted by the property Verified.
close_func(fs0) ==
    LET fs == luaK_ret(removevars(fs0, 0), 0, 0)
    IN  [source |-> <<"@prog">>, code |-> fs.code, k |-> fs.k, p |-> fs.p,
         nups |-> Len(fs.upvalues), upvalues |-> [n \in 1 .. Len(fs.upvalues) |-> fs.upvalues[n].name],
         locvars |-> fs.locvars, numparams |-> fs.numparams, is_vararg |-> fs.is_vararg,
         hasarg |-> fs.hasarg, needsarg |-> fs.needsarg, maxstacksize |-> fs.maxstacksize,
         ok |-> fs.ok /\ fs.bl = <<>>]

enterblock(fs, isbreakable) ==
    LuaAssert([fs EXCEPT !.bl = Append(@, [breaklist |-> NO_JUMP, nactvar |-> fs.nactvar,
                                           upval |-> FALSE, isbreakable |-> isbreakable])],
              fs.freereg = fs.nactvar)

leaveblock(fs) ==
    LET bl == fs.bl[Len(fs.bl)]
        fs1 == removevars([fs EXCEPT !.bl = SubSeq(@, 1, Len(@) - 1)], bl.nactvar)
        fs2 == IF bl.upval THEN luaK_codeABC(fs1, "CLOSE", bl.nactvar, 0, 0) ELSE fs1
        fs3 == LuaAssert(fs2, ~(bl.isbreakable /\ bl.upval))
    IN  luaK_patchtohere([fs3 EXCEPT !.freereg = fs3.nactvar], bl.breaklist)

\* block() around chunk(): what it does before and after.
OpenBlock(fs) == enterblock(fs, FALSE)
CloseBlock(fs) == leaveblock(LuaAssert(fs, fs.bl[Len(fs.bl)].breaklist = NO_JUMP))

pushclosure(x, func, f) ==
    LET fs1 == luaK_codeABx([x.fs EXCEPT !.p = Append(@, f)], "CLOSURE", 0, Len(x.fs.p))
        pseudo(u) == Instr(IF u.k = "VLOCAL" THEN "MOVE" ELSE "GETUPVAL", 0, u.info, 0)
    IN  [x EXCEPT !.fs = [fs1 EXCEPT !.code = @ \o [i \in 1 .. Len(func.upvalues) |->
                                                     pseudo(func.upvalues[i])]],
                  !.e = Exp("VRELOCABLE", PC(x.fs))]

\* `...' declares the compatibility variable arg (LUA_COMPAT_VARARG).
parlist(fs, params, isva) ==
    LET Declared[n \in 0 .. Len(params)] ==
            IF n = 0 THEN fs ELSE new_localvar(Declared[n - 1], params[n])
        named == Declared[Len(params)]
        all == IF isva THEN new_localvar(named, "arg") ELSE named
        fs1 == adjustlocalvars([all EXCEPT !.is_vararg = isva, !.hasarg = isva, !.needsarg = isva],
                               Len(params) + (IF isva THEN 1 ELSE 0))
    IN  luaK_reserveregs([fs1 EXCEPT !.numparams = fs1.nactvar - (IF isva THEN 1 ELSE 0)],
                         fs1.nactvar)

\* body() before its chunk.
OpenBody(needself, params, isva) ==
    parlist(IF needself THEN adjustlocalvars(new_localvar(open_func, "self"), 1) ELSE open_func,
            params, isva)

(***************************************************************************)
(* Statements, as operators on x or fs.                                    *)
(***************************************************************************)
EndStat(fs) ==
    [LuaAssert(fs, fs.maxstacksize >= fs.freereg /\ fs.freereg >= fs.nactvar)
     EXCEPT !.freereg = fs.nactvar]

cond(x) ==
    LET y == expr(x)
    IN  luaK_goiftrue(IF y.e.k = "VNIL" THEN [y EXCEPT !.e.k = "VFALSE"] ELSE y)

DeclareLocals(fs, names) ==
    LET Declared[n \in 0 .. Len(names)] ==
            IF n = 0 THEN fs ELSE new_localvar(Declared[n - 1], names[n])
    IN  Declared[Len(names)]

\* local names = explist, once the names are declared and the list is read.
EndLocal(x, nvars) == LET y == adjust_assign(x, nvars, x.n)
                      IN  OnFS(y, adjustlocalvars(y.fs, nvars))

\* The variables already read, lhs, must not see the local v change.
check_conflict(x, lhs, v) ==
    LET extra == x.fs.freereg
        hit(l) == l.k = "VINDEXED" /\ (l.info = v.info \/ l.aux = v.info)
        conflict == \E n \in DOMAIN lhs : hit(lhs[n])
        safe(r) == IF r = v.info THEN extra ELSE r
    IN  [x |-> IF conflict
               THEN OnFS(x, luaK_reserveregs(luaK_codeABC(x.fs, "MOVE", extra, v.info, 0), 1))
               ELSE x,
         lhs |-> [n \in 1 .. Len(lhs) |->
                    IF hit(lhs[n])
                    THEN [lhs[n] EXCEPT !.info = safe(@), !.aux = safe(@)] ELSE lhs[n]]]

\* Stores the values of the stack top, the last one first.
RECURSIVE StoreAll(_, _)
StoreAll(x, lhs) ==
    IF lhs = <<>> THEN x
    ELSE StoreAll(luaK_storevar([x EXCEPT !.e = Exp("VNONRELOC", x.fs.freereg - 1)], lhs[Len(lhs)]),
                  SubSeq(lhs, 1, Len(lhs) - 1))

RECURSIVE assignment(_, _)
assignment(x0, lhs) ==
    LET nvars == Len(lhs)
        assignable == lhs[nvars].k \in {"VLOCAL", "VUPVAL", "VGLOBAL", "VINDEXED"}
        x == OnFS(x0, SyntaxErrorIf(x0.fs, ~assignable))
        nv == primaryexp(luaX_next(x))
        c == IF nv.e.k = "VLOCAL" THEN check_conflict(nv, lhs, nv.e) ELSE [x |-> nv, lhs |-> lhs]
        limited == OnFS(c.x, SyntaxErrorIf(c.x.fs, nvars > LUAI_MAXCCALLS - x.lev))
        es == explist1(checknext(x, "="))
        adj == adjust_assign(es, nvars, es.n)
    IN  CASE Tok(x) = "," -> assignment(limited, Append(c.lhs, nv.e))
          [] Tok(x) # "," /\ es.n = nvars ->
                StoreAll(luaK_storevar(luaK_setoneret(es), lhs[nvars]), SubSeq(lhs, 1, nvars - 1))
          [] OTHER ->
                StoreAll([adj EXCEPT !.fs.freereg = IF es.n > nvars THEN @ - (es.n - nvars) ELSE @],
                         lhs)

exprstat(x) ==
    LET y == primaryexp(x)
    IN  IF y.e.k = "VCALL" THEN [y EXCEPT !.fs.code[y.e.info + 1].c = 1]
        ELSE assignment(y, <<y.e>>)

\* return explist, once the list is read.
EndReturn(x) ==
    LET multi == luaK_setmultret(x)
        tail == IF x.e.k = "VCALL" /\ x.n = 1
                THEN LuaAssert([multi.fs EXCEPT !.code[x.e.info + 1].op = "TAILCALL"],
                               getcode(multi).a = multi.fs.nactvar)
                ELSE multi.fs
        one == luaK_exp2anyreg(x)
        many == luaK_exp2nextreg(x)
        first == many.fs.nactvar
    IN  CASE hasmultret(x.e.k) -> OnFS(x, luaK_ret(tail, x.fs.nactvar, LUA_MULTRET))
          [] ~hasmultret(x.e.k) /\ x.n = 1 -> OnFS(x, luaK_ret(one.fs, one.e.info, 1))
          [] OTHER -> OnFS(x, luaK_ret(LuaAssert(many.fs, x.n = many.fs.freereg - first),
                                       first, x.n))

breakstat(fs) ==
    LET loops == {b \in DOMAIN fs.bl : fs.bl[b].isbreakable}
        b == CHOOSE b \in loops : \A c \in loops : c <= b
        upval == \E c \in b + 1 .. Len(fs.bl) : fs.bl[c].upval
        fs1 == IF upval THEN luaK_codeABC(fs, "CLOSE", fs.bl[b].nactvar, 0, 0) ELSE fs
        fs2 == luaK_jump(fs1)
        list == fs.bl[b].breaklist
    IN  IF loops = {} THEN SyntaxErrorIf(fs, TRUE)
        ELSE [luaK_concat(fs2, list, PC(fs1)) EXCEPT !.bl[b].breaklist = Joined(list, PC(fs1))]

exp1(x) == luaK_exp2nextreg(expr(x))

\* forbody() before its chunk; the jump or OP_FORPREP stands at PC(fs).
OpenFor(fs, base, nvars, isnum) ==
    LET fs1 == adjustlocalvars(fs, 3)
        fs2 == IF isnum THEN luaK_codeABx(fs1, "FORPREP", base, NO_JUMP) ELSE luaK_jump(fs1)
    IN  OpenBlock(luaK_reserveregs(adjustlocalvars(enterblock(fs2, FALSE), nvars), nvars))

CloseFor(fs, base, nvars, isnum, prep) ==
    LET fs1 == luaK_patchtohere(leaveblock(CloseBlock(fs)), prep)
        fs2 == IF isnum THEN luaK_codeABx(fs1, "FORLOOP", base, NO_JUMP)
               ELSE luaK_jump(luaK_codeABC(fs1, "TFORLOOP", base, 0, nvars))
    IN  leaveblock(luaK_patchlist(fs2, PC(fs2) - 1, prep + 1))

\* until: the block is left here, with the whole ceremony if it has upvalues.
CloseRepeat(x, init) ==
    LET condexit == x.e.f
        simple == luaK_patchlist(leaveblock(x.fs), condexit, init)
        left == leaveblock(luaK_patchtohere(breakstat(x.fs), condexit))
        full == luaK_patchlist(luaK_jump(left), PC(left), init)
    IN  leaveblock(IF x.fs.bl[Len(x.fs.bl)].upval THEN full ELSE simple)

\* The jump over the other branches of an if.
Escape(fs, escape) ==
    LET fs1 == luaK_jump(fs)
    IN  [fs |-> luaK_concat(fs1, escape, PC(fs)), list |-> Joined(escape, PC(fs))]

(***************************************************************************)
(* Reading a piece of the program.                                         *)
(*                                                                         *)
(* A construct is what the parser is in the middle of: its kind, the       *)
(* statements of its chunk read so far, the head of its abstract syntax    *)
(* and the local variables of the parser's function.                       *)
(***************************************************************************)
Open(kind, head, loc) == [kind |-> kind, stats |-> <<>>, head |-> head, loc |-> loc]

Pop(s) == SubSeq(s, 1, Len(s) - 1)
Last(s) == s[Len(s)]
WithStat(cs, stat) == [cs EXCEPT ![Len(cs)].stats = Append(@, stat)]

\* The calls of enterlevel that have not returned: one by chunk() for each
\* construct, and one by subexpr() for a function that is an expression.
Levels(cs) ==
    Len(cs) + Cardinality({c \in DOMAIN cs : cs[c].kind = "function"
                                              /\ cs[c].head[1] \in {"local", "return"}})

\* The parser about to read these tokens in the current function.
Reading(p, ts) ==
    [up |-> Pop(p.fss), fs |-> Last(p.fss), ts |-> ts \o <<Token("eos")>>, e |-> Exp("VVOID", 0),
     n |-> 0, lev |-> Levels(p.cs)]

\* The FuncStates and the constructs after the piece; a syntax error, in
\* whichever function it is noticed, ends the compilation.
Goto(p, fss, cs) ==
    IF Levels(cs) > LUAI_MAXCCALLS \/ \E l \in DOMAIN fss : fss[l].err
    THEN [p EXCEPT !.status = "error"]
    ELSE [p EXCEPT !.fss = fss, !.cs = cs]

\* Text left over would be the next statement, and begins none.
UsedUp(x, fs) == SyntaxErrorIf(fs, Tok(x) # "eos")

\* A whole statement was read.
Simple(p, x, stat) == Goto(p, Append(x.up, EndStat(UsedUp(x, x.fs))), WithStat(p.cs, stat))

\* The head of a compound statement was read.
Enter(p, x, fs, construct) == Goto(p, Append(x.up, UsedUp(x, fs)), Append(p.cs, construct))

\* The end of the compound statement on top was read.
Leave(p, x, fs, stat) ==
    Goto(p, Append(x.up, EndStat(UsedUp(x, fs))), WithStat(Pop(p.cs), stat))

(***************************************************************************)
(* Simple statements.                                                      *)
(***************************************************************************)
localstat(p, names, es) ==
    LET declared == [Reading(p, ExpListTokens(es)) EXCEPT !.fs = DeclareLocals(@, names)]
        x == IF es = <<>> THEN declared ELSE explist1(declared)
    IN  Simple(p, EndLocal(x, Len(names)), <<"local", names, es>>)

Assign(p, targets, es) ==
    Simple(p, exprstat(Reading(p, ExpListTokens(targets) \o <<Token("=")>> \o ExpListTokens(es))),
           <<"assign", targets, es>>)

CallStat(p, call) == Simple(p, exprstat(Reading(p, Tokens(call, 0))), <<"call", call>>)

retstat(p, es) ==
    LET x == Reading(p, ExpListTokens(es))
    IN  Simple(p, IF es = <<>> THEN OnFS(x, luaK_ret(x.fs, 0, 0)) ELSE EndReturn(explist1(x)),
               <<"return", es>>)

Break(p) == LET x == Reading(p, <<>>) IN Simple(p, OnFS(x, breakstat(x.fs)), <<"break">>)

(***************************************************************************)
(* Compound statements.                                                    *)
(***************************************************************************)
DoBlock(p) ==
    LET x == Reading(p, <<>>) IN Enter(p, x, OpenBlock(x.fs), Open("do", <<>>, <<>>))

EndDo(p) ==
    LET x == Reading(p, <<>>) IN Leave(p, x, CloseBlock(x.fs), <<"do", Last(p.cs).stats>>)

whilestat(p, c) ==
    LET x0 == Reading(p, Tokens(c, 0))
        x == cond(OnFS(x0, luaK_getlabel(x0.fs)))
    IN  Enter(p, x, OpenBlock(enterblock(x.fs, TRUE)),
              Open("while", <<c>>, [init |-> PC(x0.fs), condexit |-> x.e.f]))

EndWhile(p) ==
    LET x == Reading(p, <<>>)
        top == Last(p.cs)
        fs1 == CloseBlock(x.fs)
        fs2 == leaveblock(luaK_patchlist(luaK_jump(fs1), PC(fs1), top.loc.init))
    IN  Leave(p, x, luaK_patchtohere(fs2, top.loc.condexit), <<"while", top.head[1], top.stats>>)

repeatstat(p) ==
    LET x == Reading(p, <<>>)
    IN  Enter(p, x, enterblock(enterblock(luaK_getlabel(x.fs), TRUE), FALSE),
              Open("repeat", <<>>, [init |-> PC(x.fs)]))

Until(p, c) ==
    LET x == cond(Reading(p, Tokens(c, 0)))
        top == Last(p.cs)
    IN  Leave(p, x, CloseRepeat(x, top.loc.init), <<"repeat", top.stats, c>>)

\* for v = init, limit [, step] do
fornum(p, v, es) ==
    LET x0 == Reading(p, ExpListTokens(es))
        base == x0.fs.freereg
        x1 == [x0 EXCEPT !.fs = DeclareLocals(enterblock(@, TRUE),
                                    <<"(for index)", "(for limit)", "(for step)", v>>)]
        x2 == exp1(luaX_next(exp1(x1)))
        kfs == addk(x2.fs, <<"num", 1>>)
        x3 == IF Tok(x2) = "," THEN exp1(luaX_next(x2))
              ELSE OnFS(x2, luaK_reserveregs(luaK_codeABx(kfs, "LOADK", kfs.freereg,
                                                          KIndex(kfs, <<"num", 1>>)), 1))
    IN  Enter(p, x3, OpenFor(x3.fs, base, 1, TRUE),
              Open("for", <<"fornum", v, es>>,
                   [base |-> base, nvars |-> 1, isnum |-> TRUE, prep |-> PC(x3.fs)]))

\* for names in explist do
forlist(p, names, es) ==
    LET x0 == Reading(p, ExpListTokens(es))
        base == x0.fs.freereg
        x1 == explist1([x0 EXCEPT !.fs = DeclareLocals(enterblock(@, TRUE),
                           <<"(for generator)", "(for state)", "(for control)">> \o names)])
        x2 == adjust_assign(x1, 3, x1.n)
        fs == luaK_checkstack(x2.fs, 3)
    IN  Enter(p, x2, OpenFor(fs, base, Len(names), FALSE),
              Open("for", <<"forin", names, es>>,
                   [base |-> base, nvars |-> Len(names), isnum |-> FALSE, prep |-> PC(fs)]))

EndFor(p) ==
    LET x == Reading(p, <<>>)
        top == Last(p.cs)
        l == top.loc
    IN  Leave(p, x, CloseFor(x.fs, l.base, l.nvars, l.isnum, l.prep), Append(top.head, top.stats))

\* head collects the branches already read; flist is NO_JUMP after an else.
ifstat(p, c) ==
    LET x == cond(Reading(p, Tokens(c, 0)))
    IN  Enter(p, x, OpenBlock(x.fs),
              Open("if", <<>>, [cond |-> c, escape |-> NO_JUMP, flist |-> x.e.f]))

\* The branch on top, read to its end, and the jump over the rest.
NextBranch(p) ==
    LET esc == Escape(CloseBlock(Last(p.fss)), Last(p.cs).loc.escape)
    IN  [esc EXCEPT !.fs = luaK_patchtohere(@, Last(p.cs).loc.flist)]
Branches(top) == Append(top.head, <<top.loc.cond, top.stats>>)

elseif(p, c) ==
    LET n == NextBranch(p)
        x == cond(OnFS(Reading(p, Tokens(c, 0)), n.fs))
    IN  Goto(p, Append(x.up, OpenBlock(UsedUp(x, x.fs))),
             Append(Pop(p.cs), Open("if", Branches(Last(p.cs)),
                                    [cond |-> c, escape |-> n.list, flist |-> x.e.f])))

Else(p) ==
    LET n == NextBranch(p)
    IN  Goto(p, Append(Pop(p.fss), OpenBlock(n.fs)),
             Append(Pop(p.cs), Open("else", Branches(Last(p.cs)), [escape |-> n.list])))

EndIf(p) ==
    LET x == Reading(p, <<>>)
        top == Last(p.cs)
        l == top.loc
        noelse == top.kind = "if"
        fs1 == CloseBlock(x.fs)
    IN  Leave(p, x, IF noelse
                    THEN luaK_patchtohere(luaK_concat(fs1, l.escape, l.flist),
                                          Joined(l.escape, l.flist))
                    ELSE luaK_patchtohere(fs1, l.escape),
              IF noelse THEN <<"if", Branches(top), <<>> >> ELSE <<"if", top.head, top.stats>>)

(***************************************************************************)
(* Functions.  The body is a construct of its own; its head says how the   *)
(* closure is used when the body ends.                                     *)
(***************************************************************************)
OpenFunction(p, x, needself, params, isva, head, v) ==
    Goto(p, Append(Append(x.up, x.fs), OpenBody(needself, params, isva)),
         Append(p.cs, Open("function", head,
             [v |-> v, func |-> <<"func", IF needself THEN <<"self">> \o params ELSE params,
                                  isva>>])))

localfunc(p, name, params, isva) ==
    LET x == Reading(p, <<>>)
        fs == adjustlocalvars(luaK_reserveregs(new_localvar(x.fs, name), 1), 1)
    IN  OpenFunction(p, OnFS(x, fs), FALSE, params, isva, <<"localfunc", name>>,
                     Exp("VLOCAL", x.fs.freereg))

\* function name () or function name.field () or function name:field ()
funcstat(p, name, field_, params, isva) ==
    LET v == singlevar(Reading(p, <<NameToken(name)>> \o
                 (IF field_ = <<>> THEN <<>> ELSE <<Token("."), NameToken(field_[2])>>)))
        x == IF field_ = <<>> THEN v ELSE field(v)
        target == IF field_ = <<>> THEN <<"var", name>>
                  ELSE <<"index", <<"var", name>>, <<"str", field_[2]>> >>
    IN  OpenFunction(p, x, field_ # <<>> /\ field_[1] = ":", params, isva, <<"assign", target>>, x.e)

\* local name = function ... end
LocalFunctionExp(p, name, params, isva) ==
    LET x == Reading(p, <<>>)
    IN  OpenFunction(p, [x EXCEPT !.fs = new_localvar(@, name)], FALSE, params, isva,
                     <<"local", name>>, x.e)

\* return function ... end
ReturnFunction(p, params, isva) ==
    LET x == Reading(p, <<>>) IN OpenFunction(p, x, FALSE, params, isva, <<"return">>, x.e)

EndFunction(p) ==
    LET func == Last(p.fss)
        top == Last(p.cs)
        outer == [Reading([p EXCEPT !.fss = Pop(@), !.cs = Pop(@)], <<>>) EXCEPT !.n = 1]
        proto == close_func(func)
        x == pushclosure([outer EXCEPT !.fs.ok = @ /\ proto.ok], func, proto)
        stored == luaK_storevar(x, top.loc.v)
        exp == Append(top.loc.func, top.stats)
        use == top.head[1]
    IN  CASE use = "localfunc" ->
                Leave(p, stored,
                      [stored.fs EXCEPT !.locvars[x.fs.actvar[x.fs.nactvar]].startpc = PC(stored.fs)],
                      Append(top.head, exp))
          [] use = "assign" -> Leave(p, stored, stored.fs, <<"assign", <<top.head[2]>>, <<exp>> >>)
          [] use = "local" ->
                LET y == EndLocal(x, 1)
                IN  Leave(p, y, y.fs, <<"local", <<top.head[2]>>, <<exp>> >>)
          [] use = "return" -> LET y == EndReturn(x) IN Leave(p, y, y.fs, <<"return", <<exp>> >>)

End(p) ==
    LET kind == Last(p.cs).kind
    IN  CASE kind = "do" -> EndDo(p)
          [] kind = "while" -> EndWhile(p)
          [] kind = "for" -> EndFor(p)
          [] kind \in {"if", "else"} -> EndIf(p)
          [] kind = "function" -> EndFunction(p)

(***************************************************************************)
(* The dispatch of statement(), on a piece s.                              *)
(***************************************************************************)
statement(p, s) ==
    CASE s[1] = "local" -> localstat(p, s[2], s[3])
      [] s[1] = "assign" -> Assign(p, s[2], s[3])
      [] s[1] = "call" -> CallStat(p, s[2])
      [] s[1] = "return" -> retstat(p, s[2])
      [] s[1] = "break" -> Break(p)
      [] s[1] = "do" -> DoBlock(p)
      [] s[1] = "while" -> whilestat(p, s[2])
      [] s[1] = "repeat" -> repeatstat(p)
      [] s[1] = "until" -> Until(p, s[2])
      [] s[1] = "fornum" -> fornum(p, s[2], s[3])
      [] s[1] = "forin" -> forlist(p, s[2], s[3])
      [] s[1] = "if" -> ifstat(p, s[2])
      [] s[1] = "elseif" -> elseif(p, s[2])
      [] s[1] = "else" -> Else(p)
      [] s[1] = "localfunc" -> localfunc(p, s[2], s[3], s[4])
      [] s[1] = "func" -> funcstat(p, s[2], s[3], s[4], s[5])
      [] s[1] = "localfunexp" -> LocalFunctionExp(p, s[2], s[3], s[4])
      [] s[1] = "retfun" -> ReturnFunction(p, s[2], s[3])
      [] s[1] = "end" -> End(p)

RECURSIVE chunk(_, _)
chunk(p, text) ==
    IF text = <<>> \/ p.status = "error" THEN p ELSE chunk(statement(p, text[1]), Tail(text))

luaY_parser(text) ==
    LET p == chunk([fss |-> <<[open_func EXCEPT !.is_vararg = TRUE]>>,
                    cs |-> <<Open("main", <<>>, <<>>)>>,
                    status |-> "parsing", main |-> <<>>, prog |-> <<>>], text)
    IN  IF p.status = "error" THEN p
        ELSE [p EXCEPT !.main = close_func(p.fss[1]), !.prog = p.cs[1].stats, !.status = "done"]
============================================================================
