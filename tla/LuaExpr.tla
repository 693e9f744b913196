------------------------------ MODULE LuaExpr ------------------------------
(***************************************************************************)
(* The part of the parser (lparser.c) that reads expressions, calling the  *)
(* code generator as it goes: variables and upvalues, constructors, calls, *)
(* operator precedence.                                                    *)
(*                                                                         *)
(* The parser's functions take and return a record x:                      *)
(*   ts   the tokens not read yet, the last of them "eos"                  *)
(*   up   the FuncStates of the enclosing functions, outermost first       *)
(*   fs   the FuncState of the function being compiled                     *)
(*   e    the expression just read                                         *)
(*   n    how many expressions explist1 read                               *)
(*   lev  how deep the recursion of the parser is (L->nCcalls)             *)
(* Tokens are records: t is the token, v its name, number or string.       *)
(***************************************************************************)
EXTENDS LuaCode

CONSTANTS
    LUAI_MAXVARS,       \* local variables of a function
    LUAI_MAXUPVALUES,   \* upvalues of a function
    LUAI_MAXCCALLS      \* nested syntax levels

ASSUME ParserLimits == {LUAI_MAXVARS, LUAI_MAXUPVALUES, LUAI_MAXCCALLS} \subseteq Nat \ {0}

Tok(x) == Head(x.ts).t
luaX_next(x) == IF Tok(x) = "eos" THEN x ELSE [x EXCEPT !.ts = Tail(@)]
check(x, c) == OnFS(x, SyntaxErrorIf(x.fs, Tok(x) # c))
checknext(x, c) == luaX_next(check(x, c))

(***************************************************************************)
(* Local variables.  actvar lists the active variables and the ones being  *)
(* declared; each is an index of locvars.                                  *)
(***************************************************************************)
registerlocalvar(fs, name) ==
    [fs EXCEPT !.locvars = Append(@, [name |-> name, startpc |-> NO_JUMP, endpc |-> NO_JUMP])]

new_localvar(fs, name) ==
    LET fs1 == registerlocalvar(SyntaxErrorIf(fs, Len(fs.actvar) + 1 > LUAI_MAXVARS), name)
    IN  [fs1 EXCEPT !.actvar = Append(@, Len(fs1.locvars))]

adjustlocalvars(fs, nvars) ==
    LET new == {fs.actvar[n] : n \in fs.nactvar + 1 .. fs.nactvar + nvars}
    IN  [fs EXCEPT !.nactvar = @ + nvars,
                   !.locvars = [i \in 1 .. Len(@) |->
                        IF i \in new THEN [@[i] EXCEPT !.startpc = PC(fs)] ELSE @[i]]]

removevars(fs, tolevel) ==
    LET old == {fs.actvar[n] : n \in tolevel + 1 .. fs.nactvar}
    IN  [fs EXCEPT !.nactvar = tolevel, !.actvar = SubSeq(@, 1, tolevel),
                   !.locvars = [i \in 1 .. Len(@) |->
                        IF i \in old THEN [@[i] EXCEPT !.endpc = PC(fs)] ELSE @[i]]]

searchvar(fs, name) ==
    LET found == {i \in 0 .. fs.nactvar - 1 : fs.locvars[fs.actvar[i + 1]].name = name}
    IN  IF found = {} THEN -1 ELSE CHOOSE i \in found : \A j \in found : j <= i

(***************************************************************************)
(* Upvalues.                                                               *)
(***************************************************************************)
\* The variable v = [k, info] of the enclosing function as an upvalue of fs.
indexupvalue(fs, name, v) ==
    LET same(i) == fs.upvalues[i].k = v.k /\ fs.upvalues[i].info = v.info
        old == {i \in DOMAIN fs.upvalues : same(i)}
        nups == Len(fs.upvalues)
    IN  IF old # {}
        THEN LET i == CHOOSE i \in old : \A j \in old : i <= j
             IN  [fs |-> LuaAssert(fs, fs.upvalues[i].name = name), i |-> i - 1]
        ELSE [fs |-> [SyntaxErrorIf(fs, nups + 1 > LUAI_MAXUPVALUES) EXCEPT
                        !.upvalues = Append(@, [k |-> v.k, info |-> v.info, name |-> name])],
              i |-> nups]

\* Mutant: the block does not learn that a closure captures its variable.
markupval_none(fs, level) == fs

\* The innermost block that declares the variable must close it when left.
markupval(fs, level) ==
    LET outer == {b \in DOMAIN fs.bl : fs.bl[b].nactvar <= level}
    IN  IF outer = {} THEN fs
        ELSE [fs EXCEPT !.bl[CHOOSE b \in outer : \A c \in outer : c <= b].upval = TRUE]

\* Searches name in the functions fss[1 .. l], innermost first.
RECURSIVE singlevaraux(_, _, _, _)
singlevaraux(fss, l, name, base) ==
    IF l = 0 THEN [fss |-> fss, k |-> "VGLOBAL", info |-> NO_REG]
    ELSE LET v == searchvar(fss[l], name)
             r == singlevaraux(fss, l - 1, name, FALSE)
             u == indexupvalue(r.fss[l], name, r)
         IN  CASE v >= 0 ->
                    [fss |-> IF base THEN fss ELSE [fss EXCEPT ![l] = markupval(@, v)],
                     k |-> "VLOCAL", info |-> v]
               [] v < 0 /\ r.k = "VGLOBAL" -> r
               [] OTHER -> [fss |-> [r.fss EXCEPT ![l] = u.fs], k |-> "VUPVAL", info |-> u.i]

luaK_stringK(x, s) ==
    LET kfs == addk(x.fs, <<"str", <<s>>>>) IN [fs |-> kfs, i |-> KIndex(kfs, <<"str", <<s>>>>)]

singlevar(x0) ==
    LET name == Head(x0.ts).v
        x == checknext(x0, "name")
        r == singlevaraux(Append(x.up, x.fs), Len(x.up) + 1, name, TRUE)
        y == [x EXCEPT !.up = SubSeq(r.fss, 1, Len(x.up)), !.fs = r.fss[Len(r.fss)]]
        s == luaK_stringK(y, name)
    IN  IF r.k = "VGLOBAL" THEN [y EXCEPT !.fs = s.fs, !.e = Exp("VGLOBAL", s.i)]
        ELSE [y EXCEPT !.e = Exp(r.k, r.info)]

\* Reads a name (or a string) as a constant.
codestring(x) ==
    LET s == luaK_stringK(x, Head(x.ts).v)
    IN  luaX_next([x EXCEPT !.fs = s.fs, !.e = Exp("VK", s.i)])
checkname(x) == codestring(check(x, "name"))

adjust_assign(x, nvars, nexps) ==
    LET extra == nvars - nexps
        more == IF extra + 1 < 0 THEN 0 ELSE extra + 1
        set == luaK_setreturns(x, more)
        closed == IF x.e.k # "VVOID" THEN luaK_exp2nextreg(x) ELSE x
    IN  IF hasmultret(x.e.k)
        THEN IF more > 1 THEN OnFS(set, luaK_reserveregs(set.fs, more - 1)) ELSE set
        ELSE IF extra > 0
             THEN OnFS(closed, luaK_nil(luaK_reserveregs(closed.fs, extra),
                                        closed.fs.freereg, extra))
             ELSE closed

(***************************************************************************)
(* The grammar of expressions.                                             *)
(***************************************************************************)
priority == [op \in {"+", "-", "*", "/", "%", "^", "..", "==", "~=", "<", "<=", ">", ">=",
                     "and", "or"} |->
    CASE op \in {"+", "-"} -> <<6, 6>>
      [] op \in {"*", "/", "%"} -> <<7, 7>>
      [] op = "^" -> <<10, 9>>
      [] op = ".." -> <<5, 4>>
      [] op = "and" -> <<2, 2>>
      [] op = "or" -> <<1, 1>>
      [] OTHER -> <<3, 3>>]
UNARY_PRIORITY == 8
getbinopr(t) == t \in DOMAIN priority
getunopr(t) == t \in {"not", "-", "#"}

RECURSIVE luaO_int2fb(_, _)
luaO_int2fb(n, e) ==
    IF n >= 16 THEN luaO_int2fb((n + 1) \div 2, e + 1)
    ELSE IF n < 8 THEN n ELSE ((e + 1) * 8) + (n - 8)

RECURSIVE subexpr(_, _), Binary(_, _), Suffixes(_), explist1(_), ExpList(_, _), ConsFields(_, _),
          constructor(_), funcargs(_)

expr(x) == subexpr(x, 0)

field(x) ==
    LET k == checkname(luaX_next(luaK_exp2anyreg(x)))
        t == luaK_exp2anyreg(x).e
    IN  luaK_indexed([k EXCEPT !.e = t], k.e)

yindex(x) == checknext(luaK_exp2val(expr(luaX_next(x))), "]")

\* A table constructor: cc is the struct ConsControl, kept beside x.
recfield(x, cc) ==
    LET key == luaK_exp2RK(checknext(IF Tok(x) = "name" THEN checkname(x) ELSE yindex(x), "="))
        val == luaK_exp2RK(expr(key))
    IN  [x |-> OnFS(val, [luaK_codeABC(val.fs, "SETTABLE", cc.t, RK(key.e), RK(val.e))
                          EXCEPT !.freereg = x.fs.freereg]),
         cc |-> [cc EXCEPT !.nh = @ + 1]]

closelistfield(x, cc) ==
    LET y == luaK_exp2nextreg([x EXCEPT !.e = cc.v])
        full == cc.tostore = LFIELDS_PER_FLUSH
    IN  IF cc.v.k = "VVOID" THEN [x |-> x, cc |-> cc]
        ELSE [x |-> OnFS(x, IF full THEN luaK_setlist(y.fs, cc.t, cc.na, cc.tostore) ELSE y.fs),
              cc |-> [cc EXCEPT !.v.k = "VVOID", !.tostore = IF full THEN 0 ELSE @]]

lastlistfield(x, cc) ==
    LET v == [x EXCEPT !.e = cc.v]
        multi == luaK_setmultret(v)
        one == IF cc.v.k # "VVOID" THEN luaK_exp2nextreg(v) ELSE v
    IN  CASE cc.tostore = 0 -> [x |-> x, cc |-> cc]
          [] cc.tostore # 0 /\ hasmultret(cc.v.k) ->
                [x |-> OnFS(multi, luaK_setlist(multi.fs, cc.t, cc.na, LUA_MULTRET)),
                 cc |-> [cc EXCEPT !.na = @ - 1]]
          [] OTHER -> [x |-> OnFS(one, luaK_setlist(one.fs, cc.t, cc.na, cc.tostore)), cc |-> cc]

listfield(x, cc) ==
    LET y == expr(x)
    IN  [x |-> y, cc |-> [cc EXCEPT !.v = y.e, !.na = @ + 1, !.tostore = @ + 1]]

ConsFields(x, cc) ==
    LET x1 == OnFS(x, LuaAssert(x.fs, cc.v.k = "VVOID" \/ cc.tostore > 0))
        c == closelistfield(x1, cc)
        isrec == Tok(x) = "[" \/ (Tok(x) = "name" /\ x.ts[2].t = "=")
        r == IF isrec THEN recfield(c.x, c.cc) ELSE listfield(c.x, c.cc)
    IN  IF Tok(x) = "}" THEN [x |-> x1, cc |-> cc]
        ELSE IF Tok(r.x) \in {",", ";"} THEN ConsFields(luaX_next(r.x), r.cc) ELSE r

constructor(x) ==
    LET pc == PC(x.fs)
        x1 == luaK_exp2nextreg([x EXCEPT !.fs = luaK_codeABC(@, "NEWTABLE", 0, 0, 0),
                                         !.e = Exp("VRELOCABLE", pc)])
        c == ConsFields(checknext(x1, "{"),
                 [v |-> Exp("VVOID", 0), t |-> x1.e.info, nh |-> 0, na |-> 0, tostore |-> 0])
        l == lastlistfield(checknext(c.x, "}"), c.cc)
    IN  [l.x EXCEPT !.fs.code[pc + 1] = [@ EXCEPT !.b = luaO_int2fb(l.cc.na, 0),
                                                  !.c = luaO_int2fb(l.cc.nh, 0)],
                    !.e = x1.e]

ExpList(x, n) ==
    IF Tok(x) = "," THEN ExpList(expr(luaX_next(luaK_exp2nextreg(x))), n + 1)
    ELSE [x EXCEPT !.n = n]
explist1(x) == ExpList(expr(x), 1)

\* x.e is the function, in a register.
funcargs(x) ==
    LET base == x.e.info
        args == CASE Tok(x) = "(" ->
                       LET y == luaX_next(x)
                       IN  checknext(IF Tok(y) = ")" THEN [y EXCEPT !.e = Exp("VVOID", 0)]
                                     ELSE luaK_setmultret(explist1(y)), ")")
                  [] Tok(x) = "{" -> constructor(x)
                  [] Tok(x) = "str" -> codestring(x)
                  [] OTHER -> OnFS(x, SyntaxErrorIf(x.fs, TRUE))
        open == hasmultret(args.e.k)
        fs1 == LuaAssert(IF open \/ args.e.k = "VVOID" THEN args.fs
                         ELSE luaK_exp2nextreg(args).fs, x.e.k = "VNONRELOC")
        nparams == IF open THEN LUA_MULTRET ELSE fs1.freereg - (base + 1)
        fs2 == luaK_codeABC(fs1, "CALL", base, nparams + 1, 2)
    IN  [args EXCEPT !.fs = [fs2 EXCEPT !.freereg = base + 1], !.e = Exp("VCALL", PC(fs2) - 1)]

prefixexp(x) ==
    CASE Tok(x) = "(" -> luaK_dischargevars(checknext(expr(luaX_next(x)), ")"))
      [] Tok(x) = "name" -> singlevar(x)
      [] OTHER -> OnFS(x, SyntaxErrorIf(x.fs, TRUE))

\* The loop of primaryexp.
Suffixes(x) ==
    LET t == luaK_exp2anyreg(x)
        i == yindex(t)
        m == checkname(luaX_next(x))
    IN  CASE Tok(x) = "." -> Suffixes(field(x))
          [] Tok(x) = "[" -> Suffixes(luaK_indexed([i EXCEPT !.e = t.e], i.e))
          [] Tok(x) = ":" -> Suffixes(funcargs(luaK_self([m EXCEPT !.e = x.e], m.e)))
          [] Tok(x) \in {"(", "str", "{"} -> Suffixes(funcargs(luaK_exp2nextreg(x)))
          [] OTHER -> x

primaryexp(x) == Suffixes(prefixexp(x))

simpleexp(x) ==
    LET Read(e) == luaX_next([x EXCEPT !.e = e])
    IN  CASE Tok(x) = "num" -> Read(Exp("VKNUM", Head(x.ts).v))
          [] Tok(x) = "str" -> codestring(x)
          [] Tok(x) = "nil" -> Read(Exp("VNIL", 0))
          [] Tok(x) = "true" -> Read(Exp("VTRUE", 0))
          [] Tok(x) = "false" -> Read(Exp("VFALSE", 0))
          [] Tok(x) = "..." ->
                luaX_next([x EXCEPT
                    !.fs = luaK_codeABC([SyntaxErrorIf(@, ~@.is_vararg) EXCEPT !.needsarg = FALSE],
                                        "VARARG", 0, 1, 0),
                    !.e = Exp("VVARARG", PC(x.fs))])
          [] Tok(x) = "{" -> constructor(x)
          [] OTHER -> primaryexp(x)

\* The loop of subexpr: operators that bind tighter than limit.
Binary(x, limit) ==
    LET op == Tok(x)
        first == luaK_infix(luaX_next(x), op)
        second == subexpr(first, priority[op][2])
    IN  IF getbinopr(op) /\ priority[op][1] > limit
        THEN Binary(luaK_posfix(second, op, first.e), limit) ELSE x

enterlevel(x) == [x EXCEPT !.lev = @ + 1, !.fs = SyntaxErrorIf(@, x.lev + 1 > LUAI_MAXCCALLS)]
leavelevel(x) == [x EXCEPT !.lev = @ - 1]

subexpr(x0, limit) ==
    LET x == enterlevel(x0)
        operand == IF getunopr(Tok(x))
                   THEN luaK_prefix(subexpr(luaX_next(x), UNARY_PRIORITY), Tok(x))
                   ELSE simpleexp(x)
    IN  leavelevel(Binary(operand, limit))
============================================================================
