--------------------------- MODULE MCLuaCompiler ---------------------------
(***************************************************************************)
(* The programs TLC compiles, runs and compares: one menu per theme.       *)
(***************************************************************************)
EXTENDS LuaCompiler

Var(x) == <<"var", x>>
N(n) == <<"num", n>>
Lit(s) == <<"str", s>>
B(op, a, b) == <<"bin", op, a, b>>
U(op, a) == <<"un", op, a>>
CallOf(f, args) == <<"call", f, args>>
At(t, k) == <<"index", t, k>>
Item(e) == <<"item", e>>
Dots == <<"dots">>
Paren(e) == <<"paren", e>>
Table(items) == <<"table", items>>
Times(n, offer) == [i \in 1 .. n |-> offer]
Local(x, e) == << <<x>>, <<e>> >>
SetTo(t, e) == << <<t>>, <<e>> >>

Host == [k \in {Str("echo"), Str("iter"), Str("setmt")} |-> <<"C", k[2][1]>>]
Menu(offers) == [offers |-> offers, globals |-> {Host}]
ArgsV == <<Num(7), Num(8)>>

\* and, or, not and comparisons as values; the globals a and b are set or not.
Tested == {Host} \cup
    {Host @@ (Str("a") :> va) @@ (Str("b") :> vb) : va \in {Bool(TRUE), Num(1)},
                                                    vb \in {Bool(FALSE), Num(2)}}
Atoms == {Var("a"), Var("b"), <<"nil">>, <<"false">>, <<"true">>, N(1)}
Logic1 == {B(op, x, y) : op \in {"and", "or", "=="}, x, y \in Atoms} \cup {U("not", x) : x \in Atoms}
Logic2 == {B(op, x, y) : op \in {"and", "or"}, x \in Logic1, y \in Atoms}
Simplest == {Var("a"), Var("b"), <<"nil">>}
Logic3 == {B(o1, B(o2, x, y), U("not", B(o3, y, x))) : o1, o2, o3 \in {"and", "or"},
                                                       x, y \in Simplest}
Logic == [offers |-> << [Nothing EXCEPT !.returns = {<<e>> : e \in Logic1 \cup Logic2 \cup Logic3}] >>,
          globals |-> Tested]

\* Loops and branches: jumps out of and around blocks.
OneX == [Nothing EXCEPT !.locals = {Local("x", N(1))}]
IncX == SetTo(Var("x"), B("+", Var("x"), N(1)))
XBelow3 == B("<", Var("x"), N(3))
XFrom2 == B(">=", Var("x"), N(2))
Loops == Menu(<<OneX>>
    \o Times(3, [Nothing EXCEPT
        !.assigns = {IncX}, !.whiles = {XBelow3}, !.until = {XFrom2},
        !.ifs = {B("==", Var("x"), N(2))}, !.elseifs = {XFrom2}, !.else = TRUE, !.break = TRUE])
    \o << [Nothing EXCEPT !.returns = {<<Var("x")>>}, !.until = {<<"true">>}, !.break = TRUE] >>)

\* Closures: variables that outlive their block, loops that make a new one at
\* every turn.
Closures == Menu(<<OneX,
    [Nothing EXCEPT !.do = TRUE, !.whiles = {XBelow3}, !.until = {XFrom2},
                    !.fornums = {<<"x", <<N(1), N(2)>> >>, <<"x", <<N(2), N(1), U("-", N(1))>> >>},
                    !.forlists = {<< <<"x">>, <<Var("iter")>> >>}],
    [OneX EXCEPT !.assigns = {IncX}],
    [Nothing EXCEPT !.localfuncs = {<<"f", <<>>, FALSE>>}, !.funcs = {<<"g", <<>>, <<>>, FALSE>>}],
    [Nothing EXCEPT !.assigns = {IncX}, !.returns = {<<Var("x")>>}],
    [Nothing EXCEPT !.assigns = {SetTo(Var("g"), Var("f")), IncX}, !.break = TRUE,
                    !.until = {XFrom2}],
    [Nothing EXCEPT !.returns = {<<Var("x"), CallOf(Var("g"), <<>>)>>}, !.until = {XFrom2}] >>)

\* Upvalues of upvalues.
Counter == Menu(<<
    [Nothing EXCEPT !.localfunexps = {<<"new", <<"x">>, FALSE>>},
                    !.localfuncs = {<<"new", <<"x">>, TRUE>>}],
    [Nothing EXCEPT !.localfuncs = {<<"f", <<>>, FALSE>>}, !.do = TRUE,
                    !.locals = {Local("y", Var("x"))}],
    [Nothing EXCEPT !.retfuns = {<< <<>>, FALSE>>, << <<"y">>, TRUE>>}],
    [Nothing EXCEPT !.assigns = {IncX}],
    [Nothing EXCEPT !.returns = {<<Var("x")>>, <<Var("x"), Var("y"), Dots>>, <<Var("new")>>}],
    [Nothing EXCEPT !.returns = {<<Var("f")>>},
                    !.locals = {Local("c", CallOf(Var("new"), <<N(5)>>))}],
    [Nothing EXCEPT !.returns = {<<CallOf(Var("c"), <<N(3)>>), CallOf(Var("c"), <<N(4), N(6)>>)>>,
                                 <<CallOf(CallOf(Var("c"), <<>>), <<>>)>>}] >>)

\* Calls: parameters, varargs, results, tail calls.
F(args) == CallOf(Var("f"), args)
Lists == {<<F(<<N(1)>>)>>, <<F(<<N(1), N(2), N(3)>>), N(4)>>, <<F(<<F(<<N(1), N(2)>>), Dots>>)>>,
          <<N(1), F(<<Dots>>)>>, <<Paren(F(<<N(1), N(2)>>))>>, <<>>, <<Dots>>,
          <<Table(<<Item(F(<<N(1)>>)), Item(F(<<Dots>>))>>)>>,
          <<CallOf(Var("echo"), <<F(<<Dots>>)>>)>>}
Calls == Menu(<<
    [Nothing EXCEPT !.localfuncs = {<<"f", <<"p", "q">>, FALSE>>, <<"f", <<"p">>, TRUE>>},
                    !.funcs = {<<"f", <<>>, <<>>, TRUE>>}],
    [Nothing EXCEPT !.locals = {<< <<"x", "y">>, <<Dots>> >>, << <<"x", "y">>, <<Var("p")>> >>,
                                << <<"x">>, <<Var("q"), Var("p")>> >>},
                    !.forlists = {<< <<"x", "y">>, <<Var("iter")>> >>}],
    [Nothing EXCEPT !.returns = {<<Var("x"), Var("y")>>, <<Dots>>, <<Var("p"), Dots>>, <<>>,
                                 <<CallOf(Var("echo"), <<Var("x"), Var("q"), Dots>>)>>,
                                 <<Paren(Dots)>>}],
    [Nothing EXCEPT !.returns = Lists, !.locals = {<< <<"x", "y", "z">>, es>> : es \in Lists}],
    [Nothing EXCEPT !.returns = {<<Var("x"), Var("y"), Var("z")>>}] >>)

\* Tables: constructors of several batches, multiple assignment, methods.
Items1(n) == [i \in 1 .. n |-> Item(N(i))]
Tabs == {Items1(n) : n \in {1, 2, 3, 5}} \cup
        {<<Item(Dots)>>, <<Item(N(4)), Item(N(5)), Item(Dots)>>, <<Item(Dots), Item(Dots)>>,
         <<Item(N(4)), <<"named", "k", B("==", N(1), N(1))>>, Item(N(5)), <<"rec", "j", N(6)>>,
           Item(N(7))>>}
TI == At(Var("t"), Var("i"))
T1 == At(Var("t"), N(1))
TK == At(Var("t"), Lit("k"))
Assigns == {<< <<Var("i"), TI>>, <<B("+", Var("i"), N(1)), N(20)>> >>,
            << <<TI, Var("i")>>, <<N(20), N(2)>> >>,
            << <<Var("t"), T1>>, <<<<"nil">>, N(3)>> >>,
            << <<T1, Var("t"), TI>>, <<N(3), N(9)>> >>,
            << <<T1, TK>>, <<TK, T1>> >>, << <<TI, TK>>, <<Dots>> >>,
            << <<Var("i")>>, <<T1, Var("j"), N(3)>> >>,
            << <<Var("i"), Var("j")>>, <<CallOf(Var("echo"), <<Var("j"), Var("i")>>)>> >>,
            << <<TK>>, <<B("or", TK, B("<", Var("i"), N(2)))>> >>}
Tables == Menu(<<
    [Nothing EXCEPT !.locals = {<< <<"i", "t">>, <<N(1), Table(items)>> >> : items \in Tabs}],
    [Nothing EXCEPT !.assigns = Assigns,
                    !.funcs = {<<"t", <<":", "k">>, <<"p">>, FALSE>>, <<"t", <<".", "k">>, <<>>, TRUE>>}],
    [Nothing EXCEPT !.returns = {<<Var("t"), Var("i"), Var("j")>>, <<At(Var("self"), N(1)), Var("p")>>}],
    [Nothing EXCEPT !.returns = {<<U("#", Var("t")),
                                   <<"method", Var("t"), "k", <<Var("i"), Dots>> >> >>}] >>)

\* Arithmetic: precedence, constant folding, operands in constants.
Operands == {N(1), N(3), Var("x")}
Ariths == {B(op, x, y) : op \in {"+", "-", "*", "/", "%", "^"}, x \in Operands, y \in {N(1), Var("x")}}
            \cup {U("-", x) : x \in Operands}
Orders == {B(op, x, y) : op \in {"<", "<=", ">", ">=", "~=", "=="}, x \in Operands, y \in {N(3), Var("x")}}
Nested == {B(op, x, y) : op \in {"-", "^"}, x \in Ariths, y \in {N(2), Var("x")}}
    \cup {B(op, y, x) : op \in {"-", "*"}, x \in Ariths, y \in {N(2), Var("x")}}
    \cup {U("-", x) : x \in Ariths} \cup {U("not", x) : x \in Orders}
    \cup {B("..", Lit("s"), B("..", x, Lit("e"))) : x \in Operands \cup {<<"nil">>}}
    \cup {B("..", B("..", Var("x"), N(1)), Var("x")), U("#", Lit("s")), U("#", Var("x")),
          U("-", U("-", N(1)))}
    \cup {B("and", x, y) : x \in Orders, y \in Orders}
Arithmetic == Menu(<< [Nothing EXCEPT !.locals = {Local("x", N(3))}],
    [Nothing EXCEPT !.returns = {<<e>> : e \in Ariths \cup Orders \cup Nested}, !.ifs = Orders],
    [Nothing EXCEPT !.returns = {<<Var("x")>>}] >>)

\* Metamethods.
Events == {"__index", "__newindex", "__add", "__sub", "__mul", "__div", "__mod", "__pow", "__unm",
           "__call", "__eq", "__lt", "__le", "__concat"}
Obj == Var("o")
NewObj == CallOf(Var("setmt"), <<Table(<<>>), Var("m")>>)
Uses == {At(Obj, Lit("k")), B("+", Obj, N(1)), B("-", N(1), Obj), B("*", Obj, Obj),
         B("/", Obj, N(1)), B("%", Obj, N(1)), B("^", N(2), Obj), U("-", Obj),
         CallOf(Obj, <<N(1), N(2)>>), B("==", Obj, NewObj), B("~=", Obj, Obj), B("<", Obj, NewObj),
         B(">=", Obj, NewObj), B("<=", Obj, N(1)), B("..", Obj, Lit("s")),
         B("..", Lit("s"), B("..", Obj, B("..", N(1), N(2)))), <<"method", Obj, "k", <<N(3)>> >>}
Meta == Menu(<<
    [Nothing EXCEPT !.locals = {Local("m", Table(<<>>)),
        Local("m", Table(<< <<"named", "__index", Var("echo")>>, <<"named", "__newindex", Var("echo")>> >>))}],
    [Nothing EXCEPT !.funcs = {<<"m", <<".", ev>>, <<"p", "q">>, FALSE>> : ev \in Events}],
    [Nothing EXCEPT !.returns = {<<Var("q"), Var("p")>>, <<CallOf(Var("echo"), <<Var("p"), Var("q")>>)>>}],
    [Nothing EXCEPT !.locals = {Local("o", NewObj)}],
    [Nothing EXCEPT !.returns = {<<e>> : e \in Uses}, !.assigns = {SetTo(At(Obj, Lit("k")), N(1))}] >>)

\* Programs at the limits, and what the compiler refuses.
RECURSIVE Nest(_)
Nest(n) == IF n = 0 THEN N(1) ELSE Paren(Nest(n - 1))
Copies(n, x) == [i \in 1 .. n |-> x]
Limits == Menu(<<
    [Nothing EXCEPT !.locals = {<< <<"c", "d", "e", "g", "h">>, <<N(1)>> >>},
        !.returns = {<<Nest(n)>> : n \in {7, 8, 9, 10}}, !.break = TRUE,
        !.assigns = {<<Copies(n, Var("x")), <<N(1)>> >> : n \in {8, 9, 10, 11}}
                      \cup {SetTo(F(<<>>), N(1))},
        !.calls = {CallOf(Var("echo"), Copies(n, Var("x"))) : n \in {17, 18, 19}} \cup {Var("x")}],
    [Nothing EXCEPT !.funcs = {<<"f", <<>>, <<>>, FALSE>>},
                    !.locals = {<<Copies(n, "c"), <<>> >> : n \in {7, 8}}],
    [Nothing EXCEPT !.returns = {<<Var("c"), Var("d"), Var("e"), Var("g")>>,
                                 <<Var("c"), Var("d"), Var("e"), Var("g"), Var("h")>>, <<Dots>>}],
    [Nothing EXCEPT !.returns = {<<F(<<>>)>>}] >>)

MenusV == {Logic, Loops, Closures, Counter, Calls, Tables, Arithmetic, Meta, Limits}

\* ((x and y) or false) and true: a constant in the middle of a condition.
ConstantOperand == {Menu(<< [Nothing EXCEPT !.locals = {<< <<"x", "y">>, <<v, w>> >> : v, w \in
                                                        {<<"nil">>, <<"false">>, <<"true">>}}],
    [Nothing EXCEPT !.returns =
        {<<B("and", B("or", B(op, Var("x"), Var("y")), <<"false">>), <<"true">>)>> : op \in {"and", "or"}}],
    Nothing >>)}
============================================================================
