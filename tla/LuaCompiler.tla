---------------------------- MODULE LuaCompiler ----------------------------
(***************************************************************************)
(* The compiler, its verifier, the precompiler and the virtual machine     *)
(* together: what programs do when the parser of LuaParser compiles them   *)
(* and the machine of LuaVM runs them, against what LuaRef says they mean. *)
(*                                                                         *)
(* The state is a program being written, one piece at a step, from the     *)
(* texts a menu offers; the actions follow the grammar.  When the program  *)
(* is complete, the properties compile it and run it.                      *)
(***************************************************************************)
EXTENDS LuaParser, LuaDump, LuaRef

CONSTANTS
    Menus,       \* records: offers, what each statement of the program may be (see
                 \* LuaSyntax), and globals, the states the program may start in
    Args,        \* the arguments of the main function
    MaxBlocks,   \* the longest chunk, in blocks
    Cuts         \* how many blocks a broken-off chunk lacks

VARIABLES
    menu,     \* the member of Menus this program is written from
    text,     \* the pieces written so far
    open,     \* the kinds of the compound statements not ended yet, outermost first
    last,     \* no statement may follow in the current block (return, break)
    nstat,    \* statements written so far
    written   \* the program is complete

vars == <<menu, text, open, last, nstat, written>>

Init == /\ menu \in Menus
        /\ text = <<>> /\ open = <<>> /\ last = FALSE /\ nstat = 0 /\ written = FALSE

\* What the program may contain next.
Offer == menu.offers[IF nstat < Len(menu.offers) THEN nstat + 1 ELSE Len(menu.offers)]
InBlock(kind) == ~written /\ open # <<>> /\ Last(open) = kind
MayGoOn == ~written /\ nstat < Len(menu.offers)

Write(piece, kinds, islast, n) ==
    /\ text' = Append(text, piece)
    /\ open' = kinds
    /\ last' = islast
    /\ nstat' = nstat + n
    /\ UNCHANGED <<menu, written>>

Simple1(piece) == MayGoOn /\ ~last /\ Write(piece, open, FALSE, 1)
Final(piece) == MayGoOn /\ ~last /\ Write(piece, open, TRUE, 1)
Begin(piece, kind) == MayGoOn /\ ~last /\ Write(piece, Append(open, kind), FALSE, 1)
ElseIf(c) == InBlock("if") /\ MayGoOn /\ Write(<<"elseif", c>>, open, FALSE, 1)
ElseBranch == InBlock("if") /\ MayGoOn /\ Offer.else
                /\ Write(<<"else">>, Append(Pop(open), "else"), FALSE, 1)
UntilEnd(c) == InBlock("repeat") /\ Write(<<"until", c>>, Pop(open), FALSE, 0)
EndBlock(kind) == InBlock(kind) /\ Write(<<"end">>, Pop(open), kind = "return", 0)
EndText == /\ ~written /\ open = <<>>
           /\ written' = TRUE
           /\ UNCHANGED <<menu, text, open, last, nstat>>

Next ==
    \/ \E s \in Offer.locals : Simple1(<<"local", s[1], s[2]>>)
    \/ \E s \in Offer.assigns : Simple1(<<"assign", s[1], s[2]>>)
    \/ \E c \in Offer.calls : Simple1(<<"call", c>>)
    \/ \E es \in Offer.returns : Final(<<"return", es>>)
    \/ Offer.break /\ Final(<<"break">>)
    \/ Offer.do /\ Begin(<<"do">>, "do")
    \/ \E c \in Offer.whiles : Begin(<<"while", c>>, "while")
    \/ Offer.until # {} /\ Begin(<<"repeat">>, "repeat")
    \/ \E s \in Offer.fornums : Begin(<<"fornum", s[1], s[2]>>, "for")
    \/ \E s \in Offer.forlists : Begin(<<"forin", s[1], s[2]>>, "for")
    \/ \E c \in Offer.ifs : Begin(<<"if", c>>, "if")
    \/ \E c \in Offer.elseifs : ElseIf(c)
    \/ ElseBranch
    \/ \E s \in Offer.localfuncs : Begin(<<"localfunc", s[1], s[2], s[3]>>, "function")
    \/ \E s \in Offer.funcs : Begin(<<"func", s[1], s[2], s[3], s[4]>>, "function")
    \/ \E s \in Offer.localfunexps : Begin(<<"localfunexp", s[1], s[2], s[3]>>, "function")
    \/ \E s \in Offer.retfuns : Begin(<<"retfun", s[1], s[2]>>, "return")
    \/ \E c \in Offer.until : UntilEnd(c)
    \/ \E kind \in {"do", "while", "for", "if", "else", "function", "return"} : EndBlock(kind)
    \/ EndText
    \/ written /\ UNCHANGED vars

Spec == Init /\ [][Next]_vars

(***************************************************************************)
(* Properties.  Each speaks of the step that completes a program.          *)
(***************************************************************************)
RECURSIVE AllProtos(_)
AllProtos(f) == {f} \cup UNION {AllProtos(f.p[n]) : n \in DOMAIN f.p}

\* The step that completes the program, and the program compiled.
Completes == ~written /\ written'
Compiled == luaY_parser(text)

ComputedRight ==
    LET c == Compiled
    IN  c.status = "done" =>
          \A g \in menu.globals : Agree(RunMain(c.main, g, Args), RefMain(c.prog, g, Args))

\* Every compiled program, run from every initial state of the globals, ends
\* as the definition of the language says: the same results, the same calls of
\* the host in the same order, the same globals, or an error in both
\* (luaY_parser, luaV_execute).
Computes == [][Completes => ComputedRight]_vars

PassesVerifier ==
    LET c == Compiled
    IN  c.status = "done" =>
          /\ \A f \in AllProtos(c.main) : luaG_checkcode(f)
          /\ \A g \in menu.globals : RunMain(c.main, g, Args).ok

\* Every function the compiler closes passes the verifier (the lua_assert of
\* close_func), and the machine finds L->top where the instruction expects it
\* (the lua_asserts of luaV_execute).
Verified == [][Completes => PassesVerifier]_vars

LoadedAsDumped ==
    LET c == Compiled
        whole == luaU_dump(c.main, FALSE, MaxBlocks)
        loaded == luaU_undump(whole.out)
        bare == luaU_undump(luaU_dump(c.main, TRUE, MaxBlocks).out)
    IN  c.status = "done" =>
          /\ whole.status = 0 /\ ~loaded.err /\ ~bare.err
          /\ loaded.v = c.main /\ bare.v = Stripped(c.main)
          /\ \A cut \in Cuts :
               LET d == luaU_dump(c.main, FALSE, Len(whole.out) - cut)
               IN  cut <= Len(whole.out) => d.status # 0 /\ luaU_undump(d.out).err

\* A function that is dumped, with or without its debug information, is loaded
\* again as it was: what the parser accepts, the loader's verifier accepts too.
\* A dump that the writer broke off is refused (luaU_dump, luaU_undump).
RoundTrip == [][Completes => LoadedAsDumped]_vars

AllOk == LET c == Compiled IN c.status = "done" => \A f \in AllProtos(c.main) : f.ok

\* No lua_assert of the code generator or of the parser fails: registers are
\* freed in the order they were reserved, a jump is never patched without a
\* target, lists are closed when they must be, blocks close what they opened.
AssertsHold == [][Completes => AllOk]_vars
============================================================================
