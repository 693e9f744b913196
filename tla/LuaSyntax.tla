----------------------------- MODULE LuaSyntax -----------------------------
(***************************************************************************)
(* Programs: the abstract syntax of Lua and its text, as tokens.           *)
(*                                                                         *)
(* Expressions:  <<"nil">> <<"true">> <<"false">> <<"num", n>> <<"str", s>>*)
(*   <<"dots">> <<"var", name>> <<"index", e, k>> <<"paren", e>>           *)
(*   <<"call", f, args>> <<"method", e, name, args>>                       *)
(*   <<"table", items>>, an item being <<"item", e>> or <<"rec", k, e>>    *)
(*   <<"un", op, e>> <<"bin", op, e1, e2>> <<"func", params, isva, body>>  *)
(* Statements are described where LuaParser builds them.                   *)
(*                                                                         *)
(* An offer is a record of what a statement may be; Nothing offers none.   *)
(***************************************************************************)
EXTENDS Integers, Sequences

Token(t) == [t |-> t, v |-> ""]
NameToken(name) == [t |-> "name", v |-> name]

\* Precedence of the operators as the language defines it, lowest first.
Level(op) ==
    CASE op = "or" -> 1
      [] op = "and" -> 2
      [] op \in {"<", ">", "<=", ">=", "~=", "=="} -> 3
      [] op = ".." -> 4
      [] op \in {"+", "-"} -> 5
      [] op \in {"*", "/", "%"} -> 6
      [] op = "^" -> 8
UnaryLevel == 7
RightAssociative(op) == op \in {"..", "^"}

Bracketed(p, ts) == IF p THEN <<Token("(")>> \o ts \o <<Token(")")>> ELSE ts
IsPrefix(e) == e[1] \in {"var", "index", "call", "method", "paren"}

\* The text of e where the context needs at least this precedence.
RECURSIVE Tokens(_, _), ExpListTokens(_)
ExpListTokens(es) ==
    IF es = <<>> THEN <<>>
    ELSE IF Len(es) = 1 THEN Tokens(es[1], 0)
    ELSE Tokens(es[1], 0) \o <<Token(",")>> \o ExpListTokens(Tail(es))

ItemTokens(i) ==
    CASE i[1] = "item" -> Tokens(i[2], 0)
      [] i[1] = "rec" -> <<Token("["), [t |-> "str", v |-> i[2]], Token("]"), Token("=")>>
                             \o Tokens(i[3], 0)
      [] i[1] = "named" -> <<NameToken(i[2]), Token("=")>> \o Tokens(i[3], 0)

RECURSIVE ItemsTokens(_)
ItemsTokens(is) ==
    IF is = <<>> THEN <<>>
    ELSE ItemTokens(is[1]) \o (IF Len(is) > 1 THEN <<Token(",")>> ELSE <<>>) \o ItemsTokens(Tail(is))

\* A function, a table or an object: anything else stands in parentheses.
PrefixTokens(e) == Bracketed(~IsPrefix(e), Tokens(e, 0))

Tokens(e, level) ==
    LET kind == e[1]
        left == Level(e[2]) + (IF RightAssociative(e[2]) THEN 1 ELSE 0)
        right == Level(e[2]) + (IF RightAssociative(e[2]) THEN 0 ELSE 1)
    IN  CASE kind \in {"nil", "true", "false"} -> <<Token(kind)>>
          [] kind = "dots" -> <<Token("...")>>
          [] kind \in {"num", "str"} -> <<[t |-> kind, v |-> e[2]]>>
          [] kind = "var" -> <<NameToken(e[2])>>
          [] kind = "paren" -> Bracketed(TRUE, Tokens(e[2], 0))
          [] kind = "index" /\ e[3][1] = "str" ->
                PrefixTokens(e[2]) \o <<Token("."), NameToken(e[3][2])>>
          [] kind = "index" /\ e[3][1] # "str" ->
                PrefixTokens(e[2]) \o <<Token("[")>> \o Tokens(e[3], 0) \o <<Token("]")>>
          [] kind = "call" -> PrefixTokens(e[2]) \o Bracketed(TRUE, ExpListTokens(e[3]))
          [] kind = "method" ->
                PrefixTokens(e[2]) \o <<Token(":"), NameToken(e[3])>>
                    \o Bracketed(TRUE, ExpListTokens(e[4]))
          [] kind = "table" -> <<Token("{")>> \o ItemsTokens(e[2]) \o <<Token("}")>>
          [] kind = "un" ->
                Bracketed(UnaryLevel < level, <<Token(e[2])>> \o Tokens(e[3], UnaryLevel))
          [] kind = "bin" ->
                Bracketed(Level(e[2]) < level,
                          Tokens(e[3], left) \o <<Token(e[2])>> \o Tokens(e[4], right))

Nothing == [locals |-> {}, assigns |-> {}, calls |-> {}, returns |-> {}, break |-> FALSE,
           do |-> FALSE, whiles |-> {}, until |-> {}, fornums |-> {}, forlists |-> {}, ifs |-> {},
           elseifs |-> {}, else |-> FALSE, localfuncs |-> {}, funcs |-> {}, localfunexps |-> {},
           retfuns |-> {}]
============================================================================
