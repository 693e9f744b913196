----------------------------- MODULE LuaBuffer -----------------------------
(***************************************************************************)
(* The string buffers of the auxiliary library (lauxlib.c): characters     *)
(* collect in a fixed buffer, which is pushed on the stack as a string     *)
(* when it is full; adjuststack joins the topmost strings so that the      *)
(* stack stays short.  The characters are numbered in the order they are   *)
(* added.                                                                  *)
(***************************************************************************)
EXTENDS Integers, Sequences

CONSTANTS
    LUAL_BUFFERSIZE,  \* the characters of the fixed buffer
    LIMIT,            \* LUA_MINSTACK / 2
    MaxAdded          \* the length of the longest result

ASSUME BufferConstants ==
    LUAL_BUFFERSIZE \in Nat \ {0} /\ LIMIT \in Nat \ {0, 1} /\ MaxAdded \in Nat

VARIABLES
    buffer,   \* the fixed buffer up to p
    pieces,   \* the lvl strings of the buffer on the stack, the topmost last
    added     \* the number of characters given to the buffer

bufferVars == <<buffer, pieces, added>>

bufffree == LUAL_BUFFERSIZE - Len(buffer)
NewChars(l) == [k \in 1 .. l |-> added + k]

\* lua_concat of all strings of s.
concat(s) ==
    LET Upto[k \in 0 .. Len(s)] == IF k = 0 THEN <<>> ELSE Upto[k - 1] \o s[k]
    IN  Upto[Len(s)]

emptybuffer == IF buffer = <<>> THEN pieces ELSE Append(pieces, buffer)

\* The number of topmost strings to join: one more while the stack is too
\* high or those joined are longer than the next.
toget(s) ==
    LET top(k) == SubSeq(s, Len(s) - k + 1, Len(s))
        More(k) == Len(s) - k + 1 >= LIMIT \/ Len(concat(top(k))) > Len(s[Len(s) - k])
        ends == {k \in 1 .. Len(s) : k = Len(s) \/ ~More(k)}
    IN  CHOOSE k \in ends : \A m \in ends : k <= m

adjuststack(s) ==
    IF Len(s) <= 1 THEN s
    ELSE LET k == toget(s) IN Append(SubSeq(s, 1, Len(s) - k), concat(SubSeq(s, Len(s) - k + 1, Len(s))))

prepared == IF buffer = <<>> THEN pieces ELSE adjuststack(emptybuffer)

\* luaL_prepbuffer, and luaL_addsize of the l characters written there.
luaL_prepbuffer(l) ==
    /\ l <= LUAL_BUFFERSIZE
    /\ pieces' = prepared /\ buffer' = NewChars(l) /\ added' = added + l

\* A call of luaL_addlstring adds its characters one by one.
luaL_addchar ==
    /\ IF bufffree > 0 THEN buffer' = Append(buffer, added + 1) /\ UNCHANGED pieces
       ELSE buffer' = NewChars(1) /\ pieces' = prepared
    /\ added' = added + 1

\* Mutant: the new value stays below the characters of the buffer.
Inserted_not(value) == IF buffer = <<>> THEN Append(pieces, value)
                       ELSE Append(Append(pieces, value), buffer)

\* The buffer is pushed and put before the value.
Inserted(value) == Append(emptybuffer, value)

\* The value on top of the stack is added.
luaL_addvalue(l) ==
    /\ IF l <= bufffree THEN buffer' = buffer \o NewChars(l) /\ UNCHANGED pieces
       ELSE buffer' = <<>> /\ pieces' = adjuststack(Inserted(NewChars(l)))
    /\ added' = added + l

\* The result is one string; it is taken and the buffer used anew.
luaL_pushresult ==
    /\ pieces' = <<concat(emptybuffer)>> /\ buffer' = <<>> /\ UNCHANGED added

luaL_buffinit == buffer' = <<>> /\ pieces' = <<>> /\ added' = 0

BufferInit == buffer = <<>> /\ pieces = <<>> /\ added = 0

BufferNext ==
    \/ \E l \in 0 .. MaxAdded - added : luaL_prepbuffer(l)
    \/ added < MaxAdded /\ luaL_addchar
    \/ \E l \in 0 .. MaxAdded - added : luaL_addvalue(l)
    \/ luaL_pushresult
    \/ luaL_buffinit

BufferSpec == BufferInit /\ [][BufferNext]_bufferVars

(***************************************************************************)
(* Properties.                                                             *)
(***************************************************************************)
\* The strings on the stack and the buffer together are the characters added,
\* in their order, and the buffer keeps fewer than LIMIT stack slots between
\* calls, so that a caller's own slots are never taken (adjuststack,
\* luaL_addvalue, luaL_pushresult).
BufferContents ==
    /\ concat(pieces) \o buffer = [k \in 1 .. added |-> k]
    /\ Len(buffer) <= LUAL_BUFFERSIZE /\ Len(pieces) < LIMIT
=============================================================================
