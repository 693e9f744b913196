------------------------------ MODULE MCLuaDo ------------------------------
(* LuaDo and LuaDoResults for TLC: the coroutines are interchangeable. *)
EXTENDS LuaDoResults, TLC

CONSTANTS main, co1, co2

Symmetric == Permutations(Threads \ {Main})

\* Below three C calls the CallInfos go to their limit, above it to three.
CCallsUpTo(n) == \A t \in Threads : L[t].nCcalls <= n
CallInfosUpTo(n) == \A t \in Threads : Len(L[t].ci) <= n

Bounded == CallInfosUpTo(3) \/ CCallsUpTo(2)
=============================================================================
