-------------------------- MODULE LuaGCUnbarriered --------------------------
(***************************************************************************)
(* Two stores of the virtual machine that the write barriers of LuaGC do   *)
(* not cover, each added to the program of LuaGC: the debug interface's    *)
(* lua_setupvalue (lapi.c) and the loader of precompiled chunks            *)
(* (lundump.c), whose reader may run Lua code between two stores.          *)
(***************************************************************************)
EXTENDS LuaGC

\* lua_setupvalue on a Lua function: the value goes to the upvalue, which other
\* closures may share, but the barrier looks at the closure.
lua_setupvalue(cl, v) ==
  /\ Program
  /\ cl \in Direct \cap LClosures /\ v \in Operand
  /\ LET u == fld[cl]["upv"]
     IN  /\ u # Nil
         /\ IF isopen(u)
              THEN stk' = [stk EXCEPT ![uvth[u]][uvslot[u]] = v] /\ fld' = fld
              ELSE Store(u, "val", v) /\ stk' = stk
         /\ luaC_barrier(cl, v)
  /\ UNCHANGED <<uvth, uvslot, collectorVars, progVars>>

\* LoadConstants: the prototype is anchored on the stack (LoadFunction); a new
\* or interned string becomes a constant, with no barrier.  The reader that
\* luaZ_fill calls for the next block lets the collector step in between.
LoadConstants(p, s) ==
  /\ Program
  /\ p \in Direct \cap Protos
  /\ color' = [color EXCEPT ![s] = revived(s)]
  /\ Store(p, "k", s)
  /\ UNCHANGED <<stk, uvth, uvslot, listVars, collectorVars, progVars>>

SetUpvalueSpec ==
  Init /\ [][Next \/ \E cl \in LClosures, v \in Operand : lua_setupvalue(cl, v)]_vars

UndumpSpec ==
  Init /\ [][Next \/ \E p \in Protos, s \in Strings : LoadConstants(p, s)]_vars
=============================================================================
