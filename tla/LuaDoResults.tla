---------------------------- MODULE LuaDoResults ----------------------------
(***************************************************************************)
(* LuaDo, with coroutines that return more values than auxresume can move  *)
(* to the stack of the thread that resumed them (LUAI_MAXCSTACK).          *)
(***************************************************************************)
EXTENDS LuaDo

\* "too many results to resume": the error is raised in the resumer, and the
\* values stay where they are.
toomanyresults ==
  /\ ctl = "returned" /\ top.k = "resume"
  /\ set([me EXCEPT !.nCcalls = @ - 1, !.errorJmp = top.previous,
                    !.top = IF me.status = "0" THEN "results" ELSE @])
  /\ cstack' = popped /\ ctl' = "errormsg"

ResultsSpec == Init /\ [][Next \/ toomanyresults]_vars

\* costatus takes a coroutine without calls and with values on its stack for
\* one in its initial state: such a coroutine has not run yet.
InitialState ==
  ctl # "exit" =>
    \A t \in Threads :
      L[t].status = "0" /\ costatus(running, t) = "suspended" => L[t].top = "function"
=============================================================================
