---------------------------- MODULE LuaCoroutines ----------------------------
(***************************************************************************)
(* What coroutines promise (external view of the coroutine library):       *)
(* exactly one thread runs, it was resumed by a normal one, and so on down *)
(* to the main thread; a yield or the end of the coroutine gives control   *)
(* back to the resumer; nothing brings a dead coroutine back.              *)
(***************************************************************************)
EXTENDS Sequences, Naturals

CONSTANTS Threads, Main

VARIABLES
  state,    \* thread -> its status; "initial" is a suspended one not started
  chain     \* the main thread, the thread it resumed, ..., the running one

States == {"none", "initial", "suspended", "running", "normal", "dead"}

resumer == chain[Len(chain) - 1]
current == chain[Len(chain)]

Init ==
  /\ state = [t \in Threads |-> IF t = Main THEN "running" ELSE "none"]
  /\ chain = <<Main>>

Create(co) ==
  /\ chain # <<>> /\ state[co] = "none"
  /\ state' = [state EXCEPT ![co] = "initial"]
  /\ UNCHANGED chain

Resume(co) ==
  /\ chain # <<>> /\ state[co] \in {"initial", "suspended"}
  /\ state' = [state EXCEPT ![co] = "running", ![current] = "normal"]
  /\ chain' = Append(chain, co)

\* No room on the C stack to start the coroutine: it is lost.
Refuse(co) ==
  /\ state[co] = "initial"
  /\ state' = [state EXCEPT ![co] = "dead"]
  /\ UNCHANGED chain

\* The running thread yields, returns or fails.
Leave(s) ==
  /\ Len(chain) > 1
  /\ state' = [state EXCEPT ![current] = s, ![resumer] = "running"]
  /\ chain' = SubSeq(chain, 1, Len(chain) - 1)

Exit ==
  /\ chain = <<Main>>
  /\ state' = [state EXCEPT ![Main] = "dead"]
  /\ chain' = <<>>

Next ==
  \/ \E co \in Threads : Create(co) \/ Resume(co) \/ Refuse(co)
  \/ \E s \in {"suspended", "dead"} : Leave(s)
  \/ Exit

Spec == Init /\ [][Next]_<<state, chain>>
=============================================================================
