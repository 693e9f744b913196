-------------------------------- MODULE LuaDo --------------------------------
(***************************************************************************)
(* Calls, errors and coroutines: ldo.c, the calling instructions of lvm.c, *)
(* luaG_errormsg, lua_pcall and lua_load, the hooks, GCTM, and the         *)
(* coroutine library.  Every Lua thread has its own list of CallInfos, its *)
(* own chain of longjmp buffers and its own count of C calls, and all of   *)
(* them live on ONE C stack, which a longjmp cuts.  The model keeps the C  *)
(* stack explicitly, so that the bookkeeping can be compared with it.      *)
(***************************************************************************)
EXTENDS Integers, Sequences, FiniteSets

CONSTANTS
  Threads,          \* the Lua threads
  Main,             \* the main thread
  LUAI_MAXCCALLS,   \* limit of nested C calls
  EXTRACCALLS,      \* LUAI_MAXCCALLS >> 3, the margin for error handlers
  LUAI_MAXCALLS,    \* limit of CallInfos
  BASIC_CI_SIZE     \* initial size of a CallInfo array

ASSUME ConstantsAssumption ==
  /\ Main \in Threads
  /\ {LUAI_MAXCCALLS, EXTRACCALLS, LUAI_MAXCALLS, BASIC_CI_SIZE} \subseteq Nat \ {0}

VARIABLES
  L,        \* the lua_State of every thread
  cstack,   \* the C stack: the C functions below, oldest first
  ctl       \* what the topmost C function is doing

vars == <<L, cstack, ctl>>

\* The message handler in L->errfunc: none, a function, or another value.
Handlers == {"none", "function", "other"}

(***************************************************************************)
(* The C functions that can be active.  luaD_call, luaD_pcall, lua_resume, *)
(* GCTM and luaG_errormsg wait for a callee; luaV_execute (running n Lua   *)
(* functions), a C function, the parser (inside lev constructs) and a hook *)
(* run code of their own.                                                  *)
(***************************************************************************)
Execute(t, n) == [k |-> "execute", th |-> t, n |-> n]
Parser(t, lev) == [k |-> "parser", th |-> t, lev |-> lev]
Frame(k, t) == [k |-> k, th |-> t]

Codes == {"execute", "cfun", "parser", "hook"}

top == cstack[Len(cstack)]
popped == SubSeq(cstack, 1, Len(cstack) - 1)
running == top.th
me == L[running]
set(l) == L' = [L EXCEPT ![running] = l]
run(k) == ctl = "run" /\ top.k = k

\* Control goes back to the top of cs, which goes on or returns in its turn.
back(cs) ==
  IF cs = <<>> THEN "exit" ELSE IF cs[Len(cs)].k \in Codes THEN "run" ELSE "returned"

\* A new thread (preinit_state and stack_init); the body comes with top.
newthread(body) ==
  [status |-> "0", ci |-> <<"base">>, size_ci |-> BASIC_CI_SIZE, nCcalls |-> 0,
   baseCcalls |-> 0, allowhook |-> TRUE, errfunc |-> "none", errorJmp |-> 0,
   top |-> body]

NoThread == [newthread("none") EXCEPT !.status = "none"]

(***************************************************************************)
(* CallInfos.  inc_ci takes the next one; growCI doubles the array, and    *)
(* past the limit raises an error, once, or fails outright.                *)
(***************************************************************************)
roomCI(l) == Len(l.ci) < l.size_ci

growCI(l) ==
  IF roomCI(l) \/ l.size_ci > LUAI_MAXCALLS THEN l ELSE [l EXCEPT !.size_ci = 2 * @]

inc_ci(l) ==
  IF roomCI(l) THEN "run"
  ELSE IF l.size_ci > LUAI_MAXCALLS THEN "throw"
  ELSE IF 2 * l.size_ci > LUAI_MAXCALLS THEN "errormsg" ELSE "run"

restore_stack_limit(l) ==
  IF l.size_ci > LUAI_MAXCALLS /\ Len(l.ci) < LUAI_MAXCALLS
    THEN [l EXCEPT !.size_ci = LUAI_MAXCALLS] ELSE l

(***************************************************************************)
(* Errors.  An error raised by code ("errormsg") is first given to the     *)
(* message handler, which stays installed while it runs; the others        *)
(* ("throw") are thrown directly: a failed allocation, a syntax error, and *)
(* an error in error handling.                                             *)
(***************************************************************************)

\* Mutant: the count of C calls is not restored.
pcallCaught_count(l, f) ==
  restore_stack_limit(
    [l EXCEPT !.ci = SubSeq(@, 1, f.ci), !.allowhook = f.allowhook,
              !.errfunc = f.errfunc, !.errorJmp = f.previous])

\* luaD_pcall sees the error.
pcallCaught(l, f) ==
  restore_stack_limit(
    [l EXCEPT !.nCcalls = f.nCcalls, !.ci = SubSeq(@, 1, f.ci), !.allowhook = f.allowhook,
              !.errfunc = f.errfunc, !.errorJmp = f.previous])

\* lua_resume sees the error: the coroutine is dead, and keeps its CallInfos.
resumeCaught(l, f) ==
  [l EXCEPT !.status = "error", !.nCcalls = @ - 1, !.errorJmp = f.previous]

\* The longjmp to the last entry of the running thread's chain.  (There is one,
\* by ErrorHandlers below: the panic function is never called.)
luaD_throw(l, cs) ==
  LET j == l.errorJmp IN
  /\ j # 0
  /\ set(IF cs[j].k = "pcall" THEN pcallCaught(l, cs[j]) ELSE resumeCaught(l, cs[j]))
  /\ cstack' = SubSeq(cs, 1, j - 1)
  /\ ctl' = back(cstack')

\* The running thread becomes l and the C stack cs, and control goes to c.
go(l, cs, c) ==
  IF c = "throw" THEN luaD_throw(l, cs) ELSE set(l) /\ cstack' = cs /\ ctl' = c

(***************************************************************************)
(* Calling.                                                                *)
(***************************************************************************)

\* Mutant: no second limit.
checkCcalls_once(n) == IF n = LUAI_MAXCCALLS THEN "errormsg" ELSE "precall"

\* luaD_call's test on the number of C calls.
checkCcalls(n) ==
  IF n = LUAI_MAXCCALLS THEN "errormsg"
  ELSE IF n >= LUAI_MAXCCALLS + EXTRACCALLS THEN "throw" ELSE "precall"

\* luaD_call by the C function on top of cs, whose thread is now l.
luaD_call(l, cs) ==
  go([l EXCEPT !.nCcalls = @ + 1], Append(cs, Frame("call", running)),
     checkCcalls(l.nCcalls + 1))

\* What may be called: pmain is a C function, a message handler is known to be
\* a function, and the body of a new coroutine to be a Lua function.
callees ==
  IF Len(cstack) = 2 THEN {"C"}
  ELSE IF top.k = "call" /\ cstack[Len(cstack) - 1].k = "handler" THEN {"Lua", "C"}
  ELSE IF top.k = "resume" /\ me.top = "function" THEN {"Lua"}
  ELSE {"Lua", "C", "other"}

\* A Lua function is run by the luaV_execute that calls it, if one does.
entered(f) ==
  IF f = "C" THEN Append(cstack, Frame("cfun", running))
  ELSE IF top.k = "execute" THEN [cstack EXCEPT ![Len(cstack)].n = @ + 1]
  ELSE Append(cstack, Execute(running, 1))

luaD_precall(f) ==
  /\ ctl = "precall" /\ f \in callees /\ f # "other"
  /\ IF inc_ci(me) = "run"
       THEN go([growCI(me) EXCEPT !.ci = Append(@, f), !.top = "none"], entered(f), "run")
       ELSE go(growCI(me), cstack, inc_ci(me))

\* The value called is not a function and has no __call.
tryfuncTM ==
  /\ ctl = "precall" /\ "other" \in callees
  /\ ctl' = "errormsg"
  /\ UNCHANGED <<L, cstack>>

luaD_call_end ==
  /\ ctl = "returned" /\ top.k = "call"
  /\ set([me EXCEPT !.nCcalls = @ - 1])
  /\ cstack' = popped /\ ctl' = back(popped)

OP_CALL ==
  /\ run("execute")
  /\ ctl' = "precall"
  /\ UNCHANGED <<L, cstack>>

\* A tail call of a Lua function takes a CallInfo and then gives it the place
\* of its caller's.  (To a C function it is an OP_CALL.)
OP_TAILCALL == run("execute") /\ go(growCI(me), cstack, inc_ci(me))

OP_RETURN ==
  /\ run("execute")
  /\ set([me EXCEPT !.ci = SubSeq(@, 1, Len(@) - 1)])
  /\ IF top.n = 1 THEN cstack' = popped /\ ctl' = back(popped)
     ELSE cstack' = [cstack EXCEPT ![Len(cstack)].n = @ - 1] /\ UNCHANGED ctl

\* A metamethod, or the iterator of a generic for.
callTM == run("execute") /\ luaD_call(me, cstack)

\* lua_call from a C function, from a hook (hookf), or from the reader that
\* feeds the parser (generic_reader).
lua_call == (run("cfun") \/ run("hook") \/ run("parser")) /\ luaD_call(me, cstack)

\* A C function returns.
luaD_poscall ==
  /\ run("cfun")
  /\ set([me EXCEPT !.ci = SubSeq(@, 1, Len(@) - 1)])
  /\ cstack' = popped /\ ctl' = back(popped)

(***************************************************************************)
(* Protected calls.  An entry of the chain of longjmp buffers is the       *)
(* position of its C function on the C stack, 0 for none.                  *)
(***************************************************************************)
pcallFrame(ef) ==
  [k |-> "pcall", th |-> running, ef |-> ef, nCcalls |-> me.nCcalls, ci |-> Len(me.ci),
   allowhook |-> me.allowhook, errfunc |-> me.errfunc, previous |-> me.errorJmp]

protected(ef) == [me EXCEPT !.errfunc = ef, !.errorJmp = Len(cstack) + 1]

lua_pcall(ef) ==
  /\ run("cfun")
  /\ luaD_call(protected(ef), Append(cstack, pcallFrame(ef)))

luaD_protectedparser ==
  /\ run("cfun")
  /\ set(protected(me.errfunc))
  /\ cstack' = cstack \o <<pcallFrame(me.errfunc), Parser(running, 0)>>
  /\ UNCHANGED ctl

\* Mutant: the handler stays installed.
luaD_pcall_end_keep ==
  /\ ctl = "returned" /\ top.k = "pcall"
  /\ set([me EXCEPT !.errorJmp = top.previous])
  /\ cstack' = popped /\ ctl' = back(popped)

luaD_pcall_end ==
  /\ ctl = "returned" /\ top.k = "pcall"
  /\ set([me EXCEPT !.errfunc = top.errfunc, !.errorJmp = top.previous])
  /\ cstack' = popped /\ ctl' = back(popped)

(***************************************************************************)
(* The parser counts the nesting of the source in nCcalls too.             *)
(***************************************************************************)
enterlevel ==
  /\ run("parser")
  /\ go([me EXCEPT !.nCcalls = @ + 1], [cstack EXCEPT ![Len(cstack)].lev = @ + 1],
        IF me.nCcalls + 1 > LUAI_MAXCCALLS THEN "throw" ELSE "run")

leavelevel ==
  /\ run("parser") /\ top.lev > 0
  /\ set([me EXCEPT !.nCcalls = @ - 1])
  /\ cstack' = [cstack EXCEPT ![Len(cstack)].lev = @ - 1]
  /\ UNCHANGED ctl

f_parser_end ==
  /\ run("parser") /\ top.lev = 0
  /\ cstack' = popped /\ ctl' = back(popped)
  /\ UNCHANGED L

luaX_lexerror == run("parser") /\ go(me, cstack, "throw")

(***************************************************************************)
(* Raising errors.                                                         *)
(***************************************************************************)
luaG_runerror ==
  /\ ctl = "run"
  /\ ctl' = "errormsg"
  /\ UNCHANGED <<L, cstack>>

luaM_realloc_fails == ctl \in {"run", "precall"} /\ go(me, cstack, "throw")

luaG_errormsg ==
  /\ ctl = "errormsg"
  /\ IF me.errfunc = "function" THEN luaD_call(me, Append(cstack, Frame("handler", running)))
     ELSE go(me, cstack, "throw")

luaG_errormsg_end ==
  ctl = "returned" /\ top.k = "handler" /\ go(me, cstack, "throw")

(***************************************************************************)
(* Hooks (line and count events) and __gc metamethods.                     *)
(***************************************************************************)
luaD_callhook ==
  /\ run("execute") /\ me.allowhook
  /\ set([me EXCEPT !.allowhook = FALSE])
  /\ cstack' = Append(cstack, Frame("hook", running))
  /\ UNCHANGED ctl

luaD_callhook_end ==
  /\ run("hook")
  /\ set([me EXCEPT !.allowhook = TRUE])
  /\ cstack' = popped
  /\ UNCHANGED ctl

GCTM ==
  /\ ctl = "run"
  /\ luaD_call([me EXCEPT !.allowhook = FALSE],
               Append(cstack, [k |-> "gctm", th |-> running, allowhook |-> me.allowhook]))

\* Mutant: hooks are switched on again rather than restored.
GCTM_end_on ==
  /\ ctl = "returned" /\ top.k = "gctm"
  /\ set([me EXCEPT !.allowhook = TRUE])
  /\ cstack' = popped /\ ctl' = back(popped)

GCTM_end ==
  /\ ctl = "returned" /\ top.k = "gctm"
  /\ set([me EXCEPT !.allowhook = top.allowhook])
  /\ cstack' = popped /\ ctl' = back(popped)

\* Mutant: the use of the array is not looked at.
checkstacksizes_used(t) ==
  /\ ctl = "run" /\ L[t].status # "none"
  /\ L[t].size_ci <= LUAI_MAXCALLS
  /\ 2 * BASIC_CI_SIZE < L[t].size_ci
  /\ L' = [L EXCEPT ![t].size_ci = @ \div 2]
  /\ UNCHANGED <<cstack, ctl>>

\* The collector, traversing thread t, halves a CallInfo array little used.
checkstacksizes(t) ==
  /\ ctl = "run" /\ L[t].status # "none"
  /\ L[t].size_ci <= LUAI_MAXCALLS
  /\ 4 * (Len(L[t].ci) - 1) < L[t].size_ci /\ 2 * BASIC_CI_SIZE < L[t].size_ci
  /\ L' = [L EXCEPT ![t].size_ci = @ \div 2]
  /\ UNCHANGED <<cstack, ctl>>

(***************************************************************************)
(* Coroutines.                                                             *)
(***************************************************************************)

\* Mutant: the frames of the thread are not looked at.
costatus_noframes(t, co) ==
  CASE t = co -> "running"
    [] t # co /\ L[co].status = "LUA_YIELD" -> "suspended"
    [] t # co /\ L[co].status = "0" -> IF L[co].top = "none" /\ Len(L[co].ci) = 1 THEN "dead" ELSE "suspended"
    [] OTHER -> "dead"

\* The status of thread co as thread t sees it.
costatus(t, co) ==
  CASE t = co -> "running"
    [] t # co /\ L[co].status = "LUA_YIELD" -> "suspended"
    [] t # co /\ L[co].status = "0" ->
         IF Len(L[co].ci) > 1 THEN "normal"
         ELSE IF L[co].top = "none" THEN "dead" ELSE "suspended"
    [] OTHER -> "dead"

luaB_cocreate(co) ==
  /\ run("cfun") /\ L[co].status = "none"
  /\ L' = [L EXCEPT ![co] = newthread("function")]
  /\ UNCHANGED <<cstack, ctl>>

\* coroutine.resume, up to the call of resume: lua_setlevel hands the count of
\* C calls on.  A yield is completed by the return of the C function it left.
started(co) ==
  LET l == L[co]
      n == me.nCcalls + 1
      ci == IF l.status = "LUA_YIELD" /\ l.ci[Len(l.ci)] = "C"
              THEN SubSeq(l.ci, 1, Len(l.ci) - 1) ELSE l.ci IN
  [l EXCEPT !.status = "0", !.ci = ci, !.nCcalls = n, !.baseCcalls = n,
            !.errorJmp = Len(cstack) + 1]

resumeFrame(co) == [k |-> "resume", th |-> co, previous |-> L[co].errorJmp]

lua_resume(co) ==
  /\ run("cfun") /\ costatus(running, co) = "suspended"
  /\ me.nCcalls < LUAI_MAXCCALLS
  /\ L' = [L EXCEPT ![co] = started(co)]
  /\ IF L[co].status = "0"
       THEN cstack' = Append(cstack, resumeFrame(co)) /\ ctl' = "precall"
       ELSE /\ cstack' = cstack \o <<resumeFrame(co), Execute(co, Len(started(co).ci) - 1)>>
            /\ UNCHANGED ctl

\* Too many C calls: the coroutine's stack is emptied down to its frame, and
\* one that had not started loses its body.
resume_error(co) ==
  /\ run("cfun") /\ costatus(running, co) = "suspended"
  /\ me.nCcalls >= LUAI_MAXCCALLS
  /\ L' = [L EXCEPT ![co].nCcalls = me.nCcalls, ![co].top = "none"]
  /\ UNCHANGED <<cstack, ctl>>

\* resume came back, and auxresume takes the values off the coroutine's stack.
\* (LuaDoResults has the case where they are too many for its caller's.)
lua_resume_end ==
  /\ ctl = "returned" /\ top.k = "resume"
  /\ set([me EXCEPT !.nCcalls = @ - 1, !.errorJmp = top.previous])
  /\ cstack' = popped /\ ctl' = back(popped)

\* Mutant: yields are always allowed.
mayyield_always(l) == TRUE

mayyield(l) == l.nCcalls <= l.baseCcalls

\* A C function (coroutine.yield) or a hook yields.
lua_yield ==
  /\ run("cfun") \/ run("hook")
  /\ IF mayyield(me)
       THEN /\ set([me EXCEPT !.status = "LUA_YIELD",
                              !.allowhook = IF top.k = "hook" THEN TRUE ELSE @])
            /\ cstack' = popped /\ ctl' = "yielded"
       ELSE ctl' = "errormsg" /\ UNCHANGED <<L, cstack>>

\* luaV_execute returns when its callee or its hook has yielded; luaD_call and
\* resume take a yield for a return.
yielding ==
  /\ ctl = "yielded"
  /\ cstack' = IF top.k = "execute" THEN popped ELSE cstack
  /\ ctl' = "returned"
  /\ UNCHANGED L

(***************************************************************************)
(* lua.c calls pmain with lua_cpcall; the process ends when that returns.  *)
(***************************************************************************)
Init ==
  /\ L = [t \in Threads |->
            IF t = Main THEN [newthread("none") EXCEPT !.nCcalls = 1, !.errorJmp = 1]
            ELSE NoThread]
  /\ cstack = <<[k |-> "pcall", th |-> Main, ef |-> "none", nCcalls |-> 0, ci |-> 1,
                 allowhook |-> TRUE, errfunc |-> "none", previous |-> 0],
                Frame("call", Main)>>
  /\ ctl = "precall"

ended == ctl = "exit" /\ UNCHANGED vars

Instructions == OP_CALL \/ OP_TAILCALL \/ OP_RETURN \/ callTM

Calls ==
  \/ \E f \in {"Lua", "C"} : luaD_precall(f)
  \/ tryfuncTM \/ luaD_call_end \/ lua_call \/ luaD_poscall

Protected ==
  \/ \E ef \in Handlers : lua_pcall(ef)
  \/ luaD_pcall_end \/ luaD_protectedparser
  \/ enterlevel \/ leavelevel \/ f_parser_end \/ luaX_lexerror

Raises ==
  \/ luaG_runerror \/ luaM_realloc_fails \/ luaG_errormsg \/ luaG_errormsg_end

Interruptions ==
  \/ luaD_callhook \/ luaD_callhook_end \/ GCTM \/ GCTM_end
  \/ \E t \in Threads : checkstacksizes(t)

Coroutines ==
  \/ \E co \in Threads : luaB_cocreate(co) \/ lua_resume(co) \/ resume_error(co)
  \/ lua_resume_end \/ lua_yield \/ yielding

Next == Instructions \/ Calls \/ Protected \/ Raises \/ Interruptions \/ Coroutines \/ ended

Spec == Init /\ [][Next]_vars

-----------------------------------------------------------------------------
(***************************************************************************)
(* Properties.                                                             *)
(***************************************************************************)

\* The shape of the state.  The count of C calls never passes the limit plus
\* the margin for error handlers, whatever adds to it (luaD_call, lua_resume,
\* the parser), so the C stack is bounded.
TypeOK ==
  /\ \A t \in Threads :
       /\ L[t].status \in {"none", "0", "LUA_YIELD", "error"}
       /\ L[t].ci \in Seq({"base", "Lua", "C"})
       /\ L[t].nCcalls \in 0..(LUAI_MAXCCALLS + EXTRACCALLS)
       /\ L[t].baseCcalls \in 0..LUAI_MAXCCALLS
       /\ L[t].allowhook \in BOOLEAN
       /\ L[t].errfunc \in Handlers
       /\ L[t].errorJmp \in 0..Len(cstack)
       /\ L[t].top \in {"none", "function", "results"}
  /\ \A i \in 1..Len(cstack) : cstack[i].th \in Threads
  /\ ctl \in {"run", "precall", "returned", "errormsg", "yielded", "exit"}

\* The positions of the frames of thread t on a C stack.
framesOf(cs, t) == {i \in 1..Len(cs) : cs[i].th = t}
greatest(S) == IF S = {} THEN 0 ELSE CHOOSE i \in S : \A j \in S : j <= i

\* The C calls that count, in the lowest i frames of a C stack.
weight(f) ==
  IF f.k \in {"call", "resume"} THEN 1 ELSE IF f.k = "parser" THEN f.lev ELSE 0
Ccalls(cs) ==
  LET n[i \in 0..Len(cs)] == IF i = 0 THEN 0 ELSE n[i - 1] + weight(cs[i]) IN n

\* The count of C calls of a thread that is running or waiting for one it has
\* resumed is the number of C calls on the C stack below its last frame, over
\* all the threads: errors caught on the way, at any depth, leave no trace, and
\* the limit therefore bounds the one C stack they share.
CCallsExact ==
  \A t \in Threads :
    framesOf(cstack, t) # {} => L[t].nCcalls = Ccalls(cstack)[greatest(framesOf(cstack, t))]

\* The CallInfos that the C functions of thread t account for.
infos(f) ==
  IF f.k = "execute" THEN [i \in 1..f.n |-> "Lua"] ELSE IF f.k = "cfun" THEN <<"C">> ELSE <<>>
callinfos(cs, t) ==
  LET c[i \in 0..Len(cs)] ==
        IF i = 0 THEN <<"base">> ELSE IF cs[i].th # t THEN c[i - 1]
        ELSE c[i - 1] \o infos(cs[i])
  IN c[Len(cs)]

\* The CallInfos of an active thread are those of its C functions: every
\* luaV_execute returns after exactly the Lua functions it entered (nexeccalls)
\* and an error caught drops exactly the calls it cut.  A suspended coroutine,
\* which has no C functions, has Lua functions only, below the C function that
\* yielded: what resume gives to one luaV_execute.
CallInfoMatches ==
  \A t \in Threads :
    /\ framesOf(cstack, t) # {} /\ L[t].status = "0" => L[t].ci = callinfos(cstack, t)
    /\ framesOf(cstack, t) = {} /\ L[t].status = "0" => L[t].ci = <<"base">>
    /\ framesOf(cstack, t) = {} /\ L[t].status = "LUA_YIELD" =>
         Len(L[t].ci) > 1 /\ \A i \in 2..(Len(L[t].ci) - 1) : L[t].ci[i] = "Lua"

\* No thread has more CallInfos than its array has places, whatever the
\* collector and the recovery from an overflow do to its size.
CallInfosFit == \A t \in Threads : Len(L[t].ci) <= L[t].size_ci

protectedOf(cs, t) == {i \in framesOf(cs, t) : cs[i].k \in {"pcall", "resume"}}
pcallsOf(cs, t) == {i \in framesOf(cs, t) : cs[i].k = "pcall"}
handlerOf(cs, t) ==
  IF pcallsOf(cs, t) = {} THEN "none" ELSE cs[greatest(pcallsOf(cs, t))].ef

\* The chain of longjmp buffers follows the C stack: a thread's last entry is
\* its topmost protected call, the running thread's is the topmost of all, so a
\* longjmp never cuts a protected call of another thread; a thread without
\* frames has none.  The message handler is the one of the innermost pcall.
ErrorHandlers ==
  /\ \A t \in Threads :
       /\ L[t].errorJmp = greatest(protectedOf(cstack, t))
       /\ L[t].errfunc = handlerOf(cstack, t)
  /\ ctl # "exit" =>
       me.errorJmp = greatest(UNION {protectedOf(cstack, t) : t \in Threads}) /\ me.errorJmp # 0

hooksOn(cs, t) == \A i \in framesOf(cs, t) : cs[i].k \notin {"hook", "gctm"}

\* Hooks are off in a thread exactly while one of its hooks or of its __gc
\* metamethods runs, whether those end with a return, an error or a yield.
HookFlag ==
  \A t \in Threads : L[t].status # "error" => (L[t].allowhook <=> hooksOn(cstack, t))

\* The statuses that costatus reports, and the threads on the C stack.
observer == IF ctl = "exit" THEN Main ELSE running
stateOf(t) ==
  IF L[t].status = "none" THEN "none"
  ELSE IF ctl = "exit" /\ t = Main THEN "dead"
  ELSE IF costatus(observer, t) = "suspended" /\ L[t].status = "0" THEN "initial"
  ELSE costatus(observer, t)
resumed(cs) ==
  LET c[i \in 0..Len(cs)] ==
        IF i = 0 THEN <<Main>> ELSE IF cs[i].k = "resume" THEN Append(c[i - 1], cs[i].th)
        ELSE c[i - 1]
  IN c[Len(cs)]
chainOf == IF ctl = "exit" THEN <<>> ELSE resumed(cstack)

Abstract == INSTANCE LuaCoroutines WITH state <- [t \in Threads |-> stateOf(t)], chain <- chainOf

\* The library's coroutines are the abstract ones: costatus, which only looks
\* at the thread, reports what the C stack says, no thread is resumed while it
\* is active, and a dead one stays dead.
CoroutineSpec == Abstract!Spec
=============================================================================
