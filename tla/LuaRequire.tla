---------------------------- MODULE LuaRequire -----------------------------
(***************************************************************************)
(* require and module (loadlib.c): package.loaded, and the calls of        *)
(* require under way, each made below the one before it.  A call first     *)
(* searches for the body of its module and then runs it.  In both phases   *)
(* other code of the program runs: a searcher, a finalizer that an         *)
(* allocation of the search calls, the body.  It may require the same or   *)
(* other modules, call module, assign to package.loaded, return or fail;   *)
(* an error leaves every call up to the protected call that catches it,    *)
(* which may be in any of them or in the main program.                     *)
(***************************************************************************)
EXTENDS Integers, Sequences

CONSTANTS
    Modules,    \* the names
    MaxRunning, \* calls of require under way at once
    MaxStarts,  \* how often a body is started
    MaxAgain    \* how often an entry is cleared, or searched for twice

ASSUME RequireConstants == MaxRunning \in Nat /\ MaxStarts \in Nat /\ MaxAgain \in Nat

VARIABLES
    loaded,   \* package.loaded
    running,  \* the calls of require, the caller before the called
    failed,   \* the modules whose last body to end failed
    starts,   \* how often the body of each module was started
    clears,   \* how often the program made its entry nil or false
    overlaps  \* how often a search for it began during another (history)

requireVars == <<loaded, running, failed, starts, clears, overlaps>>

Falsy == {"nil", "false"}
LoadedValues == Falsy \cup {"true", "table"}  \* what a program may put there

Call(phase, m) == [phase |-> phase, module |-> m]
Under(phase) == {running[k].module : k \in {c \in DOMAIN running : running[c].phase = phase}}
Searching == Under("search")
Running == Under("body")

\* An error caught after the first k calls; the bodies above have failed.
Unwind(k) ==
    /\ failed' = failed \cup {running[c].module :
                                c \in {b \in k + 1 .. Len(running) : running[b].phase = "body"}}
    /\ running' = SubSeq(running, 1, k)

luaL_error == /\ \E k \in 0 .. Len(running) : Unwind(k)
              /\ UNCHANGED <<loaded, starts, clears, overlaps>>

\* What the program stores counts when it asks for another run.
Clears(m, v) == v \in Falsy /\ loaded[m] \notin Falsy

Stored(m, v) ==
    /\ Clears(m, v) => clears[m] < MaxAgain
    /\ loaded' = [loaded EXCEPT ![m] = v]
    /\ clears' = IF Clears(m, v) THEN [clears EXCEPT ![m] = @ + 1] ELSE clears

\* ll_require up to the first searcher.
ll_require(m) ==
    \/ loaded[m] = "sentinel" /\ luaL_error  \* "loop or previous error loading module"
    \/ loaded[m] \in {"true", "table"} /\ UNCHANGED requireVars
    \/ /\ loaded[m] \in Falsy /\ Len(running) < MaxRunning
       /\ m \in Searching => overlaps[m] < MaxAgain
       /\ running' = Append(running, Call("search", m))
       /\ overlaps' = IF m \in Searching THEN [overlaps EXCEPT ![m] = @ + 1] ELSE overlaps
       /\ UNCHANGED <<loaded, failed, starts, clears>>

\* The call that the program is in.
current == running[Len(running)]

Searches == running # <<>> /\ current.phase = "search"

\* No searcher finds the module: the call itself raises an error.
ll_require_notfound ==
    /\ Searches
    /\ \E k \in 0 .. Len(running) - 1 : Unwind(k)
    /\ UNCHANGED <<loaded, starts, clears, overlaps>>

\* Mutant: the body starts before its entry is marked.
Entered_late(m) == loaded

Entered(m) == [loaded EXCEPT ![m] = "sentinel"]

\* A searcher returns the body.  Its entry is not looked at again, it is
\* marked whatever it holds by now, and the body is called.
ll_require_found ==
    /\ Searches
    /\ LET m == current.module
       IN  /\ starts[m] < MaxStarts
           /\ loaded' = Entered(m)
           /\ failed' = failed \ {m}
           /\ starts' = [starts EXCEPT ![m] = @ + 1]
           /\ running' = [running EXCEPT ![Len(running)] = Call("body", m)]
    /\ UNCHANGED <<clears, overlaps>>

\* ll_require after the body: a result other than nil becomes the entry,
\* which is true when nothing was stored.
ll_require_end(result) ==
    /\ running # <<>> /\ current.phase = "body"
    /\ LET m == current.module
           v == IF result # "nil" THEN result ELSE loaded[m]
       IN  /\ Stored(m, IF v = "sentinel" THEN "true" ELSE v)
           /\ failed' = failed \ {m}
    /\ running' = SubSeq(running, 1, Len(running) - 1)
    /\ UNCHANGED <<starts, overlaps>>

\* module(m): the entry becomes a table, unless the name has another global.
ll_module(m) ==
    \/ loaded[m] # "table" /\ luaL_error
    \/ /\ loaded' = [loaded EXCEPT ![m] = "table"]
       /\ UNCHANGED <<running, failed, starts, clears, overlaps>>

\* package.loaded[m] = v
Assign(m, v) == Stored(m, v) /\ UNCHANGED <<running, failed, starts, overlaps>>

RequireInit ==
    /\ loaded = [m \in Modules |-> "nil"] /\ running = <<>> /\ failed = {}
    /\ starts = [m \in Modules |-> 0] /\ clears = [m \in Modules |-> 0]
    /\ overlaps = [m \in Modules |-> 0]

RequireNext ==
    \/ \E m \in Modules : ll_require(m)
    \/ ll_require_notfound
    \/ ll_require_found
    \/ \E result \in LoadedValues : ll_require_end(result)
    \/ \E m \in Modules : ll_module(m)
    \/ \E m \in Modules, v \in LoadedValues : Assign(m, v)
    \/ luaL_error

RequireSpec == RequireInit /\ [][RequireNext]_requireVars

(***************************************************************************)
(* Properties.                                                             *)
(***************************************************************************)
\* A body is run once, but for two reasons to run it again: the program made
\* the entry nil or false, or a require of the module came in the middle of
\* the search of another one, which marks the entry only after its search
\* (ll_require).  Modules that require each other in a circle of bodies, and
\* bodies that fail, are no reason.  And the mark of a body under way is in no
\* entry whose body has ended without an error, so no program is given it.
RequireOnce ==
    \A m \in Modules :
      /\ starts[m] <= 1 + clears[m] + overlaps[m]
      /\ loaded[m] = "sentinel" => m \in Running \cup failed
=============================================================================
