------------------------------- MODULE LuaGC -------------------------------
(***************************************************************************)
(* The incremental mark and sweep collector of the bundled Lua 5.1 virtual *)
(* machine (sources/lua/lgc.c), interleaved with the program it serves.    *)
(*                                                                         *)
(* The collector never runs by itself: singlestep is called between two    *)
(* instructions of the program (luaC_checkGC), so every collector step and *)
(* every program operation is one atomic action and the two interleave     *)
(* freely.  The one exception is atomic(), during which the program does   *)
(* not run: its stages are the values "remark", "weak", "again" and "tmu"  *)
(* of gcstate (the C variable stays GCSpropagate throughout).              *)
(*                                                                         *)
(* A heap object is a member of one of the kind sets; color "free" means   *)
(* that it is not allocated.  The pointers an object holds are its fields: *)
(* fld[o][f] is an object or Nil, and Nil also stands for every value that *)
(* is not collectable.  A table is one array slot "arr", one hash node     *)
(* ("key", "val") and a metatable; an empty node holds no key, because the *)
(* key of an empty node is never followed.  A prototype holds one constant *)
(* or nested prototype "k", a Lua closure one upvalue, a C closure one     *)
(* value "cup"; "co" is the argument of a coroutine.resume in progress.    *)
(* The lists linked through gclist or next are sets: the order in which    *)
(* the collector visits them is left open.                                 *)
(***************************************************************************)
EXTENDS Naturals, FiniteSets

CONSTANTS
  Tables, Udatas, LClosures, CClosures, Protos, Upvals, Strings, Threads,
  MaxStack,     \* the stack slots of a thread
  Nil,
  MainThread,   \* g->mainthread
  Registry,     \* registry(L)
  Globals,      \* gt(L) of the main thread when the program starts
  FixedStrings, \* strings with FIXEDBIT: reserved words, tag method names
  WeakK, WeakV, \* tables that, used as metatables, say __mode "k" / "v"
  HasGC,        \* tables that, used as metatables, define __gc
  Ops           \* the operations the program of this instance performs

Obj == Tables \cup Udatas \cup LClosures \cup CClosures \cup Protos
         \cup Upvals \cup Strings \cup Threads

\* The kinds that can sit in a register of the virtual machine.
Value == Obj \ Upvals

\* The kinds with a gclist field: they are gray while on a collector list.
Listed == Tables \cup LClosures \cup CClosures \cup Protos \cup Threads

Field == {"meta", "arr", "key", "val", "env", "upv", "cup", "proto", "k", "co"}

Slots == 1..MaxStack

OpNames == {"table", "array", "node", "meta", "typemeta", "udata", "env",
            "lclosure", "upval", "cclosure", "proto", "thread", "string",
            "fullgc"}

ASSUME KindsDisjoint ==
  /\ Tables \cap (Udatas \cup LClosures \cup CClosures \cup Protos \cup Upvals
                    \cup Strings \cup Threads) = {}
  /\ Udatas \cap (LClosures \cup CClosures \cup Protos \cup Upvals
                    \cup Strings \cup Threads) = {}
  /\ LClosures \cap (CClosures \cup Protos \cup Upvals \cup Strings \cup Threads) = {}
  /\ CClosures \cap (Protos \cup Upvals \cup Strings \cup Threads) = {}
  /\ Protos \cap (Upvals \cup Strings \cup Threads) = {}
  /\ Upvals \cap (Strings \cup Threads) = {}
  /\ Strings \cap Threads = {}
  /\ Nil \notin Obj

ASSUME ConstantsOK ==
  /\ MainThread \in Threads
  /\ Registry \in Tables
  /\ FixedStrings \subseteq Strings
  /\ Globals \in Tables
  /\ MaxStack \in Nat \ {0}
  /\ WeakK \subseteq Tables /\ WeakV \subseteq Tables /\ HasGC \subseteq Tables
  /\ Ops \subseteq OpNames

VARIABLES
  color,        \* marked: "free", one of the two whites, "gray" or "black"
  fld,          \* the pointers stored in each object
  stk,          \* the stack of each thread
  uvth, uvslot, \* where an open upvalue points: thread and slot; Nil, 1 if closed
  currentwhite,
  gcstate,
  gray, grayagain, weak,  \* the collector's lists
  tmudata,      \* userdata waiting for their finalizer
  finalized,    \* userdata with FINALIZEDBIT
  called,       \* userdata whose __gc has been called (history)
  sweepstr,     \* strings the current sweep has not visited yet
  sweepgc,      \* the part of rootgc the current sweep has not visited yet
  full,         \* what a luaC_fullgc in progress does: "none", "sweep", "mark"
  running,      \* the thread L that executes
  level,        \* how many resumes deep a thread runs (history)
  gmt           \* g->mt: the metatable of a basic type

heapVars == <<fld, stk, uvth, uvslot>>
listVars == <<gray, grayagain, weak>>
udVars   == <<tmudata, finalized, called>>
swVars   == <<sweepstr, sweepgc, full>>
progVars == <<running, level, gmt>>
vars == <<color, heapVars, currentwhite, gcstate, listVars, udVars, swVars, progVars>>

(***************************************************************************)
(* Colors (lgc.h).                                                         *)
(***************************************************************************)
Whites == {"white0", "white1"}
Colors == Whites \cup {"gray", "black", "free"}

iswhite(o) == color[o] \in Whites
otherwhite == IF currentwhite = "white0" THEN "white1" ELSE "white0"
isdead(o)  == color[o] = otherwhite
Allocated  == {o \in Obj : color[o] # "free"}

\* Objects with FIXEDBIT, which sweeplist never takes for dead.
Fixed == {MainThread} \cup FixedStrings

Atomic   == {"remark", "weak", "again", "tmu"}
Marking  == {"propagate"} \cup Atomic
Sweeping == {"sweepstring", "sweep", "finalize"}

(***************************************************************************)
(* What an object points to.                                               *)
(***************************************************************************)
NoFields == [f \in Field |-> Nil]
NoStack  == [i \in Slots |-> Nil]

isopen(u) == uvth[u] # Nil

\* *uv->v: a stack slot while the upvalue is open, then its own copy.
UvVal(u) == IF isopen(u) THEN stk[uvth[u]][uvslot[u]] ELSE fld[u]["val"]

StackOf(t) == {stk[t][i] : i \in Slots} \ {Nil}

Refs(o) ==
  ({fld[o][f] : f \in Field} \ {Nil})
    \cup (IF o \in Threads THEN StackOf(o) ELSE {})
    \cup (IF o \in Upvals THEN {UvVal(o)} \ {Nil} ELSE {})

weakkey(t)   == fld[t]["meta"] \in WeakK
weakvalue(t) == fld[t]["meta"] \in WeakV
isweak(t)    == weakkey(t) \/ weakvalue(t)

\* The references traversetable follows.
TableRefs(t) ==
  LET strong == {"meta"} \cup (IF weakvalue(t) THEN {} ELSE {"arr", "val"})
                         \cup (IF weakkey(t) THEN {} ELSE {"key"})
  IN  {fld[t][f] : f \in strong} \ {Nil}

StrongRefs(o) == IF o \in Tables THEN TableRefs(o) ELSE Refs(o)

\* fasttm(L, u->metatable, TM_GC) # NULL
hasTM(u) == fld[u]["meta"] \in HasGC

(***************************************************************************)
(* reallymarkobject: marking the objects S turns the white ones gray; an   *)
(* upvalue passes the mark to its value and a userdata to its metatable    *)
(* and its environment, at once.  A userdata and a closed upvalue end      *)
(* black; the kinds with a gclist go to the gray list.                     *)
(***************************************************************************)
Marked(S) ==
  LET white(T) == {o \in T : o # Nil /\ iswhite(o)}
      direct   == white(S)
      values   == direct \cup white({UvVal(u) : u \in direct \cap Upvals})
      uds      == values \cap Udatas
  IN  values \cup white({fld[u]["meta"] : u \in uds} \cup {fld[u]["env"] : u \in uds})

MarkColor(o) == IF o \in Udatas \/ (o \in Upvals /\ ~isopen(o)) THEN "black" ELSE "gray"

colorAfterMark(S) == [o \in Obj |-> IF o \in Marked(S) THEN MarkColor(o) ELSE color[o]]
grayAfterMark(S)  == gray \cup (Marked(S) \cap Listed)

(***************************************************************************)
(* The mark phase.                                                         *)
(***************************************************************************)
\* singlestep, GCSpause: start a cycle.  luaC_fullgc also starts one from
\* GCSfinalize, without calling the finalizers that still wait.
markroot ==
  /\ \/ gcstate = "pause" /\ full' = full
     \/ gcstate = "finalize" /\ full = "sweep" /\ full' = "mark"
  /\ LET roots == {MainThread, fld[MainThread]["env"], Registry, gmt} \ {Nil}
     IN  /\ color' = colorAfterMark(roots)
         /\ gray' = Marked(roots) \cap Listed
  /\ grayagain' = {} /\ weak' = {}
  /\ gcstate' = "propagate"
  /\ UNCHANGED <<heapVars, currentwhite, udVars, sweepstr, sweepgc, progVars>>

\* Mutant: a thread that was visited is not visited again.
toagain_never(o) == FALSE

\* A thread has no write barrier: it stays gray and is visited again at the
\* end.  A weak table stays gray too, to be cleared.
toagain(o) == o \in Threads
toweak(o)  == o \in Tables /\ isweak(o)

\* One gray object is traversed.
propagatemark(o) ==
  /\ gcstate \in Marking
  /\ o \in gray
  /\ LET kids == StrongRefs(o)
     IN  /\ color' = [colorAfterMark(kids) EXCEPT
                        ![o] = IF toagain(o) \/ toweak(o) THEN "gray" ELSE "black"]
         /\ gray' = grayAfterMark(kids) \ {o}
         /\ grayagain' = IF toagain(o) THEN grayagain \cup {o} ELSE grayagain
         /\ weak' = IF toweak(o) THEN weak \cup {o} ELSE weak
  /\ UNCHANGED <<heapVars, currentwhite, gcstate, udVars, swVars, progVars>>

\* remarkupvals: a marked open upvalue may belong to an unmarked thread.
uvheadValues == {UvVal(u) : u \in {v \in Upvals : isopen(v) /\ color[v] = "gray"}} \ {Nil}

\* atomic: the mark phase ends.
remarkupvals ==
  /\ gcstate = "propagate" /\ gray = {}
  /\ color' = colorAfterMark(uvheadValues) /\ gray' = grayAfterMark(uvheadValues)
  /\ gcstate' = "remark"
  /\ UNCHANGED <<heapVars, currentwhite, grayagain, weak, udVars, swVars, progVars>>

\* Mutant: the metatables of the basic types are marked only at the start.
atomicRoots_nomt == {running}

\* atomic: the weak tables are visited again, the running thread and g->mt
\* marked (again).
atomicRoots == {running, gmt} \ {Nil}

remarkweak ==
  /\ gcstate = "remark" /\ gray = {}
  /\ color' = colorAfterMark(atomicRoots)
  /\ gray' = weak \cup (Marked(atomicRoots) \cap Listed)
  /\ weak' = {}
  /\ gcstate' = "weak"
  /\ UNCHANGED <<heapVars, currentwhite, grayagain, udVars, swVars, progVars>>

\* atomic: what the write barrier caught, and the threads, visited again.
remarkgrayagain ==
  /\ gcstate = "weak" /\ gray = {}
  /\ gray' = grayagain /\ grayagain' = {}
  /\ gcstate' = "again"
  /\ UNCHANGED <<color, heapVars, currentwhite, weak, udVars, swVars, progVars>>

\* Mutants: FINALIZEDBIT is ignored; a full collection separates nothing.
Separated_again == {u \in Udatas : iswhite(u) /\ u \notin tmudata}
Separated_nofull == {u \in Udatas : iswhite(u) /\ u \notin finalized /\ u \notin tmudata /\ full = "none"}

\* luaC_separateudata(L, 0): unreachable userdata that had no chance to be
\* finalized yet.  The ones without a finalizer only lose that chance.
Separated == {u \in Udatas : iswhite(u) /\ u \notin finalized /\ u \notin tmudata}

\* What marktmu marks besides the userdata themselves.
preserved(tmu) == ({fld[u]["meta"] : u \in tmu} \cup {fld[u]["env"] : u \in tmu}) \ {Nil}

\* marktmu: makewhite then reallymarkobject on each member of tmudata, the
\* members left from an earlier cycle included.
separateudata ==
  /\ gcstate = "again" /\ gray = {}
  /\ LET tmu   == tmudata \cup {u \in Separated : hasTM(u)}
         owned == preserved(tmu)
     IN  /\ color' = [o \in Obj |-> IF o \in tmu THEN "black" ELSE colorAfterMark(owned)[o]]
         /\ gray' = grayAfterMark(owned)
         /\ tmudata' = tmu
  /\ finalized' = finalized \cup Separated
  /\ gcstate' = "tmu"
  /\ UNCHANGED <<heapVars, currentwhite, grayagain, weak, called, swVars, progVars>>

\* Mutant: only finalized userdata leave a weak table.
iscleared_finalized(v, iskey) == v \in Udatas /\ ~iskey /\ v \in finalized

\* iscleared, for an object that is not a string.
iscleared(v, iskey) ==
  /\ v # Nil /\ v \notin Strings
  /\ \/ iswhite(v)
     \/ v \in Udatas /\ ~iskey /\ v \in finalized

\* cleartable: the fields of t once its collected entries are gone.
clearedFields(t) ==
  LET dropNode == iscleared(fld[t]["key"], TRUE) \/ iscleared(fld[t]["val"], FALSE)
      dropArr  == weakvalue(t) /\ iscleared(fld[t]["arr"], FALSE)
      gone     == (IF dropNode THEN {"key", "val"} ELSE {}) \cup (IF dropArr THEN {"arr"} ELSE {})
  IN  [f \in Field |-> IF f \in gone THEN Nil ELSE fld[t][f]]

\* Mutant: a string that only weak tables refer to is not kept.
stringsKept_none(t) == {}

\* The strings iscleared marks: a weak table never loses them.  The value of
\* a node is not looked at when its key goes.
stringsKept(t) ==
  Strings \cap ({fld[t]["key"]}
    \cup (IF iscleared(fld[t]["key"], TRUE) THEN {} ELSE {fld[t]["val"]})
    \cup (IF weakvalue(t) THEN {fld[t]["arr"]} ELSE {}))

\* Mutant: strings linked into rootgc.
rootgc_strings == {o \in Allocated : o \notin tmudata /\ ~(o \in Upvals /\ isopen(o))}

\* The objects sweeplist finds through rootgc: open upvalues hang on their
\* threads, and tmudata is a list of its own.
rootgc == {o \in Allocated : o \notin Strings /\ o \notin tmudata
                               /\ ~(o \in Upvals /\ isopen(o))}

\* atomic: clear the weak tables, flip the white, start the sweep.
cleartables ==
  /\ gcstate = "tmu" /\ gray = {}
  /\ fld' = [o \in Obj |-> IF o \in weak THEN clearedFields(o) ELSE fld[o]]
  /\ color' = colorAfterMark(UNION {stringsKept(t) : t \in weak})
  /\ currentwhite' = otherwhite
  /\ sweepstr' = Allocated \cap Strings
  /\ sweepgc' = rootgc
  /\ gcstate' = "sweepstring"
  /\ UNCHANGED <<stk, uvth, uvslot, listVars, udVars, full, progVars>>

(***************************************************************************)
(* The sweep phase.                                                        *)
(***************************************************************************)
\* Mutants: the survivors keep their mark; a finalized userdata is never freed.
sweptColor_keep(o) == IF isdead(o) /\ o \notin Fixed THEN "free" ELSE color[o]
sweptColor_udata(o) == IF isdead(o) /\ o \notin Fixed \cup finalized THEN "free" ELSE currentwhite

\* The color sweeplist leaves an object with.
sweptColor(o) == IF isdead(o) /\ o \notin Fixed THEN "free" ELSE currentwhite

\* singlestep, GCSsweepstring: one bucket of the string table.
sweepstring ==
  /\ gcstate = "sweepstring"
  /\ \E B \in SUBSET sweepstr :
       /\ B = {} => sweepstr = {}
       /\ color' = [o \in Obj |-> IF o \in B THEN sweptColor(o) ELSE color[o]]
       /\ sweepstr' = sweepstr \ B
       /\ gcstate' = IF sweepstr \subseteq B THEN "sweep" ELSE "sweepstring"
  /\ UNCHANGED <<heapVars, currentwhite, listVars, udVars, sweepgc, full, progVars>>

openOf(t) == {u \in Upvals : uvth[u] = t}

\* Mutant: a freed thread leaves its surviving upvalues open.
unlinked_dead(o, F) == F \cap Upvals

\* luaE_freethread: a thread that is freed closes its open upvalues.
unlinked(o, F) == IF o \in F THEN openOf(o) ELSE F \cap Upvals

\* singlestep, GCSsweep: one object of rootgc.  A thread takes its open
\* upvalues along.
sweeplist(o) ==
  /\ gcstate = "sweep"
  /\ o \in sweepgc
  /\ LET S     == {o} \cup (IF o \in Threads THEN openOf(o) ELSE {})
         F     == {x \in S : sweptColor(x) = "free"}
         close == unlinked(o, F)
     IN  /\ color' = [x \in Obj |-> IF x \in S THEN sweptColor(x) ELSE color[x]]
         /\ fld' = [x \in Obj |-> IF x \in F THEN NoFields
                                   ELSE IF x \in close THEN [fld[x] EXCEPT !["val"] = UvVal(x)]
                                   ELSE fld[x]]
         /\ stk' = [t \in Threads |-> IF t \in F THEN NoStack ELSE stk[t]]
         /\ uvth' = [u \in Upvals |-> IF u \in close THEN Nil ELSE uvth[u]]
         /\ uvslot' = [u \in Upvals |-> IF u \in close THEN 1 ELSE uvslot[u]]
         /\ finalized' = finalized \ F
         /\ called' = called \ F
  /\ sweepgc' = sweepgc \ {o}
  /\ gcstate' = IF sweepgc' = {} THEN "finalize" ELSE "sweep"
  /\ full' = IF sweepgc' = {} /\ full = "mark" THEN "none" ELSE full
  /\ UNCHANGED <<currentwhite, listVars, tmudata, sweepstr, progVars>>

(***************************************************************************)
(* The finalizers.                                                         *)
(***************************************************************************)
\* GCTM: the first userdata of tmudata returns to rootgc as a white object
\* and is passed to its finalizer, if its metatable still has one.
GCTM(u, i) ==
  /\ gcstate = "finalize" /\ full = "none"
  /\ u \in tmudata
  /\ tmudata' = tmudata \ {u}
  /\ color' = [color EXCEPT ![u] = currentwhite]
  /\ IF hasTM(u)
       THEN /\ stk' = [stk EXCEPT ![running][i] = u]
            /\ called' = called \cup {u}
       ELSE UNCHANGED <<stk, called>>
  /\ UNCHANGED <<fld, uvth, uvslot, currentwhite, gcstate, listVars, finalized, swVars, progVars>>

\* singlestep, GCSfinalize with nothing left to call.
endcollection ==
  /\ gcstate = "finalize" /\ full = "none"
  /\ tmudata = {}
  /\ gcstate' = "pause"
  /\ UNCHANGED <<color, heapVars, currentwhite, listVars, udVars, swVars, progVars>>

singlestep ==
  \/ markroot
  \/ \E o \in Listed : propagatemark(o)
  \/ remarkupvals \/ remarkweak \/ remarkgrayagain \/ separateudata \/ cleartables
  \/ sweepstring
  \/ \E o \in Obj : sweeplist(o)
  \/ \E u \in Udatas, i \in Slots : GCTM(u, i)
  \/ endcollection

(***************************************************************************)
(* Write barriers.                                                         *)
(***************************************************************************)
\* Mutant: the table turns gray and is not linked.
luaC_barriert_unlinked(t, V) ==
  /\ color' = IF color[t] = "black" /\ \E v \in V \ {Nil} : iswhite(v)
              THEN [color EXCEPT ![t] = "gray"] ELSE color
  /\ UNCHANGED <<gray, grayagain, weak>>

\* luaC_barriert: a black table that receives a white object turns gray again.
luaC_barriert(t, V) ==
  LET caught == color[t] = "black" /\ \E v \in V \ {Nil} : iswhite(v)
  IN  /\ color' = IF caught THEN [color EXCEPT ![t] = "gray"] ELSE color
      /\ grayagain' = IF caught THEN grayagain \cup {t} ELSE grayagain
      /\ UNCHANGED <<gray, weak>>

\* Mutant: no barrier.
luaC_barrier_none(o, v) == UNCHANGED <<color, gray, grayagain, weak>>

\* luaC_barrier: while marking, the white object is marked; during the sweep
\* the black object is swept ahead of time.
luaC_barrier(o, v) ==
  LET caught == color[o] = "black" /\ v # Nil /\ iswhite(v)
      marks  == caught /\ gcstate = "propagate"
  IN  /\ color' = IF marks THEN colorAfterMark({v})
                  ELSE IF caught THEN [color EXCEPT ![o] = currentwhite] ELSE color
      /\ gray' = IF marks THEN grayAfterMark({v}) ELSE gray
      /\ UNCHANGED <<grayagain, weak>>

(***************************************************************************)
(* The program.  It runs between two collector steps, on thread running.   *)
(***************************************************************************)
Program == full = "none" /\ gcstate \notin Atomic

\* What a register, an upvalue index or a pseudo index denotes, and what one
\* more read reaches from there.
Direct == StackOf(running) \cup {Registry}
Operand == (Direct \ Protos) \cup {Nil}

Readable ==
  LET cls == Direct \cap LClosures
      uvs == {fld[c]["upv"] : c \in cls} \ {Nil}
      ps  == {fld[c]["proto"] : c \in cls} \ {Nil}
  IN  ((UNION {Refs(o) : o \in Direct \ Protos})
         \cup {UvVal(u) : u \in uvs} \cup {fld[p]["k"] : p \in ps}
         \cup {gmt, fld[running]["env"]}) \ (Upvals \cup Protos)

\* getcurrenv: the environment of a function being called, or gt(L).
CurrEnv == {fld[running]["env"]} \cup {fld[c]["env"] : c \in Direct \cap (LClosures \cup CClosures)}

Store(o, f, v) == fld' = [fld EXCEPT ![o][f] = v]

\* luaC_link: the new object o, with fields init, goes to register i.
Create(o, init, i) ==
  /\ color[o] = "free"
  /\ color' = [color EXCEPT ![o] = currentwhite]
  /\ fld' = [fld EXCEPT ![o] = init]
  /\ stk' = [stk EXCEPT ![running][i] = o]
  /\ UNCHANGED <<uvth, uvslot, listVars>>

collectorVars == <<currentwhite, gcstate, udVars, swVars>>

\* OP_MOVE, OP_LOADK, OP_GETTABLE, OP_GETUPVAL, lua_pushvalue...
OP_MOVE(i, v) ==
  /\ Program
  /\ v \in Operand \cup Readable
  /\ stk' = [stk EXCEPT ![running][i] = v]
  /\ UNCHANGED <<color, fld, uvth, uvslot, listVars, collectorVars, progVars>>

luaH_new(t, i) ==
  /\ Program /\ "table" \in Ops
  /\ Create(t, NoFields, i)
  /\ UNCHANGED <<collectorVars, progVars>>

\* luaV_settable, lua_rawseti, OP_SETLIST on the array part.
setarray(t, v) ==
  /\ Program /\ "array" \in Ops
  /\ t \in Direct /\ v \in Operand
  /\ Store(t, "arr", v)
  /\ luaC_barriert(t, {v})
  /\ UNCHANGED <<stk, uvth, uvslot, collectorVars, progVars>>

\* luaV_settable, lua_rawset on the hash part: newkey has a barrier of its own.
\* k = Nil: the key is not collectable; k = v = Nil: the entry is removed.
setnode(t, k, v) ==
  /\ Program /\ "node" \in Ops
  /\ t \in Direct /\ k \in Operand /\ v \in Operand
  /\ fld' = [fld EXCEPT ![t]["key"] = k, ![t]["val"] = v]
  /\ luaC_barriert(t, IF k = fld[t]["key"] THEN {v} ELSE {k, v})
  /\ UNCHANGED <<stk, uvth, uvslot, collectorVars, progVars>>

\* lua_setmetatable on a table, on a userdata and on a basic type.
lua_setmetatable(o, mt) ==
  /\ Program /\ "meta" \in Ops
  /\ o \in Direct \cap (Tables \cup Udatas) /\ mt \in Operand \cap (Tables \cup {Nil})
  /\ Store(o, "meta", mt)
  /\ IF o \in Tables THEN luaC_barriert(o, {mt}) ELSE luaC_barrier(o, mt)
  /\ UNCHANGED <<stk, uvth, uvslot, collectorVars, progVars>>

settypemetatable(mt) ==
  /\ Program /\ "typemeta" \in Ops
  /\ mt \in Operand \cap (Tables \cup {Nil})
  /\ gmt' = mt
  /\ UNCHANGED <<color, heapVars, listVars, collectorVars, running, level>>

luaS_newudata(u, e, i) ==
  /\ Program /\ "udata" \in Ops
  /\ e \in CurrEnv
  /\ Create(u, [NoFields EXCEPT !["env"] = e], i)
  /\ UNCHANGED <<collectorVars, progVars>>

\* lua_setfenv on a function, a userdata or a thread; lua_replace on the
\* environment of a function.
lua_setfenv(o, e) ==
  /\ Program /\ "env" \in Ops
  /\ o \in Direct \cap (LClosures \cup CClosures \cup Udatas \cup Threads)
  /\ e \in Direct \cap Tables
  /\ Store(o, "env", e)
  /\ luaC_barrier(o, e)
  /\ UNCHANGED <<stk, uvth, uvslot, collectorVars, progVars>>

lua_pushcclosure(c, e, v, i) ==
  /\ Program /\ "cclosure" \in Ops
  /\ e \in CurrEnv /\ v \in Operand
  /\ Create(c, [NoFields EXCEPT !["env"] = e, !["cup"] = v], i)
  /\ UNCHANGED <<collectorVars, progVars>>

\* lua_replace on an upvalue index, lua_setupvalue on a C function.
lua_replace(c, v) ==
  /\ Program /\ "cclosure" \in Ops
  /\ c \in Direct \cap CClosures /\ v \in Operand
  /\ Store(c, "cup", v)
  /\ luaC_barrier(c, v)
  /\ UNCHANGED <<stk, uvth, uvslot, collectorVars, progVars>>

\* open_func: the parser anchors a new prototype on the stack.
luaF_newproto(p, i) ==
  /\ Program /\ "proto" \in Ops
  /\ Create(p, NoFields, i)
  /\ UNCHANGED <<collectorVars, progVars>>

\* addk, registerlocalvar, indexupvalue: a string of register j; pushclosure:
\* the nested prototype of register j, which leaves the stack.
addk(p, j) ==
  /\ Program /\ "proto" \in Ops
  /\ p \in Direct
  /\ LET v == stk[running][j]
     IN  /\ v \in (Strings \cup Protos) \ {p} /\ fld[v]["k"] # p
         /\ Store(p, "k", v)
         /\ luaC_barrier(p, v)
         /\ stk' = IF v \in Protos THEN [stk EXCEPT ![running][j] = Nil] ELSE stk
  /\ UNCHANGED <<uvth, uvslot, collectorVars, progVars>>

\* The prototypes a new closure can have; an instance without prototypes
\* leaves them out of its closures.
parsedProtos(i) == IF Protos = {} THEN {Nil} ELSE {stk[running][i]} \cap Protos
nestedProtos(c) == IF Protos = {} THEN {Nil}
                   ELSE IF fld[c]["proto"] = Nil THEN {} ELSE {fld[fld[c]["proto"]]["k"]} \cap Protos

\* f_parser: the main function of a chunk replaces its prototype; its upvalue,
\* if it has one, is a new closed one (luaF_newupval).
f_parser(c, u, i) ==
  /\ Program /\ "lclosure" \in Ops
  /\ color[c] = "free" /\ (u # Nil => color[u] = "free")
  /\ \E p \in parsedProtos(i) :
       fld' = [fld EXCEPT ![c] = [NoFields EXCEPT !["env"] = fld[running]["env"],
                                                  !["proto"] = p, !["upv"] = u]]
  /\ color' = [o \in Obj |-> IF o \in {c, u} THEN currentwhite ELSE color[o]]
  /\ stk' = [stk EXCEPT ![running][i] = c]
  /\ UNCHANGED <<uvth, uvslot, listVars, collectorVars, progVars>>

Closure(c, cl, p, u) ==
  fld' = [fld EXCEPT ![c] = [NoFields EXCEPT !["env"] = fld[cl]["env"],
                                             !["proto"] = p, !["upv"] = u]]

\* OP_CLOSURE with OP_GETUPVAL: the new closure shares the upvalue of cl.
OP_CLOSURE_shared(c, cl, i) ==
  /\ Program /\ "lclosure" \in Ops
  /\ color[c] = "free" /\ cl \in Direct /\ fld[cl]["upv"] # Nil
  /\ \E p \in nestedProtos(cl) : Closure(c, cl, p, fld[cl]["upv"])
  /\ color' = [color EXCEPT ![c] = currentwhite]
  /\ stk' = [stk EXCEPT ![running][i] = c]
  /\ UNCHANGED <<uvth, uvslot, listVars, collectorVars, progVars>>

\* A new object, or one found among the dead, gets the current white.
revived(o) == IF color[o] = "free" \/ isdead(o) THEN currentwhite ELSE color[o]

\* luaF_findupval: the open upvalue of register j, or else an unused one.
findupval(j) ==
  LET at == {u \in openOf(running) : uvslot[u] = j}
  IN  IF at # {} THEN at ELSE {u \in Upvals : color[u] = "free"}

\* OP_CLOSURE with OP_MOVE: the new closure captures register j.  An open
\* upvalue that waits for the sweep is resurrected.
OP_CLOSURE_local(c, cl, j, u, i) ==
  /\ Program /\ "lclosure" \in Ops
  /\ color[c] = "free" /\ cl \in Direct
  /\ u \in findupval(j)
  /\ \E p \in nestedProtos(cl) : Closure(c, cl, p, u)
  /\ color' = [color EXCEPT ![c] = currentwhite, ![u] = revived(u)]
  /\ uvth' = [uvth EXCEPT ![u] = running] /\ uvslot' = [uvslot EXCEPT ![u] = j]
  /\ stk' = [stk EXCEPT ![running][i] = c]
  /\ UNCHANGED <<listVars, collectorVars, progVars>>

\* OP_SETUPVAL executed by closure cl.
OP_SETUPVAL(cl, v) ==
  /\ Program /\ "upval" \in Ops
  /\ cl \in Direct /\ v \in Operand
  /\ LET u == fld[cl]["upv"]
     IN  /\ u # Nil
         /\ IF isopen(u)
              THEN stk' = [stk EXCEPT ![uvth[u]][uvslot[u]] = v] /\ fld' = fld
              ELSE Store(u, "val", v) /\ stk' = stk
         /\ luaC_barrier(u, v)
  /\ UNCHANGED <<uvth, uvslot, collectorVars, progVars>>

\* Mutant: a closed upvalue turns black without a barrier.
closeMarks_none(S) == {}

\* luaC_linkupval: a gray upvalue turns black when it is closed, so its value
\* needs a barrier; during the sweep it turns white instead.
closeMarks(S) ==
  IF gcstate = "propagate" THEN {UvVal(u) : u \in {w \in S : color[w] = "gray"}} \ {Nil} ELSE {}

closedColor(u) == CASE isdead(u) -> "free"
                    [] color[u] = "gray" /\ gcstate = "propagate" -> "black"
                    [] color[u] = "gray" /\ gcstate # "propagate" -> currentwhite
                    [] OTHER -> color[u]

\* luaF_close(L, from): OP_CLOSE, OP_RETURN, luaD_pcall.  Dead upvalues are
\* freed; the others take a copy of the register.
luaF_close(from) ==
  /\ Program /\ "upval" \in Ops
  /\ LET S == {u \in openOf(running) : uvslot[u] >= from}
         F == {u \in S : isdead(u)}
     IN  /\ S # {}
         /\ color' = [o \in Obj |-> IF o \in S THEN closedColor(o) ELSE colorAfterMark(closeMarks(S))[o]]
         /\ gray' = grayAfterMark(closeMarks(S))
         /\ fld' = [o \in Obj |-> IF o \in S \ F THEN [fld[o] EXCEPT !["val"] = UvVal(o)] ELSE fld[o]]
         /\ uvth' = [u \in Upvals |-> IF u \in S THEN Nil ELSE uvth[u]]
         /\ uvslot' = [u \in Upvals |-> IF u \in S THEN 1 ELSE uvslot[u]]
  /\ UNCHANGED <<stk, grayagain, weak, collectorVars, progVars>>

\* luaE_newthread: the new thread shares the table of globals.
lua_newthread(t, i) ==
  /\ Program /\ "thread" \in Ops
  /\ Create(t, [NoFields EXCEPT !["env"] = fld[running]["env"]], i)
  /\ UNCHANGED <<collectorVars, progVars>>

\* coroutine.resume: the argument t stays on the stack of the resumer.
lua_resume(t) ==
  /\ Program /\ "thread" \in Ops
  /\ t \in Direct /\ t \notin {running, MainThread} /\ fld[t]["co"] = Nil
  /\ Store(running, "co", t)
  /\ running' = t /\ level' = [level EXCEPT ![t] = level[running] + 1]
  /\ UNCHANGED <<color, stk, uvth, uvslot, listVars, collectorVars, gmt>>

\* lua_yield, or the end of the coroutine.
lua_yield(r) ==
  /\ Program /\ "thread" \in Ops
  /\ fld[r]["co"] = running
  /\ Store(r, "co", Nil)
  /\ running' = r /\ level' = [level EXCEPT ![running] = 0]
  /\ UNCHANGED <<color, stk, uvth, uvslot, listVars, collectorVars, gmt>>

\* lua_xmove: arguments and results move between two stacks.
lua_xmove(t, i, v) ==
  /\ Program /\ "thread" \in Ops
  /\ t \in Direct /\ v \in Operand
  /\ stk' = [stk EXCEPT ![t][i] = v]
  /\ UNCHANGED <<color, fld, uvth, uvslot, listVars, collectorVars, progVars>>

\* luaS_newlstr: an equal string is reused, one that waits for the sweep
\* is resurrected.
luaS_newlstr(s, i) ==
  /\ Program /\ "string" \in Ops
  /\ color' = [color EXCEPT ![s] = revived(s)]
  /\ stk' = [stk EXCEPT ![running][i] = s]
  /\ UNCHANGED <<fld, uvth, uvslot, listVars, collectorVars, progVars>>

\* luaC_fullgc: an unfinished mark phase is dropped; a sweep turns everything
\* white before the new cycle starts (markroot, with full = "sweep").
luaC_fullgc ==
  /\ Program /\ "fullgc" \in Ops
  /\ full' = "sweep"
  /\ IF gcstate \in {"pause", "propagate"}
       THEN /\ gray' = {} /\ grayagain' = {} /\ weak' = {}
            /\ sweepstr' = Allocated \cap Strings /\ sweepgc' = rootgc
            /\ gcstate' = "sweepstring"
       ELSE UNCHANGED <<listVars, sweepstr, sweepgc, gcstate>>
  /\ UNCHANGED <<color, heapVars, currentwhite, udVars, progVars>>

program ==
  \/ \E i \in Slots, v \in Obj \cup {Nil} : OP_MOVE(i, v)
  \/ \E t \in Tables :
       \/ \E i \in Slots : luaH_new(t, i)
       \/ \E v \in Operand : setarray(t, v)
       \/ \E k, v \in Operand : setnode(t, k, v)
  \/ \E mt \in Tables \cup {Nil} :
       \/ \E o \in Tables \cup Udatas : lua_setmetatable(o, mt)
       \/ settypemetatable(mt)
  \/ \E u \in Udatas, e \in Tables, i \in Slots : luaS_newudata(u, e, i)
  \/ \E o \in Obj, e \in Tables : lua_setfenv(o, e)
  \/ \E c \in CClosures, v \in Operand :
       \/ \E e \in Tables, i \in Slots : lua_pushcclosure(c, e, v, i)
       \/ lua_replace(c, v)
  \/ \E p \in Protos, i \in Slots : luaF_newproto(p, i) \/ addk(p, i)
  \/ \E c, cl \in LClosures, i \in Slots :
       \/ OP_CLOSURE_shared(c, cl, i)
       \/ \E j \in Slots, u \in Upvals : OP_CLOSURE_local(c, cl, j, u, i)
  \/ \E c \in LClosures, u \in Upvals \cup {Nil}, i \in Slots : f_parser(c, u, i)
  \/ \E cl \in LClosures, v \in Operand : OP_SETUPVAL(cl, v)
  \/ \E from \in Slots : luaF_close(from)
  \/ \E t \in Threads :
       \/ \E i \in Slots : lua_newthread(t, i)
       \/ lua_resume(t) \/ lua_yield(t)
       \/ \E i \in Slots, v \in Operand : lua_xmove(t, i, v)
  \/ \E s \in Strings, i \in Slots : luaS_newlstr(s, i)
  \/ luaC_fullgc

\* lua_newstate and f_luaopen.
Init ==
  /\ color = [o \in Obj |-> IF o \in {MainThread, Registry, Globals} \cup FixedStrings
                            THEN "white0" ELSE "free"]
  /\ fld = [o \in Obj |-> IF o = MainThread THEN [NoFields EXCEPT !["env"] = Globals] ELSE NoFields]
  /\ stk = [t \in Threads |-> NoStack]
  /\ uvth = [u \in Upvals |-> Nil] /\ uvslot = [u \in Upvals |-> 1]
  /\ currentwhite = "white0" /\ gcstate = "pause"
  /\ gray = {} /\ grayagain = {} /\ weak = {}
  /\ tmudata = {} /\ finalized = {} /\ called = {}
  /\ sweepstr = {} /\ sweepgc = {} /\ full = "none"
  /\ running = MainThread /\ level = [t \in Threads |-> 0] /\ gmt = Nil

Next == singlestep \/ program

Spec == Init /\ [][Next]_vars

(***************************************************************************)
(* Properties.                                                             *)
(***************************************************************************)
FieldType(f) ==
  CASE f \in {"meta", "env"} -> Tables
    [] f = "upv" -> Upvals
    [] f = "proto" -> Protos
    [] f = "k" -> Strings \cup Protos
    [] f = "co" -> Threads
    [] OTHER -> Value

\* Every variable, and every field of every object, holds what its C
\* declaration allows; an object that is not allocated holds nothing.
TypeOK ==
  /\ color \in [Obj -> Colors]
  /\ fld \in [Obj -> [Field -> Obj \cup {Nil}]]
  /\ \A o \in Obj, f \in Field : fld[o][f] \in FieldType(f) \cup {Nil}
  /\ stk \in [Threads -> [Slots -> Value \cup {Nil}]]
  /\ uvth \in [Upvals -> Threads \cup {Nil}] /\ uvslot \in [Upvals -> Slots]
  /\ currentwhite \in Whites
  /\ gcstate \in {"pause"} \cup Marking \cup Sweeping
  /\ gray \subseteq Listed /\ grayagain \subseteq Listed /\ weak \subseteq Tables
  /\ tmudata \subseteq Udatas /\ finalized \subseteq Udatas /\ called \subseteq Udatas
  /\ sweepstr \subseteq Strings /\ sweepgc \subseteq Obj \ Strings
  /\ full \in {"none", "sweep", "mark"}
  /\ running \in Threads /\ level \in [Threads -> Nat] /\ gmt \in Tables \cup {Nil}

NotDead(o) == color[o] # "free" /\ ~isdead(o)

\* No object in use points to memory the sweep has freed or is about to free,
\* whatever the program stored, moved or closed since the mark phase began.
NoDangling ==
  \A o \in Obj : NotDead(o) => \A v \in Refs(o) : NotDead(v)

\* The collector never condemns what the program starts from: the main
\* thread, the registry, the running thread, the metatables of basic types.
RootsAlive ==
  \A r \in {MainThread, Registry, running, gmt} \ {Nil} : NotDead(r)

\* luaC_barrierback, luaC_barrierf and "closed upvalues need barrier": while
\* marking, no black object points to a white one.  A userdata that waits for
\* its finalizer is black since an earlier cycle; marktmu visits it again.
Tricolor ==
  gcstate \in Marking =>
    \A o \in Obj : color[o] = "black" /\ o \notin tmudata =>
      \A v \in Refs(o) : ~iswhite(v)

\* Every object has one gclist link: it is on at most one collector list, and
\* a gray object that can be traversed is on one, else it would never be.
GrayLists ==
  gcstate \in Marking =>
    /\ gray \cap grayagain = {} /\ gray \cap weak = {} /\ grayagain \cap weak = {}
    /\ {o \in Listed : color[o] = "gray"} = gray \cup grayagain \cup weak

\* Between two mark phases, what is not white as a new object is, dead or
\* marked, is still ahead of the sweep in progress: nothing dead is missed,
\* nothing starts the next cycle gray or black.
SweepPending ==
  gcstate \notin Marking =>
    \A o \in Obj : color[o] \notin {currentwhite, "free"} =>
      \/ o \in sweepstr \cup sweepgc \cup tmudata
      \/ o \in Upvals /\ uvth[o] \in sweepgc

\* lua_assert(!isblack(o)) in luaF_close, and luaF_findupval: an open upvalue is
\* never black, lives on an allocated thread and is the only one of its slot.
OpenUpvals ==
  \A u \in Upvals : isopen(u) =>
    /\ color[u] \notin {"black", "free"}
    /\ color[uvth[u]] # "free"
    /\ \A w \in Upvals : uvth[w] = uvth[u] /\ uvslot[w] = uvslot[u] => w = u

\* A userdata whose __gc has run never waits for a finalizer again, even if
\* the finalizer made it reachable.
FinalizeOnce == [][\A u \in tmudata' \ tmudata : u \notin called]_vars

\* No userdata is freed before luaC_separateudata has considered it, nor while
\* it waits for its finalizer.
NoSilentFree ==
  [][\A u \in Udatas : color[u] # "free" /\ color'[u] = "free" =>
       u \in finalized /\ u \notin tmudata]_vars

\* What the program can still get hold of.  A weak reference does not count.
Roots == {MainThread, Registry, running, gmt} \ {Nil}
Reachable ==
  LET R[n \in 0..Cardinality(Obj)] ==
        IF n = 0 THEN Roots ELSE R[n-1] \cup UNION {StrongRefs(o) : o \in R[n-1]}
  IN  R[Cardinality(Obj)]

\* The program keeps allocating, so luaC_checkGC keeps calling singlestep.
FairSpec == Spec /\ WF_vars(singlestep)

\* Memory comes back: an object the program cannot reach is freed, unless its
\* finalizer, the string table or a captured register makes it reachable again.
GarbageFreed ==
  \A o \in Obj \ Fixed :
    (o \notin Reachable) ~> (color[o] = "free" \/ o \in Reachable)

(***************************************************************************)
(* The facts that, with the properties above, are preserved by every step. *)
(***************************************************************************)
\* Memory that is not in use holds no pointer.
FreeIsEmpty ==
  /\ \A o \in Obj : color[o] = "free" => fld[o] = NoFields
  /\ \A t \in Threads : color[t] = "free" => stk[t] = NoStack
  /\ \A u \in Upvals : isopen(u) => fld[u] = NoFields

\* What each list of the sweep holds, and when.
SweepLists ==
  /\ gcstate # "sweepstring" => sweepstr = {}
  /\ sweepstr \cup sweepgc \cup tmudata \subseteq Allocated
  /\ \A u \in sweepgc \cap Upvals : ~isopen(u)
  /\ \A u \in tmudata : ~isdead(u)

\* luaC_separateudata has considered every userdata that is condemned, whose
\* finalizer has been called or that waits for it, and the sweep in progress
\* does not meet the ones that wait.
Finalization ==
  /\ called \cup tmudata \subseteq finalized
  /\ \A u \in Udatas : isdead(u) \/ (gcstate = "tmu" /\ iswhite(u)) => u \in finalized
  /\ sweepgc \cap tmudata = {}
  /\ gcstate \notin {"sweepstring", "sweep"} => sweepgc = {}

\* A coroutine that runs, or waits for one it resumed, was resumed itself.
ResumeChain ==
  /\ fld[running]["co"] = Nil
  /\ \A t \in Threads \ {MainThread} : t = running \/ fld[t]["co"] # Nil =>
       \E r \in Threads : fld[r]["co"] = t /\ level[r] < level[t]

\* What the mark phase has settled, stage by stage.
MarkStages ==
  /\ gcstate \in Marking =>
       /\ \A o \in Obj : ~isdead(o)
       /\ ~iswhite(MainThread) /\ ~iswhite(Registry)
  /\ gcstate \in Atomic =>
       \A u \in Upvals : isopen(u) /\ color[u] = "gray" => \A v \in Refs(u) : ~iswhite(v)
  /\ gcstate \in {"weak", "again", "tmu"} =>
       /\ ~iswhite(running) /\ (gmt # Nil => ~iswhite(gmt))
       /\ \A t \in weak : \A v \in StrongRefs(t) : ~iswhite(v)
  /\ gcstate \in {"again", "tmu"} => \A o \in grayagain : \A v \in Refs(o) : ~iswhite(v)
  /\ gcstate = "tmu" =>
       \A u \in tmudata : color[u] = "black" /\ \A v \in Refs(u) : ~iswhite(v)

\* The fields an object has; the others stay empty.
FieldsOf(o) ==
  CASE o \in Tables -> {"meta", "arr", "key", "val"}
    [] o \in Udatas -> {"meta", "env"}
    [] o \in LClosures -> {"env", "proto", "upv"}
    [] o \in CClosures -> {"env", "cup"}
    [] o \in Protos -> {"k"}
    [] o \in Upvals -> {"val"}
    [] o \in Threads -> {"env", "co"}
    [] OTHER -> {}

FieldsUsed == \A o \in Obj : \A f \in Field \ FieldsOf(o) : fld[o][f] = Nil

\* A thread is always visited again, a userdata is marked in one go, and an
\* upvalue stays gray only while it is open.
MarkKinds ==
  /\ \A t \in Threads : color[t] # "black"
  /\ \A u \in Udatas : color[u] # "gray"
  /\ \A u \in Upvals : color[u] = "gray" => isopen(u)

\* The inductive invariant.
IInv ==
  /\ TypeOK /\ NoDangling /\ RootsAlive /\ Tricolor /\ GrayLists /\ SweepPending
  /\ OpenUpvals /\ FreeIsEmpty /\ SweepLists /\ Finalization
  /\ ResumeChain /\ MarkStages /\ FieldsUsed /\ MarkKinds

=============================================================================
