---------------------------- MODULE LuaGC_proof ----------------------------
(***************************************************************************)
(* Proofs about LuaGC, for any heap: the types, the order in which         *)
(* finalizers run, and the invariant of the collector, from which it       *)
(* follows that nothing the program can still reach is ever freed.         *)
(***************************************************************************)
EXTENDS LuaGC, LuaInduction

USE DEF Whites, Colors, Marking, Atomic, Sweeping

\* Marking keeps the types of the marks and of the gray list.
LEMMA MarkType ==
  ASSUME TypeOK, NEW S
  PROVE  /\ colorAfterMark(S) \in [Obj -> Colors]
         /\ grayAfterMark(S) \subseteq Listed
  BY DEF TypeOK, colorAfterMark, grayAfterMark, MarkColor

\* Both write barriers keep the types of the marks and of the lists.
LEMMA BarrierType ==
  ASSUME TypeOK, NEW o \in Obj, NEW v, NEW V,
         luaC_barrier(o, v) \/ (o \in Tables /\ luaC_barriert(o, V))
  PROVE  /\ color' \in [Obj -> Colors]
         /\ gray' \subseteq Listed /\ grayagain' \subseteq Listed /\ weak' \subseteq Tables
<1>1. CASE luaC_barrier(o, v)
  BY <1>1, MarkType DEF TypeOK, luaC_barrier
<1>2. CASE o \in Tables /\ luaC_barriert(o, V)
  BY <1>2 DEF TypeOK, luaC_barriert, Listed
<1>. QED BY <1>1, <1>2

\* The pointers an object in TypeOK's heap holds.
FieldsOK(r) == r \in [Field -> Obj \cup {Nil}] /\ \A f \in Field : r[f] \in FieldType(f) \cup {Nil}

HeapOK == fld \in [Obj -> [Field -> Obj \cup {Nil}]]
            /\ \A o \in Obj, f \in Field : fld[o][f] \in FieldType(f) \cup {Nil}

\* An object without contents is well typed.
LEMMA NoFieldsOK == FieldsOK(NoFields)
  BY DEF FieldsOK, NoFields

\* A field given a value of its type.
LEMMA FieldsUpd ==
  ASSUME NEW r, FieldsOK(r), NEW f \in Field, NEW v \in FieldType(f) \cup {Nil}, v \in Obj \cup {Nil}
  PROVE  FieldsOK([r EXCEPT ![f] = v])
  BY DEF FieldsOK

\* An object given well-typed fields.
LEMMA HeapUpd ==
  ASSUME HeapOK, NEW o \in Obj, NEW r, FieldsOK(r), fld' = [fld EXCEPT ![o] = r]
  PROVE  HeapOK'
  BY DEF HeapOK, FieldsOK

\* A store of a value of the type of the field.
LEMMA StoreType ==
  ASSUME HeapOK, NEW o \in Obj, NEW f \in Field, NEW v \in FieldType(f) \cup {Nil}, v \in Obj \cup {Nil}, Store(o, f, v)
  PROVE  HeapOK'
  BY DEF HeapOK, Store


\* A register given a value.
LEMMA StackUpd ==
  ASSUME TypeOK, NEW t \in Threads, NEW i \in Slots, NEW v \in Value \cup {Nil}
  PROVE  [stk EXCEPT ![t][i] = v] \in [Threads -> [Slots -> Value \cup {Nil}]]
<1>1. [stk[t] EXCEPT ![i] = v] \in [Slots -> Value \cup {Nil}]
  BY DEF TypeOK
<1>. QED BY <1>1 DEF TypeOK

\* What the program can name is a value, never an upvalue or garbage bits.
LEMMA OperandType ==
  ASSUME TypeOK
  PROVE  /\ Direct \subseteq Value
         /\ Operand \subseteq Value \cup {Nil}
         /\ Readable \subseteq Value \cup {Nil}
         /\ \A u \in Upvals : UvVal(u) \in Value \cup {Nil}
<1>1. \A t \in Threads : StackOf(t) \subseteq Value
  BY DEF TypeOK, StackOf
<1>2. Direct \subseteq Value
  BY <1>1, ConstantsOK, KindsDisjoint DEF TypeOK, Direct, Value, Obj
<1>3. Operand \subseteq Value \cup {Nil}
  BY <1>2 DEF Operand
<1>4. \A u \in Upvals : UvVal(u) \in Value \cup {Nil}
  <2>. SUFFICES ASSUME NEW u \in Upvals PROVE UvVal(u) \in Value \cup {Nil}
    OBVIOUS
  <2>1. CASE isopen(u)
    BY <2>1 DEF TypeOK, UvVal, isopen
  <2>2. CASE ~isopen(u)
    <3>1. u \in Obj /\ "val" \in Field
      BY DEF Obj, Field
    <3>2. FieldType("val") = Value
      BY DEF FieldType
    <3>. QED BY <2>2, <3>1, <3>2 DEF TypeOK, UvVal
  <2>. QED BY <2>1, <2>2
<1>5. Readable \subseteq Value \cup {Nil}
  <2>1. \A o \in Obj : Refs(o) \subseteq Obj
    <3>. SUFFICES ASSUME NEW o \in Obj PROVE Refs(o) \subseteq Obj
      OBVIOUS
    <3>1. {fld[o][f] : f \in Field} \ {Nil} \subseteq Obj
      BY DEF TypeOK
    <3>2. o \in Threads => StackOf(o) \subseteq Obj
      BY <1>1 DEF Value
    <3>3. o \in Upvals => {UvVal(o)} \ {Nil} \subseteq Obj
      BY <1>4 DEF Value
    <3>. QED BY <3>1, <3>2, <3>3 DEF Refs
  <2>2. \A p \in Obj : fld[p]["k"] \in Obj \cup {Nil} /\ fld[p]["env"] \in Obj \cup {Nil}
                         /\ fld[p]["upv"] \in Upvals \cup {Nil} /\ fld[p]["proto"] \in Obj \cup {Nil}
    <3>1. {"k", "env", "upv", "proto"} \subseteq Field
      BY DEF Field
    <3>2. FieldType("upv") = Upvals
      BY DEF FieldType
    <3>. QED BY <3>1, <3>2 DEF TypeOK
  <2>3. running \in Obj /\ gmt \in Obj \cup {Nil} /\ Direct \subseteq Obj
    BY <1>2 DEF TypeOK, Obj, Value
  <2>. QED BY <1>4, <2>1, <2>2, <2>3 DEF Readable, Value
<1>. QED BY <1>2, <1>3, <1>4, <1>5


\* The collector keeps the types.
LEMMA CollectorType ==
  ASSUME TypeOK, singlestep
  PROVE  TypeOK'
<1>. USE ConstantsOK
<1>1. CASE markroot
  BY <1>1, MarkType DEF TypeOK, markroot, heapVars, udVars, progVars
<1>2. ASSUME NEW o \in Listed, propagatemark(o) PROVE TypeOK'
  <2>1. o \in Obj
    BY DEF Listed, Obj
  <2>2. \A S : colorAfterMark(S) \in [Obj -> Colors] /\ grayAfterMark(S) \subseteq Listed
    BY MarkType
  <2>. QED BY <1>2, <2>1, <2>2 DEF TypeOK, propagatemark, toweak, heapVars, udVars, swVars, progVars
<1>3. CASE remarkupvals
  BY <1>3, MarkType DEF TypeOK, remarkupvals, heapVars, udVars, swVars, progVars
<1>4. CASE remarkweak
  BY <1>4, MarkType DEF TypeOK, remarkweak, heapVars, udVars, swVars, progVars, Listed
<1>5. CASE remarkgrayagain
  BY <1>5 DEF TypeOK, remarkgrayagain, heapVars, udVars, swVars, progVars
<1>6. CASE separateudata
  BY <1>6, MarkType DEF TypeOK, separateudata, Separated, heapVars, swVars, progVars
<1>7. CASE cleartables
  <2>1. HeapOK'
    <3>1. \A o \in Obj : FieldsOK(fld[o])
      BY DEF TypeOK, FieldsOK
    <3>2. ASSUME NEW o \in Obj PROVE FieldsOK(clearedFields(o))
      BY <3>1 DEF clearedFields, FieldsOK
    <3>. DEFINE g(o) == IF o \in weak THEN clearedFields(o) ELSE fld[o]
    <3>3. fld' = [o \in Obj |-> g(o)]
      BY <1>7 DEF cleartables
    <3>4. \A o \in Obj : FieldsOK(g(o))
      BY <3>1, <3>2
    <3>. HIDE DEF g
    <3>. QED BY <3>3, <3>4 DEF HeapOK, FieldsOK
  <2>2. color' \in [Obj -> Colors]
    BY <1>7, MarkType DEF cleartables
  <2>3. currentwhite' \in Whites /\ sweepstr' \subseteq Strings /\ sweepgc' \subseteq Obj \ Strings
    BY <1>7 DEF cleartables, otherwhite, rootgc, Allocated
  <2>. QED BY <1>7, <2>1, <2>2, <2>3 DEF TypeOK, HeapOK, cleartables, listVars, udVars, progVars
<1>8. CASE sweepstring
  BY <1>8 DEF TypeOK, sweepstring, sweptColor, heapVars, listVars, udVars, progVars
<1>9. ASSUME NEW o \in Obj, sweeplist(o) PROVE TypeOK'
  <2>1. HeapOK'
    <3>1. \A x \in Obj : FieldsOK(fld[x])
      BY DEF TypeOK, FieldsOK
    <3>2. \A x \in Upvals : FieldsOK([fld[x] EXCEPT !["val"] = UvVal(x)])
      <4>. SUFFICES ASSUME NEW x \in Upvals PROVE FieldsOK([fld[x] EXCEPT !["val"] = UvVal(x)])
        OBVIOUS
      <4>1. "val" \in Field /\ FieldType("val") = Value
        BY DEF Field, FieldType
      <4>2. UvVal(x) \in Value \cup {Nil} /\ UvVal(x) \in Obj \cup {Nil}
        BY OperandType DEF Value
      <4>3. x \in Obj
        BY DEF Obj
      <4>. QED BY <3>1, <4>1, <4>2, <4>3, FieldsUpd
    <3>3. \A x \in Obj : FieldsOK(fld'[x])
      <4>. SUFFICES ASSUME NEW x \in Obj PROVE FieldsOK(fld'[x])
        OBVIOUS
      <4>1. fld'[x] \in {NoFields, fld[x]} \/ (x \in Upvals /\ fld'[x] = [fld[x] EXCEPT !["val"] = UvVal(x)])
        BY <1>9 DEF sweeplist, unlinked, openOf
      <4>. QED BY <3>1, <3>2, <4>1, NoFieldsOK
    <3>4. fld' = [x \in Obj |-> fld'[x]]
      BY <1>9 DEF sweeplist
    <3>. QED BY <3>3, <3>4 DEF HeapOK, FieldsOK
  <2>2. color' \in [Obj -> Colors]
    BY <1>9 DEF sweeplist, sweptColor, TypeOK
  <2>3. stk' \in [Threads -> [Slots -> Value \cup {Nil}]]
    BY <1>9 DEF sweeplist, NoStack, TypeOK
  <2>4. uvth' \in [Upvals -> Threads \cup {Nil}] /\ uvslot' \in [Upvals -> Slots]
    BY <1>9 DEF sweeplist, TypeOK, Slots
  <2>. QED BY <1>9, <2>1, <2>2, <2>3, <2>4 DEF TypeOK, HeapOK, sweeplist, listVars, progVars
<1>10. ASSUME NEW u \in Udatas, NEW i \in Slots, GCTM(u, i) PROVE TypeOK'
  <2>1. u \in Value /\ u \in Obj
    BY KindsDisjoint DEF Value, Obj
  <2>2. stk' \in [Threads -> [Slots -> Value \cup {Nil}]]
    <3>1. [stk EXCEPT ![running][i] = u] \in [Threads -> [Slots -> Value \cup {Nil}]]
      BY <2>1, StackUpd DEF TypeOK
    <3>2. stk' = [stk EXCEPT ![running][i] = u] \/ stk' = stk
      BY <1>10 DEF GCTM
    <3>. QED BY <3>1, <3>2 DEF TypeOK
  <2>. QED BY <1>10, <2>1, <2>2 DEF TypeOK, GCTM, listVars, swVars, progVars
<1>11. CASE endcollection
  BY <1>11 DEF TypeOK, endcollection, heapVars, listVars, udVars, swVars, progVars
<1>. QED BY <1>1, <1>2, <1>3, <1>4, <1>5, <1>6, <1>7, <1>8, <1>9, <1>10, <1>11 DEF singlestep


\* A new object and a new register: the shape of every allocation.
LEMMA CreateType ==
  ASSUME TypeOK, NEW o \in Value, NEW r, FieldsOK(r), NEW i \in Slots, Create(o, r, i)
  PROVE  /\ color' \in [Obj -> Colors] /\ HeapOK'
         /\ stk' \in [Threads -> [Slots -> Value \cup {Nil}]]
         /\ uvth' = uvth /\ uvslot' = uvslot
         /\ gray' = gray /\ grayagain' = grayagain /\ weak' = weak
<1>1. o \in Obj /\ HeapOK
  BY DEF Value, TypeOK, HeapOK
<1>2. HeapOK'
  BY <1>1, HeapUpd DEF Create
<1>3. stk' \in [Threads -> [Slots -> Value \cup {Nil}]]
  BY StackUpd DEF Create, TypeOK
<1>. QED BY <1>1, <1>2, <1>3 DEF TypeOK, Create, listVars

\* The kinds a register can hold, and the fields by name.
LEMMA Kinds ==
  /\ Tables \cup Udatas \cup LClosures \cup CClosures \cup Protos \cup Strings \cup Threads \subseteq Value
  /\ Value \subseteq Obj /\ Upvals \subseteq Obj /\ Nil \notin Obj
  BY KindsDisjoint DEF Value, Obj

\* The type of each field.
LEMMA FieldKinds ==
  /\ Field = {"meta", "arr", "key", "val", "env", "upv", "cup", "proto", "k", "co"}
  /\ FieldType("meta") = Tables /\ FieldType("env") = Tables
  /\ FieldType("upv") = Upvals /\ FieldType("proto") = Protos
  /\ FieldType("k") = Strings \cup Protos /\ FieldType("co") = Threads
  /\ FieldType("arr") = Value /\ FieldType("key") = Value /\ FieldType("val") = Value
  /\ FieldType("cup") = Value
  BY DEF Field, FieldType

USE DEF collectorVars, udVars, swVars, progVars, listVars, heapVars

\* The program keeps the types.
LEMMA ProgramType ==
  ASSUME TypeOK, program
  PROVE  TypeOK'
<1>. USE Kinds
<1>0. HeapOK /\ running \in Threads /\ Direct \subseteq Value /\ Operand \subseteq Value \cup {Nil}
        /\ Readable \subseteq Value \cup {Nil} /\ \A u \in Upvals : UvVal(u) \in Value \cup {Nil}
  BY OperandType DEF TypeOK, HeapOK
<1>1. ASSUME NEW i \in Slots, NEW v \in Obj \cup {Nil}, OP_MOVE(i, v) PROVE TypeOK'
  <2>1. v \in Value \cup {Nil}
    BY <1>0, <1>1 DEF OP_MOVE
  <2>2. stk' \in [Threads -> [Slots -> Value \cup {Nil}]]
    BY <1>0, <1>1, <2>1, StackUpd DEF OP_MOVE
  <2>. QED BY <1>1, <2>2 DEF TypeOK, OP_MOVE
<1>2. ASSUME NEW t \in Tables, NEW i \in Slots, luaH_new(t, i) PROVE TypeOK'
  BY <1>2, CreateType, NoFieldsOK DEF luaH_new, TypeOK, HeapOK
<1>3. ASSUME NEW t \in Tables, NEW v \in Operand, setarray(t, v) PROVE TypeOK'
  <2>1. HeapOK'
    BY <1>0, <1>3, StoreType, FieldKinds DEF setarray
  <2>. QED BY <1>3, <2>1, BarrierType DEF TypeOK, HeapOK, setarray
<1>4. ASSUME NEW t \in Tables, NEW k \in Operand, NEW v \in Operand, setnode(t, k, v) PROVE TypeOK'
  <2>1. HeapOK'
    <3>1. FieldsOK([fld[t] EXCEPT !["key"] = k]) /\ "key" \in Field /\ "val" \in Field
      BY <1>0, FieldsUpd, FieldKinds DEF FieldsOK, HeapOK
    <3>2. FieldsOK([[fld[t] EXCEPT !["key"] = k] EXCEPT !["val"] = v])
      BY <1>0, <3>1, FieldsUpd, FieldKinds
    <3>3. fld' = [fld EXCEPT ![t] = [[fld[t] EXCEPT !["key"] = k] EXCEPT !["val"] = v]]
      BY <1>0, <1>4, <3>1 DEF setnode, HeapOK
    <3>. QED BY <1>0, <3>2, <3>3, HeapUpd
  <2>. QED BY <1>4, <2>1, BarrierType DEF TypeOK, HeapOK, setnode
<1>5. ASSUME NEW o \in Tables \cup Udatas, NEW mt \in Tables \cup {Nil}, lua_setmetatable(o, mt) PROVE TypeOK'
  <2>1. HeapOK'
    BY <1>0, <1>5, StoreType, FieldKinds DEF lua_setmetatable
  <2>. QED BY <1>5, <2>1, BarrierType DEF TypeOK, HeapOK, lua_setmetatable
<1>6. ASSUME NEW mt \in Tables \cup {Nil}, settypemetatable(mt) PROVE TypeOK'
  BY <1>6 DEF TypeOK, settypemetatable
<1>7. ASSUME NEW u \in Udatas, NEW e \in Tables, NEW i \in Slots, luaS_newudata(u, e, i) PROVE TypeOK'
  <2>1. FieldsOK([NoFields EXCEPT !["env"] = e])
    BY NoFieldsOK, FieldsUpd, FieldKinds
  <2>. QED BY <1>7, <2>1, CreateType DEF luaS_newudata, TypeOK, HeapOK
<1>8. ASSUME NEW o \in Obj, NEW e \in Tables, lua_setfenv(o, e) PROVE TypeOK'
  <2>1. HeapOK'
    BY <1>0, <1>8, StoreType, FieldKinds DEF lua_setfenv
  <2>. QED BY <1>8, <2>1, BarrierType DEF TypeOK, HeapOK, lua_setfenv
<1>9. ASSUME NEW c \in CClosures, NEW e \in Tables, NEW v \in Operand, NEW i \in Slots,
             lua_pushcclosure(c, e, v, i)
      PROVE  TypeOK'
  <2>1. FieldsOK([NoFields EXCEPT !["env"] = e])
    BY NoFieldsOK, FieldsUpd, FieldKinds
  <2>2. FieldsOK([[NoFields EXCEPT !["env"] = e] EXCEPT !["cup"] = v])
    BY <1>0, <2>1, FieldsUpd, FieldKinds
  <2>. QED BY <1>9, <2>2, CreateType DEF lua_pushcclosure, TypeOK, HeapOK
<1>10. ASSUME NEW c \in CClosures, NEW v \in Operand, lua_replace(c, v) PROVE TypeOK'
  <2>1. HeapOK'
    BY <1>0, <1>10, StoreType, FieldKinds DEF lua_replace
  <2>. QED BY <1>10, <2>1, BarrierType DEF TypeOK, HeapOK, lua_replace
<1>11. ASSUME NEW p \in Protos, NEW i \in Slots, luaF_newproto(p, i) PROVE TypeOK'
  BY <1>11, CreateType, NoFieldsOK DEF luaF_newproto, TypeOK, HeapOK
<1>12. ASSUME NEW p \in Protos, NEW j \in Slots, addk(p, j) PROVE TypeOK'
  <2>1. HeapOK'
    BY <1>0, <1>12, StoreType, FieldKinds DEF addk
  <2>2. stk' \in [Threads -> [Slots -> Value \cup {Nil}]]
    <3>1. [stk EXCEPT ![running][j] = Nil] \in [Threads -> [Slots -> Value \cup {Nil}]]
      BY <1>0, StackUpd
    <3>. QED BY <1>12, <3>1 DEF addk, TypeOK
  <2>3. color' \in [Obj -> Colors] /\ gray' \subseteq Listed /\ grayagain' \subseteq Listed /\ weak' \subseteq Tables
    BY <1>12, BarrierType DEF addk
  <2>. QED BY <1>12, <2>1, <2>2, <2>3 DEF TypeOK, HeapOK, addk
<1>13. ASSUME NEW c \in LClosures, NEW cl \in LClosures, NEW p \in Protos \cup {Nil},
              NEW u \in Upvals \cup {Nil}, NEW i \in Slots,
              NEW e \in Tables \cup {Nil},
              fld' = [fld EXCEPT ![c] = [NoFields EXCEPT !["env"] = e, !["proto"] = p, !["upv"] = u]],
              stk' = [stk EXCEPT ![running][i] = c]
       PROVE  HeapOK' /\ stk' \in [Threads -> [Slots -> Value \cup {Nil}]]
  <2>1. FieldsOK([NoFields EXCEPT !["env"] = e])
    BY NoFieldsOK, FieldsUpd, FieldKinds
  <2>2. FieldsOK([[NoFields EXCEPT !["env"] = e] EXCEPT !["proto"] = p])
    BY <2>1, FieldsUpd, FieldKinds, Kinds DEF Value, Obj
  <2>3. FieldsOK([[[NoFields EXCEPT !["env"] = e] EXCEPT !["proto"] = p] EXCEPT !["upv"] = u])
    BY <2>2, FieldsUpd, FieldKinds
  <2>4. HeapOK'
    BY <1>0, <1>13, <2>3, HeapUpd
  <2>5. stk' \in [Threads -> [Slots -> Value \cup {Nil}]]
    BY <1>0, <1>13, StackUpd
  <2>. QED BY <2>4, <2>5
<1>14. \A cl \in Obj : fld[cl]["env"] \in Tables \cup {Nil} /\ fld[cl]["upv"] \in Upvals \cup {Nil}
         /\ nestedProtos(cl) \subseteq Protos \cup {Nil}
  BY <1>0, FieldKinds DEF HeapOK, nestedProtos
<1>15. ASSUME NEW c \in LClosures, NEW cl \in LClosures, NEW i \in Slots, OP_CLOSURE_shared(c, cl, i)
       PROVE  TypeOK'
  <2>1. PICK p \in nestedProtos(cl) : Closure(c, cl, p, fld[cl]["upv"])
    BY <1>15 DEF OP_CLOSURE_shared
  <2>2. HeapOK' /\ stk' \in [Threads -> [Slots -> Value \cup {Nil}]]
    BY <1>13, <1>14, <1>15, <2>1 DEF OP_CLOSURE_shared, Closure
  <2>. QED BY <1>15, <2>2 DEF TypeOK, HeapOK, OP_CLOSURE_shared
<1>16. ASSUME NEW c \in LClosures, NEW cl \in LClosures, NEW j \in Slots, NEW u \in Upvals, NEW i \in Slots,
              OP_CLOSURE_local(c, cl, j, u, i)
       PROVE  TypeOK'
  <2>1. PICK p \in nestedProtos(cl) : Closure(c, cl, p, u)
    BY <1>16 DEF OP_CLOSURE_local
  <2>2. HeapOK' /\ stk' \in [Threads -> [Slots -> Value \cup {Nil}]]
    BY <1>13, <1>14, <1>16, <2>1 DEF OP_CLOSURE_local, Closure
  <2>. QED BY <1>16, <2>2 DEF TypeOK, HeapOK, OP_CLOSURE_local, revived
<1>17. ASSUME NEW c \in LClosures, NEW u \in Upvals \cup {Nil}, NEW i \in Slots, f_parser(c, u, i)
       PROVE  TypeOK'
  <2>1. PICK p \in parsedProtos(i) :
          fld' = [fld EXCEPT ![c] = [NoFields EXCEPT !["env"] = fld[running]["env"],
                                                  !["proto"] = p, !["upv"] = u]]
    BY <1>17 DEF f_parser
  <2>2. p \in Protos \cup {Nil} /\ running \in Obj
    BY <1>0 DEF parsedProtos
  <2>3. stk' = [stk EXCEPT ![running][i] = c]
    BY <1>17 DEF f_parser
  <2>4. HeapOK' /\ stk' \in [Threads -> [Slots -> Value \cup {Nil}]]
    BY <1>13, <1>14, <2>1, <2>2, <2>3
  <2>. QED BY <1>17, <2>4 DEF TypeOK, HeapOK, f_parser
<1>18. ASSUME NEW cl \in LClosures, NEW v \in Operand, OP_SETUPVAL(cl, v) PROVE TypeOK'
  <2>. DEFINE u == fld[cl]["upv"]
  <2>1. u \in Upvals
    BY <1>14, <1>18 DEF OP_SETUPVAL
  <2>2. HeapOK' /\ stk' \in [Threads -> [Slots -> Value \cup {Nil}]]
    <3>1. CASE isopen(u)
      <4>1. uvth[u] \in Threads /\ uvslot[u] \in Slots
        BY <2>1, <3>1 DEF TypeOK, isopen
      <4>2. stk' = [stk EXCEPT ![uvth[u]][uvslot[u]] = v] /\ fld' = fld
        BY <1>18, <3>1 DEF OP_SETUPVAL
      <4>3. HeapOK'
        BY <1>0, <4>2 DEF HeapOK
      <4>. QED BY <1>0, <4>1, <4>2, <4>3, StackUpd
    <3>2. CASE ~isopen(u)
      BY <1>0, <1>18, <2>1, <3>2, StoreType, FieldKinds DEF OP_SETUPVAL, TypeOK
    <3>. QED BY <3>1, <3>2
  <2>3. color' \in [Obj -> Colors] /\ gray' \subseteq Listed /\ grayagain' \subseteq Listed /\ weak' \subseteq Tables
    BY <1>18, <2>1, BarrierType DEF OP_SETUPVAL
  <2>. QED BY <1>18, <2>2, <2>3 DEF TypeOK, HeapOK, OP_SETUPVAL
<1>19. ASSUME NEW from \in Slots, luaF_close(from) PROVE TypeOK'
  <2>1. HeapOK'
    <3>1. \A x \in Upvals : FieldsOK([fld[x] EXCEPT !["val"] = UvVal(x)])
      BY <1>0, FieldsUpd, FieldKinds DEF FieldsOK, HeapOK
    <3>2. \A x \in Obj : FieldsOK(fld'[x])
      <4>. SUFFICES ASSUME NEW x \in Obj PROVE FieldsOK(fld'[x])
        OBVIOUS
      <4>1. fld'[x] = fld[x] \/ (x \in Upvals /\ fld'[x] = [fld[x] EXCEPT !["val"] = UvVal(x)])
        BY <1>19 DEF luaF_close, openOf
      <4>. QED BY <1>0, <3>1, <4>1 DEF HeapOK, FieldsOK
    <3>3. fld' = [x \in Obj |-> fld'[x]]
      BY <1>19 DEF luaF_close
    <3>. QED BY <3>2, <3>3 DEF HeapOK, FieldsOK
  <2>2. color' \in [Obj -> Colors] /\ gray' \subseteq Listed
    BY <1>19, MarkType DEF luaF_close, closedColor, TypeOK
  <2>3. uvth' \in [Upvals -> Threads \cup {Nil}] /\ uvslot' \in [Upvals -> Slots]
    BY <1>19, ConstantsOK DEF luaF_close, TypeOK, Slots
  <2>. QED BY <1>19, <2>1, <2>2, <2>3 DEF TypeOK, HeapOK, luaF_close
<1>20. ASSUME NEW t \in Threads, NEW i \in Slots, lua_newthread(t, i) PROVE TypeOK'
  <2>1. FieldsOK([NoFields EXCEPT !["env"] = fld[running]["env"]])
    BY <1>0, <1>14, NoFieldsOK, FieldsUpd, FieldKinds
  <2>. QED BY <1>20, <2>1, CreateType DEF lua_newthread, TypeOK, HeapOK
<1>21. ASSUME NEW t \in Threads, lua_resume(t) PROVE TypeOK'
  <2>1. HeapOK'
    BY <1>0, <1>21, StoreType, FieldKinds DEF lua_resume
  <2>. QED BY <1>21, <2>1 DEF TypeOK, HeapOK, lua_resume
<1>22. ASSUME NEW t \in Threads, lua_yield(t) PROVE TypeOK'
  <2>1. HeapOK'
    BY <1>0, <1>22, StoreType, FieldKinds DEF lua_yield
  <2>. QED BY <1>22, <2>1 DEF TypeOK, HeapOK, lua_yield
<1>23. ASSUME NEW t \in Threads, NEW i \in Slots, NEW v \in Operand, lua_xmove(t, i, v) PROVE TypeOK'
  <2>1. stk' \in [Threads -> [Slots -> Value \cup {Nil}]]
    BY <1>0, <1>23, StackUpd DEF lua_xmove
  <2>. QED BY <1>23, <2>1 DEF TypeOK, lua_xmove
<1>24. ASSUME NEW s \in Strings, NEW i \in Slots, luaS_newlstr(s, i) PROVE TypeOK'
  <2>1. stk' \in [Threads -> [Slots -> Value \cup {Nil}]]
    BY <1>0, <1>24, StackUpd DEF luaS_newlstr
  <2>. QED BY <1>24, <2>1 DEF TypeOK, luaS_newlstr, revived
<1>25. CASE luaC_fullgc
  BY <1>25 DEF TypeOK, luaC_fullgc, rootgc, Allocated
<1>. QED
  BY <1>1, <1>2, <1>3, <1>4, <1>5, <1>6, <1>7, <1>8, <1>9, <1>10, <1>11, <1>12, <1>15, <1>16,
     <1>17, <1>18, <1>19, <1>20, <1>21, <1>22, <1>23, <1>24, <1>25 DEF program

\* Every state of every heap is well typed: in particular a metatable or an
\* environment is always a table and a register never holds an upvalue.
THEOREM TypeCorrect == Spec => []TypeOK
<1>1. Init => TypeOK
  BY ConstantsOK, Kinds, FieldKinds, NoFieldsOK DEF Init, TypeOK, NoFields, NoStack, Slots
<1>2. TypeOK /\ [Next]_vars => TypeOK'
  <2>1. ASSUME TypeOK, UNCHANGED vars PROVE TypeOK'
    BY <2>1 DEF TypeOK, vars
  <2>. QED BY <2>1, CollectorType, ProgramType DEF Next
<1>. QED BY <1>1, <1>2, PTL DEF Spec

(***************************************************************************)
(* The two promises lgc.c makes about finalizers, for any heap: __gc runs  *)
(* at most once, and no userdata is freed without having been considered.  *)
(***************************************************************************)
USE DEF Whites, Colors, Marking, Atomic, Sweeping,
        collectorVars, udVars, swVars, progVars, listVars, heapVars

\* No userdata changes its place in the finalization protocol: marks may be
\* set, and outside the last stage of atomic() cleared to the current white.
Quiet ==
  /\ UNCHANGED <<udVars, currentwhite, sweepgc>>
  /\ gcstate' = "tmu" => gcstate = "tmu"
  /\ gcstate \in {"sweepstring", "sweep"} => gcstate' \in {"sweepstring", "sweep"}
  /\ \A u \in Udatas :
       \/ color'[u] \in {color[u], "gray", "black"}
       \/ color'[u] = currentwhite /\ gcstate' # "tmu"

\* A step frees only userdata that had their chance, and queues only userdata
\* whose finalizer has not been called.
Orderly ==
  /\ \A u \in tmudata' \ tmudata : u \notin called
  /\ \A u \in Udatas : color[u] # "free" /\ color'[u] = "free" =>
       u \in finalized /\ u \notin tmudata

\* A quiet step keeps the finalization invariant and finalizes nothing.
LEMMA QuietStep ==
  ASSUME TypeOK, Finalization, Quiet
  PROVE  Finalization' /\ Orderly
<1>1. currentwhite \in Whites /\ currentwhite # otherwhite /\ otherwhite \in Whites
  BY DEF TypeOK, otherwhite
<1>2. otherwhite' = otherwhite
  BY DEF Quiet, otherwhite
<1>3. \A u \in Udatas : color'[u] \in {color[u], "gray", "black", currentwhite}
  BY DEF Quiet
<1>4. ASSUME NEW u \in Udatas, color'[u] = otherwhite \/ (gcstate' = "tmu" /\ color'[u] \in Whites)
      PROVE  u \in finalized'
  BY <1>1, <1>4 DEF Quiet, Finalization, isdead, iswhite
<1>. QED BY <1>1, <1>2, <1>3, <1>4 DEF Quiet, Finalization, Orderly, isdead, iswhite

\* Marking never whitens or frees a userdata.
LEMMA MarkQuiet ==
  ASSUME NEW S, NEW u \in Udatas
  PROVE  colorAfterMark(S)[u] \in {color[u], "gray", "black"}
  BY Kinds DEF colorAfterMark, MarkColor

\* A write barrier outside atomic() is quiet.
LEMMA BarrierQuiet ==
  ASSUME TypeOK, NEW o \in Obj, NEW v, NEW V, Program,
         luaC_barrier(o, v) \/ luaC_barriert(o, V), UNCHANGED collectorVars
  PROVE  Quiet
<1>1. gcstate' # "tmu"
  BY DEF Program
<1>2. CASE luaC_barrier(o, v)
  <2>1. \A u \in Udatas : color'[u] \in {color[u], "gray", "black", currentwhite}
    BY <1>2, MarkQuiet, Kinds DEF luaC_barrier, TypeOK
  <2>. QED BY <1>1, <2>1 DEF Quiet
<1>3. CASE luaC_barriert(o, V)
  <2>1. \A u \in Udatas : color'[u] \in {color[u], "gray"}
    BY <1>3, Kinds DEF luaC_barriert, TypeOK
  <2>. QED BY <1>1, <2>1 DEF Quiet
<1>. QED BY <1>2, <1>3

\* So is a step that gives some objects the current white.
LEMMA WhiteQuiet ==
  ASSUME Program, UNCHANGED collectorVars,
         \A u \in Udatas : color'[u] \in {color[u], currentwhite}
  PROVE  Quiet
  BY DEF Program, Quiet

\* Creating an object is quiet.
LEMMA CreateQuiet ==
  ASSUME TypeOK, Program, NEW o \in Obj, NEW r, NEW i, Create(o, r, i), UNCHANGED collectorVars
  PROVE  Quiet
<1>1. \A u \in Udatas : color'[u] \in {color[u], currentwhite}
  BY Kinds DEF Create, TypeOK
<1>. QED BY <1>1, WhiteQuiet

\* The program never interferes with finalization, except by luaC_fullgc.
LEMMA ProgramQuiet ==
  ASSUME TypeOK, program
  PROVE  Quiet \/ luaC_fullgc
<1>. USE Kinds
<1>1. ASSUME NEW i \in Slots, NEW v \in Obj \cup {Nil}, OP_MOVE(i, v) PROVE Quiet
  BY <1>1, WhiteQuiet DEF OP_MOVE
<1>2. ASSUME NEW t \in Tables, NEW i \in Slots, luaH_new(t, i) PROVE Quiet
  BY <1>2, CreateQuiet DEF luaH_new
<1>3. ASSUME NEW t \in Tables, NEW v \in Operand, setarray(t, v) PROVE Quiet
  BY <1>3, BarrierQuiet DEF setarray
<1>4. ASSUME NEW t \in Tables, NEW k \in Operand, NEW v \in Operand, setnode(t, k, v) PROVE Quiet
  BY <1>4, BarrierQuiet DEF setnode
<1>5. ASSUME NEW o \in Tables \cup Udatas, NEW mt \in Tables \cup {Nil}, lua_setmetatable(o, mt) PROVE Quiet
  BY <1>5, BarrierQuiet DEF lua_setmetatable
<1>6. ASSUME NEW mt \in Tables \cup {Nil}, settypemetatable(mt) PROVE Quiet
  BY <1>6, WhiteQuiet DEF settypemetatable
<1>7. ASSUME NEW u \in Udatas, NEW e \in Tables, NEW i \in Slots, luaS_newudata(u, e, i) PROVE Quiet
  BY <1>7, CreateQuiet DEF luaS_newudata
<1>8. ASSUME NEW o \in Obj, NEW e \in Tables, lua_setfenv(o, e) PROVE Quiet
  BY <1>8, BarrierQuiet DEF lua_setfenv
<1>9. ASSUME NEW c \in CClosures, NEW e \in Tables, NEW v \in Operand, NEW i \in Slots,
             lua_pushcclosure(c, e, v, i)
      PROVE  Quiet
  BY <1>9, CreateQuiet DEF lua_pushcclosure
<1>10. ASSUME NEW c \in CClosures, NEW v \in Operand, lua_replace(c, v) PROVE Quiet
  BY <1>10, BarrierQuiet DEF lua_replace
<1>11. ASSUME NEW p \in Protos, NEW i \in Slots, luaF_newproto(p, i) PROVE Quiet
  BY <1>11, CreateQuiet DEF luaF_newproto
<1>12. ASSUME NEW p \in Protos, NEW j \in Slots, addk(p, j) PROVE Quiet
  BY <1>12, BarrierQuiet DEF addk
<1>13. ASSUME NEW c \in LClosures, NEW cl \in LClosures, NEW i \in Slots, OP_CLOSURE_shared(c, cl, i)
       PROVE  Quiet
  BY <1>13, WhiteQuiet DEF OP_CLOSURE_shared, TypeOK
<1>14. ASSUME NEW c \in LClosures, NEW cl \in LClosures, NEW j \in Slots, NEW u \in Upvals, NEW i \in Slots,
              OP_CLOSURE_local(c, cl, j, u, i)
       PROVE  Quiet
  BY <1>14, WhiteQuiet DEF OP_CLOSURE_local, revived, TypeOK
<1>15. ASSUME NEW c \in LClosures, NEW u \in Upvals \cup {Nil}, NEW i \in Slots, f_parser(c, u, i)
       PROVE  Quiet
  BY <1>15, WhiteQuiet DEF f_parser
<1>16. ASSUME NEW cl \in LClosures, NEW v \in Operand, OP_SETUPVAL(cl, v) PROVE Quiet
  <2>1. fld[cl]["upv"] \in Obj
    BY <1>16, FieldKinds DEF OP_SETUPVAL, TypeOK
  <2>. QED BY <1>16, <2>1, BarrierQuiet DEF OP_SETUPVAL
<1>17. ASSUME NEW from \in Slots, luaF_close(from) PROVE Quiet
  <2>1. Udatas \cap Upvals = {} /\ Udatas \subseteq Obj
    BY KindsDisjoint
  <2>2. \A u \in Udatas : color'[u] = colorAfterMark(closeMarks({w \in openOf(running) : uvslot[w] >= from}))[u]
    BY <1>17, <2>1 DEF luaF_close, openOf
  <2>3. \A u \in Udatas : color'[u] \in {color[u], "gray", "black"}
    BY <2>2, MarkQuiet
  <2>. QED BY <1>17, <2>3 DEF luaF_close, Program, Quiet
<1>18. ASSUME NEW t \in Threads, NEW i \in Slots, lua_newthread(t, i) PROVE Quiet
  BY <1>18, CreateQuiet DEF lua_newthread
<1>19. ASSUME NEW t \in Threads, lua_resume(t) \/ lua_yield(t) PROVE Quiet
  BY <1>19, WhiteQuiet DEF lua_resume, lua_yield
<1>20. ASSUME NEW t \in Threads, NEW i \in Slots, NEW v \in Operand, lua_xmove(t, i, v) PROVE Quiet
  BY <1>20, WhiteQuiet DEF lua_xmove
<1>21. ASSUME NEW s \in Strings, NEW i \in Slots, luaS_newlstr(s, i) PROVE Quiet
  BY <1>21, WhiteQuiet DEF luaS_newlstr, revived, TypeOK
<1>. QED
  BY <1>1, <1>2, <1>3, <1>4, <1>5, <1>6, <1>7, <1>8, <1>9, <1>10, <1>11, <1>12, <1>13, <1>14, <1>15,
     <1>16, <1>17, <1>18, <1>19, <1>20, <1>21 DEF program

\* The collector's steps that matter, one by one.
LEMMA CollectorFinalization ==
  ASSUME TypeOK, Finalization, singlestep
  PROVE  Finalization' /\ Orderly
<1>. USE Kinds
<1>0. currentwhite \in Whites /\ currentwhite # otherwhite /\ otherwhite \in Whites
        /\ Udatas \cap (Upvals \cup Strings \cup Threads) = {}
  BY KindsDisjoint DEF TypeOK, otherwhite
<1>1. ASSUME UNCHANGED <<udVars, currentwhite, sweepgc>>,
             gcstate' = "tmu" => gcstate = "tmu",
             gcstate \notin {"sweepstring", "sweep"},
             \A u \in Udatas : color'[u] \in {color[u], "gray", "black"}
      PROVE  Finalization' /\ Orderly
  BY <1>1, QuietStep DEF Quiet
<1>2. CASE markroot
  BY <1>1, <1>2, MarkQuiet DEF markroot
<1>3. ASSUME NEW o \in Listed, propagatemark(o) PROVE Finalization' /\ Orderly
  <2>1. \A u \in Udatas : color'[u] \in {colorAfterMark(StrongRefs(o))[u], "gray", "black"}
    <3>1. o \in Obj /\ \A S : colorAfterMark(S) \in [Obj -> Colors]
      BY MarkType DEF Listed, Obj
    <3>. QED BY <1>3, <3>1 DEF propagatemark
  <2>2. \A u \in Udatas : color'[u] \in {color[u], "gray", "black"}
    BY <2>1, MarkQuiet
  <2>. QED BY <1>1, <1>3, <2>2 DEF propagatemark
<1>4. CASE remarkupvals \/ remarkweak \/ remarkgrayagain \/ endcollection
  BY <1>1, <1>4, MarkQuiet DEF remarkupvals, remarkweak, remarkgrayagain, endcollection
<1>5. CASE separateudata
  <2>. DEFINE tmu == tmudata \cup {u \in Separated : hasTM(u)}
  <2>1. /\ finalized' = finalized \cup Separated /\ tmudata' = tmu /\ called' = called
        /\ sweepgc' = {} /\ gcstate' = "tmu"
        /\ color' = [o \in Obj |-> IF o \in tmu THEN "black" ELSE colorAfterMark(preserved(tmu))[o]]
    BY <1>5 DEF separateudata, Finalization
  <2>2. \A u \in Udatas : color'[u] \in {color[u], "gray", "black"}
    BY <2>1, MarkQuiet
  <2>3. \A u \in Udatas : color[u] \in Whites => u \in finalized'
    BY <2>1 DEF Separated, iswhite, Finalization
  <2>4. otherwhite' = otherwhite
    BY <1>5 DEF separateudata, otherwhite
  <2>5. \A u \in Udatas : color'[u] \in Whites => u \in finalized'
    BY <2>2, <2>3
  <2>6. called' \cup tmudata' \subseteq finalized'
    BY <2>1 DEF Finalization
  <2>7. Orderly
    BY <2>1, <2>2 DEF Orderly, Separated, Finalization
  <2>. QED BY <1>0, <2>1, <2>4, <2>5, <2>6, <2>7 DEF Finalization, isdead, iswhite
<1>6. CASE cleartables
  <2>1. \A u \in Udatas : color'[u] \in {color[u], "gray", "black"}
    BY <1>6, MarkQuiet DEF cleartables
  <2>2. otherwhite' = currentwhite
    BY <1>6 DEF cleartables, otherwhite, TypeOK
  <2>3. sweepgc' \cap tmudata' = {} /\ gcstate' = "sweepstring" /\ UNCHANGED udVars
    BY <1>6 DEF cleartables, rootgc
  <2>4. \A u \in Udatas : color'[u] \in Whites => u \in finalized
    BY <1>6, <2>1 DEF cleartables, Finalization, iswhite
  <2>. QED BY <1>0, <2>1, <2>2, <2>3, <2>4 DEF Finalization, Orderly, isdead
<1>7. CASE sweepstring
  <2>1. \A u \in Udatas : color'[u] = color[u]
    BY <1>0, <1>7 DEF sweepstring, TypeOK
  <2>. QED BY <1>7, <2>1, QuietStep DEF sweepstring, Quiet
<1>8. ASSUME NEW o \in Obj, sweeplist(o) PROVE Finalization' /\ Orderly
  <2>. DEFINE freed == {u \in Udatas : u = o /\ sweptColor(u) = "free"}
  <2>1. /\ o \in sweepgc /\ gcstate = "sweep" /\ sweepgc' = sweepgc \ {o}
        /\ gcstate' = (IF sweepgc' = {} THEN "finalize" ELSE "sweep")
        /\ currentwhite' = currentwhite /\ tmudata' = tmudata
    BY <1>8 DEF sweeplist
  <2>2. /\ \A u \in Udatas : color'[u] = IF u = o THEN sweptColor(u) ELSE color[u]
        /\ finalized' \cap Udatas = (finalized \cap Udatas) \ freed
        /\ called' \cap Udatas = (called \cap Udatas) \ freed
    BY <1>0, <1>8 DEF sweeplist, openOf
  <2>3. finalized' \subseteq Udatas /\ called' \subseteq Udatas /\ tmudata \subseteq Udatas
    BY <1>8 DEF sweeplist, TypeOK
  <2>4. freed \cap tmudata = {}
    BY <2>1 DEF Finalization
  <2>5. called' \cup tmudata' \subseteq finalized'
    BY <2>1, <2>2, <2>3, <2>4 DEF Finalization
  <2>6. sweptColor(o) \in {"free", currentwhite}
    BY DEF sweptColor
  <2>7. \A u \in Udatas : color'[u] = otherwhite => u \in finalized'
    BY <1>0, <2>2, <2>6 DEF Finalization, isdead
  <2>8. \A u \in Udatas : color'[u] = "free" /\ color[u] # "free" => u \in finalized /\ u \notin tmudata
    BY <1>0, <2>1, <2>2 DEF Finalization, sweptColor
  <2>9. otherwhite' = otherwhite
    BY <2>1 DEF otherwhite
  <2>. QED BY <2>1, <2>5, <2>7, <2>8, <2>9 DEF Finalization, Orderly, isdead
<1>9. ASSUME NEW u \in Udatas, NEW i \in Slots, GCTM(u, i) PROVE Finalization' /\ Orderly
  <2>1. /\ tmudata' = tmudata \ {u} /\ finalized' = finalized /\ u \in tmudata
        /\ called' \subseteq called \cup {u} /\ sweepgc' = sweepgc /\ gcstate' = gcstate
        /\ gcstate = "finalize" /\ currentwhite' = currentwhite
    BY <1>9 DEF GCTM
  <2>2. \A w \in Udatas : color'[w] = color[w] \/ color'[w] = currentwhite
    BY <1>9 DEF GCTM, TypeOK
  <2>3. otherwhite' = otherwhite
    BY <2>1 DEF otherwhite
  <2>. QED BY <1>0, <2>1, <2>2, <2>3 DEF Finalization, Orderly, isdead
<1>. QED BY <1>2, <1>3, <1>4, <1>5, <1>6, <1>7, <1>8, <1>9 DEF singlestep

\* luaC_fullgc starts a sweep over what is not waiting for a finalizer.
LEMMA FullgcFinalization ==
  ASSUME TypeOK, Finalization, luaC_fullgc
  PROVE  Finalization' /\ Orderly
<1>1. UNCHANGED <<color, currentwhite, udVars>> /\ gcstate # "tmu" /\ gcstate' # "tmu"
  BY DEF luaC_fullgc, Program
<1>2. sweepgc' \cap tmudata' = {} /\ (gcstate' \notin {"sweepstring", "sweep"} => sweepgc' = {})
  BY DEF luaC_fullgc, rootgc, Finalization
<1>. QED BY <1>1, <1>2 DEF Finalization, Orderly, isdead, otherwhite

\* Every step keeps the finalization invariant.
LEMMA StepFinalization ==
  ASSUME TypeOK, Finalization, [Next]_vars
  PROVE  Finalization' /\ Orderly
<1>1. CASE UNCHANGED vars
  BY <1>1 DEF vars, Finalization, Orderly, isdead, iswhite, otherwhite
<1>2. CASE program
  BY <1>2, ProgramQuiet, QuietStep, FullgcFinalization
<1>3. CASE singlestep
  BY <1>3, CollectorFinalization
<1>. QED BY <1>1, <1>2, <1>3 DEF Next

\* It holds at first.
LEMMA InitFinalization ==
  ASSUME Init
  PROVE  Finalization
<1>1. \A u \in Udatas : color[u] # "white1"
  BY Kinds DEF Init
<1>. QED BY <1>1 DEF Init, Finalization, isdead, otherwhite

\* The protocol's invariant: what is condemned or queued has been considered.
THEOREM FinalizationInvariant == Spec => []Finalization
<1>1. Init => Finalization
  BY InitFinalization
<1>2. TypeOK /\ Finalization /\ [Next]_vars => Finalization'
  BY StepFinalization
<1>. QED BY <1>1, <1>2, TypeCorrect, PTL DEF Spec

\* A userdata whose __gc has run is never queued for it again, for any heap,
\* any program and any number of collections, resurrections included.
THEOREM FinalizedOnce == Spec => FinalizeOnce
<1>1. TypeOK /\ Finalization /\ [Next]_vars => [\A u \in tmudata' \ tmudata : u \notin called]_vars
  BY StepFinalization DEF Orderly
<1>. QED BY <1>1, TypeCorrect, FinalizationInvariant, PTL DEF Spec, FinalizeOnce

\* sweeplist frees a userdata only once luaC_separateudata has considered it,
\* and never while it waits in tmudata.
THEOREM NeverSilentlyFreed == Spec => NoSilentFree
<1>1. TypeOK /\ Finalization /\ [Next]_vars =>
        [\A u \in Udatas : color[u] # "free" /\ color'[u] = "free" => u \in finalized /\ u \notin tmudata]_vars
  BY StepFinalization DEF Orderly
<1>. QED BY <1>1, TypeCorrect, FinalizationInvariant, PTL DEF Spec, NoSilentFree
HIDE DEF collectorVars, udVars, swVars, progVars, listVars, heapVars

(***************************************************************************)
(* The collector and the program keep the invariant of the collector.      *)
(* First the program: what marking does, what the program can name, and    *)
(* its steps; then the collector's phases.                                 *)
(***************************************************************************)
(***************************************************************************)
(* Colors and references.                                                  *)
(***************************************************************************)
LEMMA WhiteFacts ==
  ASSUME TypeOK
  PROVE  /\ currentwhite \in Whites /\ otherwhite \in Whites /\ currentwhite # otherwhite
         /\ \A o \in Obj : color[o] \in {currentwhite, otherwhite, "gray", "black", "free"}
         /\ \A o \in Obj : iswhite(o) <=> color[o] \in {currentwhite, otherwhite}
         /\ \A o \in Obj : NotDead(o) <=> color[o] \in {currentwhite, "gray", "black"}
  BY DEF TypeOK, otherwhite, iswhite, NotDead, isdead

\* The members of Refs(o), before and after a step.
Holds(o, v) ==
  /\ v # Nil
  /\ \/ \E f \in Field : v = fld[o][f]
     \/ o \in Threads /\ \E i \in Slots : v = stk[o][i]
     \/ o \in Upvals /\ v = UvVal(o)

\* The references of an object are what its fields and registers hold.
LEMMA RefsHolds ==
  \A o, v : (v \in Refs(o) <=> Holds(o, v)) /\ (v \in Refs(o)' <=> Holds(o, v)')
  BY DEF Refs, Holds, StackOf

\* References lead to objects.
LEMMA RefsType ==
  ASSUME TypeOK
  PROVE  \A o \in Obj : Refs(o) \subseteq Obj /\ StrongRefs(o) \subseteq Obj
<1>1. \A u \in Upvals : UvVal(u) \in Obj \cup {Nil}
  BY OperandType, Kinds
<1>2. \A o \in Obj : Refs(o) \subseteq Obj
  <2>. SUFFICES ASSUME NEW o \in Obj, NEW v \in Refs(o) PROVE v \in Obj
    OBVIOUS
  <2>. QED BY <1>1, RefsHolds, Kinds DEF Holds, TypeOK
<1>3. \A o \in Obj : TableRefs(o) \subseteq Obj
  BY DEF TypeOK, TableRefs, Field
<1>. QED BY <1>2, <1>3 DEF StrongRefs

\* The fields that each kind of object has.
LEMMA FieldsOfKinds ==
  /\ \A o \in Tables : FieldsOf(o) = {"meta", "arr", "key", "val"}
  /\ \A o \in Udatas : FieldsOf(o) = {"meta", "env"}
  /\ \A o \in LClosures : FieldsOf(o) = {"env", "proto", "upv"}
  /\ \A o \in CClosures : FieldsOf(o) = {"env", "cup"}
  /\ \A o \in Protos : FieldsOf(o) = {"k"}
  /\ \A o \in Upvals : FieldsOf(o) = {"val"}
  /\ \A o \in Threads : FieldsOf(o) = {"env", "co"}
  /\ \A o \in Strings : FieldsOf(o) = {}
<1>. USE KindsDisjoint DEF FieldsOf
<1>1. \A o \in Tables : FieldsOf(o) = {"meta", "arr", "key", "val"}
  OBVIOUS
<1>2. \A o \in Udatas : FieldsOf(o) = {"meta", "env"}
  OBVIOUS
<1>3. \A o \in LClosures : FieldsOf(o) = {"env", "proto", "upv"}
  OBVIOUS
<1>4. \A o \in CClosures : FieldsOf(o) = {"env", "cup"}
  OBVIOUS
<1>5. \A o \in Protos : FieldsOf(o) = {"k"}
  OBVIOUS
<1>6. \A o \in Upvals : FieldsOf(o) = {"val"}
  OBVIOUS
<1>7. \A o \in Threads : FieldsOf(o) = {"env", "co"}
  OBVIOUS
<1>8. \A o \in Strings : FieldsOf(o) = {}
  OBVIOUS
<1>. QED BY <1>1, <1>2, <1>3, <1>4, <1>5, <1>6, <1>7, <1>8

\* Where the references of each kind are.
LEMMA KindRefs ==
  ASSUME TypeOK, FieldsUsed, FreeIsEmpty
  PROVE  /\ \A o \in Tables : ~isweak(o) => Refs(o) = StrongRefs(o)
         /\ \A o \in Obj \ Tables : Refs(o) = StrongRefs(o)
         /\ \A u \in Udatas : Refs(u) = {fld[u]["meta"], fld[u]["env"]} \ {Nil}
         /\ \A u \in Upvals : Refs(u) = {UvVal(u)} \ {Nil}
         /\ \A s \in Strings : Refs(s) = {}
<1>. USE KindsDisjoint, FieldsOfKinds DEF Obj
<1>1. ASSUME NEW o \in Tables, ~isweak(o) PROVE Refs(o) = StrongRefs(o)
  <2>1. StrongRefs(o) = {fld[o][f] : f \in {"meta", "arr", "key", "val"}} \ {Nil}
    BY <1>1 DEF StrongRefs, TableRefs, isweak
  <2>2. Refs(o) = {fld[o][f] : f \in Field} \ {Nil}
    BY DEF Refs
  <2>. QED BY <2>1, <2>2 DEF FieldsUsed, Field
<1>2. \A o \in Obj \ Tables : Refs(o) = StrongRefs(o)
  BY DEF StrongRefs
<1>3. ASSUME NEW u \in Udatas PROVE Refs(u) = {fld[u]["meta"], fld[u]["env"]} \ {Nil}
  <2>1. Refs(u) = {fld[u][f] : f \in Field} \ {Nil}
    BY DEF Refs
  <2>. QED BY <2>1 DEF FieldsUsed, Field
<1>4. ASSUME NEW u \in Upvals PROVE Refs(u) = {UvVal(u)} \ {Nil}
  <2>1. \A f \in Field : fld[u][f] # Nil => fld[u][f] = UvVal(u)
    BY DEF FieldsUsed, UvVal, FreeIsEmpty, NoFields
  <2>2. Refs(u) = ({fld[u][f] : f \in Field} \ {Nil}) \cup ({UvVal(u)} \ {Nil})
    BY DEF Refs
  <2>. QED BY <2>1, <2>2
<1>5. ASSUME NEW s \in Strings PROVE Refs(s) = {}
  <2>1. Refs(s) = {fld[s][f] : f \in Field} \ {Nil}
    BY DEF Refs
  <2>. QED BY <2>1 DEF FieldsUsed
<1>. QED BY <1>1, <1>2, <1>3, <1>4, <1>5

\* reallymarkobject marks white objects only, all it is given, and leaves no
\* white object behind what it blackens.
LEMMA MarkedFacts ==
  ASSUME TypeOK, NEW S, S \subseteq Obj \cup {Nil}
  PROVE  /\ Marked(S) \subseteq {o \in Obj : iswhite(o)}
         /\ \A o \in S \ {Nil} : iswhite(o) => o \in Marked(S)
         /\ \A u \in Marked(S) \cap Upvals : UvVal(u) # Nil /\ iswhite(UvVal(u)) => UvVal(u) \in Marked(S)
         /\ \A u \in Marked(S) \cap Udatas : \A f \in {"meta", "env"} :
              fld[u][f] # Nil /\ iswhite(fld[u][f]) => fld[u][f] \in Marked(S)
         /\ Marked(S) \cap Upvals \subseteq S
<1>. DEFINE white(T) == {o \in T : o # Nil /\ iswhite(o)}
            direct   == white(S)
            values   == direct \cup white({UvVal(u) : u \in direct \cap Upvals})
            uds      == values \cap Udatas
            extra    == white({fld[u]["meta"] : u \in uds} \cup {fld[u]["env"] : u \in uds})
<1>1. Marked(S) = values \cup extra
  BY DEF Marked
<1>2. \A u \in Upvals : UvVal(u) \in Value \cup {Nil}
  BY OperandType
<1>3. \A u \in Udatas : fld[u]["meta"] \in Tables \cup {Nil} /\ fld[u]["env"] \in Tables \cup {Nil}
  BY FieldKinds, Kinds DEF TypeOK
<1>4. values \subseteq {o \in Obj : iswhite(o)} /\ extra \subseteq {o \in Tables : iswhite(o)}
  BY <1>2, <1>3, Kinds
<1>5. Tables \cap (Upvals \cup Udatas) = {} /\ Value \cap Upvals = {}
  BY KindsDisjoint DEF Value
<1>6. \A o \in S \ {Nil} : iswhite(o) => o \in values
  OBVIOUS
<1>7. Marked(S) \cap Upvals \subseteq direct /\ direct \subseteq S
  BY <1>1, <1>2, <1>4, <1>5
<1>8. \A u \in direct \cap Upvals : UvVal(u) # Nil /\ iswhite(UvVal(u)) => UvVal(u) \in values
  OBVIOUS
<1>9. Marked(S) \cap Udatas \subseteq uds
  BY <1>1, <1>4, <1>5
<1>10. \A u \in uds : \A f \in {"meta", "env"} :
         fld[u][f] # Nil /\ iswhite(fld[u][f]) => fld[u][f] \in extra
  OBVIOUS
<1>11. Marked(S) \subseteq {o \in Obj : iswhite(o)}
  BY <1>1, <1>4, Kinds
<1>. HIDE DEF values, uds, extra, direct
<1>. QED BY <1>1, <1>6, <1>7, <1>8, <1>9, <1>10, <1>11

\* The marks after reallymarkobject, object by object.
LEMMA MarkEffect ==
  ASSUME TypeOK, FieldsUsed, FreeIsEmpty, NEW S, S \subseteq Obj \cup {Nil}
  PROVE  /\ \A o \in Obj :
              \/ o \notin Marked(S) /\ colorAfterMark(S)[o] = color[o]
              \/ o \in Marked(S) /\ iswhite(o) /\ colorAfterMark(S)[o] = MarkColor(o)
         /\ \A o \in S \ {Nil} : colorAfterMark(S)[o] \notin Whites
         /\ \A o \in Marked(S) : colorAfterMark(S)[o] = "black" \/ o \in Upvals =>
              \A v \in Refs(o) : colorAfterMark(S)[v] \notin Whites
         /\ Marked(S) \cap Upvals \subseteq S
<1>1. \A o \in Obj :
        \/ o \notin Marked(S) /\ colorAfterMark(S)[o] = color[o]
        \/ o \in Marked(S) /\ iswhite(o) /\ colorAfterMark(S)[o] = MarkColor(o)
  <2>1. Marked(S) \subseteq {o \in Obj : iswhite(o)}
    BY MarkedFacts
  <2>. QED BY <2>1 DEF colorAfterMark
<1>2. \A o : MarkColor(o) \notin Whites
  BY DEF MarkColor
<1>3. \A o \in Obj : colorAfterMark(S)[o] \in Whites => iswhite(o) /\ o \notin Marked(S)
  BY <1>1, <1>2 DEF iswhite
<1>4. \A o \in S \ {Nil} : colorAfterMark(S)[o] \notin Whites
  BY <1>3, MarkedFacts
<1>5. ASSUME NEW o \in Marked(S), colorAfterMark(S)[o] = "black" \/ o \in Upvals, NEW v \in Refs(o),
             colorAfterMark(S)[v] \in Whites
      PROVE  FALSE
  <2>1. o \in Obj /\ v \in Obj /\ o \in Udatas \cup Upvals
    BY <1>1, <1>5, MarkedFacts, RefsType DEF MarkColor
  <2>2. iswhite(v) /\ v \notin Marked(S)
    BY <1>3, <1>5, <2>1
  <2>3. CASE o \in Udatas
    <3>1. v # Nil /\ \E f \in {"meta", "env"} : v = fld[o][f]
      BY <1>5, <2>3, KindRefs
    <3>. QED BY <1>5, <2>2, <2>3, <3>1, MarkedFacts
  <2>4. CASE o \in Upvals
    <3>1. v # Nil /\ v = UvVal(o)
      BY <1>5, <2>4, KindRefs
    <3>. QED BY <1>5, <2>2, <2>4, <3>1, MarkedFacts
  <2>. QED BY <2>1, <2>3, <2>4
<1>. QED BY <1>1, <1>4, <1>5, MarkedFacts

\* A step that stores V into object o and W into registers, and reassigns the
\* upvalues U.
HeapStep(o, V, W, U) ==
  /\ \A x \in Obj, f \in Field : fld'[x][f] = fld[x][f] \/ (x = o /\ fld'[x][f] \in V \cup {Nil})
  /\ \A t \in Threads, i \in Slots : stk'[t][i] = stk[t][i] \/ stk'[t][i] \in W \cup {Nil}
  /\ \A u \in Upvals \ U : uvth'[u] = uvth[u] /\ uvslot'[u] = uvslot[u]

\* How such a step changes what is referred to.
LEMMA HeapChange ==
  ASSUME TypeOK, NEW o, NEW V, NEW W, NEW U, HeapStep(o, V, W, U)
  PROVE  \A x \in Obj \ U : \A v \in Refs(x)' :
           \/ v \in Refs(x)
           \/ x = o /\ v \in V
           \/ (x \in Threads \/ (x \in Upvals /\ isopen(x))) /\ v \in W
<1>. SUFFICES ASSUME NEW x \in Obj \ U, NEW v, Holds(x, v)', ~Holds(x, v), ~(x = o /\ v \in V)
              PROVE  (x \in Threads \/ (x \in Upvals /\ isopen(x))) /\ v \in W
  BY RefsHolds
<1>. USE DEF HeapStep
<1>1. v # Nil
  BY DEF Holds
<1>2. \A f \in Field : v # fld'[x][f]
  BY <1>1 DEF Holds
<1>3. CASE x \in Threads /\ \E i \in Slots : v = stk'[x][i]
  BY <1>1, <1>3 DEF Holds
<1>4. CASE x \in Upvals /\ v = UvVal(x)'
  <2>1. uvth'[x] = uvth[x] /\ uvslot'[x] = uvslot[x]
    BY <1>4
  <2>2. isopen(x)
    BY <1>2, <1>4, <2>1 DEF UvVal, isopen, Field
  <2>3. uvth[x] \in Threads /\ uvslot[x] \in Slots
    BY <1>4, <2>2 DEF isopen, TypeOK
  <2>4. v = stk'[uvth[x]][uvslot[x]] /\ UvVal(x) = stk[uvth[x]][uvslot[x]]
    BY <1>4, <2>1, <2>2 DEF UvVal, isopen
  <2>. QED BY <1>1, <1>4, <2>2, <2>3, <2>4 DEF Holds
<1>. QED BY <1>2, <1>3, <1>4 DEF Holds

(***************************************************************************)
(* What the program can name is alive.                                     *)
(***************************************************************************)
LEMMA FieldAlive ==
  ASSUME TypeOK, NoDangling
  PROVE  /\ \A o \in Obj, f \in Field : NotDead(o) /\ fld[o][f] # Nil => NotDead(fld[o][f])
         /\ \A u \in Upvals : NotDead(u) /\ UvVal(u) # Nil => NotDead(UvVal(u))
         /\ \A t \in Threads, i \in Slots : NotDead(t) /\ stk[t][i] # Nil => NotDead(stk[t][i])
  BY RefsHolds, Kinds DEF Holds, NoDangling

\* What the program can name is not dead.
LEMMA NamedAlive ==
  ASSUME TypeOK, NoDangling, RootsAlive
  PROVE  /\ \A v \in Direct : NotDead(v)
         /\ \A v \in Operand \ {Nil} : NotDead(v)
         /\ \A v \in Readable \ {Nil} : NotDead(v)
         /\ \A v \in CurrEnv \ {Nil} : NotDead(v)
         /\ \A c \in Direct \cap LClosures : \A p \in nestedProtos(c) \ {Nil} : NotDead(p)
<1>1. NotDead(running) /\ NotDead(Registry) /\ running \in Threads /\ (gmt # Nil => NotDead(gmt))
  BY ConstantsOK, Kinds DEF RootsAlive, TypeOK
<1>2. \A v \in Direct : NotDead(v)
  BY <1>1, FieldAlive DEF Direct, StackOf
<1>3. \A v \in Operand \ {Nil} : NotDead(v)
  BY <1>2 DEF Operand
<1>4. Direct \subseteq Obj /\ running \in Obj
  BY <1>1, OperandType, Kinds
<1>5. {"env", "upv", "proto", "k"} \subseteq Field
  BY DEF Field
<1>6. \A v \in CurrEnv \ {Nil} : NotDead(v)
  BY <1>1, <1>2, <1>4, <1>5, FieldAlive DEF CurrEnv
<1>7. \A c \in Direct :
        /\ fld[c]["proto"] # Nil => NotDead(fld[c]["proto"]) /\ fld[c]["proto"] \in Obj
        /\ fld[c]["upv"] # Nil => NotDead(fld[c]["upv"]) /\ fld[c]["upv"] \in Upvals
  BY <1>2, <1>4, <1>5, FieldAlive, FieldKinds, Kinds DEF TypeOK
<1>8. ASSUME NEW c \in Direct, fld[c]["proto"] # Nil, fld[fld[c]["proto"]]["k"] # Nil
      PROVE  NotDead(fld[fld[c]["proto"]]["k"])
  <2>1. NotDead(fld[c]["proto"]) /\ fld[c]["proto"] \in Obj
    BY <1>7, <1>8
  <2>. QED BY <1>5, <1>8, <2>1, FieldAlive
<1>9. \A c \in Direct \cap LClosures : \A p \in nestedProtos(c) \ {Nil} : NotDead(p)
  BY <1>8, Kinds DEF nestedProtos
<1>10. \A v \in Readable \ {Nil} : NotDead(v)
  <2>. SUFFICES ASSUME NEW v \in Readable \ {Nil} PROVE NotDead(v)
    OBVIOUS
  <2>1. \/ \E o \in Direct : v \in Refs(o)
        \/ \E c \in Direct : fld[c]["upv"] # Nil /\ v = UvVal(fld[c]["upv"])
        \/ \E c \in Direct : fld[c]["proto"] # Nil /\ v = fld[fld[c]["proto"]]["k"]
        \/ v = gmt \/ v = fld[running]["env"]
    BY DEF Readable
  <2>2. CASE \E o \in Direct : v \in Refs(o)
    BY <1>2, <1>4, <2>2 DEF NoDangling
  <2>3. CASE \E c \in Direct : fld[c]["upv"] # Nil /\ v = UvVal(fld[c]["upv"])
    BY <1>7, <2>3, FieldAlive
  <2>4. CASE \E c \in Direct : fld[c]["proto"] # Nil /\ v = fld[fld[c]["proto"]]["k"]
    BY <1>8, <2>4
  <2>5. CASE v = gmt \/ v = fld[running]["env"]
    BY <1>1, <1>4, <1>5, <2>5, FieldAlive
  <2>. QED BY <2>1, <2>2, <2>3, <2>4, <2>5
<1>. QED BY <1>2, <1>3, <1>6, <1>9, <1>10

(***************************************************************************)
(* A step of the program, as the collector sees it.                        *)
(***************************************************************************)
\* How the mark of an object may change: a new or resurrected object gets the
\* current white, and the write barriers mark, gray again or whiten.
ColorStep(o) ==
  \/ color'[o] = color[o]
  \/ ~NotDead(o) /\ color'[o] = currentwhite
  \/ iswhite(o) /\ gcstate = "propagate" /\ color'[o] = MarkColor(o)
  \/ o \in Tables /\ color[o] = "black" /\ color'[o] = "gray"
  \/ color[o] = "black" /\ gcstate # "propagate" /\ color'[o] = currentwhite

\* What is newly referred to is alive, and not white if the holder is black.
Mutates ==
  /\ Program /\ UNCHANGED collectorVars
  /\ \A o \in Obj : ColorStep(o)
  /\ gcstate = "propagate" =>
       /\ gray' = gray \cup {o \in Listed : iswhite(o) /\ color'[o] = "gray"}
       /\ grayagain' = grayagain \cup {o \in Listed : color[o] = "black" /\ color'[o] = "gray"}
       /\ weak' = weak
  /\ \A u \in Upvals : color[u] # "free" => uvth'[u] = uvth[u]
  /\ \A o \in Obj : NotDead(o)' => \A v \in Refs(o)' : NotDead(v)' \/ (NotDead(o) /\ v \in Refs(o))
  /\ gcstate = "propagate" =>
       \A o \in Obj \ tmudata : color'[o] = "black" =>
         \A v \in Refs(o)' : ~iswhite(v)' \/ (color[o] = "black" /\ v \in Refs(o))
  /\ \A r \in {running', gmt'} \ {Nil} : NotDead(r)'

\* The parts of IInv that such a step keeps whatever it stores where.
Marks == NoDangling /\ RootsAlive /\ Tricolor /\ GrayLists /\ SweepPending /\ SweepLists
           /\ MarkStages /\ MarkKinds

\* The parts that depend on the shape of the heap.
Shape == OpenUpvals /\ FreeIsEmpty /\ ResumeChain /\ FieldsUsed

\* What an operation of the program does to colours: nothing dies and nothing is freed.
LEMMA ColorFacts ==
  ASSUME TypeOK, Mutates
  PROVE  /\ currentwhite' = currentwhite /\ otherwhite' = otherwhite /\ gcstate' = gcstate
         /\ tmudata' = tmudata /\ sweepstr' = sweepstr /\ sweepgc' = sweepgc
         /\ \A o \in Obj : NotDead(o) => NotDead(o)'
         /\ \A o \in Obj : isdead(o)' => isdead(o)
         /\ \A o \in Obj : color'[o] = "free" => color[o] = "free"
<1>1. /\ currentwhite' = currentwhite /\ otherwhite' = otherwhite /\ gcstate' = gcstate
      /\ tmudata' = tmudata /\ sweepstr' = sweepstr /\ sweepgc' = sweepgc
  BY DEF Mutates, collectorVars, udVars, swVars, otherwhite
<1>2. \A o \in Obj :
        /\ NotDead(o) => NotDead(o)'
        /\ isdead(o)' => isdead(o)
        /\ color'[o] = "free" => color[o] = "free"
  <2>. TAKE o \in Obj
  <2>1. ColorStep(o)
    BY DEF Mutates
  <2>2. color[o] \in {currentwhite, otherwhite, "gray", "black", "free"} /\ currentwhite # otherwhite
          /\ currentwhite \in Whites /\ otherwhite \in Whites
    BY WhiteFacts
  <2>. QED BY <1>1, <2>1, <2>2 DEF ColorStep, NotDead, isdead, MarkColor
<1>. QED BY <1>1, <1>2

\* Operations of the program leave no dangling reference.
LEMMA MutatesNoDangling ==
  ASSUME TypeOK, NoDangling, RootsAlive, Mutates
  PROVE  NoDangling' /\ RootsAlive'
<1>1. NoDangling'
  <2>. SUFFICES ASSUME NEW o \in Obj, NotDead(o)', NEW v \in Refs(o)' PROVE NotDead(v)'
    BY DEF NoDangling
  <2>1. NotDead(v)' \/ (NotDead(o) /\ v \in Refs(o))
    BY DEF Mutates
  <2>. QED BY <2>1, ColorFacts, RefsType DEF NoDangling
<1>2. RootsAlive'
  <2>1. MainThread \in Obj /\ Registry \in Obj /\ MainThread # Nil /\ Registry # Nil
    BY ConstantsOK, Kinds
  <2>2. NotDead(MainThread) /\ NotDead(Registry)
    BY <2>1 DEF RootsAlive
  <2>. QED BY <2>1, <2>2, ColorFacts DEF RootsAlive, Mutates
<1>. QED BY <1>1, <1>2

\* Operations of the program keep black objects from pointing to white ones.
LEMMA MutatesTricolor ==
  ASSUME TypeOK, NoDangling, Tricolor, MarkStages, Mutates
  PROVE  Tricolor'
<1>. SUFFICES ASSUME gcstate' \in Marking, NEW o \in Obj, color'[o] = "black", o \notin tmudata',
                     NEW v \in Refs(o)', iswhite(v)'
              PROVE  FALSE
  BY DEF Tricolor
<1>1. gcstate = "propagate" /\ o \notin tmudata
  BY ColorFacts DEF Mutates, Program
<1>2. color[o] = "black" /\ v \in Refs(o)
  BY <1>1 DEF Mutates
<1>3. ~iswhite(v) /\ v \in Obj /\ NotDead(v)
  BY <1>1, <1>2, RefsType, WhiteFacts DEF Tricolor, NoDangling
<1>4. ColorStep(v)
  BY <1>3 DEF Mutates
<1>. QED BY <1>1, <1>3, <1>4 DEF ColorStep, iswhite, MarkColor

\* Operations of the program keep gray objects on the lists.
LEMMA MutatesGrayLists ==
  ASSUME TypeOK, GrayLists, Mutates
  PROVE  GrayLists'
<1>. SUFFICES ASSUME gcstate' \in Marking
              PROVE  /\ gray' \cap grayagain' = {} /\ gray' \cap weak' = {} /\ grayagain' \cap weak' = {}
                     /\ {o \in Listed : color'[o] = "gray"} = gray' \cup grayagain' \cup weak'
  BY DEF GrayLists
<1>. DEFINE new   == {o \in Listed : iswhite(o) /\ color'[o] = "gray"}
            again == {o \in Listed : color[o] = "black" /\ color'[o] = "gray"}
<1>1. gcstate = "propagate"
  BY ColorFacts DEF Mutates, Program
<1>2. gray' = gray \cup new /\ grayagain' = grayagain \cup again /\ weak' = weak
  BY <1>1 DEF Mutates
<1>3. /\ gray \cap grayagain = {} /\ gray \cap weak = {} /\ grayagain \cap weak = {}
      /\ {o \in Listed : color[o] = "gray"} = gray \cup grayagain \cup weak
  BY <1>1 DEF GrayLists
<1>4. \A o \in Listed : color'[o] = "gray" <=> color[o] = "gray" \/ o \in new \cup again
  <2>. SUFFICES ASSUME NEW o \in Listed
                PROVE  color'[o] = "gray" <=> color[o] = "gray" \/ o \in new \cup again
    OBVIOUS
  <2>1. o \in Obj
    BY DEF Listed, Obj
  <2>2. ColorStep(o)
    BY <2>1 DEF Mutates
  <2>. QED BY <1>1, <2>1, <2>2, WhiteFacts DEF ColorStep, NotDead, iswhite
<1>5. \A o \in new \cup again : color[o] # "gray"
  BY DEF iswhite
<1>6. new \cap again = {}
  BY DEF iswhite
<1>. QED BY <1>2, <1>3, <1>4, <1>5, <1>6

\* Operations of the program leave the sweep in progress complete.
LEMMA MutatesSweep ==
  ASSUME TypeOK, SweepPending, SweepLists, Mutates
  PROVE  SweepPending' /\ SweepLists'
<1>1. SweepPending'
  <2>. SUFFICES ASSUME gcstate' \notin Marking, NEW o \in Obj, color'[o] \notin {currentwhite', "free"}
                PROVE  \/ o \in sweepstr' \cup sweepgc' \cup tmudata'
                       \/ o \in Upvals /\ uvth'[o] \in sweepgc'
    BY DEF SweepPending
  <2>1. ColorStep(o) /\ gcstate \notin Marking /\ color'[o] # currentwhite
    BY ColorFacts DEF Mutates
  <2>2. color[o] \notin {currentwhite, "free"}
    BY <2>1, ColorFacts, WhiteFacts DEF ColorStep
  <2>. QED BY <2>1, <2>2, ColorFacts DEF SweepPending, Mutates
<1>2. SweepLists'
  <2>1. sweepstr \cup sweepgc \cup tmudata \subseteq Allocated'
    BY ColorFacts DEF SweepLists, Allocated
  <2>2. \A u \in sweepgc \cap Upvals : uvth'[u] = uvth[u]
    BY DEF SweepLists, Allocated, Mutates
  <2>3. \A u \in tmudata : ~isdead(u)'
    BY ColorFacts, Kinds DEF SweepLists, TypeOK
  <2>. QED BY <2>1, <2>2, <2>3, ColorFacts DEF SweepLists, isopen
<1>. QED BY <1>1, <1>2

\* Operations of the program keep what the stages of the mark phase have settled.
LEMMA MutatesStages ==
  ASSUME TypeOK, RootsAlive, MarkStages, MarkKinds, Mutates
  PROVE  MarkStages' /\ MarkKinds'
<1>0. MainThread \in Obj /\ Registry \in Obj /\ MainThread # Nil /\ Registry # Nil
  BY ConstantsOK, Kinds
<1>1. gcstate' = gcstate /\ gcstate \notin Atomic
  BY ColorFacts DEF Mutates, Program
<1>2. ASSUME gcstate = "propagate", NEW r \in Obj, NotDead(r), ~iswhite(r) PROVE ~iswhite(r)'
  <2>1. ColorStep(r)
    BY DEF Mutates
  <2>. QED BY <1>2, <2>1 DEF ColorStep, iswhite, MarkColor
<1>3. MarkStages'
  <2>1. NotDead(MainThread) /\ NotDead(Registry)
    BY <1>0 DEF RootsAlive
  <2>2. gcstate = "propagate" => (\A o \in Obj : ~isdead(o)') /\ ~iswhite(MainThread)' /\ ~iswhite(Registry)'
    BY <1>0, <1>2, <2>1, ColorFacts DEF MarkStages
  <2>. QED BY <1>1, <2>2 DEF MarkStages
<1>4. MarkKinds'
  <2>1. \A o \in Obj : ColorStep(o)
    BY DEF Mutates
  <2>2. ASSUME NEW t \in Threads PROVE color'[t] # "black"
    BY <2>1, KindsDisjoint, WhiteFacts, Kinds DEF ColorStep, MarkColor, MarkKinds
  <2>3. ASSUME NEW u \in Udatas PROVE color'[u] # "gray"
    BY <2>1, KindsDisjoint, WhiteFacts, Kinds DEF ColorStep, MarkColor, MarkKinds
  <2>4. ASSUME NEW u \in Upvals, color'[u] = "gray" PROVE isopen(u)'
    <3>1. ColorStep(u) /\ u \in Obj /\ u \notin Tables
      BY <2>1, KindsDisjoint, Kinds
    <3>2. color[u] # "free" /\ isopen(u)
      BY <2>4, <3>1, WhiteFacts DEF ColorStep, MarkColor, MarkKinds, iswhite
    <3>. QED BY <3>2 DEF Mutates, isopen
  <2>. QED BY <2>2, <2>3, <2>4 DEF MarkKinds
<1>. QED BY <1>3, <1>4

\* The five together.
LEMMA MutatesMarks ==
  ASSUME TypeOK, Marks, Mutates
  PROVE  Marks'
  BY MutatesNoDangling, MutatesTricolor, MutatesGrayLists, MutatesSweep, MutatesStages DEF Marks

\* Operations that open and close no upvalue leave those that are open.
LEMMA MutatesOpenUpvals ==
  ASSUME TypeOK, OpenUpvals, Mutates, UNCHANGED <<uvth, uvslot>>
  PROVE  OpenUpvals'
<1>. SUFFICES ASSUME NEW u \in Upvals, isopen(u)'
              PROVE  /\ color'[u] \notin {"black", "free"}
                     /\ color'[uvth'[u]] # "free"
                     /\ \A w \in Upvals : uvth'[w] = uvth'[u] /\ uvslot'[w] = uvslot'[u] => w = u
  BY DEF OpenUpvals
<1>1. isopen(u) /\ uvth[u] \in Threads /\ uvth[u] \in Obj /\ u \in Obj
  BY Kinds DEF isopen, TypeOK
<1>2. color[u] \notin {"black", "free"} /\ color[uvth[u]] # "free"
  BY <1>1 DEF OpenUpvals
<1>3. color'[u] \notin {"black", "free"}
  <2>1. ColorStep(u) /\ u \notin Udatas
    BY <1>1, KindsDisjoint DEF Mutates
  <2>. QED BY <1>1, <1>2, <2>1, WhiteFacts DEF ColorStep, MarkColor
<1>. QED BY <1>1, <1>2, <1>3, ColorFacts DEF OpenUpvals

(***************************************************************************)
(* The shapes of the program's steps: a store, and a new object.           *)
(***************************************************************************)
\* What a write barrier for the store of V into o leaves behind.
Barriered(o, V) ==
  /\ \A x \in Obj : ColorStep(x)
  /\ \A x \in Obj : NotDead(x)' => NotDead(x)
  /\ gcstate = "propagate" =>
       /\ gray' = gray \cup {x \in Listed : iswhite(x) /\ color'[x] = "gray"}
       /\ grayagain' = grayagain \cup {x \in Listed : color[x] = "black" /\ color'[x] = "gray"}
       /\ weak' = weak
       /\ color'[o] = "black" => \A v \in V : ~iswhite(v)'
       /\ \A x \in Obj : color'[x] = "black" /\ color[x] # "black" => \A w \in Refs(x) : ~iswhite(w)'

\* A store of V into object o and of W into registers, with its barrier.
LEMMA StoreMutates ==
  ASSUME TypeOK, Marks, Shape, Program, UNCHANGED <<collectorVars, uvth, uvslot>>,
         NEW o, NEW V, NEW W,
         \A v \in V \cup W : v \in Obj /\ NotDead(v),
         HeapStep(o, V, W, {}), Barriered(o, V),
         \A r \in {running', gmt'} \ {Nil} : r \in Obj /\ NotDead(r)
  PROVE  Mutates
<1>. USE DEF Barriered
<1>1. \A x \in Obj : \A v \in Refs(x)' :
        \/ v \in Refs(x)
        \/ x = o /\ v \in V
        \/ (x \in Threads \/ (x \in Upvals /\ isopen(x))) /\ v \in W
  BY HeapChange
<1>2. UNCHANGED <<currentwhite, gcstate>> /\ otherwhite' = otherwhite
  BY DEF collectorVars, otherwhite
<1>3. \A x \in Obj : NotDead(x) => NotDead(x)'
  <2>. TAKE x \in Obj
  <2>1. ColorStep(x) /\ color[x] \in {currentwhite, otherwhite, "gray", "black", "free"}
          /\ currentwhite # otherwhite /\ currentwhite \in Whites /\ otherwhite \in Whites
    BY WhiteFacts
  <2>. QED BY <1>2, <2>1 DEF ColorStep, NotDead, isdead, MarkColor
<1>4. \A x \in Obj : NotDead(x)' => \A v \in Refs(x)' : NotDead(v)' \/ (NotDead(x) /\ v \in Refs(x))
  BY <1>1, <1>3
<1>5. ASSUME gcstate = "propagate", NEW x \in Obj \ tmudata, color'[x] = "black", NEW v \in Refs(x)'
      PROVE  ~iswhite(v)' \/ (color[x] = "black" /\ v \in Refs(x))
  <2>1. x \notin Threads /\ ~(x \in Upvals /\ isopen(x))
    <3>1. ColorStep(x)
      OBVIOUS
    <3>2. x \in Threads \/ (x \in Upvals /\ isopen(x)) => color[x] # "black" /\ MarkColor(x) = "gray"
      BY KindsDisjoint DEF Marks, Shape, MarkKinds, OpenUpvals, MarkColor
    <3>. QED BY <1>5, <3>1, <3>2, WhiteFacts DEF ColorStep
  <2>. QED BY <1>1, <1>5, <2>1
<1>6. \A r \in {running', gmt'} \ {Nil} : NotDead(r)'
  BY <1>3
<1>. QED BY <1>4, <1>5, <1>6 DEF Mutates

\* A free object refers to nothing.
LEMMA FreeRefs ==
  ASSUME TypeOK, OpenUpvals, FreeIsEmpty, NEW o \in Obj, color[o] = "free"
  PROVE  Refs(o) = {} /\ (o \in Upvals => ~isopen(o))
<1>1. o \in Upvals => ~isopen(o)
  BY DEF OpenUpvals
<1>2. \A v : ~Holds(o, v)
  BY <1>1 DEF Holds, UvVal, FreeIsEmpty, NoFields, NoStack, Field
<1>. QED BY <1>1, <1>2, RefsHolds

\* A new object o, which holds V, goes to a register; the upvalue u it
\* captures, if any, is new or resurrected.
LEMMA CreateMutates ==
  ASSUME TypeOK, Marks, Shape, Program, UNCHANGED <<collectorVars, listVars, progVars>>,
         NEW o \in Obj, NEW u, NEW V,
         color[o] = "free" \/ (Refs(o) = {} /\ V = {}),
         u \in Obj => u \in Upvals /\ (isopen(u) \/ color[u] = "free"),
         \A v \in V : v \in Obj /\ (NotDead(v) \/ v = u),
         HeapStep(o, V, {o}, {u}),
         u \in Obj /\ color[u] # "free" => uvth'[u] = uvth[u],
         u \in Obj => \A w \in Refs(u)' : NotDead(w)',
         \A x \in Obj : color'[x] = IF x \in {o, u} THEN revived(x) ELSE color[x]
  PROVE  Mutates
<1>1. \A x \in Obj \ {u} : \A v \in Refs(x)' :
        \/ v \in Refs(x)
        \/ x = o /\ v \in V
        \/ (x \in Threads \/ (x \in Upvals /\ isopen(x))) /\ v \in {o}
  BY HeapChange
<1>2. UNCHANGED <<currentwhite, gcstate, running, gmt, gray, grayagain, weak>> /\ otherwhite' = otherwhite
  BY DEF collectorVars, listVars, progVars, otherwhite
<1>3. \A x \in Obj : ColorStep(x)
  BY DEF ColorStep, revived, NotDead, isdead
<1>4. \A x \in Obj : NotDead(x) => NotDead(x)'
  BY <1>2, WhiteFacts DEF revived, NotDead, isdead
<1>5. NotDead(o)' /\ (u \in Obj => NotDead(u)')
  BY <1>2, WhiteFacts DEF revived, NotDead, isdead
<1>6. color[o] = "free" => Refs(o) = {}
  BY FreeRefs DEF Shape
<1>7. ASSUME NEW x \in Obj, NotDead(x)', NEW v \in Refs(x)' PROVE NotDead(v)' \/ (NotDead(x) /\ v \in Refs(x))
  <2>1. CASE x = u
    BY <1>7, <2>1
  <2>2. CASE x = o /\ x # u
    BY <1>1, <1>4, <1>5, <1>6, <1>7, <2>2
  <2>3. CASE x \notin {o, u}
    <3>1. NotDead(x)
      BY <1>2, <1>7, <2>3 DEF NotDead, isdead
    <3>. QED BY <1>1, <1>5, <1>7, <2>3, <3>1
  <2>. QED BY <2>1, <2>2, <2>3
<1>8. ASSUME NEW x \in Obj, color'[x] = "black", NEW v \in Refs(x)' PROVE color[x] = "black" /\ v \in Refs(x)
  <2>1. color[x] = "black"
    BY <1>8, WhiteFacts DEF revived
  <2>2. x # u /\ x \notin Threads /\ ~(x \in Upvals /\ isopen(x))
    BY <2>1 DEF Marks, Shape, MarkKinds, OpenUpvals
  <2>3. x = o => V = {}
    BY <2>1
  <2>. QED BY <1>1, <1>8, <2>1, <2>2, <2>3
<1>9. \A r \in {running', gmt'} \ {Nil} : NotDead(r)'
  <2>1. \A r \in {running, gmt} \ {Nil} : r \in Obj /\ NotDead(r)
    BY Kinds DEF Marks, RootsAlive, TypeOK
  <2>. QED BY <1>2, <1>4, <2>1
<1>10. /\ {x \in Listed : iswhite(x) /\ color'[x] = "gray"} = {}
       /\ {x \in Listed : color[x] = "black" /\ color'[x] = "gray"} = {}
  <2>1. ASSUME NEW x \in Listed, color'[x] = "gray" PROVE color[x] = "gray"
    <3>1. x \in Obj
      BY DEF Listed, Obj
    <3>. QED BY <2>1, <3>1, WhiteFacts DEF revived
  <2>. QED BY <2>1 DEF iswhite
<1>11. \A w \in Upvals : color[w] # "free" => uvth'[w] = uvth[w]
  BY Kinds DEF HeapStep
<1>. QED BY <1>2, <1>3, <1>7, <1>8, <1>9, <1>10, <1>11 DEF Mutates


(***************************************************************************)
(* The write barriers.                                                     *)
(***************************************************************************)
\* Without a barrier only an object that is not black may receive a pointer.
LEMMA NoBarrier ==
  ASSUME UNCHANGED <<color, listVars, collectorVars>>, NEW o, NEW V,
         gcstate = "propagate" => color[o] # "black" \/ V = {}
  PROVE  Barriered(o, V)
<1>1. UNCHANGED <<currentwhite, gray, grayagain, weak>> /\ otherwhite' = otherwhite
  BY DEF listVars, collectorVars, otherwhite
<1>2. /\ {x \in Listed : iswhite(x) /\ color'[x] = "gray"} = {}
      /\ {x \in Listed : color[x] = "black" /\ color'[x] = "gray"} = {}
  BY DEF iswhite
<1>3. \A x \in Obj : ColorStep(x) /\ (NotDead(x)' => NotDead(x))
  BY <1>1 DEF ColorStep, NotDead, isdead
<1>. QED BY <1>1, <1>2, <1>3 DEF Barriered

\* luaC_barrierf: the stored object is marked, or the owner made white.
LEMMA BarrierStep ==
  ASSUME TypeOK, Marks, Shape, Program, NEW o \in Obj, NEW v \in Obj \cup {Nil},
         luaC_barrier(o, v), UNCHANGED collectorVars
  PROVE  Barriered(o, {v} \ {Nil})
<1>. DEFINE caught == color[o] = "black" /\ v # Nil /\ iswhite(v)
<1>1. UNCHANGED <<currentwhite, gcstate, grayagain, weak>> /\ otherwhite' = otherwhite
  BY DEF collectorVars, otherwhite, luaC_barrier
<1>2. CASE ~caught
  <2>1. UNCHANGED <<color, listVars>>
    BY <1>2 DEF luaC_barrier, listVars
  <2>2. /\ {x \in Listed : iswhite(x) /\ color'[x] = "gray"} = {}
        /\ {x \in Listed : color[x] = "black" /\ color'[x] = "gray"} = {}
    BY <2>1 DEF iswhite
  <2>3. \A x \in Obj : ColorStep(x) /\ (NotDead(x)' => NotDead(x))
    BY <1>1, <2>1 DEF ColorStep, NotDead, isdead
  <2>. QED BY <1>1, <1>2, <2>1, <2>2, <2>3 DEF Barriered, iswhite, listVars
<1>3. CASE caught /\ gcstate # "propagate"
  <2>1. color' = [color EXCEPT ![o] = currentwhite]
    BY <1>3 DEF luaC_barrier
  <2>2. \A x \in Obj : color'[x] = IF x = o THEN currentwhite ELSE color[x]
    BY <2>1 DEF TypeOK
  <2>3. \A x \in Obj : ColorStep(x) /\ (NotDead(x)' => NotDead(x))
    BY <1>1, <1>3, <2>2, WhiteFacts DEF ColorStep, NotDead, isdead
  <2>. QED BY <1>3, <2>3 DEF Barriered
<1>4. CASE caught /\ gcstate = "propagate"
  <2>1. color' = colorAfterMark({v}) /\ gray' = gray \cup (Marked({v}) \cap Listed)
    BY <1>4 DEF luaC_barrier, grayAfterMark
  <2>2. {v} \subseteq Obj \cup {Nil}
    OBVIOUS
  <2>3. /\ \A x \in Obj :
             \/ x \notin Marked({v}) /\ color'[x] = color[x]
             \/ x \in Marked({v}) /\ iswhite(x) /\ color'[x] = MarkColor(x)
        /\ color'[v] \notin Whites
        /\ \A x \in Marked({v}) : color'[x] = "black" => \A w \in Refs(x) : color'[w] \notin Whites
    BY <1>4, <2>1, <2>2, MarkEffect DEF Shape
  <2>4. \A x \in Obj : ColorStep(x)
    BY <1>4, <2>3 DEF ColorStep
  <2>5. \A x \in Obj : ~isdead(x)
    BY <1>4 DEF Marks, MarkStages
  <2>6. \A x \in Obj : NotDead(x)' => NotDead(x)
    BY <2>3, <2>5, WhiteFacts DEF NotDead, iswhite
  <2>7. \A x \in Listed : x \in Obj /\ MarkColor(x) = "gray"
    BY KindsDisjoint DEF Listed, Obj, MarkColor
  <2>8. {x \in Listed : iswhite(x) /\ color'[x] = "gray"} = Marked({v}) \cap Listed
    BY <2>3, <2>7 DEF iswhite
  <2>9. {x \in Listed : color[x] = "black" /\ color'[x] = "gray"} = {}
    BY <2>3, <2>7 DEF iswhite
  <2>. QED BY <1>1, <2>1, <2>3, <2>4, <2>6, <2>8, <2>9 DEF Barriered, iswhite
<1>. QED BY <1>2, <1>3, <1>4

\* luaC_barrierback: the table is gray again.
LEMMA BarriertStep ==
  ASSUME TypeOK, Marks, Shape, Program, NEW t \in Tables, NEW V, V \subseteq Obj \cup {Nil},
         luaC_barriert(t, V), UNCHANGED collectorVars
  PROVE  Barriered(t, V \ {Nil})
<1>. DEFINE caught == color[t] = "black" /\ \E v \in V \ {Nil} : iswhite(v)
<1>1. UNCHANGED <<currentwhite, gcstate, gray, weak>> /\ otherwhite' = otherwhite /\ t \in Obj /\ t \in Listed
  BY DEF collectorVars, otherwhite, luaC_barriert, Obj, Listed
<1>2. CASE ~caught
  <2>1. UNCHANGED <<color, listVars>>
    BY <1>2 DEF luaC_barriert, listVars
  <2>2. /\ {x \in Listed : iswhite(x) /\ color'[x] = "gray"} = {}
        /\ {x \in Listed : color[x] = "black" /\ color'[x] = "gray"} = {}
    BY <2>1 DEF iswhite
  <2>3. \A x \in Obj : ColorStep(x) /\ (NotDead(x)' => NotDead(x))
    BY <1>1, <2>1 DEF ColorStep, NotDead, isdead
  <2>. QED BY <1>1, <1>2, <2>1, <2>2, <2>3 DEF Barriered, iswhite, listVars
<1>3. CASE caught
  <2>1. color' = [color EXCEPT ![t] = "gray"] /\ grayagain' = grayagain \cup {t}
    BY <1>3 DEF luaC_barriert
  <2>2. \A x \in Obj : color'[x] = IF x = t THEN "gray" ELSE color[x]
    BY <2>1 DEF TypeOK
  <2>3. \A x \in Obj : ColorStep(x) /\ (NotDead(x)' => NotDead(x))
    BY <1>1, <1>3, <2>2, WhiteFacts DEF ColorStep, NotDead, isdead
  <2>4. \A x \in Listed : x \in Obj
    BY DEF Listed, Obj
  <2>5. {x \in Listed : iswhite(x) /\ color'[x] = "gray"} = {}
    BY <1>3, <2>2, <2>4 DEF iswhite
  <2>6. {x \in Listed : color[x] = "black" /\ color'[x] = "gray"} = {t}
    BY <1>1, <1>3, <2>2, <2>4
  <2>. QED BY <1>1, <2>1, <2>2, <2>3, <2>5, <2>6 DEF Barriered
<1>. QED BY <1>2, <1>3

(***************************************************************************)
(* The shape of the heap.                                                  *)
(***************************************************************************)
\* Coroutines are not switched.
LEMMA SameChain ==
  ASSUME TypeOK, ResumeChain, UNCHANGED <<running, level>>,
         \A t \in Threads : fld'[t]["co"] = fld[t]["co"]
  PROVE  ResumeChain'
  BY DEF ResumeChain, TypeOK

\* A store into the fields an allocated object has, and into registers.
LEMMA StoreShape ==
  ASSUME TypeOK, Shape, Mutates, NEW o \in Obj, color'[o] # "free",
         o \in Upvals => ~isopen(o)',
         \A x \in Obj \ {o} : fld'[x] = fld[x],
         \A f \in Field : fld'[o][f] = fld[o][f] \/ f \in FieldsOf(o) \/ fld'[o][f] = Nil,
         \A t \in Threads : stk'[t] = stk[t] \/ color'[t] # "free",
         \A u \in Upvals : isopen(u)' => isopen(u) \/ color[u] = "free"
  PROVE  FreeIsEmpty' /\ FieldsUsed'
<1>1. FreeIsEmpty'
  <2>1. \A x \in Obj : color'[x] = "free" => fld'[x] = NoFields
    BY ColorFacts DEF Shape, FreeIsEmpty
  <2>2. \A t \in Threads : color'[t] = "free" => stk'[t] = NoStack
    BY ColorFacts, Kinds DEF Shape, FreeIsEmpty
  <2>3. \A u \in Upvals : isopen(u)' => fld'[u] = NoFields
    BY Kinds DEF Shape, FreeIsEmpty
  <2>. QED BY <2>1, <2>2, <2>3 DEF FreeIsEmpty, NoFields, NoStack
<1>2. FieldsUsed'
  BY DEF Shape, FieldsUsed
<1>. QED BY <1>1, <1>2

\* A step that leaves the upvalues open where they are and switches no coroutine.
LEMMA PlainShape ==
  ASSUME TypeOK, Shape, Mutates, UNCHANGED <<uvth, uvslot, running, level>>,
         NEW o \in Obj, color'[o] # "free",
         o \in Upvals => ~isopen(o),
         \A x \in Obj \ {o} : fld'[x] = fld[x],
         \A f \in Field : fld'[o][f] = fld[o][f] \/ f \in FieldsOf(o) \/ fld'[o][f] = Nil,
         o \in Threads => fld'[o]["co"] = fld[o]["co"],
         \A t \in Threads : stk'[t] = stk[t] \/ color'[t] # "free"
  PROVE  Shape'
<1>1. \A u \in Upvals : isopen(u)' <=> isopen(u)
  BY DEF isopen
<1>2. FreeIsEmpty' /\ FieldsUsed'
  BY <1>1, StoreShape
<1>3. OpenUpvals'
  BY MutatesOpenUpvals DEF Shape
<1>4. ResumeChain'
  BY SameChain, Kinds DEF Shape
<1>. QED BY <1>2, <1>3, <1>4 DEF Shape

(***************************************************************************)
(* The operations of the program.                                          *)
(***************************************************************************)
\* A value the program can name goes to a register: no barrier is needed, for
\* threads and open upvalues are never black.
LEMMA MoveStep ==
  ASSUME TypeOK, Marks, Shape, Program, NEW t \in Threads, NotDead(t), NEW i \in Slots, NEW v,
         v # Nil => v \in Obj /\ NotDead(v),
         stk' = [stk EXCEPT ![t][i] = v],
         UNCHANGED <<color, fld, uvth, uvslot, listVars, collectorVars, progVars>>
  PROVE  Marks' /\ Shape'
<1>1. \A x \in Threads, j \in Slots : stk'[x][j] = IF x = t /\ j = i THEN v ELSE stk[x][j]
  BY DEF TypeOK
<1>2. HeapStep(t, {}, {v} \ {Nil}, {})
  BY <1>1 DEF HeapStep
<1>3. Barriered(t, {})
  BY NoBarrier
<1>4. \A r \in {running', gmt'} \ {Nil} : r \in Obj /\ NotDead(r)
  BY Kinds DEF progVars, Marks, RootsAlive, TypeOK
<1>5. Mutates
  <2>1. \A w \in {} \cup ({v} \ {Nil}) : w \in Obj /\ NotDead(w)
    OBVIOUS
  <2>. QED BY <1>2, <1>3, <1>4, <2>1, StoreMutates
<1>6. \A x \in Threads : stk'[x] = stk[x] \/ color'[x] # "free"
  <2>1. \A x \in Threads \ {t} : stk'[x] = stk[x]
    BY DEF TypeOK
  <2>. QED BY <2>1 DEF NotDead
<1>7. Shape'
  <2>1. t \in Obj /\ t \notin Upvals /\ color'[t] # "free"
    BY Kinds, KindsDisjoint DEF NotDead
  <2>. QED BY <1>5, <1>6, <2>1, PlainShape DEF progVars
<1>. QED BY <1>5, <1>7, MutatesMarks

\* A store into an object the program can name, behind its barrier.
LEMMA BarrierStore ==
  ASSUME TypeOK, Marks, Shape, Program, NEW o \in Obj, NotDead(o), NEW V,
         \A v \in V : v \in Obj /\ NotDead(v),
         Barriered(o, V),
         o \in Upvals => ~isopen(o),
         \A x \in Obj \ {o} : fld'[x] = fld[x],
         \A f \in Field : fld'[o][f] = fld[o][f] \/ (f \in FieldsOf(o) /\ fld'[o][f] \in V \cup {Nil}),
         o \in Threads => fld'[o]["co"] = fld[o]["co"],
         \A t \in Threads : stk'[t] = stk[t] \/ color'[t] # "free",
         \A t \in Threads, i \in Slots : stk'[t][i] \in {stk[t][i], Nil},
         UNCHANGED <<uvth, uvslot, collectorVars, progVars>>
  PROVE  Marks' /\ Shape'
<1>1. HeapStep(o, V, {}, {})
  BY DEF HeapStep
<1>2. \A r \in {running', gmt'} \ {Nil} : r \in Obj /\ NotDead(r)
  BY Kinds DEF progVars, Marks, RootsAlive, TypeOK
<1>3. Mutates
  <2>1. \A w \in V \cup {} : w \in Obj /\ NotDead(w)
    OBVIOUS
  <2>. QED BY <1>1, <1>2, <2>1, StoreMutates
<1>4. color'[o] # "free"
  BY <1>3, ColorFacts DEF NotDead
<1>5. Shape'
  BY <1>3, <1>4, PlainShape DEF progVars
<1>. QED BY <1>3, <1>5, MutatesMarks

\* A store into a field with its barrier, the case of most operations.
LEMMA FieldStore ==
  ASSUME TypeOK, Marks, Shape, Program, NEW o \in Obj, NotDead(o), NEW f \in FieldsOf(o) \ {"co"}, NEW v,
         v # Nil => v \in Obj /\ NotDead(v),
         Store(o, f, v), Barriered(o, {v} \ {Nil}),
         o \in Upvals => ~isopen(o),
         \A t \in Threads : stk'[t] = stk[t] \/ color'[t] # "free",
         \A t \in Threads, i \in Slots : stk'[t][i] \in {stk[t][i], Nil},
         UNCHANGED <<uvth, uvslot, collectorVars, progVars>>
  PROVE  Marks' /\ Shape'
<1>1. /\ \A x \in Obj \ {o} : fld'[x] = fld[x]
      /\ \A g \in Field : fld'[o][g] = IF g = f THEN v ELSE fld[o][g]
  BY DEF TypeOK, Store
<1>2. \A g \in Field : fld'[o][g] = fld[o][g] \/ (g \in FieldsOf(o) /\ fld'[o][g] \in ({v} \ {Nil}) \cup {Nil})
  BY <1>1
<1>3. fld'[o]["co"] = fld[o]["co"]
  BY <1>1 DEF Field
<1>4. \A w \in {v} \ {Nil} : w \in Obj /\ NotDead(w)
  OBVIOUS
<1>. QED BY <1>1, <1>2, <1>3, <1>4, BarrierStore

\* Tables: the metatable, the array and the hash part.
LEMMA TableStep ==
  ASSUME TypeOK, Marks, Shape, NEW t \in Tables,
         \/ \E v \in Operand : setarray(t, v)
         \/ \E k, v \in Operand : setnode(t, k, v)
         \/ \E mt \in Tables \cup {Nil} : lua_setmetatable(t, mt)
  PROVE  Marks' /\ Shape'
<1>1. /\ t \in Obj /\ t \notin Upvals /\ t \notin Threads
      /\ FieldsOf(t) = {"meta", "arr", "key", "val"} /\ FieldsOf(t) \subseteq Field
  BY KindsDisjoint, FieldsOfKinds DEF Obj, Field
<1>2. /\ \A v \in Direct : NotDead(v)
      /\ \A v \in Operand \ {Nil} : v \in Obj /\ NotDead(v)
      /\ Operand \subseteq Obj \cup {Nil}
  BY NamedAlive, OperandType, Kinds DEF Marks
<1>3. ASSUME NEW v \in Operand, setarray(t, v) PROVE Marks' /\ Shape'
  <2>1. Program /\ NotDead(t) /\ UNCHANGED <<stk, uvth, uvslot, collectorVars, progVars>>
    BY <1>2, <1>3 DEF setarray
  <2>2. Barriered(t, {v} \ {Nil})
    BY <1>2, <1>3, <2>1, BarriertStep DEF setarray
  <2>3. Store(t, "arr", v)
    BY <1>3 DEF setarray
  <2>. QED BY <1>1, <1>2, <2>1, <2>2, <2>3, FieldStore
<1>4. ASSUME NEW mt \in Tables \cup {Nil}, lua_setmetatable(t, mt) PROVE Marks' /\ Shape'
  <2>1. Program /\ NotDead(t) /\ mt \in Operand /\ UNCHANGED <<stk, uvth, uvslot, collectorVars, progVars>>
    BY <1>2, <1>4 DEF lua_setmetatable
  <2>2. Barriered(t, {mt} \ {Nil})
    BY <1>2, <1>4, <2>1, BarriertStep DEF lua_setmetatable
  <2>3. Store(t, "meta", mt)
    BY <1>4 DEF lua_setmetatable
  <2>. QED BY <1>1, <1>2, <2>1, <2>2, <2>3, FieldStore
<1>5. ASSUME NEW k \in Operand, NEW v \in Operand, setnode(t, k, v) PROVE Marks' /\ Shape'
  <2>. DEFINE V == {k, v} \ {Nil}
  <2>1. Program /\ NotDead(t) /\ UNCHANGED <<stk, uvth, uvslot, collectorVars, progVars>>
    BY <1>2, <1>5 DEF setnode
  <2>2. /\ \A x \in Obj \ {t} : fld'[x] = fld[x]
        /\ \A f \in Field : fld'[t][f] = IF f = "key" THEN k ELSE IF f = "val" THEN v ELSE fld[t][f]
    BY <1>1, <1>5 DEF setnode, TypeOK
  <2>3. CASE k # fld[t]["key"]
    <3>1. Barriered(t, {k, v} \ {Nil})
      BY <1>2, <1>5, <2>1, <2>3, BarriertStep DEF setnode
    <3>2. \A f \in Field : fld'[t][f] = fld[t][f] \/ (f \in FieldsOf(t) /\ fld'[t][f] \in V \cup {Nil})
      BY <1>1, <2>2
    <3>3. \A w \in V : w \in Obj /\ NotDead(w)
      BY <1>2
    <3>. QED BY <1>1, <2>1, <2>2, <3>1, <3>2, <3>3, BarrierStore
  <2>4. CASE k = fld[t]["key"]
    <3>1. Barriered(t, {v} \ {Nil})
      BY <1>2, <1>5, <2>1, <2>4, BarriertStep DEF setnode
    <3>2. \A f \in Field : fld'[t][f] = fld[t][f] \/ (f \in FieldsOf(t) /\ fld'[t][f] \in ({v} \ {Nil}) \cup {Nil})
      BY <1>1, <2>2, <2>4
    <3>3. \A w \in {v} \ {Nil} : w \in Obj /\ NotDead(w)
      BY <1>2
    <3>. QED BY <1>1, <2>1, <2>2, <3>1, <3>2, <3>3, BarrierStore
  <2>. QED BY <2>3, <2>4
<1>. QED BY <1>3, <1>4, <1>5

\* The objects behind luaC_barrier: userdata, closures, prototypes, upvalues.
LEMMA BarrieredStep ==
  ASSUME TypeOK, Marks, Shape,
         \/ \E u \in Udatas, mt \in Tables \cup {Nil} : lua_setmetatable(u, mt)
         \/ \E o \in Obj, e \in Tables : lua_setfenv(o, e)
         \/ \E c \in CClosures, v \in Operand : lua_replace(c, v)
         \/ \E p \in Protos, j \in Slots : addk(p, j)
         \/ \E cl \in LClosures, v \in Operand : OP_SETUPVAL(cl, v)
  PROVE  Marks' /\ Shape'
<1>1. /\ \A v \in Direct : v \in Obj /\ NotDead(v)
      /\ \A v \in Operand \ {Nil} : v \in Obj /\ NotDead(v)
      /\ Operand \subseteq Obj \cup {Nil}
      /\ running \in Threads /\ NotDead(running)
  BY NamedAlive, OperandType, Kinds DEF Marks, RootsAlive, TypeOK
<1>2. ASSUME NEW u \in Udatas, NEW mt \in Tables \cup {Nil}, lua_setmetatable(u, mt) PROVE Marks' /\ Shape'
  <2>1. u \in Obj /\ u \notin Upvals /\ u \notin Tables /\ "meta" \in FieldsOf(u) \ {"co"}
    BY KindsDisjoint, FieldsOfKinds DEF Obj
  <2>2. Program /\ NotDead(u) /\ mt \in Operand /\ UNCHANGED <<stk, uvth, uvslot, collectorVars, progVars>>
    BY <1>1, <1>2 DEF lua_setmetatable
  <2>3. Barriered(u, {mt} \ {Nil})
    BY <1>1, <1>2, <2>1, <2>2, BarrierStep DEF lua_setmetatable
  <2>4. Store(u, "meta", mt)
    BY <1>2 DEF lua_setmetatable
  <2>. QED BY <1>1, <2>1, <2>2, <2>3, <2>4, FieldStore
<1>3. ASSUME NEW o \in Obj, NEW e \in Tables, lua_setfenv(o, e) PROVE Marks' /\ Shape'
  <2>1. /\ Program /\ o \in Direct /\ e \in Direct
        /\ o \in LClosures \cup CClosures \cup Udatas \cup Threads
        /\ UNCHANGED <<stk, uvth, uvslot, collectorVars, progVars>>
    BY <1>3 DEF lua_setfenv
  <2>2. o \notin Upvals /\ "env" \in FieldsOf(o) \ {"co"}
    BY <2>1, KindsDisjoint, FieldsOfKinds
  <2>3. Barriered(o, {e} \ {Nil})
    BY <1>1, <1>3, <2>1, BarrierStep DEF lua_setfenv
  <2>4. Store(o, "env", e)
    BY <1>3 DEF lua_setfenv
  <2>. QED BY <1>1, <2>1, <2>2, <2>3, <2>4, FieldStore
<1>4. ASSUME NEW c \in CClosures, NEW v \in Operand, lua_replace(c, v) PROVE Marks' /\ Shape'
  <2>1. c \in Obj /\ c \notin Upvals /\ "cup" \in FieldsOf(c) \ {"co"}
    BY KindsDisjoint, FieldsOfKinds DEF Obj
  <2>2. Program /\ NotDead(c) /\ UNCHANGED <<stk, uvth, uvslot, collectorVars, progVars>>
    BY <1>1, <1>4 DEF lua_replace
  <2>3. Barriered(c, {v} \ {Nil})
    BY <1>1, <1>4, <2>1, <2>2, BarrierStep DEF lua_replace
  <2>4. Store(c, "cup", v)
    BY <1>4 DEF lua_replace
  <2>. QED BY <1>1, <2>1, <2>2, <2>3, <2>4, FieldStore
<1>5. ASSUME NEW p \in Protos, NEW j \in Slots, addk(p, j) PROVE Marks' /\ Shape'
  <2>. DEFINE v == stk[running][j]
  <2>1. p \in Obj /\ p \notin Upvals /\ "k" \in FieldsOf(p) \ {"co"}
    BY KindsDisjoint, FieldsOfKinds DEF Obj
  <2>2. /\ Program /\ NotDead(p) /\ v \in Obj /\ v # Nil /\ Store(p, "k", v) /\ luaC_barrier(p, v)
        /\ stk' = [stk EXCEPT ![running][j] = Nil] \/ stk' = stk
        /\ UNCHANGED <<uvth, uvslot, collectorVars, progVars>>
    BY <1>1, <1>5, Kinds DEF addk
  <2>3. NotDead(v)
    BY <1>1, <2>2, FieldAlive DEF Marks
  <2>4. Barriered(p, {v} \ {Nil})
    BY <2>1, <2>2, BarrierStep
  <2>5. /\ \A t \in Threads \ {running} : stk'[t] = stk[t]
        /\ \A t \in Threads, i \in Slots : stk'[t][i] \in {stk[t][i], Nil}
    BY <1>1, <2>2 DEF TypeOK
  <2>6. color'[running] # "free"
    <3>1. ColorStep(running) /\ color[running] # "free" /\ currentwhite # "free"
      BY <1>1, <2>4, Kinds, WhiteFacts DEF Barriered, NotDead
    <3>. QED BY <3>1 DEF ColorStep, MarkColor
  <2>7. \A t \in Threads : stk'[t] = stk[t] \/ color'[t] # "free"
    BY <2>5, <2>6
  <2>. HIDE DEF v
  <2>. QED BY <2>1, <2>2, <2>3, <2>4, <2>5, <2>7, FieldStore
<1>6. ASSUME NEW cl \in LClosures, NEW v \in Operand, OP_SETUPVAL(cl, v) PROVE Marks' /\ Shape'
  <2>. DEFINE u == fld[cl]["upv"]
  <2>1. /\ Program /\ cl \in Direct /\ u # Nil /\ luaC_barrier(u, v)
        /\ IF isopen(u) THEN stk' = [stk EXCEPT ![uvth[u]][uvslot[u]] = v] /\ fld' = fld
                        ELSE Store(u, "val", v) /\ stk' = stk
        /\ UNCHANGED <<uvth, uvslot, collectorVars, progVars>>
    BY <1>6 DEF OP_SETUPVAL
  <2>2. u \in Upvals /\ u \in Obj /\ NotDead(u)
    BY <1>1, <2>1, FieldAlive, FieldKinds, Kinds DEF TypeOK, Marks
  <2>3. Barriered(u, {v} \ {Nil})
    BY <1>1, <2>1, <2>2, BarrierStep
  <2>. HIDE DEF u
  <2>4. CASE ~isopen(u)
    <3>1. "val" \in FieldsOf(u) \ {"co"}
      BY <2>2, FieldsOfKinds
    <3>2. Store(u, "val", v) /\ stk' = stk
      BY <2>1, <2>4
    <3>. QED BY <1>1, <2>1, <2>2, <2>3, <2>4, <3>1, <3>2, FieldStore
  <2>5. CASE isopen(u)
    <3>1. uvth[u] \in Threads /\ uvslot[u] \in Slots /\ color[u] # "black" /\ color[uvth[u]] # "free"
      BY <2>2, <2>5 DEF isopen, TypeOK, Shape, OpenUpvals
    <3>2. UNCHANGED <<color, fld, listVars>> /\ stk' = [stk EXCEPT ![uvth[u]][uvslot[u]] = v]
      BY <2>1, <2>5, <3>1 DEF luaC_barrier, listVars
    <3>3. \A x \in Threads, j \in Slots : stk'[x][j] \in {stk[x][j], v}
      BY <3>1, <3>2 DEF TypeOK
    <3>4. HeapStep(u, {}, {v} \ {Nil}, {})
      BY <2>1, <3>2, <3>3 DEF HeapStep
    <3>5. Barriered(u, {})
      BY <2>1, <3>2, NoBarrier
    <3>6. \A r \in {running', gmt'} \ {Nil} : r \in Obj /\ NotDead(r)
      BY <2>1, Kinds DEF progVars, Marks, RootsAlive, TypeOK
    <3>7. Mutates
      <4>1. \A w \in {} \cup ({v} \ {Nil}) : w \in Obj /\ NotDead(w)
        BY <1>1
      <4>. QED BY <2>1, <3>4, <3>5, <3>6, <4>1, StoreMutates
    <3>8. Shape'
      <4>1. \A x \in Threads : stk'[x] = stk[x] \/ color'[x] # "free"
        BY <3>1, <3>2 DEF TypeOK
      <4>2. running \in Obj /\ running \notin Upvals /\ color'[running] # "free"
        BY <1>1, <3>2, Kinds, KindsDisjoint DEF NotDead
      <4>. QED BY <2>1, <3>2, <3>7, <4>1, <4>2, PlainShape DEF progVars
    <3>. QED BY <3>7, <3>8, MutatesMarks
  <2>. QED BY <2>4, <2>5
<1>. QED BY <1>2, <1>3, <1>4, <1>5, <1>6

\* A new object is white, and what it holds from the start is alive.
LEMMA CreateStep ==
  ASSUME TypeOK, Marks, Shape, Program, NEW o \in Value, NEW r, NEW i \in Slots, Create(o, r, i),
         r \in [Field -> Obj \cup {Nil}],
         \A f \in Field : r[f] = Nil \/ (f \in FieldsOf(o) \ {"co"} /\ NotDead(r[f])),
         UNCHANGED <<collectorVars, progVars>>
  PROVE  Marks' /\ Shape'
<1>. DEFINE V == {r[f] : f \in Field} \ {Nil}
<1>1. o \in Obj /\ o \notin Upvals /\ Nil \notin Obj /\ running \in Threads /\ running \in Obj /\ "co" \in Field
  BY Kinds DEF Value, TypeOK, Field
<1>2. /\ color[o] = "free" /\ UNCHANGED <<uvth, uvslot, listVars>>
      /\ color' = [color EXCEPT ![o] = currentwhite]
      /\ fld' = [fld EXCEPT ![o] = r]
      /\ stk' = [stk EXCEPT ![running][i] = o]
  BY DEF Create
<1>3. \A x \in Obj : fld'[x] = IF x = o THEN r ELSE fld[x]
  BY <1>2 DEF TypeOK
<1>4. \A t \in Threads : stk'[t] = IF t = running THEN [stk[t] EXCEPT ![i] = o] ELSE stk[t]
  BY <1>2 DEF TypeOK
<1>5. \A x \in Obj : color'[x] = IF x \in {o, Nil} THEN revived(x) ELSE color[x]
  BY <1>1, <1>2 DEF TypeOK, revived
<1>6. HeapStep(o, V, {o}, {Nil})
  <2>1. ASSUME NEW t \in Threads, NEW j \in Slots
        PROVE  stk'[t][j] = stk[t][j] \/ stk'[t][j] = o
    <3>1. stk[t] \in [Slots -> Value \cup {Nil}]
      BY DEF TypeOK
    <3>2. stk'[t] = IF t = running THEN [stk[t] EXCEPT ![i] = o] ELSE stk[t]
      BY <1>4
    <3>. QED BY <3>1, <3>2
  <2>2. \A x \in Obj, f \in Field : fld'[x][f] = fld[x][f] \/ (x = o /\ fld'[x][f] \in V \cup {Nil})
    BY <1>3
  <2>. QED BY <1>2, <2>1, <2>2 DEF HeapStep
<1>7. Mutates
  <2>1. \A v \in V : v \in Obj /\ (NotDead(v) \/ v = Nil)
    OBVIOUS
  <2>2. UNCHANGED <<collectorVars, listVars, progVars>>
    BY <1>2
  <2>3. TypeOK /\ Marks /\ Shape /\ Program /\ o \in Obj /\ Nil \notin Obj /\ (color[o] = "free" \/ (Refs(o) = {} /\ V = {}))
    BY <1>1, <1>2
  <2>. HIDE DEF V
  <2>. QED BY ONLY <1>5, <1>6, <2>1, <2>2, <2>3, CreateMutates
<1>8. color[running] # "free" /\ running # o
  BY <1>1, <1>2, Kinds DEF Marks, RootsAlive, NotDead
<1>9. color'[o] # "free" /\ color'[running] # "free"
  BY <1>1, <1>2, <1>8, WhiteFacts DEF TypeOK
<1>10. fld[o]["co"] = Nil /\ fld'[o]["co"] = Nil
  BY <1>1, <1>2, <1>3 DEF Shape, FreeIsEmpty, NoFields
<1>11. \A f \in Field : fld'[o][f] = fld[o][f] \/ f \in FieldsOf(o) \/ fld'[o][f] = Nil
  BY <1>1, <1>3
<1>12. Shape'
  <2>1. \A t \in Threads : stk'[t] = stk[t] \/ color'[t] # "free"
    BY <1>4, <1>9
  <2>. QED BY <1>1, <1>2, <1>3, <1>7, <1>9, <1>10, <1>11, <2>1, PlainShape DEF progVars
<1>. QED BY <1>7, <1>12, MutatesMarks

\* A new object is white, holds what the program could name, and lies in a register.
LEMMA NewStep ==
  ASSUME TypeOK, Marks, Shape,
         \/ \E t \in Tables, i \in Slots : luaH_new(t, i)
         \/ \E u \in Udatas, e \in Tables, i \in Slots : luaS_newudata(u, e, i)
         \/ \E c \in CClosures, v \in Operand, e \in Tables, i \in Slots : lua_pushcclosure(c, e, v, i)
         \/ \E p \in Protos, i \in Slots : luaF_newproto(p, i)
         \/ \E t \in Threads, i \in Slots : lua_newthread(t, i)
  PROVE  Marks' /\ Shape'
<1>. USE Kinds
<1>1. /\ \A v \in Operand \ {Nil} : v \in Obj /\ NotDead(v)
      /\ \A e \in CurrEnv \ {Nil} : NotDead(e)
      /\ fld[running]["env"] \in CurrEnv /\ fld[running]["env"] \in Obj \cup {Nil}
  BY NamedAlive, OperandType, FieldKinds DEF Marks, CurrEnv, TypeOK
<1>2. /\ \A f \in Field : NoFields[f] = Nil
      /\ NoFields \in [Field -> Obj \cup {Nil}]
      /\ "env" \in Field /\ "cup" \in Field
  BY DEF NoFields, Field
<1>3. ASSUME NEW t \in Tables, NEW i \in Slots, luaH_new(t, i) PROVE Marks' /\ Shape'
  BY <1>2, <1>3, CreateStep DEF luaH_new
<1>4. ASSUME NEW p \in Protos, NEW i \in Slots, luaF_newproto(p, i) PROVE Marks' /\ Shape'
  BY <1>2, <1>4, CreateStep DEF luaF_newproto
<1>5. ASSUME NEW o \in Udatas \cup Threads, NEW e \in CurrEnv \cap (Obj \cup {Nil})
      PROVE  /\ [NoFields EXCEPT !["env"] = e] \in [Field -> Obj \cup {Nil}]
             /\ \A f \in Field : \/ [NoFields EXCEPT !["env"] = e][f] = Nil
                                 \/ f \in FieldsOf(o) \ {"co"} /\ NotDead([NoFields EXCEPT !["env"] = e][f])
  <2>1. "env" \in FieldsOf(o) \ {"co"}
    BY FieldsOfKinds
  <2>. QED BY <1>1, <1>2, <2>1
<1>6. ASSUME NEW u \in Udatas, NEW e \in Tables, NEW i \in Slots, luaS_newudata(u, e, i) PROVE Marks' /\ Shape'
  <2>1. e \in CurrEnv \cap (Obj \cup {Nil})
    BY <1>6 DEF luaS_newudata
  <2>. QED BY <1>5, <1>6, <2>1, CreateStep DEF luaS_newudata
<1>7. ASSUME NEW t \in Threads, NEW i \in Slots, lua_newthread(t, i) PROVE Marks' /\ Shape'
  <2>. DEFINE e == fld[running]["env"]
  <2>1. e \in CurrEnv \cap (Obj \cup {Nil})
    BY <1>1
  <2>2. Create(t, [NoFields EXCEPT !["env"] = e], i) /\ Program /\ UNCHANGED <<collectorVars, progVars>>
    BY <1>7 DEF lua_newthread
  <2>. HIDE DEF e
  <2>. QED BY <1>5, <2>1, <2>2, CreateStep
<1>8. ASSUME NEW c \in CClosures, NEW v \in Operand, NEW e \in Tables, NEW i \in Slots,
             lua_pushcclosure(c, e, v, i)
      PROVE  Marks' /\ Shape'
  <2>. DEFINE r == [NoFields EXCEPT !["env"] = e, !["cup"] = v]
  <2>1. {"env", "cup"} \subseteq FieldsOf(c) \ {"co"}
    BY FieldsOfKinds
  <2>2. \A f \in Field : r[f] = IF f = "env" THEN e ELSE IF f = "cup" THEN v ELSE Nil
    BY <1>2
  <2>3. e \in CurrEnv /\ e \in Obj /\ v \in Obj \cup {Nil}
    BY <1>1, <1>8 DEF lua_pushcclosure
  <2>4. r \in [Field -> Obj \cup {Nil}]
    BY <1>2, <2>3
  <2>5. \A f \in Field : r[f] = Nil \/ (f \in FieldsOf(c) \ {"co"} /\ NotDead(r[f]))
    BY <1>1, <2>1, <2>2, <2>3
  <2>6. Create(c, r, i) /\ Program /\ UNCHANGED <<collectorVars, progVars>>
    BY <1>8 DEF lua_pushcclosure
  <2>. HIDE DEF r
  <2>. QED BY <2>4, <2>5, <2>6, CreateStep
<1>. QED BY <1>3, <1>4, <1>6, <1>7, <1>8

\* A new Lua closure c with environment e, prototype p and upvalue w; the
\* upvalue u, if it is one, is new or found open on the running thread.
LEMMA ClosureMutates ==
  ASSUME TypeOK, Marks, Shape, Program, UNCHANGED <<collectorVars, listVars, progVars>>,
         NEW c \in LClosures, color[c] = "free", NEW i \in Slots, NEW u, NEW e, NEW p, NEW w,
         \A v \in {e, p, w} \ {Nil} : v \in Obj /\ (NotDead(v) \/ v = u),
         u \in Obj => u \in Upvals /\ (isopen(u) \/ color[u] = "free"),
         \A x \in Upvals \ {u} : uvth'[x] = uvth[x] /\ uvslot'[x] = uvslot[x],
         u \in Obj /\ color[u] # "free" => uvth'[u] = uvth[u],
         u \in Obj => \A v \in Refs(u)' : NotDead(v)',
         \A x \in Obj : color'[x] = IF x \in {c, u} THEN revived(x) ELSE color[x],
         fld' = [fld EXCEPT ![c] = [NoFields EXCEPT !["env"] = e, !["proto"] = p, !["upv"] = w]],
         stk' = [stk EXCEPT ![running][i] = c]
  PROVE  Mutates /\ FreeIsEmpty' /\ FieldsUsed' /\ ResumeChain'
<1>. DEFINE V == {e, p, w} \ {Nil}
            r == [NoFields EXCEPT !["env"] = e, !["proto"] = p, !["upv"] = w]
<1>1. /\ c \in Obj /\ c \notin Upvals /\ c \notin Threads /\ FieldsOf(c) = {"env", "proto", "upv"}
      /\ running \in Threads /\ running \in Obj /\ "co" \in Field
  BY KindsDisjoint, FieldsOfKinds DEF Obj, TypeOK, Field
<1>2. \A f \in Field : r[f] = IF f = "env" THEN e ELSE IF f = "proto" THEN p ELSE IF f = "upv" THEN w ELSE Nil
  BY DEF NoFields, Field
<1>3. /\ fld'[c] = r
      /\ \A x \in Obj \ {c} : fld'[x] = fld[x]
  BY <1>1 DEF TypeOK
<1>4. \A t \in Threads : stk'[t] = IF t = running THEN [stk[t] EXCEPT ![i] = c] ELSE stk[t]
  BY <1>1 DEF TypeOK
<1>. HIDE DEF r
<1>5. HeapStep(c, V, {c}, {u})
  <2>1. \A t \in Threads, j \in Slots : stk'[t][j] = stk[t][j] \/ stk'[t][j] = c
    BY <1>4 DEF TypeOK
  <2>2. \A x \in Obj, f \in Field : fld'[x][f] = fld[x][f] \/ (x = c /\ fld'[x][f] \in V \cup {Nil})
    <3>1. \A f \in Field : r[f] \in V \cup {Nil}
      BY <1>2
    <3>. QED BY <1>3, <3>1
  <2>. QED BY <2>1, <2>2 DEF HeapStep
<1>. HIDE DEF V
<1>6. Mutates
  <2>1. \A v \in V : v \in Obj /\ (NotDead(v) \/ v = u)
    BY DEF V
  <2>. QED BY <1>1, <1>5, <2>1, CreateMutates
<1>7. color[running] # "free"
  BY <1>1, Kinds DEF Marks, RootsAlive, NotDead
<1>8. color'[c] # "free" /\ color'[running] # "free"
  BY <1>1, <1>6, <1>7, ColorFacts, WhiteFacts DEF revived
<1>9. FreeIsEmpty' /\ FieldsUsed'
  <2>1. \A f \in Field : fld'[c][f] = fld[c][f] \/ f \in FieldsOf(c) \/ fld'[c][f] = Nil
    BY <1>1, <1>2, <1>3
  <2>2. \A t \in Threads : stk'[t] = stk[t] \/ color'[t] # "free"
    BY <1>4, <1>8
  <2>3. \A x \in Upvals : isopen(x)' => isopen(x) \/ color[x] = "free"
    BY Kinds DEF isopen
  <2>. QED BY <1>1, <1>3, <1>6, <1>8, <2>1, <2>2, <2>3, StoreShape
<1>10. ResumeChain'
  BY <1>1, <1>3, SameChain, Kinds DEF Shape, progVars
<1>. QED BY <1>6, <1>9, <1>10

\* Closures, with the upvalues they find or create.
LEMMA ClosureStep ==
  ASSUME TypeOK, Marks, Shape, NEW c \in LClosures,
         \/ \E u \in Upvals \cup {Nil}, i \in Slots : f_parser(c, u, i)
         \/ \E cl \in LClosures, i \in Slots : OP_CLOSURE_shared(c, cl, i)
         \/ \E cl \in LClosures, i \in Slots, j \in Slots, u \in Upvals : OP_CLOSURE_local(c, cl, j, u, i)
  PROVE  Marks' /\ Shape'
<1>. USE Kinds
<1>1. /\ running \in Threads /\ NotDead(running) /\ c \in Obj /\ c \notin Upvals /\ c \notin Threads
      /\ {"env", "upv", "proto"} \subseteq Field
      /\ \A v \in Direct : v \in Obj /\ NotDead(v)
  BY NamedAlive, OperandType, KindsDisjoint DEF Marks, RootsAlive, TypeOK, Field, Value
<1>2. \A o \in Obj, f \in {"env", "upv"} : fld[o][f] \in Obj \cup {Nil} /\ (NotDead(o) /\ fld[o][f] # Nil => NotDead(fld[o][f]))
  BY <1>1, FieldAlive DEF Marks, TypeOK
<1>3. \A cl \in Direct \cap LClosures : \A p \in nestedProtos(cl) \ {Nil} : p \in Obj /\ NotDead(p)
  BY NamedAlive DEF Marks, nestedProtos
<1>4. ASSUME NEW u \in Upvals \cup {Nil}, NEW i \in Slots, f_parser(c, u, i) PROVE Marks' /\ Shape'
  <2>1. /\ Program /\ color[c] = "free" /\ (u # Nil => color[u] = "free")
        /\ stk' = [stk EXCEPT ![running][i] = c]
        /\ color' = [o \in Obj |-> IF o \in {c, u} THEN currentwhite ELSE color[o]]
        /\ UNCHANGED <<uvth, uvslot, listVars, collectorVars, progVars>>
    BY <1>4 DEF f_parser
  <2>. DEFINE e == fld[running]["env"]
  <2>2. PICK p \in parsedProtos(i) :
          fld' = [fld EXCEPT ![c] = [NoFields EXCEPT !["env"] = e, !["proto"] = p, !["upv"] = u]]
    BY <1>4 DEF f_parser
  <2>3. e # Nil => e \in Obj /\ NotDead(e)
    BY <1>1, <1>2
  <2>4. p # Nil => p \in Obj /\ NotDead(p)
    BY <1>1, FieldAlive DEF parsedProtos, Marks
  <2>. HIDE DEF e
  <2>5. \A x \in Obj : color'[x] = IF x \in {c, u} THEN revived(x) ELSE color[x]
    BY <2>1 DEF revived
  <2>6. \A v \in {e, p, u} \ {Nil} : v \in Obj /\ (NotDead(v) \/ v = u)
    BY <2>3, <2>4
  <2>7. ASSUME u \in Obj PROVE Refs(u)' = {}
    <3>1. u \in Upvals /\ color[u] = "free" /\ u # c
      BY <1>1, <2>1, <2>7
    <3>2. Refs(u) = {} /\ ~isopen(u)
      BY <2>7, <3>1, FreeRefs DEF Shape
    <3>3. fld'[u] = fld[u] /\ isopen(u)' = isopen(u)
      BY <1>1, <2>1, <2>2, <2>7, <3>1 DEF TypeOK, isopen
    <3>4. \A v : ~Holds(u, v)
      BY <3>2, RefsHolds
    <3>5. \A v : ~Holds(u, v)'
      BY <3>1, <3>2, <3>3, <3>4, KindsDisjoint DEF Holds, UvVal
    <3>. QED BY <3>5, RefsHolds
  <2>8. Mutates /\ FreeIsEmpty' /\ FieldsUsed' /\ ResumeChain'
    BY <2>1, <2>2, <2>5, <2>6, <2>7, ClosureMutates
  <2>. QED BY <2>1, <2>8, MutatesMarks, MutatesOpenUpvals DEF Shape
<1>5. ASSUME NEW cl \in LClosures, NEW i \in Slots, OP_CLOSURE_shared(c, cl, i) PROVE Marks' /\ Shape'
  <2>. DEFINE e == fld[cl]["env"]
              w == fld[cl]["upv"]
  <2>1. /\ Program /\ color[c] = "free" /\ cl \in Direct
        /\ stk' = [stk EXCEPT ![running][i] = c]
        /\ color' = [color EXCEPT ![c] = currentwhite]
        /\ UNCHANGED <<uvth, uvslot, listVars, collectorVars, progVars>>
    BY <1>5 DEF OP_CLOSURE_shared
  <2>2. PICK p \in nestedProtos(cl) :
          fld' = [fld EXCEPT ![c] = [NoFields EXCEPT !["env"] = e, !["proto"] = p, !["upv"] = w]]
    BY <1>5 DEF OP_CLOSURE_shared, Closure
  <2>3. \A v \in {e, p, w} \ {Nil} : v \in Obj /\ (NotDead(v) \/ v = Nil)
    BY <1>1, <1>2, <1>3, <2>1
  <2>. HIDE DEF e, w
  <2>4. \A x \in Obj : color'[x] = IF x \in {c, Nil} THEN revived(x) ELSE color[x]
    BY <2>1 DEF revived, TypeOK
  <2>5. Mutates /\ FreeIsEmpty' /\ FieldsUsed' /\ ResumeChain'
    BY <2>1, <2>2, <2>3, <2>4, ClosureMutates
  <2>. QED BY <2>1, <2>5, MutatesMarks, MutatesOpenUpvals DEF Shape
<1>6. ASSUME NEW cl \in LClosures, NEW i \in Slots, NEW j \in Slots, NEW u \in Upvals,
             OP_CLOSURE_local(c, cl, j, u, i)
      PROVE  Marks' /\ Shape'
  <2>. DEFINE e == fld[cl]["env"]
              at == {x \in Upvals : uvth[x] = running /\ uvslot[x] = j}
  <2>1. /\ Program /\ color[c] = "free" /\ cl \in Direct
        /\ stk' = [stk EXCEPT ![running][i] = c]
        /\ color' = [color EXCEPT ![c] = currentwhite, ![u] = revived(u)]
        /\ uvth' = [uvth EXCEPT ![u] = running] /\ uvslot' = [uvslot EXCEPT ![u] = j]
        /\ UNCHANGED <<listVars, collectorVars, progVars>>
    BY <1>6 DEF OP_CLOSURE_local
  <2>2. PICK p \in nestedProtos(cl) :
          fld' = [fld EXCEPT ![c] = [NoFields EXCEPT !["env"] = e, !["proto"] = p, !["upv"] = u]]
    BY <1>6 DEF OP_CLOSURE_local, Closure
  <2>3. \A v \in {e, p, u} \ {Nil} : v \in Obj /\ (NotDead(v) \/ v = u)
    BY <1>1, <1>2, <1>3, <2>1
  <2>. HIDE DEF e
  <2>4. \A x \in Obj : color'[x] = IF x \in {c, u} THEN revived(x) ELSE color[x]
    BY <1>1, <2>1 DEF revived, TypeOK
  <2>5. u \in at \/ (at = {} /\ color[u] = "free")
    BY <1>6 DEF OP_CLOSURE_local, findupval, openOf
  <2>6. (isopen(u) \/ color[u] = "free") /\ (color[u] # "free" => uvth'[u] = uvth[u])
    BY <1>1, <2>1, <2>5 DEF isopen, TypeOK
  <2>7. /\ \A x \in Upvals \ {u} : uvth'[x] = uvth[x] /\ uvslot'[x] = uvslot[x]
        /\ uvth'[u] = running /\ uvslot'[u] = j
    BY <2>1 DEF TypeOK
  <2>8. UNCHANGED <<currentwhite, running>> /\ otherwhite' = otherwhite
    BY <2>1 DEF collectorVars, progVars, otherwhite
  <2>9. \A x \in Obj : NotDead(x) \/ x \in {c, u} => NotDead(x)'
    BY <2>4, <2>8, WhiteFacts DEF revived, NotDead, isdead
  <2>10. \A v \in Refs(u)' : NotDead(v)'
    <3>. SUFFICES ASSUME NEW v, Holds(u, v)' PROVE NotDead(v)'
      BY RefsHolds
    <3>1. fld'[u] = fld[u] /\ u \notin Threads
      BY <1>1, <2>2, KindsDisjoint DEF TypeOK
    <3>2. fld[u] = NoFields
      BY <2>6 DEF Shape, FreeIsEmpty
    <3>3. v = stk'[running][j] /\ v # Nil
      BY <1>1, <2>7, <3>1, <3>2 DEF Holds, UvVal, isopen, NoFields, Field
    <3>4. v = c \/ v = stk[running][j]
      BY <1>1, <2>1, <3>3 DEF TypeOK
    <3>5. v = stk[running][j] => v \in Obj /\ NotDead(v)
      BY <1>1, <3>3, FieldAlive DEF Marks, TypeOK
    <3>. QED BY <1>1, <2>9, <3>4, <3>5
  <2>11. Mutates /\ FreeIsEmpty' /\ FieldsUsed' /\ ResumeChain'
    <3>1. /\ TypeOK /\ Marks /\ Shape /\ Program /\ UNCHANGED <<collectorVars, listVars, progVars>>
          /\ c \in LClosures /\ color[c] = "free" /\ i \in Slots
          /\ \A v \in {e, p, u} \ {Nil} : v \in Obj /\ (NotDead(v) \/ v = u)
      BY <2>1, <2>3
    <3>2. /\ u \in Obj => u \in Upvals /\ (isopen(u) \/ color[u] = "free")
          /\ \A x \in Upvals \ {u} : uvth'[x] = uvth[x] /\ uvslot'[x] = uvslot[x]
          /\ u \in Obj /\ color[u] # "free" => uvth'[u] = uvth[u]
          /\ u \in Obj => \A v \in Refs(u)' : NotDead(v)'
      BY <2>6, <2>7, <2>10
    <3>3. /\ fld' = [fld EXCEPT ![c] = [NoFields EXCEPT !["env"] = e, !["proto"] = p, !["upv"] = u]]
          /\ stk' = [stk EXCEPT ![running][i] = c]
      BY <2>1, <2>2
    <3>. QED BY ONLY <2>4, <3>1, <3>2, <3>3, ClosureMutates
  <2>12. OpenUpvals'
    <3>. SUFFICES ASSUME NEW x \in Upvals, isopen(x)'
                  PROVE  /\ color'[x] \notin {"black", "free"}
                         /\ color'[uvth'[x]] # "free"
                         /\ \A y \in Upvals : uvth'[y] = uvth'[x] /\ uvslot'[y] = uvslot'[x] => y = x
      BY DEF OpenUpvals
    <3>1. CASE x = u
      <4>1. color'[u] \notin {"black", "free"}
        BY <2>4, <2>6, WhiteFacts DEF revived, Shape, OpenUpvals
      <4>2. color'[running] # "free"
        BY <1>1, <2>9 DEF NotDead
      <4>3. ASSUME NEW y \in Upvals \ {u}, uvth'[y] = running, uvslot'[y] = j PROVE FALSE
        <5>1. y \in at
          BY <2>7, <4>3
        <5>2. u \in at /\ isopen(u)
          BY <1>1, <2>5, <5>1 DEF isopen
        <5>. QED BY <4>3, <5>1, <5>2 DEF Shape, OpenUpvals
      <4>. QED BY <2>7, <3>1, <4>1, <4>2, <4>3
    <3>2. CASE x # u
      <4>1. isopen(x) /\ uvth'[x] = uvth[x] /\ uvslot'[x] = uvslot[x]
        BY <2>7, <3>2 DEF isopen
      <4>2. /\ color[x] \notin {"black", "free"} /\ color[uvth[x]] # "free" /\ uvth[x] \in Threads
            /\ \A y \in Upvals : uvth[y] = uvth[x] /\ uvslot[y] = uvslot[x] => y = x
        BY <4>1 DEF Shape, OpenUpvals, isopen, TypeOK
      <4>3. x # c /\ color'[x] = color[x] /\ color'[uvth[x]] # "free"
        BY <1>1, <2>4, <3>2, <4>2, <2>11, ColorFacts
      <4>4. ~(uvth[x] = running /\ uvslot[x] = j)
        <5>1. uvth[x] = running /\ uvslot[x] = j => x \in at
          OBVIOUS
        <5>. QED BY <2>5, <3>2, <4>2, <5>1
      <4>. QED BY <2>7, <4>1, <4>2, <4>3, <4>4
    <3>. QED BY <3>1, <3>2
  <2>. QED BY <2>11, <2>12, MutatesMarks DEF Shape
<1>. QED BY <1>4, <1>5, <1>6

(***************************************************************************)
(* Coroutines.                                                             *)
(***************************************************************************)
\* Every coroutine that waits for one it resumed is alive: the chain of
\* resumers leads back to the main thread, which is.
LEMMA ChainAlive ==
  ASSUME TypeOK, NoDangling, RootsAlive, ResumeChain
  PROVE  \A t \in Threads : t = running \/ fld[t]["co"] # Nil => NotDead(t)
<1>. DEFINE bad == {t \in Threads : (t = running \/ fld[t]["co"] # Nil) /\ ~NotDead(t)}
            X   == {level[t] : t \in bad}
<1>. SUFFICES ASSUME bad # {} PROVE FALSE
  OBVIOUS
<1>1. X \subseteq Nat /\ X # {}
  BY DEF TypeOK
<1>2. \E n \in X : \A y \in X : ~(y < n)
  <2>. HIDE DEF X
  <2>. QED BY <1>1, Least
<1>3. PICK t \in bad : \A s \in bad : ~(level[s] < level[t])
  BY <1>2
<1>4. t # MainThread
  BY <1>3, ConstantsOK, Kinds DEF RootsAlive
<1>5. PICK r \in Threads : fld[r]["co"] = t /\ level[r] < level[t]
  BY <1>3, <1>4 DEF ResumeChain
<1>6. t # Nil /\ r \in Obj /\ "co" \in Field
  BY <1>3, Kinds DEF Field
<1>7. NotDead(r)
  BY <1>3, <1>5, <1>6
<1>8. NotDead(t)
  BY <1>5, <1>6, <1>7, FieldAlive
<1>. QED BY <1>3, <1>8

\* Resume and yield move the running thread along the chain of resumers.
LEMMA ThreadStep ==
  ASSUME TypeOK, Marks, Shape, NEW t \in Threads, lua_resume(t) \/ lua_yield(t)
  PROVE  Marks' /\ Shape'
<1>1. /\ running \in Threads /\ NotDead(running) /\ running \in Obj /\ t \in Obj /\ "co" \in Field
      /\ \A v \in Direct : NotDead(v)
      /\ \A x \in Threads : x # Nil /\ x \notin Upvals /\ "co" \in FieldsOf(x) /\ color[x] # "black" /\ x \in Obj
      /\ Nil \notin Threads
  BY NamedAlive, Kinds, KindsDisjoint, FieldsOfKinds DEF Marks, RootsAlive, TypeOK, Field, MarkKinds
<1>2. gmt # Nil => gmt \in Obj /\ NotDead(gmt)
  BY Kinds DEF Marks, RootsAlive, TypeOK
<1>3. ASSUME NEW o \in Threads, NEW v \in {t, Nil}, NotDead(o), NotDead(t), Store(o, "co", v),
             running' = t, gmt' = gmt, Program,
             UNCHANGED <<color, stk, uvth, uvslot, listVars, collectorVars>>
      PROVE  Marks' /\ OpenUpvals' /\ FreeIsEmpty' /\ FieldsUsed'
  <2>1. /\ \A x \in Obj \ {o} : fld'[x] = fld[x]
        /\ \A f \in Field : fld'[o][f] = IF f = "co" THEN v ELSE fld[o][f]
    BY <1>1, <1>3 DEF Store, TypeOK
  <2>2. HeapStep(o, {t}, {}, {})
    BY <1>3, <2>1 DEF HeapStep
  <2>3. Barriered(o, {t})
    BY <1>1, <1>3, NoBarrier
  <2>4. Mutates
    <3>1. \A w \in {t} \cup {} : w \in Obj /\ NotDead(w)
      BY <1>1, <1>3
    <3>2. \A r \in {running', gmt'} \ {Nil} : r \in Obj /\ NotDead(r)
      BY <1>1, <1>2, <1>3
    <3>. QED BY <1>3, <2>2, <2>3, <3>1, <3>2, StoreMutates
  <2>5. color'[o] # "free"
    BY <1>3 DEF NotDead
  <2>6. \A u \in Upvals : isopen(u)' <=> isopen(u)
    BY <1>3 DEF isopen
  <2>7. \A f \in Field : fld'[o][f] = fld[o][f] \/ f \in FieldsOf(o) \/ fld'[o][f] = Nil
    BY <1>1, <2>1
  <2>8. FreeIsEmpty' /\ FieldsUsed'
    BY <1>1, <1>3, <2>1, <2>4, <2>5, <2>6, <2>7, StoreShape
  <2>. QED BY <1>3, <2>4, <2>8, MutatesMarks, MutatesOpenUpvals DEF Shape
<1>4. CASE lua_resume(t)
  <2>1. /\ t \in Direct /\ t # running /\ t # MainThread /\ fld[t]["co"] = Nil /\ Store(running, "co", t) /\ Program
        /\ running' = t /\ level' = [level EXCEPT ![t] = level[running] + 1]
        /\ UNCHANGED <<color, stk, uvth, uvslot, listVars, collectorVars, gmt>>
    BY <1>4 DEF lua_resume
  <2>2. Marks' /\ OpenUpvals' /\ FreeIsEmpty' /\ FieldsUsed'
    BY <1>1, <1>3, <2>1
  <2>3. \A x \in Threads : fld'[x]["co"] = IF x = running THEN t ELSE fld[x]["co"]
    BY <1>1, <2>1 DEF Store, TypeOK
  <2>4. \A x \in Threads : level'[x] = IF x = t THEN level[running] + 1 ELSE level[x]
    BY <2>1 DEF TypeOK
  <2>5. fld[running]["co"] = Nil
    BY DEF Shape, ResumeChain
  <2>6. ASSUME NEW x \in Threads \ {MainThread}, x = t \/ fld'[x]["co"] # Nil
        PROVE  \E r \in Threads : fld'[r]["co"] = x /\ level'[r] < level'[x]
    <3>1. CASE x = t
      <4>1. fld'[running]["co"] = x /\ level'[running] < level'[x]
        BY <1>1, <2>1, <2>3, <2>4, <3>1 DEF TypeOK
      <4>. QED BY <1>1, <4>1
    <3>2. CASE x # t
      <4>1. x = running \/ fld[x]["co"] # Nil
        BY <2>3, <2>6, <3>2
      <4>2. PICK r \in Threads : fld[r]["co"] = x /\ level[r] < level[x]
        BY <4>1 DEF Shape, ResumeChain
      <4>3. r # t /\ r # running
        BY <1>1, <2>1, <2>5, <4>2
      <4>. QED BY <2>3, <2>4, <3>2, <4>2, <4>3
    <3>. QED BY <3>1, <3>2
  <2>7. ResumeChain'
    BY <1>1, <2>1, <2>3, <2>6 DEF ResumeChain
  <2>. QED BY <2>2, <2>7 DEF Shape
<1>5. CASE lua_yield(t)
  <2>1. /\ fld[t]["co"] = running /\ Store(t, "co", Nil) /\ Program
        /\ running' = t /\ level' = [level EXCEPT ![running] = 0]
        /\ UNCHANGED <<color, stk, uvth, uvslot, listVars, collectorVars, gmt>>
    BY <1>5 DEF lua_yield
  <2>2. NotDead(t)
    BY <1>1, <2>1, ChainAlive DEF Marks, Shape
  <2>3. Marks' /\ OpenUpvals' /\ FreeIsEmpty' /\ FieldsUsed'
    BY <1>1, <1>3, <2>1, <2>2
  <2>4. \A x \in Threads : fld'[x]["co"] = IF x = t THEN Nil ELSE fld[x]["co"]
    BY <1>1, <2>1 DEF Store, TypeOK
  <2>5. \A x \in Threads : level'[x] = IF x = running THEN 0 ELSE level[x]
    BY <2>1 DEF TypeOK
  <2>6. fld[running]["co"] = Nil /\ t # running
    BY <1>1, <2>1 DEF Shape, ResumeChain
  <2>7. ASSUME NEW x \in Threads \ {MainThread}, x = t \/ fld'[x]["co"] # Nil
        PROVE  \E r \in Threads : fld'[r]["co"] = x /\ level'[r] < level'[x]
    <3>1. fld[x]["co"] # Nil /\ x # running
      BY <1>1, <2>1, <2>4, <2>6, <2>7
    <3>2. PICK r \in Threads : fld[r]["co"] = x /\ level[r] < level[x]
      BY <3>1 DEF Shape, ResumeChain
    <3>3. r # t /\ r # running
      BY <1>1, <2>1, <2>6, <3>1, <3>2
    <3>. QED BY <2>4, <2>5, <3>1, <3>2, <3>3
  <2>8. ResumeChain'
    BY <1>1, <2>1, <2>4, <2>7 DEF ResumeChain
  <2>. QED BY <2>3, <2>8 DEF Shape
<1>. QED BY <1>4, <1>5

\* The operations that only fill a register or a root.
LEMMA RegisterStep ==
  ASSUME TypeOK, Marks, Shape,
         \/ \E i \in Slots, v \in Obj \cup {Nil} : OP_MOVE(i, v)
         \/ \E t \in Threads, i \in Slots, v \in Operand : lua_xmove(t, i, v)
         \/ \E s \in Strings, i \in Slots : luaS_newlstr(s, i)
         \/ \E mt \in Tables \cup {Nil} : settypemetatable(mt)
  PROVE  Marks' /\ Shape'
<1>. USE Kinds
<1>1. /\ running \in Threads /\ NotDead(running) /\ running \in Obj /\ running \notin Upvals
      /\ \A v \in Direct : v \in Obj /\ NotDead(v)
      /\ \A v \in Operand \ {Nil} : v \in Obj /\ NotDead(v)
      /\ \A v \in Readable \ {Nil} : v \in Obj /\ NotDead(v)
  BY NamedAlive, OperandType, KindsDisjoint DEF Marks, RootsAlive, TypeOK
<1>2. ASSUME NEW i \in Slots, NEW v \in Obj \cup {Nil}, OP_MOVE(i, v) PROVE Marks' /\ Shape'
  BY <1>1, <1>2, MoveStep DEF OP_MOVE
<1>3. ASSUME NEW t \in Threads, NEW i \in Slots, NEW v \in Operand, lua_xmove(t, i, v) PROVE Marks' /\ Shape'
  BY <1>1, <1>3, MoveStep DEF lua_xmove
<1>4. ASSUME NEW mt \in Tables \cup {Nil}, settypemetatable(mt) PROVE Marks' /\ Shape'
  <2>1. /\ Program /\ mt \in Operand /\ gmt' = mt
        /\ UNCHANGED <<color, fld, stk, uvth, uvslot, listVars, collectorVars, running, level>>
    BY <1>4 DEF settypemetatable, heapVars
  <2>2. HeapStep(running, {}, {}, {})
    BY <2>1 DEF HeapStep
  <2>3. Barriered(running, {})
    BY <2>1, NoBarrier
  <2>4. Mutates
    <3>1. \A w \in {} \cup {} : w \in Obj /\ NotDead(w)
      OBVIOUS
    <3>2. \A r \in {running', gmt'} \ {Nil} : r \in Obj /\ NotDead(r)
      BY <1>1, <2>1
    <3>. QED BY <2>1, <2>2, <2>3, <3>1, <3>2, StoreMutates
  <2>5. Shape'
    BY <1>1, <2>1, <2>4, PlainShape DEF NotDead
  <2>. QED BY <2>4, <2>5, MutatesMarks
<1>5. ASSUME NEW s \in Strings, NEW i \in Slots, luaS_newlstr(s, i) PROVE Marks' /\ Shape'
  <2>1. /\ Program /\ color' = [color EXCEPT ![s] = revived(s)]
        /\ stk' = [stk EXCEPT ![running][i] = s]
        /\ UNCHANGED <<fld, uvth, uvslot, listVars, collectorVars, progVars>>
    BY <1>5 DEF luaS_newlstr
  <2>2. HeapStep(s, {}, {s}, {Nil})
    <3>1. \A t \in Threads, j \in Slots : stk'[t][j] \in {stk[t][j], s}
      BY <1>1, <2>1 DEF TypeOK
    <3>. QED BY <2>1, <3>1 DEF HeapStep
  <2>3. Refs(s) = {}
    BY KindRefs DEF Shape
  <2>4. \A x \in Obj : color'[x] = IF x \in {s, Nil} THEN revived(x) ELSE color[x]
    BY <2>1 DEF TypeOK
  <2>5. Mutates
    <3>1. \A v \in {} : v \in Obj /\ (NotDead(v) \/ v = Nil)
      OBVIOUS
    <3>. QED BY <2>1, <2>2, <2>3, <2>4, <3>1, CreateMutates
  <2>6. Shape'
    <3>1. color'[running] # "free"
      BY <1>1, <2>5, ColorFacts DEF NotDead
    <3>2. \A t \in Threads : stk'[t] = stk[t] \/ color'[t] # "free"
      BY <2>1, <3>1 DEF TypeOK
    <3>. QED BY <1>1, <2>1, <2>5, <3>1, <3>2, PlainShape DEF progVars
  <2>. QED BY <2>5, <2>6, MutatesMarks
<1>. QED BY <1>2, <1>3, <1>4, <1>5

(***************************************************************************)
(* luaF_close and luaC_fullgc.                                             *)
(***************************************************************************)
LEMMA MarkNothing == Marked({}) = {}
  BY DEF Marked

\* luaF_close moves the values of registers into their upvalues.
LEMMA CloseStep ==
  ASSUME TypeOK, Marks, Shape, NEW from \in Slots, luaF_close(from)
  PROVE  Marks' /\ Shape'
<1>. DEFINE S == {u \in openOf(running) : uvslot[u] >= from}
            F == {u \in S : isdead(u)}
            M == closeMarks(S)
<1>1. /\ Program
      /\ color' = [o \in Obj |-> IF o \in S THEN closedColor(o) ELSE colorAfterMark(M)[o]]
      /\ gray' = gray \cup (Marked(M) \cap Listed)
      /\ fld' = [o \in Obj |-> IF o \in S \ F THEN [fld[o] EXCEPT !["val"] = UvVal(o)] ELSE fld[o]]
      /\ uvth' = [u \in Upvals |-> IF u \in S THEN Nil ELSE uvth[u]]
      /\ uvslot' = [u \in Upvals |-> IF u \in S THEN 1 ELSE uvslot[u]]
      /\ UNCHANGED <<stk, grayagain, weak, collectorVars, progVars>>
  BY DEF luaF_close, grayAfterMark
<1>2. /\ UNCHANGED <<currentwhite, gcstate, tmudata, sweepstr, sweepgc, running, level, gmt>>
      /\ otherwhite' = otherwhite
  BY <1>1 DEF collectorVars, udVars, swVars, progVars, otherwhite
<1>3. \A u \in S : /\ u \in Upvals /\ u \in Obj /\ isopen(u) /\ fld[u] = NoFields
                   /\ color[u] \notin {"black", "free"}
  BY Kinds DEF openOf, isopen, TypeOK, Shape, OpenUpvals, FreeIsEmpty
<1>4. S \cap (Listed \cup Strings \cup Udatas \cup Threads \cup Tables) = {}
  BY <1>3, KindsDisjoint DEF Listed
<1>. HIDE DEF S
<1>5. /\ M \subseteq Obj \cup {Nil} /\ M \cap Upvals = {}
      /\ gcstate # "propagate" => Marked(M) = {}
      /\ gcstate = "propagate" => \A u \in S : color[u] = "gray" /\ UvVal(u) # Nil => UvVal(u) \in M
  <2>1. \A u \in S : UvVal(u) \in Value \cup {Nil}
    BY <1>3, OperandType
  <2>2. gcstate # "propagate" => M = {}
    BY DEF closeMarks
  <2>3. M \subseteq Value
    BY <2>1 DEF closeMarks
  <2>4. gcstate = "propagate" => \A u \in S : color[u] = "gray" /\ UvVal(u) # Nil => UvVal(u) \in M
    BY DEF closeMarks
  <2>. QED BY <2>2, <2>3, <2>4, MarkNothing, Kinds DEF Value
<1>. HIDE DEF M
<1>6. /\ \A x \in Obj :
           \/ x \notin Marked(M) /\ colorAfterMark(M)[x] = color[x]
           \/ x \in Marked(M) /\ iswhite(x) /\ colorAfterMark(M)[x] = MarkColor(x)
      /\ \A x \in M \ {Nil} : colorAfterMark(M)[x] \notin Whites
      /\ \A x \in Marked(M) : colorAfterMark(M)[x] = "black" => \A v \in Refs(x) : colorAfterMark(M)[v] \notin Whites
      /\ Marked(M) \cap Upvals = {}
  BY <1>5, MarkEffect DEF Shape
<1>7. \A x \in Obj : x \notin S =>
        \/ x \notin Marked(M) /\ color'[x] = color[x]
        \/ x \in Marked(M) /\ iswhite(x) /\ color'[x] = MarkColor(x) /\ gcstate = "propagate" /\ x \notin Upvals
  BY <1>1, <1>5, <1>6
<1>8. \A x \in S :
        \/ isdead(x) /\ color'[x] = "free"
        \/ color[x] = "gray" /\ gcstate = "propagate" /\ color'[x] = "black"
        \/ color[x] = "gray" /\ gcstate # "propagate" /\ color'[x] = currentwhite
        \/ color[x] = currentwhite /\ color'[x] = currentwhite
  <2>. TAKE x \in S
  <2>1. color'[x] = closedColor(x) /\ color[x] \in {currentwhite, otherwhite, "gray"}
    BY <1>1, <1>3, WhiteFacts
  <2>. QED BY <2>1, WhiteFacts DEF closedColor, isdead
<1>9. \A x \in Obj : MarkColor(x) \in {"gray", "black"}
  BY DEF MarkColor
<1>10. gcstate = "propagate" => \A x \in Obj : ~isdead(x)
  BY DEF Marks, MarkStages
<1>11. \A x \in Obj : NotDead(x)' <=> NotDead(x)
  <2>. TAKE x \in Obj
  <2>. QED BY <1>2, <1>7, <1>8, <1>9, <1>10, WhiteFacts DEF NotDead, isdead
<1>12. \A x \in Obj : isdead(x)' => isdead(x)
  BY <1>2, <1>7, <1>8, <1>9, WhiteFacts DEF isdead
<1>13. \A x \in Obj : color'[x] # "free" => Refs(x)' = Refs(x)
  <2>. SUFFICES ASSUME NEW x \in Obj, color'[x] # "free", NEW v PROVE Holds(x, v)' <=> Holds(x, v)
    BY RefsHolds
  <2>1. CASE x \in S
    <3>1. x \notin F /\ x \notin Threads
      BY <1>3, <1>8, <2>1, KindsDisjoint, WhiteFacts DEF isdead
    <3>2. \A f \in Field : fld'[x][f] = IF f = "val" THEN UvVal(x) ELSE Nil
      BY <1>1, <1>3, <2>1, <3>1 DEF NoFields, Field
    <3>3. UvVal(x)' = UvVal(x)
      BY <1>1, <1>3, <2>1, <3>2 DEF UvVal, isopen, Field
    <3>. QED BY <1>3, <2>1, <3>1, <3>2, <3>3 DEF Holds, NoFields, Field
  <2>2. CASE x \notin S
    <3>1. fld'[x] = fld[x] /\ stk' = stk
      BY <1>1, <2>2
    <3>2. x \in Upvals => UvVal(x)' = UvVal(x)
      BY <1>1, <2>2, <3>1 DEF UvVal, isopen
    <3>. QED BY <3>1, <3>2 DEF Holds
  <2>. QED BY <2>1, <2>2
<1>14. NoDangling' /\ RootsAlive'
  <2>1. NoDangling'
    <3>. SUFFICES ASSUME NEW o \in Obj, NotDead(o)', NEW v \in Refs(o)' PROVE NotDead(v)'
      BY DEF NoDangling
    <3>1. NotDead(o) /\ v \in Refs(o)
      BY <1>11, <1>13 DEF NotDead
    <3>. QED BY <1>11, <3>1, RefsType DEF Marks, NoDangling
  <2>2. \A r \in {MainThread, Registry, running, gmt} \ {Nil} : r \in Obj /\ NotDead(r)
    BY ConstantsOK, Kinds DEF Marks, RootsAlive, TypeOK
  <2>. QED BY <1>2, <1>11, <2>1, <2>2 DEF RootsAlive
<1>15. Tricolor'
  <2>. SUFFICES ASSUME gcstate' \in Marking, NEW o \in Obj, color'[o] = "black", o \notin tmudata',
                       NEW v \in Refs(o)'
                PROVE  ~iswhite(v)'
    BY DEF Tricolor
  <2>1. gcstate = "propagate" /\ o \notin tmudata
    BY <1>1, <1>2 DEF Program
  <2>2. v \in Refs(o) /\ v \in Obj /\ v # Nil
    BY <1>13, RefsType, RefsHolds DEF Holds
  <2>3. colorAfterMark(M)[v] \notin Whites => color'[v] \notin Whites
    <3>1. CASE v \in S
      BY <1>3, <1>6, <1>8, <2>1, <2>2, <3>1, WhiteFacts
    <3>2. CASE v \notin S
      BY <1>1, <2>2, <3>2
    <3>. QED BY <3>1, <3>2
  <2>4. CASE o \in S
    <3>1. color[o] = "gray" /\ v = UvVal(o)
      BY <1>3, <1>8, <2>2, <2>4, KindRefs, WhiteFacts DEF Shape
    <3>. QED BY <1>5, <1>6, <2>1, <2>2, <2>3, <2>4, <3>1 DEF iswhite
  <2>5. CASE o \notin S /\ color[o] = "black"
    <3>1. ~iswhite(v)
      BY <2>1, <2>2, <2>5 DEF Marks, Tricolor
    <3>. QED BY <1>6, <1>9, <2>2, <2>3, <3>1 DEF iswhite
  <2>6. CASE o \in Marked(M)
    <3>1. o \notin S
      BY <1>3, <1>6, <2>6
    <3>2. colorAfterMark(M)[o] = "black"
      BY <1>1, <3>1
    <3>. QED BY <1>6, <2>2, <2>3, <2>6, <3>2 DEF iswhite
  <2>. QED BY <1>7, <2>4, <2>5, <2>6
<1>16. GrayLists'
  <2>. SUFFICES ASSUME gcstate' \in Marking
                PROVE  /\ gray' \cap grayagain' = {} /\ gray' \cap weak' = {} /\ grayagain' \cap weak' = {}
                       /\ {o \in Listed : color'[o] = "gray"} = gray' \cup grayagain' \cup weak'
    BY DEF GrayLists
  <2>1. gcstate \in Marking
    BY <1>2
  <2>2. /\ gray \cap grayagain = {} /\ gray \cap weak = {} /\ grayagain \cap weak = {}
        /\ {o \in Listed : color[o] = "gray"} = gray \cup grayagain \cup weak
    BY <2>1 DEF Marks, GrayLists
  <2>3. \A o \in Listed : o \in Obj /\ o \notin S /\ MarkColor(o) = "gray"
    BY <1>4, KindsDisjoint DEF Listed, Obj, MarkColor
  <2>4. \A o \in Listed : color'[o] = "gray" <=> color[o] = "gray" \/ o \in Marked(M)
    BY <1>7, <2>3 DEF iswhite
  <2>5. \A o \in Listed \cap Marked(M) : color[o] # "gray"
    BY <1>6, <2>3 DEF iswhite
  <2>. QED BY <1>1, <2>2, <2>4, <2>5
<1>17. SweepPending'
  <2>. SUFFICES ASSUME gcstate' \notin Marking, NEW o \in Obj, color'[o] \notin {currentwhite', "free"}
                PROVE  \/ o \in sweepstr' \cup sweepgc' \cup tmudata'
                       \/ o \in Upvals /\ uvth'[o] \in sweepgc'
    BY DEF SweepPending
  <2>1. o \notin S /\ color[o] = color'[o]
    BY <1>2, <1>7, <1>8
  <2>. QED BY <1>1, <1>2, <2>1 DEF Marks, SweepPending
<1>18. SweepLists'
  <2>1. \A x \in sweepstr \cup sweepgc \cup tmudata : x \notin S
    BY <1>3, <1>4 DEF Marks, SweepLists, TypeOK
  <2>2. \A x \in Obj : x \notin S /\ color[x] # "free" => color'[x] # "free"
    BY <1>7, <1>9
  <2>3. sweepstr \cup sweepgc \cup tmudata \subseteq Allocated'
    BY <2>1, <2>2 DEF Marks, SweepLists, Allocated
  <2>4. \A u \in sweepgc \cap Upvals : uvth'[u] = uvth[u]
    BY <1>1, <2>1
  <2>. QED BY <1>2, <1>12, <2>3, <2>4, Kinds DEF Marks, SweepLists, isopen, TypeOK
<1>19. MarkStages' /\ MarkKinds'
  <2>1. gcstate' = gcstate /\ gcstate \notin Atomic
    BY <1>1, <1>2 DEF Program
  <2>2. MainThread \in Obj /\ Registry \in Obj /\ MainThread \notin S /\ Registry \notin S
    BY <1>4, ConstantsOK, Kinds
  <2>3. gcstate = "propagate" => (\A o \in Obj : ~isdead(o)') /\ ~iswhite(MainThread)' /\ ~iswhite(Registry)'
    BY <1>7, <1>10, <1>12, <2>2 DEF Marks, MarkStages, iswhite
  <2>4. MarkStages'
    BY <2>1, <2>3 DEF MarkStages
  <2>5. \A t \in Threads : color'[t] # "black"
    BY <1>4, <1>7, Kinds, KindsDisjoint DEF Marks, MarkKinds, MarkColor
  <2>6. \A u \in Udatas : color'[u] # "gray"
    BY <1>4, <1>7, Kinds, KindsDisjoint DEF Marks, MarkKinds, MarkColor
  <2>7. ASSUME NEW u \in Upvals, color'[u] = "gray" PROVE isopen(u)'
    <3>1. u \notin S /\ color[u] = "gray"
      BY <1>7, <1>8, <2>7, Kinds, WhiteFacts
    <3>. QED BY <1>1, <3>1 DEF Marks, MarkKinds, isopen
  <2>. QED BY <2>4, <2>5, <2>6, <2>7 DEF MarkKinds
<1>20. OpenUpvals'
  <2>. SUFFICES ASSUME NEW u \in Upvals, isopen(u)'
                PROVE  /\ color'[u] \notin {"black", "free"}
                       /\ color'[uvth'[u]] # "free"
                       /\ \A w \in Upvals : uvth'[w] = uvth'[u] /\ uvslot'[w] = uvslot'[u] => w = u
    BY DEF OpenUpvals
  <2>1. u \notin S /\ uvth'[u] = uvth[u] /\ uvslot'[u] = uvslot[u] /\ isopen(u) /\ uvth[u] \in Threads
    BY <1>1 DEF isopen, TypeOK
  <2>2. color'[u] = color[u]
    BY <1>7, <2>1, Kinds
  <2>3. color'[uvth[u]] # "free"
    BY <1>4, <1>7, <1>9, <2>1, Kinds DEF Shape, OpenUpvals
  <2>4. \A w \in Upvals : uvth'[w] = uvth'[u] => w \notin S
    BY <1>1, <2>1, Kinds
  <2>. QED BY <1>1, <2>1, <2>2, <2>3, <2>4 DEF Shape, OpenUpvals
<1>21. FreeIsEmpty' /\ FieldsUsed'
  <2>1. \A x \in Obj : color'[x] = "free" => fld'[x] = NoFields
    BY <1>1, <1>3, <1>7, <1>8, <1>9, WhiteFacts DEF Shape, FreeIsEmpty
  <2>2. \A t \in Threads : color'[t] = "free" => stk'[t] = NoStack
    BY <1>1, <1>4, <1>7, <1>9, Kinds DEF Shape, FreeIsEmpty
  <2>3. \A u \in Upvals : isopen(u)' => fld'[u] = NoFields
    BY <1>1, Kinds DEF Shape, FreeIsEmpty, isopen
  <2>4. FieldsUsed'
    <3>1. \A x \in S : FieldsOf(x) = {"val"}
      BY <1>3, FieldsOfKinds
    <3>. QED BY <1>1, <1>3, <3>1 DEF Shape, FieldsUsed, NoFields
  <2>. QED BY <2>1, <2>2, <2>3, <2>4 DEF FreeIsEmpty, NoFields, NoStack
<1>22. ResumeChain'
  <2>1. \A t \in Threads : fld'[t]["co"] = fld[t]["co"]
    BY <1>1, <1>4, Kinds
  <2>. QED BY <1>2, <2>1, SameChain DEF Shape
<1>. QED BY <1>14, <1>15, <1>16, <1>17, <1>18, <1>19, <1>20, <1>21, <1>22 DEF Marks, Shape

\* Whatever is allocated is ahead of a sweep that starts.
LEMMA SweepAll ==
  ASSUME TypeOK, OpenUpvals, NEW o \in Allocated
  PROVE  \/ o \in (Allocated \cap Strings) \cup rootgc \cup tmudata
         \/ o \in Upvals /\ uvth[o] \in rootgc
<1>1. CASE o \in Upvals /\ isopen(o)
  <2>1. uvth[o] \in Threads /\ color[uvth[o]] # "free"
    BY <1>1 DEF isopen, TypeOK, OpenUpvals
  <2>2. uvth[o] \in rootgc
    BY <2>1, KindsDisjoint, Kinds DEF rootgc, Allocated, TypeOK
  <2>. QED BY <1>1, <2>2
<1>2. CASE ~(o \in Upvals /\ isopen(o))
  BY <1>2 DEF rootgc
<1>. QED BY <1>1, <1>2

\* luaC_fullgc abandons a mark phase and starts to sweep everything.
LEMMA FullgcStep ==
  ASSUME TypeOK, Marks, Shape, luaC_fullgc
  PROVE  Marks' /\ Shape'
<1>1. UNCHANGED <<color, fld, stk, uvth, uvslot, currentwhite, tmudata, running, level, gmt>> /\ Program
  BY DEF luaC_fullgc, heapVars, udVars, progVars
<1>2. /\ \A o \in Obj : (NotDead(o)' <=> NotDead(o)) /\ (isdead(o)' <=> isdead(o))
      /\ \A u \in Upvals : isopen(u)' <=> isopen(u)
      /\ Allocated' = Allocated
  BY <1>1 DEF NotDead, isdead, otherwhite, isopen, Allocated
<1>3. \A o : Refs(o)' = Refs(o)
  BY <1>1 DEF Refs, StackOf, UvVal, isopen
<1>4. NoDangling' /\ RootsAlive'
  <2>1. \A r \in {MainThread, Registry, running, gmt} \ {Nil} : r \in Obj
    BY ConstantsOK, Kinds DEF TypeOK
  <2>2. RootsAlive'
    BY <1>1, <1>2, <2>1 DEF Marks, RootsAlive
  <2>3. NoDangling'
    BY <1>2, <1>3, RefsType DEF Marks, NoDangling
  <2>. QED BY <2>2, <2>3
<1>5. gcstate' \notin Marking
  BY <1>1 DEF luaC_fullgc, Program, TypeOK
<1>6. MarkKinds' /\ Shape'
  BY <1>1, <1>2 DEF Marks, Shape, MarkKinds, OpenUpvals, FreeIsEmpty, ResumeChain, FieldsUsed, NoFields, NoStack
<1>7. SweepPending' /\ SweepLists'
  <2>1. CASE gcstate \in {"pause", "propagate"}
    <3>1. sweepstr' = Allocated \cap Strings /\ sweepgc' = rootgc /\ gcstate' = "sweepstring"
      BY <2>1 DEF luaC_fullgc
    <3>2. SweepPending'
      BY <1>1, <3>1, SweepAll DEF Shape, SweepPending, Allocated
    <3>3. rootgc \subseteq Allocated /\ \A u \in rootgc \cap Upvals : ~isopen(u)
      BY DEF rootgc
    <3>4. SweepLists'
      BY <1>1, <1>2, <3>1, <3>3, Kinds DEF Marks, SweepLists, TypeOK
    <3>. QED BY <3>2, <3>4
  <2>2. CASE gcstate \notin {"pause", "propagate"}
    <3>1. UNCHANGED <<sweepstr, sweepgc, gcstate>>
      BY <2>2 DEF luaC_fullgc
    <3>2. SweepPending'
      BY <1>1, <3>1 DEF Marks, SweepPending
    <3>3. SweepLists'
      BY <1>1, <1>2, <3>1, Kinds DEF Marks, SweepLists, TypeOK
    <3>. QED BY <3>2, <3>3
  <2>. QED BY <2>1, <2>2
<1>8. Tricolor' /\ GrayLists' /\ MarkStages'
  BY <1>5 DEF Tricolor, GrayLists, MarkStages
<1>. QED BY <1>4, <1>6, <1>7, <1>8 DEF Marks

\* The program keeps the invariant of the collector.
LEMMA ProgramStep ==
  ASSUME TypeOK, Marks, Shape, program
  PROVE  Marks' /\ Shape'
<1>1. \/ \E t \in Tables :
           \/ \E v \in Operand : setarray(t, v)
           \/ \E k, v \in Operand : setnode(t, k, v)
           \/ \E mt \in Tables \cup {Nil} : lua_setmetatable(t, mt)
      \/ \E u \in Udatas, mt \in Tables \cup {Nil} : lua_setmetatable(u, mt)
      \/ \E o \in Obj, e \in Tables : lua_setfenv(o, e)
      \/ \E c \in CClosures, v \in Operand : lua_replace(c, v)
      \/ \E p \in Protos, j \in Slots : addk(p, j)
      \/ \E cl \in LClosures, v \in Operand : OP_SETUPVAL(cl, v)
      \/ \E t \in Tables, i \in Slots : luaH_new(t, i)
      \/ \E u \in Udatas, e \in Tables, i \in Slots : luaS_newudata(u, e, i)
      \/ \E c \in CClosures, v \in Operand, e \in Tables, i \in Slots : lua_pushcclosure(c, e, v, i)
      \/ \E p \in Protos, i \in Slots : luaF_newproto(p, i)
      \/ \E t \in Threads, i \in Slots : lua_newthread(t, i)
      \/ \E c \in LClosures :
           \/ \E u \in Upvals \cup {Nil}, i \in Slots : f_parser(c, u, i)
           \/ \E cl \in LClosures, i \in Slots : OP_CLOSURE_shared(c, cl, i)
           \/ \E cl \in LClosures, i \in Slots, j \in Slots, u \in Upvals : OP_CLOSURE_local(c, cl, j, u, i)
      \/ \E t \in Threads : lua_resume(t) \/ lua_yield(t)
      \/ \E i \in Slots, v \in Obj \cup {Nil} : OP_MOVE(i, v)
      \/ \E t \in Threads, i \in Slots, v \in Operand : lua_xmove(t, i, v)
      \/ \E s \in Strings, i \in Slots : luaS_newlstr(s, i)
      \/ \E mt \in Tables \cup {Nil} : settypemetatable(mt)
      \/ \E from \in Slots : luaF_close(from)
      \/ luaC_fullgc
  BY Zenon DEF program
<1>. QED
  BY <1>1, TableStep, BarrieredStep, NewStep, ClosureStep, ThreadStep, RegisterStep, CloseStep, FullgcStep

(***************************************************************************)
(* The mark phase.                                                         *)
(***************************************************************************)
\* A step of the mark phase: the heap stands still, objects only get darker,
\* and what is queued for finalization was in use.
MarkStep ==
  /\ UNCHANGED <<fld, stk, uvth, uvslot, currentwhite, sweepstr, sweepgc, running, level, gmt>>
  /\ gcstate' \in Marking /\ sweepstr = {} /\ \A o \in Obj : ~isdead(o)
  /\ \A o \in Obj : \/ color'[o] = color[o]
                    \/ color[o] \in Whites /\ color'[o] = MarkColor(o)
                    \/ o \in Listed \ Threads /\ color[o] = "gray" /\ color'[o] = "black"
  /\ tmudata' \subseteq {u \in Udatas : color[u] # "free"}

\* What a marking step leaves alone: whites, references and what is free.
LEMMA MarkStepFacts ==
  ASSUME TypeOK, MarkStep
  PROVE  /\ otherwhite' = otherwhite /\ currentwhite' = currentwhite
         /\ \A u : UvVal(u)' = UvVal(u) /\ (isopen(u)' <=> isopen(u))
         /\ \A o : Refs(o)' = Refs(o) /\ StrongRefs(o)' = StrongRefs(o)
         /\ \A o \in Obj : ~iswhite(o) => ~iswhite(o)'
         /\ \A o \in Obj : ~isdead(o) /\ ~isdead(o)'
         /\ \A o \in Obj : color'[o] = "free" <=> color[o] = "free"
         /\ \A o \in Obj : NotDead(o)' <=> NotDead(o)
<1>1. UNCHANGED <<fld, stk, uvth, uvslot, currentwhite>>
  BY DEF MarkStep
<1>2. otherwhite' = otherwhite
  BY <1>1 DEF otherwhite
<1>3. \A u : UvVal(u)' = UvVal(u) /\ (isopen(u)' <=> isopen(u))
  BY <1>1 DEF UvVal, isopen
<1>4. \A o : Refs(o)' = Refs(o)
  BY <1>1, <1>3 DEF Refs, StackOf
<1>5. \A o : StrongRefs(o)' = StrongRefs(o)
  BY <1>1, <1>4 DEF StrongRefs, TableRefs, weakkey, weakvalue
<1>6. ASSUME NEW o \in Obj
      PROVE  /\ ~iswhite(o) => ~iswhite(o)'
             /\ ~isdead(o) /\ ~isdead(o)'
             /\ color'[o] = "free" <=> color[o] = "free"
  <2>1. /\ ~isdead(o)
        /\ \/ color'[o] = color[o]
           \/ color[o] \in Whites /\ color'[o] = MarkColor(o)
           \/ color[o] = "gray" /\ color'[o] = "black"
    BY DEF MarkStep
  <2>2. MarkColor(o) \in {"gray", "black"}
    BY DEF MarkColor
  <2>3. otherwhite \in Whites
    BY WhiteFacts
  <2>. QED BY <1>2, <2>1, <2>2, <2>3 DEF isdead, iswhite
<1>7. \A o \in Obj : NotDead(o)' <=> NotDead(o)
  BY <1>6 DEF NotDead
<1>. QED BY <1>1, <1>2, <1>3, <1>4, <1>5, <1>6, <1>7

\* What such a step cannot disturb.
LEMMA MarkFrame ==
  ASSUME TypeOK, Marks, Shape, MarkStep
  PROVE  NoDangling' /\ RootsAlive' /\ SweepPending' /\ SweepLists' /\ MarkKinds' /\ Shape'
<1>1. UNCHANGED <<fld, stk, uvth, uvslot, currentwhite, sweepstr, sweepgc, running, level, gmt>>
        /\ gcstate' \in Marking /\ sweepstr = {}
  BY DEF MarkStep
<1>2. NoDangling'
  BY MarkStepFacts, RefsType DEF Marks, NoDangling
<1>3. RootsAlive'
  <2>1. \A r \in {MainThread, Registry, running, gmt} \ {Nil} : r \in Obj
    BY ConstantsOK, Kinds DEF TypeOK
  <2>. QED BY <1>1, <2>1, MarkStepFacts DEF Marks, RootsAlive
<1>4. SweepPending'
  BY <1>1 DEF SweepPending
<1>5. SweepLists'
  <2>1. tmudata' \subseteq {o \in Obj : color'[o] # "free"} /\ \A u \in tmudata' : ~isdead(u)'
    BY MarkStepFacts, Kinds DEF MarkStep
  <2>2. sweepgc \subseteq {o \in Obj : color'[o] # "free"}
    BY MarkStepFacts DEF Marks, SweepLists, Allocated
  <2>3. \A u \in sweepgc \cap Upvals : ~isopen(u)'
    BY MarkStepFacts DEF Marks, SweepLists
  <2>. QED BY <1>1, <2>1, <2>2, <2>3 DEF SweepLists, Allocated
<1>6. ASSUME NEW o \in Obj
      PROVE  \/ color'[o] = color[o]
             \/ color[o] \in Whites /\ color'[o] = MarkColor(o)
             \/ o \in Listed \ Threads /\ color[o] = "gray" /\ color'[o] = "black"
  BY DEF MarkStep
<1>7. MarkKinds'
  <2>1. \A t \in Threads : color'[t] # "black"
    BY <1>6, Kinds, KindsDisjoint DEF Marks, MarkKinds, MarkColor
  <2>2. \A u \in Udatas : color'[u] # "gray"
    BY <1>6, Kinds, KindsDisjoint DEF Marks, MarkKinds, MarkColor
  <2>3. \A u \in Upvals : color'[u] = "gray" => isopen(u)'
    BY <1>6, Kinds, KindsDisjoint, MarkStepFacts DEF Marks, MarkKinds, MarkColor
  <2>. QED BY <2>1, <2>2, <2>3 DEF MarkKinds
<1>8. OpenUpvals'
  <2>. SUFFICES ASSUME NEW u \in Upvals, isopen(u)
                PROVE  /\ color'[u] \notin {"black", "free"}
                       /\ color'[uvth[u]] # "free"
                       /\ \A w \in Upvals : uvth[w] = uvth[u] /\ uvslot[w] = uvslot[u] => w = u
    BY <1>1, MarkStepFacts DEF OpenUpvals
  <2>1. uvth[u] \in Threads /\ uvth[u] \in Obj /\ u \in Obj /\ u \notin Listed /\ u \notin Udatas
    BY Kinds, KindsDisjoint DEF isopen, TypeOK, Listed
  <2>2. color[u] \notin {"black", "free"} /\ color[uvth[u]] # "free"
    BY DEF Shape, OpenUpvals
  <2>3. color'[u] \notin {"black", "free"}
    BY <1>6, <2>1, <2>2 DEF MarkColor
  <2>. QED BY <2>1, <2>2, <2>3, MarkStepFacts DEF Shape, OpenUpvals
<1>9. FreeIsEmpty' /\ ResumeChain' /\ FieldsUsed'
  <2>1. \A o \in Obj : color'[o] = "free" => color[o] = "free"
    BY MarkStepFacts
  <2>2. FreeIsEmpty'
    BY <1>1, <2>1, MarkStepFacts, Kinds DEF Shape, FreeIsEmpty, NoFields, NoStack
  <2>3. ResumeChain' /\ FieldsUsed'
    BY <1>1 DEF Shape, ResumeChain, FieldsUsed
  <2>. QED BY <2>2, <2>3
<1>. QED BY <1>2, <1>3, <1>4, <1>5, <1>7, <1>8, <1>9 DEF Shape

\* The gray objects with a gclist, after reallymarkobject on each of S.
LEMMA MarkGray ==
  ASSUME TypeOK, Shape, NEW S, S \subseteq Obj \cup {Nil}
  PROVE  /\ {o \in Listed : colorAfterMark(S)[o] = "gray"} = {o \in Listed : color[o] = "gray"} \cup (Marked(S) \cap Listed)
         /\ \A o \in Marked(S) : color[o] # "gray"
<1>1. \A o \in Obj :
        \/ o \notin Marked(S) /\ colorAfterMark(S)[o] = color[o]
        \/ o \in Marked(S) /\ iswhite(o) /\ colorAfterMark(S)[o] = MarkColor(o)
  BY MarkEffect DEF Shape
<1>2. \A o \in Listed : o \in Obj /\ MarkColor(o) = "gray"
  BY KindsDisjoint DEF Listed, Obj, MarkColor
<1>3. Marked(S) \subseteq Obj
  BY MarkedFacts
<1>. QED BY <1>1, <1>2, <1>3 DEF iswhite

\* Marking S darkens objects only, and what it blackens holds nothing white.
LEMMA MarkTricolor ==
  ASSUME TypeOK, Marks, Shape, MarkStep, gcstate \in Marking, tmudata \subseteq tmudata',
         NEW S, S \subseteq Obj \cup {Nil}, NEW o \in Obj, color'[o] = "black", o \notin tmudata',
         color[o] = "black" \/ (o \in Marked(S) /\ colorAfterMark(S)[o] = "black"),
         \A v \in Obj : iswhite(v)' => colorAfterMark(S)[v] \in Whites
  PROVE  \A v \in Refs(o)' : ~iswhite(v)'
<1>. SUFFICES ASSUME NEW v \in Refs(o), iswhite(v)' PROVE FALSE
  BY MarkStepFacts
<1>1. v \in Obj /\ iswhite(v)
  BY RefsType, MarkStepFacts
<1>2. CASE color[o] = "black"
  BY <1>1, <1>2 DEF Marks, Tricolor
<1>3. CASE o \in Marked(S) /\ colorAfterMark(S)[o] = "black"
  BY <1>1, <1>3, MarkEffect DEF Shape
<1>. QED BY <1>2, <1>3

\* The mark phase goes on: what is settled stays settled.
LEMMA StagesKept ==
  ASSUME TypeOK, Marks, MarkStep, gcstate \in Marking,
         \A u \in Upvals : isopen(u) /\ color'[u] = "gray" /\ color[u] # "gray" => \A v \in Refs(u) : ~iswhite(v)',
         \A t \in weak' \ weak : \A v \in StrongRefs(t) : ~iswhite(v)',
         \A o \in grayagain' \ grayagain : \A v \in Refs(o) : ~iswhite(v)'
  PROVE  /\ (\A o \in Obj : ~isdead(o)') /\ ~iswhite(MainThread)' /\ ~iswhite(Registry)'
         /\ gcstate \in Atomic =>
              \A u \in Upvals : isopen(u)' /\ color'[u] = "gray" => \A v \in Refs(u)' : ~iswhite(v)'
         /\ gcstate \in {"weak", "again", "tmu"} =>
              /\ ~iswhite(running)' /\ (gmt' # Nil => ~iswhite(gmt)')
              /\ \A t \in weak' : \A v \in StrongRefs(t)' : ~iswhite(v)'
         /\ gcstate \in {"again", "tmu"} => \A o \in grayagain' : \A v \in Refs(o)' : ~iswhite(v)'
         /\ gcstate = "tmu" /\ tmudata' = tmudata =>
              \A u \in tmudata' : color'[u] = "black" /\ \A v \in Refs(u)' : ~iswhite(v)'
<1>. USE DEF Marks
<1>0. /\ MainThread \in Obj /\ Registry \in Obj /\ running \in Obj /\ (gmt # Nil => gmt \in Obj)
      /\ running' = running /\ gmt' = gmt
  BY ConstantsOK, Kinds DEF TypeOK, MarkStep
<1>a. weak \subseteq Obj /\ grayagain \subseteq Obj /\ tmudata \subseteq Obj
  BY Kinds DEF TypeOK, Listed
<1>b. \A o \in Obj : \A v \in Refs(o) \cup StrongRefs(o) : v \in Obj
  BY RefsType
<1>c. /\ \A o \in Obj : ~iswhite(o) => ~iswhite(o)'
      /\ \A o \in Obj : ~isdead(o)'
      /\ \A o : Refs(o)' = Refs(o) /\ StrongRefs(o)' = StrongRefs(o)
      /\ \A u : isopen(u)' <=> isopen(u)
  BY MarkStepFacts
<1>1. (\A o \in Obj : ~isdead(o)') /\ ~iswhite(MainThread)' /\ ~iswhite(Registry)'
  BY <1>0, <1>c DEF MarkStages
<1>2. gcstate \in Atomic =>
        \A u \in Upvals : isopen(u)' /\ color'[u] = "gray" => \A v \in Refs(u)' : ~iswhite(v)'
  BY <1>b, <1>c, Kinds DEF MarkStages
<1>3. gcstate \in {"weak", "again", "tmu"} =>
       /\ ~iswhite(running)' /\ (gmt' # Nil => ~iswhite(gmt)')
       /\ \A t \in weak' : \A v \in StrongRefs(t)' : ~iswhite(v)'
  BY <1>0, <1>a, <1>b, <1>c DEF MarkStages
<1>4. gcstate \in {"again", "tmu"} => \A o \in grayagain' : \A v \in Refs(o)' : ~iswhite(v)'
  BY <1>a, <1>b, <1>c DEF MarkStages
<1>5. gcstate = "tmu" /\ tmudata' = tmudata =>
        \A u \in tmudata' : color'[u] = "black" /\ \A v \in Refs(u)' : ~iswhite(v)'
  <2>1. ASSUME NEW u \in tmudata, color[u] = "black" PROVE color'[u] = "black"
    BY <1>a, <2>1 DEF MarkStep
  <2>. QED BY <1>a, <1>b, <1>c, <2>1 DEF MarkStages
<1>. QED BY <1>1, <1>2, <1>3, <1>4, <1>5

\* propagatemark blackens one gray object and grays what it refers to.
LEMMA PropagateStep ==
  ASSUME TypeOK, Marks, Shape, NEW o \in Listed, propagatemark(o)
  PROVE  Marks' /\ Shape'
<1>. DEFINE kids == StrongRefs(o)
<1>0. /\ gcstate \in Marking /\ gcstate' = gcstate /\ o \in gray /\ o \in Obj
      /\ UNCHANGED <<fld, stk, uvth, uvslot, currentwhite, sweepstr, sweepgc, running, level, gmt, tmudata>>
  BY DEF propagatemark, heapVars, udVars, swVars, progVars, Listed, Obj
<1>1. kids \subseteq Obj /\ kids \subseteq Obj \cup {Nil} /\ Nil \notin kids
  BY <1>0, RefsType, Kinds
<1>2. color[o] = "gray" /\ o \notin grayagain /\ o \notin weak
  BY <1>0 DEF Marks, GrayLists
<1>3. o \notin Marked(kids)
  BY <1>1, <1>2, MarkGray
<1>. HIDE DEF kids
<1>4. \A x \in Obj : x # o => color'[x] = colorAfterMark(kids)[x]
  BY DEF propagatemark, colorAfterMark, kids
<1>5. color'[o] = IF toagain(o) \/ toweak(o) THEN "gray" ELSE "black"
  BY <1>0 DEF propagatemark, colorAfterMark, kids
<1>6. \A x \in Obj : \/ x \notin Marked(kids) /\ colorAfterMark(kids)[x] = color[x]
                     \/ x \in Marked(kids) /\ iswhite(x) /\ colorAfterMark(kids)[x] = MarkColor(x)
  BY <1>1, MarkEffect DEF Shape
<1>7. MarkStep
  <2>1. sweepstr = {} /\ \A x \in Obj : ~isdead(x)
    BY <1>0 DEF Marks, SweepLists, MarkStages
  <2>2. \A x \in Obj : \/ color'[x] = color[x]
                       \/ color[x] \in Whites /\ color'[x] = MarkColor(x)
                       \/ x \in Listed \ Threads /\ color[x] = "gray" /\ color'[x] = "black"
    BY <1>2, <1>4, <1>5, <1>6 DEF toagain, iswhite
  <2>3. tmudata' \subseteq {u \in Udatas : color[u] # "free"}
    BY <1>0 DEF Marks, SweepLists, Allocated, TypeOK
  <2>. QED BY <1>0, <2>1, <2>2, <2>3 DEF MarkStep
<1>8. \A v \in Obj : iswhite(v)' => colorAfterMark(kids)[v] \in Whites
  BY <1>4, <1>5 DEF iswhite
<1>9. \A v \in kids : ~iswhite(v)'
  BY <1>1, <1>8, MarkEffect DEF Shape
<1>10. toweak(o) \/ Refs(o) = kids
  BY <1>0, KindRefs DEF toweak, kids, Shape
<1>11. Tricolor'
  <2>. SUFFICES ASSUME NEW x \in Obj, color'[x] = "black", x \notin tmudata' PROVE \A v \in Refs(x)' : ~iswhite(v)'
    BY DEF Tricolor
  <2>1. CASE x = o
    BY <1>5, <1>7, <1>9, <1>10, <2>1, MarkStepFacts
  <2>2. CASE x # o
    <3>1. color[x] = "black" \/ (x \in Marked(kids) /\ colorAfterMark(kids)[x] = "black")
      BY <1>4, <1>6, <2>2
    <3>. QED BY <1>0, <1>1, <1>7, <1>8, <3>1, MarkTricolor
  <2>. QED BY <2>1, <2>2
<1>12. GrayLists'
  <2>1. /\ gray' = (gray \cup (Marked(kids) \cap Listed)) \ {o}
        /\ grayagain' = IF toagain(o) THEN grayagain \cup {o} ELSE grayagain
        /\ weak' = IF toweak(o) THEN weak \cup {o} ELSE weak
    BY DEF propagatemark, grayAfterMark, kids
  <2>2. /\ {x \in Listed : colorAfterMark(kids)[x] = "gray"} = {x \in Listed : color[x] = "gray"} \cup (Marked(kids) \cap Listed)
        /\ \A x \in Marked(kids) : color[x] # "gray"
    BY <1>1, MarkGray
  <2>3. /\ gray \cap grayagain = {} /\ gray \cap weak = {} /\ grayagain \cap weak = {}
        /\ {x \in Listed : color[x] = "gray"} = gray \cup grayagain \cup weak
    BY <1>0 DEF Marks, GrayLists
  <2>4. ~(toagain(o) /\ toweak(o))
    BY KindsDisjoint DEF toagain, toweak
  <2>5. \A x \in Listed : x # o => (color'[x] = "gray" <=> colorAfterMark(kids)[x] = "gray")
    BY <1>4 DEF Listed, Obj
  <2>6. {x \in Listed : color'[x] = "gray"} = gray' \cup grayagain' \cup weak'
    BY <1>0, <1>2, <1>3, <1>5, <2>1, <2>2, <2>3, <2>5
  <2>7. gray' \cap grayagain' = {} /\ gray' \cap weak' = {} /\ grayagain' \cap weak' = {}
    BY <1>0, <1>2, <2>1, <2>2, <2>3, <2>4
  <2>. QED BY <2>6, <2>7 DEF GrayLists
<1>13. MarkStages'
  <2>1. \A u \in Upvals : isopen(u) /\ color'[u] = "gray" /\ color[u] # "gray" => \A v \in Refs(u) : ~iswhite(v)'
    <3>. SUFFICES ASSUME NEW u \in Upvals, color'[u] = "gray", color[u] # "gray", NEW v \in Refs(u) PROVE ~iswhite(v)'
      OBVIOUS
    <3>1. u \in Marked(kids) /\ u \in Obj /\ v \in Obj
      BY <1>2, <1>4, <1>6, Kinds, RefsType
    <3>. QED BY <1>1, <1>8, <3>1, MarkEffect DEF Shape
  <2>2. \A t \in weak' \ weak : \A v \in StrongRefs(t) : ~iswhite(v)'
    BY <1>9 DEF propagatemark, kids
  <2>3. \A x \in grayagain' \ grayagain : \A v \in Refs(x) : ~iswhite(v)'
    <3>1. ~(toagain(o) /\ toweak(o))
      BY KindsDisjoint DEF toagain, toweak
    <3>. QED BY <1>9, <1>10, <3>1 DEF propagatemark
  <2>. QED BY <1>0, <1>7, <2>1, <2>2, <2>3, StagesKept DEF MarkStages
<1>. QED BY <1>7, <1>11, <1>12, <1>13, MarkFrame DEF Marks

\* A step that only marks S.
LEMMA MarkAll ==
  ASSUME TypeOK, Marks, Shape, NEW S, S \subseteq Obj \cup {Nil}, color' = colorAfterMark(S),
         gcstate \in Marking, gcstate' \in Marking, tmudata' = tmudata,
         UNCHANGED <<fld, stk, uvth, uvslot, currentwhite, sweepstr, sweepgc, running, level, gmt>>
  PROVE  /\ MarkStep /\ Tricolor'
         /\ \A v \in S \ {Nil} : ~iswhite(v)'
         /\ \A u \in Upvals : isopen(u) /\ color'[u] = "gray" /\ color[u] # "gray" => \A v \in Refs(u) : ~iswhite(v)'
<1>1. /\ \A x \in Obj : \/ x \notin Marked(S) /\ color'[x] = color[x]
                        \/ x \in Marked(S) /\ iswhite(x) /\ color'[x] = MarkColor(x)
      /\ \A v \in S \ {Nil} : color'[v] \notin Whites
      /\ \A o \in Marked(S) : color'[o] = "black" \/ o \in Upvals => \A v \in Refs(o) : color'[v] \notin Whites
  BY MarkEffect DEF Shape
<1>2. MarkStep
  <2>1. sweepstr = {} /\ \A x \in Obj : ~isdead(x)
    BY DEF Marks, SweepLists, MarkStages
  <2>2. tmudata' \subseteq {u \in Udatas : color[u] # "free"}
    BY DEF Marks, SweepLists, Allocated, TypeOK
  <2>. QED BY <1>1, <2>1, <2>2 DEF MarkStep, iswhite
<1>3. Tricolor'
  <2>. SUFFICES ASSUME NEW x \in Obj, color'[x] = "black", x \notin tmudata' PROVE \A v \in Refs(x)' : ~iswhite(v)'
    BY DEF Tricolor
  <2>1. color[x] = "black" \/ (x \in Marked(S) /\ colorAfterMark(S)[x] = "black")
    BY <1>1
  <2>2. \A v \in Obj : iswhite(v)' => colorAfterMark(S)[v] \in Whites
    BY DEF iswhite
  <2>. QED BY <1>2, <2>1, <2>2, MarkTricolor
<1>4. \A u \in Upvals : isopen(u) /\ color'[u] = "gray" /\ color[u] # "gray" => \A v \in Refs(u) : ~iswhite(v)'
  BY <1>1, Kinds DEF iswhite
<1>. QED BY <1>1, <1>2, <1>3, <1>4 DEF iswhite

\* The remarking stages of atomic.
LEMMA RemarkStep ==
  ASSUME TypeOK, Marks, Shape, remarkupvals \/ remarkweak \/ remarkgrayagain
  PROVE  Marks' /\ Shape'
<1>0. /\ gcstate \in Marking /\ gcstate' \in Marking /\ tmudata' = tmudata /\ gray = {}
      /\ UNCHANGED <<fld, stk, uvth, uvslot, currentwhite, sweepstr, sweepgc, running, level, gmt>>
  BY DEF remarkupvals, remarkweak, remarkgrayagain, heapVars, udVars, swVars, progVars
<1>1. /\ gray \cap grayagain = {} /\ gray \cap weak = {} /\ grayagain \cap weak = {}
      /\ {x \in Listed : color[x] = "gray"} = gray \cup grayagain \cup weak
  BY <1>0 DEF Marks, GrayLists
<1>2. CASE remarkupvals
  <2>1. uvheadValues \subseteq Obj \cup {Nil}
    BY OperandType, Kinds DEF uvheadValues
  <2>2. color' = colorAfterMark(uvheadValues)
    BY <1>2 DEF remarkupvals
  <2>3. /\ MarkStep /\ Tricolor'
        /\ \A v \in uvheadValues \ {Nil} : ~iswhite(v)'
        /\ \A u \in Upvals : isopen(u) /\ color'[u] = "gray" /\ color[u] # "gray" => \A v \in Refs(u) : ~iswhite(v)'
    BY <1>0, <2>1, <2>2, MarkAll
  <2>4. GrayLists'
    BY <1>1, <1>2, <2>1, <2>2, MarkGray DEF GrayLists, remarkupvals, grayAfterMark
  <2>5. weak' = weak /\ grayagain' = grayagain /\ gcstate' = "remark"
    BY <1>2 DEF remarkupvals
  <2>6. \A u \in Upvals : isopen(u)' /\ color'[u] = "gray" => \A v \in Refs(u)' : ~iswhite(v)'
    <3>. SUFFICES ASSUME NEW u \in Upvals, isopen(u), color'[u] = "gray", NEW v \in Refs(u) PROVE ~iswhite(v)'
      BY <2>3, MarkStepFacts
    <3>1. v = UvVal(u) /\ v # Nil
      BY KindRefs DEF Shape
    <3>2. color[u] = "gray" => v \in uvheadValues \ {Nil}
      BY <3>1 DEF uvheadValues
    <3>. QED BY <2>3, <3>2
  <2>7. MarkStages'
    BY <1>0, <2>3, <2>5, <2>6, StagesKept DEF MarkStages
  <2>. QED BY <2>3, <2>4, <2>7, MarkFrame DEF Marks
<1>3. CASE remarkweak
  <2>1. atomicRoots \subseteq Obj \cup {Nil} /\ running # Nil /\ running \in atomicRoots
    BY Kinds DEF atomicRoots, TypeOK
  <2>2. color' = colorAfterMark(atomicRoots)
    BY <1>3 DEF remarkweak
  <2>3. /\ MarkStep /\ Tricolor'
        /\ \A v \in atomicRoots \ {Nil} : ~iswhite(v)'
        /\ \A u \in Upvals : isopen(u) /\ color'[u] = "gray" /\ color[u] # "gray" => \A v \in Refs(u) : ~iswhite(v)'
    BY <1>0, <2>1, <2>2, MarkAll
  <2>4. GrayLists'
    BY <1>0, <1>1, <1>3, <2>1, <2>2, MarkGray DEF GrayLists, remarkweak
  <2>5. weak' = {} /\ grayagain' = grayagain /\ gcstate' = "weak" /\ gcstate = "remark"
    BY <1>3 DEF remarkweak
  <2>6. ~iswhite(running)' /\ (gmt' # Nil => ~iswhite(gmt)')
    BY <1>0, <2>1, <2>3 DEF atomicRoots, iswhite
  <2>7. MarkStages'
    BY <1>0, <2>3, <2>5, <2>6, StagesKept DEF MarkStages
  <2>. QED BY <2>3, <2>4, <2>7, MarkFrame DEF Marks
<1>4. CASE remarkgrayagain
  <2>1. /\ color' = color /\ gcstate = "weak" /\ gcstate' = "again"
        /\ gray' = grayagain /\ grayagain' = {} /\ weak' = weak
    BY <1>4 DEF remarkgrayagain
  <2>2. MarkStep
    <3>1. sweepstr = {} /\ \A x \in Obj : ~isdead(x)
      BY <1>0 DEF Marks, SweepLists, MarkStages
    <3>2. tmudata' \subseteq {u \in Udatas : color[u] # "free"}
      BY <1>0 DEF Marks, SweepLists, Allocated, TypeOK
    <3>. QED BY <1>0, <2>1, <3>1, <3>2 DEF MarkStep
  <2>3. Tricolor'
    <3>1. \A o : iswhite(o)' <=> iswhite(o)
      BY <2>1 DEF iswhite
    <3>. QED BY <1>0, <2>1, <2>2, <3>1, MarkStepFacts DEF Marks, Tricolor
  <2>4. GrayLists'
    BY <1>0, <1>1, <2>1 DEF GrayLists
  <2>5. MarkStages'
    BY <1>0, <2>1, <2>2, StagesKept DEF MarkStages
  <2>. QED BY <2>2, <2>3, <2>4, <2>5, MarkFrame DEF Marks
<1>. QED BY <1>2, <1>3, <1>4

\* luaC_separateudata and marktmu keep what finalizers will use.
LEMMA SeparateStep ==
  ASSUME TypeOK, Marks, Shape, separateudata
  PROVE  Marks' /\ Shape'
<1>. DEFINE tmu   == tmudata \cup {u \in Separated : hasTM(u)}
            owned == preserved(tmu)
<1>0. /\ gcstate = "again" /\ gcstate' = "tmu" /\ gray = {} /\ tmudata' = tmu
      /\ gray' = grayAfterMark(owned) /\ grayagain' = grayagain /\ weak' = weak
      /\ color' = [o \in Obj |-> IF o \in tmu THEN "black" ELSE colorAfterMark(owned)[o]]
      /\ UNCHANGED <<fld, stk, uvth, uvslot, currentwhite, sweepstr, sweepgc, running, level, gmt>>
  BY DEF separateudata, heapVars, swVars, progVars
<1>1. tmu \subseteq Udatas /\ tmudata \subseteq tmu /\ \A u \in tmu : color[u] \in Whites \cup {"black"}
  <2>1. \A u \in Separated : u \in Udatas /\ color[u] \in Whites
    BY DEF Separated, iswhite
  <2>2. ASSUME NEW u \in tmudata PROVE u \in Udatas /\ color[u] \in Whites \cup {"black"}
    <3>1. u \in Udatas /\ u \in Obj /\ color[u] # "free" /\ color[u] # "gray"
      BY Kinds DEF TypeOK, Marks, SweepLists, Allocated, MarkKinds
    <3>. QED BY <3>1 DEF TypeOK
  <2>. QED BY <2>1, <2>2
<1>2. owned \subseteq Obj /\ owned \subseteq Obj \cup {Nil} /\ \A u \in tmu : Refs(u) \subseteq owned
  <2>1. \A u \in tmu : Refs(u) = {fld[u]["meta"], fld[u]["env"]} \ {Nil}
    BY <1>1, KindRefs DEF Shape
  <2>2. \A u \in tmu : Refs(u) \subseteq Obj
    BY <1>1, RefsType, Kinds
  <2>. QED BY <2>1, <2>2 DEF preserved
<1>. HIDE DEF tmu, owned
<1>3. /\ \A x \in Obj : \/ x \notin Marked(owned) /\ colorAfterMark(owned)[x] = color[x]
                        \/ x \in Marked(owned) /\ iswhite(x) /\ colorAfterMark(owned)[x] = MarkColor(x)
      /\ \A v \in owned \ {Nil} : colorAfterMark(owned)[v] \notin Whites
      /\ \A o \in Marked(owned) : o \in Upvals => \A v \in Refs(o) : colorAfterMark(owned)[v] \notin Whites
  BY <1>2, MarkEffect DEF Shape
<1>4. \A v \in Obj : iswhite(v)' => colorAfterMark(owned)[v] \in Whites
  BY <1>0 DEF iswhite
<1>5. MarkStep
  <2>1. sweepstr = {} /\ \A x \in Obj : ~isdead(x)
    BY <1>0 DEF Marks, SweepLists, MarkStages
  <2>2. \A x \in Obj : color'[x] = color[x] \/ (color[x] \in Whites /\ color'[x] = MarkColor(x))
    BY <1>0, <1>1, <1>3 DEF MarkColor, iswhite
  <2>3. tmudata' \subseteq {u \in Udatas : color[u] # "free"}
    BY <1>0, <1>1
  <2>. QED BY <1>0, <2>1, <2>2, <2>3 DEF MarkStep
<1>6. Tricolor'
  <2>. SUFFICES ASSUME NEW x \in Obj, color'[x] = "black", x \notin tmudata' PROVE \A v \in Refs(x)' : ~iswhite(v)'
    BY DEF Tricolor
  <2>1. color[x] = "black" \/ (x \in Marked(owned) /\ colorAfterMark(owned)[x] = "black")
    BY <1>0, <1>3
  <2>. QED BY <1>0, <1>1, <1>2, <1>4, <1>5, <2>1, MarkTricolor
<1>7. GrayLists'
  <2>1. \A x \in Listed : x \in Obj /\ x \notin tmu
    BY <1>1, KindsDisjoint DEF Listed, Obj
  <2>2. {x \in Listed : color'[x] = "gray"} = {x \in Listed : colorAfterMark(owned)[x] = "gray"}
    BY <1>0, <2>1
  <2>3. /\ gray \cap grayagain = {} /\ gray \cap weak = {} /\ grayagain \cap weak = {}
        /\ {x \in Listed : color[x] = "gray"} = gray \cup grayagain \cup weak
    BY <1>0 DEF Marks, GrayLists
  <2>. QED BY <1>0, <1>2, <2>2, <2>3, MarkGray DEF GrayLists, grayAfterMark
<1>8. MarkStages'
  <2>1. ASSUME NEW u \in Upvals, color'[u] = "gray", color[u] # "gray", NEW v \in Refs(u) PROVE ~iswhite(v)'
    <3>1. u \in Obj /\ v \in Obj /\ u \in Marked(owned)
      BY <1>0, <1>3, <2>1, Kinds, RefsType
    <3>. QED BY <1>3, <1>4, <2>1, <3>1
  <2>2. ASSUME NEW u \in tmudata' PROVE color'[u] = "black" /\ \A v \in Refs(u)' : ~iswhite(v)'
    <3>1. u \in Obj /\ u \in tmu
      BY <1>0, <1>1, Kinds
    <3>2. \A v \in Refs(u) : v \in Obj /\ ~iswhite(v)'
      BY <1>2, <1>3, <1>4, <3>1, Kinds
    <3>. QED BY <1>0, <1>5, <3>1, <3>2, MarkStepFacts
  <2>. QED BY <1>0, <1>5, <2>1, <2>2, StagesKept DEF MarkStages
<1>. QED BY <1>5, <1>6, <1>7, <1>8, MarkFrame DEF Marks

\* A cycle starts with nothing dead and nothing marked, but for the userdata
\* that still wait for their finalizer.
LEMMA MarkrootStep ==
  ASSUME TypeOK, Marks, Shape, Finalization, markroot
  PROVE  Marks' /\ Shape'
<1>. DEFINE roots == {MainThread, fld[MainThread]["env"], Registry, gmt} \ {Nil}
<1>0. /\ gcstate \in {"pause", "finalize"} /\ gcstate' = "propagate" /\ tmudata' = tmudata
      /\ color' = colorAfterMark(roots) /\ gray' = Marked(roots) \cap Listed /\ grayagain' = {} /\ weak' = {}
      /\ UNCHANGED <<fld, stk, uvth, uvslot, currentwhite, sweepstr, sweepgc, running, level, gmt>>
  BY DEF markroot, heapVars, udVars, progVars
<1>1. roots \subseteq Obj \cup {Nil} /\ MainThread \in roots \ {Nil} /\ Registry \in roots \ {Nil}
  <2>1. fld[MainThread]["env"] \in Obj \cup {Nil}
    BY ConstantsOK, Kinds, FieldKinds DEF TypeOK
  <2>. QED BY <2>1, ConstantsOK, Kinds DEF TypeOK
<1>. HIDE DEF roots
<1>2. /\ \A x \in Obj : \/ x \notin Marked(roots) /\ color'[x] = color[x]
                        \/ x \in Marked(roots) /\ iswhite(x) /\ color'[x] = MarkColor(x)
      /\ \A v \in roots \ {Nil} : color'[v] \notin Whites
      /\ \A o \in Marked(roots) : color'[o] = "black" => \A v \in Refs(o) : color'[v] \notin Whites
  BY <1>0, <1>1, MarkEffect DEF Shape
<1>3. sweepstr = {} /\ sweepgc = {}
  BY <1>0 DEF Marks, SweepLists, Finalization
<1>4. \A x \in Obj : color[x] \in {currentwhite, "free"} \/ x \in tmudata
  <2>1. Nil \notin sweepgc
    BY <1>3
  <2>. QED BY <1>0, <1>3 DEF Marks, SweepPending
<1>5. \A x \in Obj : ~isdead(x) /\ (x \in Listed => color[x] # "gray")
  BY <1>4, WhiteFacts, KindsDisjoint DEF isdead, Marks, SweepLists, TypeOK, Listed
<1>6. MarkStep
  <2>1. tmudata' \subseteq {u \in Udatas : color[u] # "free"}
    BY <1>0 DEF Marks, SweepLists, Allocated, TypeOK
  <2>. QED BY <1>0, <1>2, <1>3, <1>5, <2>1 DEF MarkStep, iswhite
<1>7. Tricolor'
  <2>. SUFFICES ASSUME NEW x \in Obj, color'[x] = "black", x \notin tmudata', NEW v \in Refs(x) PROVE ~iswhite(v)'
    BY <1>6, MarkStepFacts DEF Tricolor
  <2>1. x \in Marked(roots)
    BY <1>0, <1>2, <1>4, WhiteFacts
  <2>. QED BY <1>2, <2>1 DEF iswhite
<1>8. GrayLists'
  <2>1. {x \in Listed : color[x] = "gray"} = {}
    BY <1>5 DEF Listed, Obj
  <2>. QED BY <1>0, <1>1, <2>1, MarkGray DEF GrayLists
<1>9. MarkStages'
  <2>1. (\A o \in Obj : ~isdead(o)') /\ ~iswhite(MainThread)' /\ ~iswhite(Registry)'
    BY <1>1, <1>2, <1>6, MarkStepFacts DEF iswhite
  <2>. QED BY <1>0, <2>1 DEF MarkStages
<1>. QED BY <1>6, <1>7, <1>8, <1>9, MarkFrame DEF Marks

(***************************************************************************)
(* The weak tables, and the change of white.                               *)
(***************************************************************************)
\* Marking strings marks nothing else.
LEMMA MarkStrings ==
  ASSUME NEW K, K \subseteq Strings
  PROVE  /\ Marked(K) = {s \in K : iswhite(s)}
         /\ \A o \in Obj : colorAfterMark(K)[o] = IF o \in K /\ iswhite(o) THEN "gray" ELSE color[o]
<1>1. \A s \in K : s # Nil /\ s \notin Upvals /\ s \notin Udatas /\ s \in Obj
  BY KindsDisjoint DEF Obj
<1>2. Marked(K) = {s \in K : iswhite(s)}
  BY <1>1 DEF Marked
<1>3. \A s \in K : MarkColor(s) = "gray"
  BY <1>1 DEF MarkColor
<1>. QED BY <1>2, <1>3 DEF colorAfterMark

\* What cleartable leaves in a weak table is marked, or a string it marks.
LEMMA ClearedKept ==
  ASSUME TypeOK, Shape, NEW t \in Tables, \A v \in StrongRefs(t) : ~iswhite(v),
         NEW f \in Field, clearedFields(t)[f] # Nil
  PROVE  ~iswhite(fld[t][f]) \/ fld[t][f] \in stringsKept(t)
<1>. DEFINE v == fld[t][f]
            dropNode == iscleared(fld[t]["key"], TRUE) \/ iscleared(fld[t]["val"], FALSE)
            dropArr  == weakvalue(t) /\ iscleared(fld[t]["arr"], FALSE)
<1>1. /\ v # Nil
      /\ f \in {"key", "val"} => ~dropNode
      /\ f = "arr" => ~dropArr
  BY DEF clearedFields
<1>2. f \in {"meta", "arr", "key", "val"}
  BY <1>1, FieldsOfKinds, Kinds DEF Shape, FieldsUsed
<1>3. CASE f = "meta"
  BY <1>1, <1>3 DEF StrongRefs, TableRefs
<1>4. CASE f = "arr"
  <2>1. CASE weakvalue(t)
    BY <1>1, <1>4, <2>1 DEF iscleared, stringsKept
  <2>2. CASE ~weakvalue(t)
    BY <1>1, <1>4, <2>2 DEF StrongRefs, TableRefs
  <2>. QED BY <2>1, <2>2
<1>5. CASE f = "key"
  BY <1>1, <1>5 DEF iscleared, stringsKept
<1>6. CASE f = "val"
  BY <1>1, <1>6 DEF iscleared, stringsKept
<1>. QED BY <1>2, <1>3, <1>4, <1>5, <1>6

\* cleartables removes what is white from weak tables, and the white flips.
LEMMA ClearStep ==
  ASSUME TypeOK, Marks, Shape, cleartables
  PROVE  Marks' /\ Shape'
<1>. DEFINE K == UNION {stringsKept(t) : t \in weak}
<1>0. /\ gcstate = "tmu" /\ gcstate' = "sweepstring" /\ gray = {}
      /\ fld' = [o \in Obj |-> IF o \in weak THEN clearedFields(o) ELSE fld[o]]
      /\ color' = colorAfterMark(K) /\ currentwhite' = otherwhite
      /\ sweepstr' = Allocated \cap Strings /\ sweepgc' = rootgc
      /\ UNCHANGED <<stk, uvth, uvslot, tmudata, running, level, gmt>>
  BY DEF cleartables, udVars, progVars
<1>1. K \subseteq Strings
  BY DEF stringsKept
<1>. HIDE DEF K
<1>2. \A o \in Obj : color'[o] = IF o \in K /\ iswhite(o) THEN "gray" ELSE color[o]
  BY <1>0, <1>1, MarkStrings
<1>3. \A o \in Obj : color[o] \in {currentwhite, "gray", "black", "free"}
  BY <1>0, WhiteFacts DEF Marks, MarkStages, isdead
<1>4. otherwhite' = currentwhite /\ currentwhite \in Whites /\ currentwhite' \in Whites /\ currentwhite' # currentwhite
  BY <1>0, WhiteFacts DEF otherwhite, TypeOK
<1>5. \A o \in Obj : /\ color'[o] \in {currentwhite, "gray", "black", "free"}
                     /\ color'[o] = "free" <=> color[o] = "free"
                     /\ NotDead(o)' <=> color'[o] \in {"gray", "black"}
                     /\ ~iswhite(o) \/ o \in K => color'[o] \notin Whites
                     /\ o \notin Strings => color'[o] = color[o]
  <2>. TAKE o \in Obj
  <2>1. color'[o] = IF o \in K /\ iswhite(o) THEN "gray" ELSE color[o]
    BY <1>2
  <2>2. color[o] \in {currentwhite, "gray", "black", "free"}
    BY <1>3
  <2>. QED BY <1>1, <1>4, <2>1, <2>2 DEF NotDead, isdead, iswhite
<1>6. weak \subseteq Tables /\ \A t \in weak : t \in Obj /\ color[t] = "gray"
  BY <1>0, Kinds DEF TypeOK, Marks, GrayLists, Listed
<1>7. /\ \A t \in weak, f \in Field : fld'[t][f] \in {Nil, fld[t][f]}
      /\ \A o \in Obj : o \notin weak => fld'[o] = fld[o]
      /\ \A t \in weak, f \in Field : fld'[t][f] # Nil => ~iswhite(fld[t][f]) \/ fld[t][f] \in K
  <2>1. \A t \in weak : fld'[t] = clearedFields(t)
    BY <1>0, <1>6
  <2>2. \A t \in weak, f \in Field : fld'[t][f] \in {Nil, fld[t][f]}
    BY <2>1 DEF clearedFields
  <2>3. ASSUME NEW t \in weak, NEW f \in Field, fld'[t][f] # Nil PROVE ~iswhite(fld[t][f]) \/ fld[t][f] \in K
    <3>1. \A v \in StrongRefs(t) : ~iswhite(v)
      BY <1>0 DEF Marks, MarkStages
    <3>2. ~iswhite(fld[t][f]) \/ fld[t][f] \in stringsKept(t)
      BY <1>6, <2>1, <2>3, <3>1, ClearedKept
    <3>. QED BY <3>2 DEF K
  <2>. QED BY <1>0, <2>2, <2>3
<1>8. \A o \in Obj : Refs(o)' \subseteq Refs(o)
  <2>. SUFFICES ASSUME NEW o \in Obj, NEW v, Holds(o, v)' PROVE Holds(o, v)
    BY RefsHolds
  <2>1. v # Nil
    BY DEF Holds
  <2>2. ASSUME NEW f \in Field, v = fld'[o][f] PROVE v = fld[o][f]
    BY <1>7, <2>1, <2>2
  <2>3. o \in Upvals => UvVal(o)' = UvVal(o)
    <3>1. o \in Upvals => fld'[o] = fld[o]
      BY <1>6, <1>7, KindsDisjoint
    <3>. QED BY <1>0, <3>1 DEF UvVal, isopen
  <2>. QED BY <1>0, <2>1, <2>2, <2>3 DEF Holds
<1>9. ASSUME NEW o \in Obj, color'[o] \in {"gray", "black"}, NEW v \in Refs(o)'
      PROVE  v \in Obj /\ (~iswhite(v) \/ v \in K)
  <2>1. v \in Refs(o) /\ v \in Obj
    BY <1>8, RefsType
  <2>2. CASE color[o] = "black"
    BY <1>0, <2>1, <2>2 DEF Marks, Tricolor, MarkStages
  <2>3. CASE o \in Strings
    BY <2>1, <2>3, KindRefs DEF Shape
  <2>4. CASE color[o] = "gray" /\ o \in Listed /\ o \notin weak
    <3>1. o \in grayagain
      BY <1>0, <2>4 DEF Marks, GrayLists
    <3>. QED BY <1>0, <2>1, <3>1 DEF Marks, MarkStages
  <2>5. CASE o \in weak
    <3>1. o \in Tables /\ o \notin Threads /\ o \notin Upvals
      BY <1>6, <2>5, KindsDisjoint
    <3>2. Holds(o, v)'
      BY RefsHolds
    <3>3. PICK f \in Field : v = fld'[o][f] /\ v # Nil
      BY <3>1, <3>2 DEF Holds
    <3>. QED BY <1>7, <2>1, <2>5, <3>3
  <2>6. CASE color[o] = "gray" /\ o \in Upvals
    BY <1>0, <2>1, <2>6 DEF Marks, MarkKinds, MarkStages
  <2>7. CASE color[o] = "gray" /\ o \in Udatas
    BY <2>7 DEF Marks, MarkKinds
  <2>8. o \in Strings \/ o \in Listed \/ o \in Upvals \/ o \in Udatas
    BY DEF Obj, Listed
  <2>9. o \notin Strings => color[o] \in {"gray", "black"}
    BY <1>5, <1>9
  <2>. QED BY <2>2, <2>3, <2>4, <2>5, <2>6, <2>7, <2>8, <2>9
<1>10. NoDangling'
  <2>. SUFFICES ASSUME NEW o \in Obj, NotDead(o)', NEW v \in Refs(o)' PROVE NotDead(v)'
    BY DEF NoDangling
  <2>1. color'[o] \in {"gray", "black"} /\ color[o] # "free"
    BY <1>5
  <2>2. v \in Obj /\ color'[v] \notin Whites
    BY <1>5, <1>9, <2>1
  <2>3. v \in Refs(o) /\ NotDead(o)
    BY <1>0, <1>8, <2>1 DEF Marks, MarkStages, NotDead
  <2>4. color[v] # "free"
    BY <2>3 DEF Marks, NoDangling, NotDead
  <2>. QED BY <1>4, <1>5, <2>2, <2>4
<1>11. RootsAlive'
  <2>. SUFFICES ASSUME NEW r \in {MainThread, Registry, running, gmt} \ {Nil} PROVE NotDead(r)'
    BY <1>0 DEF RootsAlive
  <2>1. r \in Obj /\ color[r] # "free"
    BY ConstantsOK, Kinds DEF TypeOK, Marks, RootsAlive, NotDead
  <2>2. ~iswhite(r)
    BY <1>0 DEF Marks, MarkStages
  <2>. QED BY <1>4, <1>5, <2>1, <2>2
<1>12. Tricolor' /\ GrayLists' /\ MarkStages'
  BY <1>0 DEF Tricolor, GrayLists, MarkStages
<1>13. SweepPending'
  <2>. SUFFICES ASSUME NEW o \in Obj, color'[o] # "free"
                PROVE  \/ o \in sweepstr' \cup sweepgc' \cup tmudata'
                       \/ o \in Upvals /\ uvth'[o] \in sweepgc'
    BY DEF SweepPending
  <2>1. o \in Allocated
    BY <1>5 DEF Allocated
  <2>. QED BY <1>0, <2>1, SweepAll DEF Shape
<1>14. SweepLists'
  <2>1. Allocated' = Allocated /\ rootgc \subseteq Allocated /\ tmudata \subseteq Allocated
    BY <1>5 DEF Allocated, rootgc, Marks, SweepLists
  <2>2. \A u \in rootgc \cap Upvals : ~isopen(u)'
    BY <1>0 DEF rootgc, isopen
  <2>3. \A u \in tmudata : ~isdead(u)'
    <3>1. \A u \in tmudata : u \in Obj /\ u \notin Strings /\ color[u] = "black"
      BY <1>0, Kinds, KindsDisjoint DEF TypeOK, Marks, MarkStages
    <3>. QED BY <1>4, <1>5, <3>1 DEF isdead
  <2>. QED BY <1>0, <2>1, <2>2, <2>3 DEF SweepLists
<1>15. \A u \in Upvals : isopen(u)' <=> isopen(u)
  BY <1>0 DEF isopen
<1>16. MarkKinds'
  <2>1. \A o \in Threads \cup Udatas \cup Upvals : color'[o] = color[o]
    BY <1>5, Kinds, KindsDisjoint
  <2>. QED BY <1>15, <2>1 DEF Marks, MarkKinds
<1>17. OpenUpvals'
  <2>1. \A o \in Threads \cup Upvals : color'[o] = color[o]
    BY <1>5, Kinds, KindsDisjoint
  <2>2. \A u \in Upvals : isopen(u) => uvth[u] \in Threads
    BY DEF isopen, TypeOK
  <2>. QED BY <1>0, <1>15, <2>1, <2>2 DEF Shape, OpenUpvals
<1>18. FreeIsEmpty'
  <2>1. \A o \in Obj : color'[o] = "free" => fld'[o] = NoFields
    BY <1>5, <1>6, <1>7 DEF Shape, FreeIsEmpty
  <2>2. \A t \in Threads : color'[t] = "free" => stk'[t] = NoStack
    BY <1>0, <1>5, Kinds DEF Shape, FreeIsEmpty
  <2>3. \A u \in Upvals : isopen(u)' => fld'[u] = NoFields
    BY <1>6, <1>7, <1>15, Kinds, KindsDisjoint DEF Shape, FreeIsEmpty
  <2>. QED BY <2>1, <2>2, <2>3 DEF FreeIsEmpty, NoFields, NoStack
<1>19. ResumeChain'
  <2>1. \A t \in Threads : fld'[t]["co"] = fld[t]["co"]
    BY <1>6, <1>7, Kinds, KindsDisjoint
  <2>. QED BY <1>0, <2>1, SameChain DEF Shape
<1>20. FieldsUsed'
  <2>. SUFFICES ASSUME NEW o \in Obj, NEW f \in Field \ FieldsOf(o) PROVE fld'[o][f] = Nil
    BY DEF FieldsUsed, FieldsOf
  <2>. QED BY <1>7 DEF Shape, FieldsUsed
<1>. QED BY <1>10, <1>11, <1>12, <1>13, <1>14, <1>16, <1>17, <1>18, <1>19, <1>20 DEF Marks, Shape

(***************************************************************************)
(* The sweep phase and the finalizers.                                     *)
(***************************************************************************)
\* Outside the mark phase there is nothing to say about marking.
LEMMA NotMarking ==
  ASSUME gcstate' \notin Marking
  PROVE  Tricolor' /\ GrayLists' /\ MarkStages'
  BY DEF Tricolor, GrayLists, MarkStages

\* One chain of strings swept.
LEMMA SweepstringStep ==
  ASSUME TypeOK, Marks, Shape, sweepstring
  PROVE  Marks' /\ Shape'
<1>0. PICK B \in SUBSET sweepstr :
        /\ color' = [o \in Obj |-> IF o \in B THEN sweptColor(o) ELSE color[o]]
        /\ sweepstr' = sweepstr \ B
        /\ gcstate' = IF sweepstr \subseteq B THEN "sweep" ELSE "sweepstring"
  BY DEF sweepstring
<1>1. /\ gcstate = "sweepstring" /\ gcstate' \notin Marking
      /\ UNCHANGED <<fld, stk, uvth, uvslot, currentwhite, tmudata, sweepgc, running, level, gmt>>
  BY <1>0 DEF sweepstring, heapVars, udVars, progVars
<1>2. B \subseteq Strings /\ \A s \in B : s \in Obj /\ color[s] # "free"
  BY Kinds DEF TypeOK, Marks, SweepLists, Allocated
<1>3. otherwhite' = otherwhite /\ currentwhite' = currentwhite /\ currentwhite \in Whites /\ otherwhite \in Whites
        /\ currentwhite # otherwhite
  BY <1>1, WhiteFacts DEF otherwhite
<1>4. \A o \in Obj : /\ o \notin B => color'[o] = color[o]
                     /\ o \in B => color'[o] \in {"free", currentwhite}
                     /\ NotDead(o) => NotDead(o)'
                     /\ o \notin Strings => (NotDead(o)' <=> NotDead(o)) /\ color'[o] = color[o]
  <2>. TAKE o \in Obj
  <2>1. color'[o] = IF o \in B THEN sweptColor(o) ELSE color[o]
    BY <1>0
  <2>. QED BY <1>2, <1>3, <2>1 DEF sweptColor, NotDead, isdead
<1>5. /\ \A u : isopen(u)' <=> isopen(u)
      /\ \A o : Refs(o)' = Refs(o)
  BY <1>1 DEF Refs, StackOf, UvVal, isopen
<1>6. NoDangling'
  <2>. SUFFICES ASSUME NEW o \in Obj, NotDead(o)', NEW v \in Refs(o) PROVE NotDead(v)'
    BY <1>5 DEF NoDangling
  <2>1. o \notin Strings
    BY KindRefs DEF Shape
  <2>. QED BY <1>4, <2>1, RefsType DEF Marks, NoDangling
<1>7. RootsAlive'
  <2>1. \A r \in {MainThread, Registry, running, gmt} \ {Nil} : r \in Obj
    BY ConstantsOK, Kinds DEF TypeOK
  <2>. QED BY <1>1, <1>4, <2>1 DEF Marks, RootsAlive
<1>8. SweepPending'
  BY <1>0, <1>1, <1>4 DEF Marks, SweepPending
<1>9. SweepLists'
  <2>1. \A x \in sweepgc \cup tmudata : x \in Obj /\ x \notin Strings
    BY Kinds, KindsDisjoint DEF TypeOK
  <2>2. sweepgc \cup tmudata \subseteq Allocated' /\ \A u \in tmudata : ~isdead(u)'
    BY <1>3, <1>4, <2>1 DEF Marks, SweepLists, Allocated, isdead
  <2>3. sweepstr \ B \subseteq Allocated'
    BY <1>4, Kinds DEF Marks, SweepLists, Allocated, TypeOK
  <2>. QED BY <1>0, <1>1, <1>5, <2>2, <2>3 DEF Marks, SweepLists
<1>10. \A o \in Threads \cup Udatas \cup Upvals : color'[o] = color[o] /\ o \in Obj
  BY <1>4, Kinds, KindsDisjoint
<1>11. MarkKinds'
  BY <1>5, <1>10 DEF Marks, MarkKinds
<1>12. OpenUpvals'
  <2>1. \A u \in Upvals : isopen(u) => uvth[u] \in Threads
    BY DEF isopen, TypeOK
  <2>. QED BY <1>1, <1>5, <1>10, <2>1 DEF Shape, OpenUpvals
<1>13. FreeIsEmpty'
  <2>1. \A s \in Strings : fld[s] = NoFields
    <3>1. \A s \in Strings : fld[s] \in [Field -> Obj \cup {Nil}] /\ \A f \in Field : fld[s][f] = Nil
      BY Kinds, FieldsOfKinds DEF TypeOK, Shape, FieldsUsed
    <3>. QED BY <3>1 DEF NoFields
  <2>2. \A o \in Obj : color'[o] = "free" => fld[o] = NoFields
    BY <1>2, <1>4, <2>1 DEF Shape, FreeIsEmpty
  <2>. QED BY <1>1, <1>5, <1>10, <2>2 DEF Shape, FreeIsEmpty, NoFields, NoStack
<1>14. ResumeChain' /\ FieldsUsed'
  BY <1>1 DEF Shape, ResumeChain, FieldsUsed
<1>. QED BY <1>1, <1>6, <1>7, <1>8, <1>9, <1>11, <1>12, <1>13, <1>14, NotMarking DEF Marks, Shape

\* One other object swept.
LEMMA SweeplistStep ==
  ASSUME TypeOK, Marks, Shape, Finalization, NEW o \in Obj, sweeplist(o)
  PROVE  Marks' /\ Shape'
<1>. DEFINE S     == {o} \cup (IF o \in Threads THEN openOf(o) ELSE {})
            F     == {x \in S : sweptColor(x) = "free"}
            close == unlinked(o, F)
<1>0. /\ color' = [x \in Obj |-> IF x \in S THEN sweptColor(x) ELSE color[x]]
      /\ fld' = [x \in Obj |-> IF x \in F THEN NoFields
                                ELSE IF x \in close THEN [fld[x] EXCEPT !["val"] = UvVal(x)]
                                ELSE fld[x]]
      /\ stk' = [t \in Threads |-> IF t \in F THEN NoStack ELSE stk[t]]
      /\ uvth' = [u \in Upvals |-> IF u \in close THEN Nil ELSE uvth[u]]
      /\ uvslot' = [u \in Upvals |-> IF u \in close THEN 1 ELSE uvslot[u]]
      /\ gcstate = "sweep" /\ gcstate' \in {"sweep", "finalize"} /\ o \in sweepgc
      /\ sweepgc' = sweepgc \ {o}
      /\ UNCHANGED <<currentwhite, tmudata, sweepstr, running, level, gmt>>
  BY DEF sweeplist, progVars
<1>1. otherwhite' = otherwhite /\ currentwhite' = currentwhite /\ currentwhite \in Whites /\ otherwhite \in Whites
        /\ currentwhite # otherwhite
  BY <1>0, WhiteFacts DEF otherwhite
<1>2. color[o] # "free" /\ o \notin Strings /\ (o \in Upvals => ~isopen(o)) /\ o \notin tmudata
  BY <1>0 DEF Marks, SweepLists, Allocated, TypeOK, Finalization
<1>3. S \subseteq Obj /\ \A x \in S : x = o \/ (x \in Upvals /\ isopen(x) /\ uvth[x] = o /\ o \in Threads)
  BY Kinds DEF openOf, isopen
<1>4. \A u \in Upvals : uvth[u] = o => u \in S /\ isopen(u)
  <2>1. \A u \in Upvals : uvth[u] \in Threads \cup {Nil}
    BY DEF TypeOK
  <2>. QED BY <2>1, Kinds DEF openOf, isopen
<1>5. ASSUME NEW x \in S PROVE color[x] # "free" /\ x \notin tmudata /\ (isdead(x) => x \notin Fixed)
  <2>1. color[x] # "free"
    BY <1>2, <1>3 DEF Shape, OpenUpvals
  <2>2. x \notin Strings /\ x \notin tmudata
    BY <1>2, <1>3, KindsDisjoint DEF TypeOK
  <2>3. ~isdead(MainThread)
    BY ConstantsOK, Kinds DEF Marks, RootsAlive, NotDead
  <2>. QED BY <2>1, <2>2, <2>3, ConstantsOK DEF Fixed
<1>6. /\ F = {x \in S : isdead(x)}
      /\ \A x \in Obj : color'[x] = IF x \in F THEN "free" ELSE IF x \in S THEN currentwhite ELSE color[x]
  <2>1. \A x \in S : sweptColor(x) = IF isdead(x) THEN "free" ELSE currentwhite
    BY <1>5 DEF sweptColor
  <2>2. F = {x \in S : isdead(x)}
    BY <1>1, <2>1
  <2>. QED BY <1>0, <2>1, <2>2
<1>7. close = {u \in Upvals : uvth[u] = o /\ (o \in F \/ u \in F)} \cup (IF o \in F THEN {} ELSE F \cap Upvals)
  BY DEF unlinked, openOf
<1>8. /\ \A u \in close : u \in Upvals /\ u \in S
      /\ \A u \in Upvals : u \in F \/ (uvth[u] = o /\ o \in F) => u \in close \/ ~isopen(u)
      /\ \A u \in close : ~isopen(u) => u \in F
      /\ \A x \in F : x \in Obj /\ ~NotDead(x)
      /\ \A t \in Threads : t \in F => t = o
  <2>1. \A u \in close : u \in Upvals /\ u \in S
    BY <1>3, <1>4, <1>7
  <2>2. \A u \in Upvals : u \in F \/ (uvth[u] = o /\ o \in F) => u \in close \/ ~isopen(u)
    BY <1>2, <1>3, <1>6, <1>7
  <2>3. \A u \in close : ~isopen(u) => u \in F
    BY <1>4, <1>7
  <2>4. \A x \in F : x \in Obj /\ ~NotDead(x)
    BY <1>3, <1>6 DEF NotDead
  <2>5. \A t \in Threads : t \in F => t = o
    BY <1>3, <1>6, KindsDisjoint
  <2>. QED BY <2>1, <2>2, <2>3, <2>4, <2>5
<1>. HIDE DEF S, F, close
<1>9. \A x \in Obj : /\ NotDead(x)' <=> NotDead(x)
                     /\ isdead(x)' => isdead(x)
                     /\ x \in F => color'[x] = "free"
                     /\ x \in S => color'[x] \in {"free", currentwhite}
                     /\ x \notin S => color'[x] = color[x]
                     /\ color'[x] = "free" => x \in F \/ (color[x] = "free" /\ x \notin S)
  <2>. TAKE x \in Obj
  <2>1. color'[x] = IF x \in F THEN "free" ELSE IF x \in S THEN currentwhite ELSE color[x]
    BY <1>6
  <2>2. x \in F <=> x \in S /\ isdead(x)
    BY <1>6
  <2>3. x \in S => color[x] # "free"
    BY <1>5
  <2>4. CASE x \in F
    <3>1. color'[x] = "free" /\ isdead(x) /\ x \in S
      BY <2>1, <2>2, <2>4
    <3>2. ~NotDead(x)' /\ ~NotDead(x) /\ ~isdead(x)'
      BY <1>1, <3>1 DEF NotDead, isdead
    <3>. QED BY <2>4, <3>1, <3>2
  <2>5. CASE x \in S /\ x \notin F
    BY <1>1, <2>1, <2>2, <2>3, <2>5 DEF NotDead, isdead
  <2>6. CASE x \notin S
    BY <1>1, <2>1, <2>2, <2>6 DEF NotDead, isdead
  <2>. QED BY <2>4, <2>5, <2>6
<1>10. /\ \A x \in F : fld'[x] = NoFields
       /\ \A x \in Obj : x \notin F /\ x \notin close => fld'[x] = fld[x]
       /\ \A x \in close : x \notin F => fld'[x] = [fld[x] EXCEPT !["val"] = UvVal(x)] /\ fld[x] = NoFields
  <2>1. \A x \in close : x \notin F => x \in Upvals /\ x \in Obj /\ isopen(x)
    BY <1>8, Kinds
  <2>. QED BY <1>0, <1>8, <2>1 DEF Shape, FreeIsEmpty
<1>11. /\ \A u \in close : ~isopen(u)'
       /\ \A u \in Upvals : u \notin close => uvth'[u] = uvth[u] /\ uvslot'[u] = uvslot[u] /\ (isopen(u)' <=> isopen(u))
  BY <1>0, <1>8 DEF isopen
<1>12. ASSUME NEW x \in Obj, x \notin F PROVE Refs(x)' \subseteq Refs(x)
  <2>. SUFFICES ASSUME NEW v, Holds(x, v)' PROVE Holds(x, v)
    BY RefsHolds
  <2>1. v # Nil
    BY DEF Holds
  <2>2. CASE x \in close
    <3>1. x \in Upvals /\ x \notin Threads
      BY <1>8, <2>2, KindsDisjoint
    <3>2. fld'[x] = [NoFields EXCEPT !["val"] = UvVal(x)]
      BY <1>10, <1>12, <2>2
    <3>3. \A f \in Field : fld'[x][f] # Nil => fld'[x][f] = UvVal(x)
      BY <3>2 DEF NoFields
    <3>4. UvVal(x)' = UvVal(x)
      <4>1. UvVal(x)' = fld'[x]["val"]
        BY <1>11, <2>2 DEF UvVal
      <4>. QED BY <3>2, <4>1 DEF NoFields, Field
    <3>. QED BY <2>1, <3>1, <3>3, <3>4 DEF Holds
  <2>3. CASE x \notin close
    <3>1. fld'[x] = fld[x]
      BY <1>10, <1>12, <2>3
    <3>2. x \in Threads => stk'[x] = stk[x]
      BY <1>0, <1>12
    <3>3. x \in Upvals => UvVal(x)' = UvVal(x)
      <4>. SUFFICES ASSUME x \in Upvals PROVE UvVal(x)' = UvVal(x)
        OBVIOUS
      <4>1. isopen(x) => uvth[x] \in Threads /\ uvth[x] \notin F
        BY <1>8, <2>3 DEF isopen, TypeOK
      <4>2. isopen(x) => stk'[uvth[x]] = stk[uvth[x]]
        BY <1>0, <4>1
      <4>. QED BY <1>11, <2>3, <3>1, <4>2 DEF UvVal
    <3>. QED BY <3>1, <3>2, <3>3 DEF Holds
  <2>. QED BY <2>2, <2>3
<1>13. NoDangling'
  <2>. SUFFICES ASSUME NEW x \in Obj, NotDead(x)', NEW v \in Refs(x)' PROVE NotDead(v)'
    BY DEF NoDangling
  <2>1. NotDead(x) /\ x \notin F
    BY <1>8, <1>9
  <2>2. v \in Refs(x) /\ v \in Obj
    BY <1>12, <2>1, RefsType
  <2>. QED BY <1>9, <2>1, <2>2 DEF Marks, NoDangling
<1>14. RootsAlive'
  <2>1. \A r \in {MainThread, Registry, running, gmt} \ {Nil} : r \in Obj
    BY ConstantsOK, Kinds DEF TypeOK
  <2>. QED BY <1>0, <1>9, <2>1 DEF Marks, RootsAlive
<1>15. SweepPending'
  <2>. SUFFICES ASSUME NEW x \in Obj, color'[x] \notin {currentwhite, "free"}
                PROVE  \/ x \in sweepstr' \cup sweepgc' \cup tmudata'
                       \/ x \in Upvals /\ uvth'[x] \in sweepgc'
    BY <1>1 DEF SweepPending
  <2>1. x \notin S /\ color[x] \notin {currentwhite, "free"}
    BY <1>9
  <2>2. x # o /\ x \notin close
    BY <1>8, <2>1 DEF S
  <2>3. \/ x \in sweepstr \cup sweepgc \cup tmudata
        \/ x \in Upvals /\ uvth[x] \in sweepgc
    BY <1>0, <2>1 DEF Marks, SweepPending
  <2>. QED BY <1>0, <1>4, <1>11, <2>1, <2>2, <2>3
<1>16. SweepLists'
  <2>1. ASSUME NEW x \in sweepgc, x # o PROVE x \in Obj /\ x \notin S
    BY <1>3, <2>1 DEF Marks, SweepLists, TypeOK
  <2>2. sweepgc' \cup tmudata \subseteq Allocated'
    <3>1. \A x \in tmudata : x \in Obj /\ x \notin S
      BY <1>5, Kinds DEF TypeOK
    <3>. QED BY <1>0, <1>9, <2>1, <3>1 DEF Marks, SweepLists, Allocated
  <2>3. \A u \in sweepgc' \cap Upvals : ~isopen(u)'
    BY <1>0, <1>11 DEF Marks, SweepLists
  <2>4. \A u \in tmudata : ~isdead(u)'
    BY <1>9, Kinds DEF Marks, SweepLists, TypeOK
  <2>. QED BY <1>0, <2>2, <2>3, <2>4 DEF Marks, SweepLists
<1>17. MarkKinds'
  <2>1. \A x \in Obj : color'[x] \in {"gray", "black"} => color[x] = color'[x] /\ x \notin S
    BY <1>1, <1>9
  <2>. QED BY <1>8, <1>11, <2>1, Kinds DEF Marks, MarkKinds
<1>18. OpenUpvals'
  <2>. SUFFICES ASSUME NEW u \in Upvals, isopen(u)'
                PROVE  /\ color'[u] \notin {"black", "free"}
                       /\ color'[uvth'[u]] # "free"
                       /\ \A w \in Upvals : uvth'[w] = uvth'[u] /\ uvslot'[w] = uvslot'[u] => w = u
    BY DEF OpenUpvals
  <2>1. u \notin close /\ isopen(u) /\ uvth'[u] = uvth[u] /\ uvslot'[u] = uvslot[u] /\ u \in Obj
    BY <1>11, Kinds
  <2>2. u \notin F /\ uvth[u] \notin F /\ uvth[u] \in Threads /\ uvth[u] \in Obj
    BY <1>8, <2>1, Kinds DEF isopen, TypeOK
  <2>3. color[u] \notin {"black", "free"} /\ color[uvth[u]] # "free"
    BY <2>1 DEF Shape, OpenUpvals
  <2>4. color'[u] \notin {"black", "free"} /\ color'[uvth[u]] # "free"
    BY <1>1, <1>9, <2>1, <2>2, <2>3
  <2>5. ASSUME NEW w \in Upvals, uvth'[w] = uvth[u], uvslot'[w] = uvslot[u] PROVE w = u
    <3>1. uvth[u] # Nil
      BY <2>1 DEF isopen
    <3>2. w \notin close
      BY <1>0, <2>5, <3>1
    <3>. QED BY <1>11, <2>1, <2>5, <3>2 DEF Shape, OpenUpvals
  <2>. QED BY <2>1, <2>4, <2>5
<1>19. FreeIsEmpty'
  <2>1. ASSUME NEW x \in Obj, color'[x] = "free" PROVE fld'[x] = NoFields
    BY <1>8, <1>9, <1>10, <2>1 DEF Shape, FreeIsEmpty
  <2>2. ASSUME NEW t \in Threads, color'[t] = "free" PROVE stk'[t] = NoStack
    BY <1>0, <1>9, <2>2, Kinds DEF Shape, FreeIsEmpty
  <2>3. ASSUME NEW u \in Upvals, isopen(u)' PROVE fld'[u] = NoFields
    BY <1>8, <1>10, <1>11, <2>3, Kinds DEF Shape, FreeIsEmpty
  <2>. QED BY <2>1, <2>2, <2>3 DEF FreeIsEmpty, NoFields, NoStack
<1>20. ResumeChain'
  <2>1. ASSUME NEW t \in Threads, t \notin F PROVE fld'[t] = fld[t]
    BY <1>8, <1>10, <2>1, Kinds, KindsDisjoint
  <2>2. ASSUME NEW t \in Threads, t \in F PROVE fld'[t]["co"] = Nil
    BY <1>10, <2>2 DEF NoFields, Field
  <2>3. \A t \in Threads : t = running \/ fld[t]["co"] # Nil => t \notin F
    BY <1>8, ChainAlive DEF Marks, Shape
  <2>4. \A t \in Threads : fld'[t]["co"] = fld[t]["co"]
    BY <2>1, <2>2, <2>3
  <2>. QED BY <1>0, <2>4, SameChain DEF Shape
<1>21. FieldsUsed'
  <2>. SUFFICES ASSUME NEW x \in Obj, NEW f \in Field \ FieldsOf(x) PROVE fld'[x][f] = Nil
    BY DEF FieldsUsed, FieldsOf
  <2>1. CASE x \in F
    BY <1>10, <2>1 DEF NoFields
  <2>2. CASE x \in close /\ x \notin F
    <3>1. f # "val"
      BY <1>8, <2>2, FieldsOfKinds
    <3>2. fld'[x] = [fld[x] EXCEPT !["val"] = UvVal(x)] /\ fld[x] = NoFields
      BY <1>10, <2>2
    <3>3. NoFields = [g \in Field |-> Nil]
      BY DEF NoFields
    <3>. QED BY ONLY <3>1, <3>2, <3>3
  <2>3. CASE x \notin close /\ x \notin F
    BY <1>10, <2>3 DEF Shape, FieldsUsed
  <2>. QED BY <2>1, <2>2, <2>3
<1>. QED BY <1>0, <1>13, <1>14, <1>15, <1>16, <1>17, <1>18, <1>19, <1>20, <1>21, NotMarking DEF Marks, Shape

\* GCTM: the finalizer gets a userdata that is alive.
LEMMA FinalizerStep ==
  ASSUME TypeOK, Marks, Shape, NEW u \in Udatas, NEW i \in Slots, GCTM(u, i)
  PROVE  Marks' /\ Shape'
<1>0. /\ gcstate = "finalize" /\ gcstate' = gcstate /\ u \in tmudata /\ tmudata' = tmudata \ {u}
      /\ color' = [color EXCEPT ![u] = currentwhite]
      /\ stk' = [stk EXCEPT ![running][i] = u] \/ stk' = stk
      /\ UNCHANGED <<fld, uvth, uvslot, currentwhite, sweepstr, sweepgc, running, level, gmt>>
  BY DEF GCTM, swVars, progVars
<1>1. u \in Obj /\ u \notin Upvals /\ u \notin Threads /\ color[u] # "free" /\ ~isdead(u)
  BY <1>0, Kinds, KindsDisjoint DEF Marks, SweepLists, Allocated
<1>2. otherwhite' = otherwhite /\ currentwhite' = currentwhite /\ currentwhite \in Whites /\ otherwhite \in Whites
        /\ currentwhite # otherwhite
  BY <1>0, WhiteFacts DEF otherwhite
<1>3. \A x \in Obj : /\ x # u => color'[x] = color[x]
                     /\ color'[u] = currentwhite
                     /\ NotDead(x)' <=> NotDead(x)
                     /\ isdead(x)' => isdead(x)
                     /\ color'[x] = "free" <=> color[x] = "free"
  <2>. TAKE x \in Obj
  <2>1. color'[u] = currentwhite /\ (x # u => color'[x] = color[x])
    BY <1>0, <1>1 DEF TypeOK
  <2>. QED BY <1>1, <1>2, <2>1 DEF NotDead, isdead
<1>4. \A w \in Upvals : isopen(w)' <=> isopen(w)
  BY <1>0 DEF isopen
<1>5. \A t \in Threads : t # running => stk'[t] = stk[t]
  BY <1>0 DEF TypeOK
<1>6. HeapStep(Nil, {}, {u}, {})
  <2>1. \A t \in Threads, j \in Slots : stk'[t][j] = stk[t][j] \/ stk'[t][j] = u
    BY <1>0 DEF TypeOK
  <2>. QED BY <1>0, <2>1 DEF HeapStep
<1>7. NoDangling'
  <2>. SUFFICES ASSUME NEW x \in Obj, NotDead(x)', NEW v \in Refs(x)' PROVE NotDead(v)'
    BY DEF NoDangling
  <2>1. v \in Refs(x) \/ v = u
    BY <1>6, HeapChange
  <2>2. NotDead(u)
    BY <1>1 DEF NotDead
  <2>. QED BY <1>1, <1>3, <2>1, <2>2, RefsType DEF Marks, NoDangling
<1>8. RootsAlive'
  <2>1. \A r \in {MainThread, Registry, running, gmt} \ {Nil} : r \in Obj
    BY ConstantsOK, Kinds DEF TypeOK
  <2>. QED BY <1>0, <1>3, <2>1 DEF Marks, RootsAlive
<1>9. SweepPending'
  BY <1>0, <1>3 DEF Marks, SweepPending
<1>10. SweepLists'
  <2>1. Allocated' = Allocated
    BY <1>3 DEF Allocated
  <2>2. \A w \in tmudata' : ~isdead(w)'
    BY <1>0, <1>3, Kinds DEF Marks, SweepLists, TypeOK
  <2>. QED BY <1>0, <1>4, <2>1, <2>2 DEF Marks, SweepLists
<1>11. MarkKinds'
  BY <1>1, <1>2, <1>3, <1>4, Kinds DEF Marks, MarkKinds
<1>12. OpenUpvals'
  <2>1. \A w \in Upvals : isopen(w) => uvth[w] \in Threads /\ uvth[w] \in Obj /\ w \in Obj
    BY Kinds DEF isopen, TypeOK
  <2>. QED BY <1>0, <1>1, <1>3, <1>4, <2>1 DEF Shape, OpenUpvals
<1>13. FreeIsEmpty'
  <2>1. color[running] # "free" /\ running \in Obj
    BY Kinds DEF TypeOK, Marks, RootsAlive, NotDead
  <2>. QED BY <1>0, <1>3, <1>4, <1>5, <2>1, Kinds DEF Shape, FreeIsEmpty, NoFields, NoStack
<1>14. ResumeChain' /\ FieldsUsed'
  BY <1>0 DEF Shape, ResumeChain, FieldsUsed
<1>. QED BY <1>0, <1>7, <1>8, <1>9, <1>10, <1>11, <1>12, <1>13, <1>14, NotMarking DEF Marks, Shape

\* A step that changes nothing the invariant looks at, outside the mark phase.
LEMMA StillStep ==
  ASSUME TypeOK, Marks, Shape, gcstate' = gcstate \/ (gcstate = "finalize" /\ gcstate' = "pause"),
         UNCHANGED <<color, fld, stk, uvth, uvslot, currentwhite, gray, grayagain, weak, tmudata,
                     sweepstr, sweepgc, running, level, gmt>>
  PROVE  Marks' /\ Shape'
<1>1. /\ \A o : (NotDead(o)' <=> NotDead(o)) /\ (isdead(o)' <=> isdead(o)) /\ (iswhite(o)' <=> iswhite(o))
      /\ \A o : (isopen(o)' <=> isopen(o)) /\ UvVal(o)' = UvVal(o)
      /\ Allocated' = Allocated
  BY DEF NotDead, isdead, iswhite, otherwhite, isopen, UvVal, Allocated
<1>2. \A o : Refs(o)' = Refs(o) /\ StrongRefs(o)' = StrongRefs(o)
  BY <1>1 DEF Refs, StackOf, StrongRefs, TableRefs, weakkey, weakvalue
<1>3. NoDangling' /\ RootsAlive'
  BY <1>1, <1>2 DEF Marks, NoDangling, RootsAlive
<1>4. Tricolor' /\ GrayLists' /\ SweepPending' /\ SweepLists' /\ MarkKinds'
  BY <1>1, <1>2 DEF Marks, Tricolor, GrayLists, SweepPending, SweepLists, MarkKinds
<1>5. MarkStages'
  BY <1>1, <1>2 DEF Marks, MarkStages
<1>6. Shape'
  BY <1>1 DEF Shape, OpenUpvals, FreeIsEmpty, ResumeChain, FieldsUsed, NoFields, NoStack
<1>. QED BY <1>3, <1>4, <1>5, <1>6 DEF Marks

\* The collector keeps its invariant.
LEMMA CollectorStep ==
  ASSUME TypeOK, Marks, Shape, Finalization, singlestep
  PROVE  Marks' /\ Shape'
<1>1. CASE endcollection
  BY <1>1, StillStep DEF endcollection, heapVars, listVars, udVars, swVars, progVars
<1>. QED
  BY <1>1, MarkrootStep, PropagateStep, RemarkStep, SeparateStep, ClearStep, SweepstringStep,
     SweeplistStep, FinalizerStep
  DEF singlestep

\* lua_newstate leaves a heap in which the invariant holds.
LEMMA InitInvariant ==
  ASSUME Init
  PROVE  Marks /\ Shape
<1>. DEFINE start == {MainThread, Registry, Globals} \cup FixedStrings
<1>1. /\ \A o \in Obj : color[o] = IF o \in start THEN "white0" ELSE "free"
      /\ \A o \in Obj : fld[o] = IF o = MainThread THEN [NoFields EXCEPT !["env"] = Globals] ELSE NoFields
      /\ stk = [t \in Threads |-> NoStack]
      /\ uvth = [u \in Upvals |-> Nil] /\ uvslot = [u \in Upvals |-> 1]
      /\ currentwhite = "white0" /\ gcstate = "pause"
      /\ gray = {} /\ grayagain = {} /\ weak = {} /\ tmudata = {} /\ sweepstr = {} /\ sweepgc = {}
      /\ running = MainThread /\ level = [t \in Threads |-> 0] /\ gmt = Nil
  BY DEF Init
<1>2. start \subseteq Obj /\ MainThread \in Threads /\ Registry \in Tables /\ Nil \notin Obj /\ start \cap Upvals = {}
  BY ConstantsOK, Kinds, KindsDisjoint
<1>3. MainThread \in start /\ Registry \in start /\ Globals \in start
  OBVIOUS
<1>. HIDE DEF start
<1>4. \A o \in Obj : NotDead(o) <=> o \in start
  BY <1>1 DEF NotDead, isdead, otherwhite
<1>5. \A u \in Upvals : ~isopen(u)
  BY <1>1 DEF isopen
<1>6. ASSUME NEW o \in Obj, NEW v \in Refs(o) PROVE v = Globals
  <2>1. Holds(o, v)
    BY RefsHolds
  <2>2. ASSUME NEW f \in Field PROVE fld[o][f] \in {Nil, Globals}
    BY <1>1 DEF NoFields
  <2>3. o \in Threads => \A i \in Slots : stk[o][i] = Nil
    BY <1>1 DEF NoStack
  <2>4. o \in Upvals => UvVal(o) \in {Nil, Globals}
    BY <1>5, <2>2 DEF UvVal, Field
  <2>. QED BY <2>1, <2>2, <2>3, <2>4 DEF Holds
<1>7. NoDangling /\ RootsAlive
  BY <1>1, <1>2, <1>3, <1>4, <1>6 DEF NoDangling, RootsAlive
<1>8. Tricolor /\ GrayLists /\ MarkStages
  BY <1>1 DEF Tricolor, GrayLists, MarkStages
<1>9. SweepPending /\ SweepLists /\ MarkKinds
  BY <1>1, Kinds DEF SweepPending, SweepLists, MarkKinds
<1>10. OpenUpvals
  BY <1>5 DEF OpenUpvals
<1>11. FreeIsEmpty
  BY <1>1, <1>2, <1>3, <1>5 DEF FreeIsEmpty
<1>12. ResumeChain
  <2>1. \A t \in Threads : fld[t]["co"] = Nil
    BY <1>1, Kinds DEF NoFields, Field
  <2>. QED BY <1>1, <1>2, <2>1 DEF ResumeChain
<1>13. FieldsUsed
  <2>. SUFFICES ASSUME NEW o \in Obj, NEW f \in Field \ FieldsOf(o) PROVE fld[o][f] = Nil
    BY DEF FieldsUsed
  <2>1. o = MainThread => f # "env"
    BY <1>2, FieldsOfKinds
  <2>. QED BY <1>1, <2>1 DEF NoFields
<1>. QED BY <1>7, <1>8, <1>9, <1>10, <1>11, <1>12, <1>13 DEF Marks, Shape

(***************************************************************************)
(* The theorems.                                                           *)
(***************************************************************************)
\* In every heap and whatever the program does between two steps of the
\* collector, the state satisfies the whole invariant.
THEOREM SafetyInvariant == Spec => []IInv
<1>1. Init => Marks /\ Shape
  BY InitInvariant
<1>2. TypeOK /\ Finalization /\ Marks /\ Shape /\ [Next]_vars => (Marks /\ Shape)'
  <2>. SUFFICES ASSUME TypeOK, Finalization, Marks, Shape, [Next]_vars PROVE (Marks /\ Shape)'
    OBVIOUS
  <2>1. CASE UNCHANGED vars
    BY <2>1, StillStep DEF vars, heapVars, listVars, udVars, swVars, progVars
  <2>. QED BY <2>1, ProgramStep, CollectorStep DEF Next
<1>3. TypeOK /\ Finalization /\ Marks /\ Shape => IInv
  BY DEF IInv, Marks, Shape
<1>. QED BY <1>1, <1>2, <1>3, TypeCorrect, FinalizationInvariant, PTL DEF Spec

\* No object in use ever points to memory that is freed or condemned.
THEOREM NeverDangling == Spec => []NoDangling
<1>1. IInv => NoDangling
  BY DEF IInv
<1>. QED BY <1>1, SafetyInvariant, PTL

\* The roots of the program are never condemned.
THEOREM RootsStayAlive == Spec => []RootsAlive
<1>1. IInv => RootsAlive
  BY DEF IInv
<1>. QED BY <1>1, SafetyInvariant, PTL

\* While marking, no black object points to a white one: the write barriers
\* of lgc.c suffice.
THEOREM TricolorHolds == Spec => []Tricolor
<1>1. IInv => Tricolor
  BY DEF IInv
<1>. QED BY <1>1, SafetyInvariant, PTL

\* Every gray object is on exactly one of the collector's lists.
THEOREM GrayIsListed == Spec => []GrayLists
<1>1. IInv => GrayLists
  BY DEF IInv
<1>. QED BY <1>1, SafetyInvariant, PTL

\* The sweep in progress still meets everything that is dead or marked.
THEOREM SweepMissesNothing == Spec => []SweepPending
<1>1. IInv => SweepPending
  BY DEF IInv
<1>. QED BY <1>1, SafetyInvariant, PTL

\* An open upvalue is never black, its thread is allocated and no other
\* upvalue shares its register.
THEOREM OpenUpvalues == Spec => []OpenUpvals
<1>1. IInv => OpenUpvals
  BY DEF IInv
<1>. QED BY <1>1, SafetyInvariant, PTL
=============================================================================
