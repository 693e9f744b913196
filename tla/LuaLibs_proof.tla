--------------------------- MODULE LuaLibs_proof ---------------------------
(***************************************************************************)
(* Proofs about the references and the string buffers of the auxiliary     *)
(* library and about require, for any number of references, characters and *)
(* modules.                                                                *)
(***************************************************************************)
EXTENDS LuaReferences, LuaRequire, LuaBuffer, LuaInduction, SequenceTheorems

(***************************************************************************)
(* luaL_ref and luaL_unref.                                                *)
(***************************************************************************)
Refs == 1 .. MaxRef

\* What the slots hold.
RefType ==
  /\ reftab \in [Slots -> {NoValue} \cup {Value(v) : v \in RefValues} \cup {Link(r) : r \in Refs}]
  /\ DOMAIN owned \subseteq Refs /\ \A r \in DOMAIN owned : owned[r] \in RefValues

\* The links form one list that begins at FREELIST_REF: a link elsewhere is
\* led to, and the slots along the list get further from its beginning.
FreeList ==
  /\ \A s \in Slots \ {FREELIST_REF} : isLink(reftab[s]) => \E u \in Slots : reftab[u] = Link(s)
  /\ \E depth \in [Slots -> Nat] :
       \A s \in Slots : isLink(reftab[s]) => depth[s] < depth[reftab[s][2]]

\* Values, links and empty slots differ.
LEMMA SlotKinds ==
  /\ \A v : Value(v) # NoValue /\ ~isLink(Value(v))
  /\ \A r : Link(r) # NoValue /\ isLink(Link(r)) /\ Link(r)[2] = r
  /\ ~isLink(NoValue)
  /\ \A v, r : Value(v) # Link(r)
  /\ \A r, s : Link(r) = Link(s) => r = s
  /\ FREELIST_REF = 0 /\ FREELIST_REF \in Slots /\ FREELIST_REF \notin Refs /\ Refs \subseteq Slots
  BY RefConstants DEF Value, Link, NoValue, isLink, FREELIST_REF, Slots, Refs

\* A link leads to a slot of the reference table.
LEMMA LinkTarget ==
  ASSUME RefType
  PROVE  \A s \in Slots : isLink(reftab[s]) => reftab[s][2] \in Refs /\ reftab[s] = Link(reftab[s][2])
<1>. TAKE s \in Slots
<1>1. reftab[s] = NoValue \/ (\E v \in RefValues : reftab[s] = Value(v)) \/ (\E r \in Refs : reftab[s] = Link(r))
  BY DEF RefType
<1>. QED BY <1>1, SlotKinds

\* When the list is empty there is no link at all.
LEMMA NoLink ==
  ASSUME RefType, FreeList, ~isLink(reftab[FREELIST_REF])
  PROVE  \A s \in Slots : ~isLink(reftab[s])
<1>. DEFINE bad == {s \in Slots : isLink(reftab[s])}
<1>. SUFFICES ASSUME bad # {} PROVE FALSE
  OBVIOUS
<1>1. PICK depth \in [Slots -> Nat] : \A s \in Slots : isLink(reftab[s]) => depth[s] < depth[reftab[s][2]]
  BY DEF FreeList
<1>. DEFINE X == {depth[s] : s \in bad}
<1>2. X \subseteq Nat /\ X # {}
  OBVIOUS
<1>3. \E m \in X : \A y \in X : ~(y < m)
  <2>. HIDE DEF X
  <2>. QED BY <1>2, Least
<1>4. PICK s \in bad : \A u \in bad : ~(depth[u] < depth[s])
  BY <1>3
<1>5. PICK u \in Slots : reftab[u] = Link(s)
  BY <1>4 DEF FreeList
<1>. QED BY <1>1, <1>4, <1>5, SlotKinds

\* luaL_ref takes the first slot of the list, or one past a border.
LEMMA RefStep ==
  ASSUME RefType, FreeList, RefsKept, NEW v \in RefValues, NEW nomemory \in BOOLEAN, luaL_ref(v, nomemory)
  PROVE  RefType' /\ FreeList' /\ RefsKept'
<1>. USE SlotKinds
<1>1. PICK border \in Borders :
        LET head == reftab[FREELIST_REF]
            ref == IF isLink(head) THEN head[2] ELSE border + 1
            tab == IF isLink(head) THEN Taken(ref) ELSE reftab
        IN  /\ ref <= MaxRef
            /\ reftab' = rawseti(tab, ref, Value(v), nomemory)
            /\ owned' = IF reftab'[ref] = Value(v) THEN Owner(ref, v) ELSE owned
  BY DEF luaL_ref
<1>. DEFINE head == reftab[FREELIST_REF]
            ref == IF isLink(head) THEN head[2] ELSE border + 1
            tab == IF isLink(head) THEN Taken(ref) ELSE reftab
<1>2. /\ reftab' = rawseti(tab, ref, Value(v), nomemory)
      /\ owned' = IF reftab'[ref] = Value(v) THEN Owner(ref, v) ELSE owned
  BY <1>1
<1>3. ref \in Refs /\ ref \in Slots
  <2>1. isLink(head) => head[2] \in Refs
    BY LinkTarget
  <2>2. border + 1 \in 1 .. MaxRef + 1
    BY RefConstants DEF Borders
  <2>3. ref <= MaxRef
    BY <1>1
  <2>. QED BY <2>1, <2>2, <2>3 DEF Refs
<1>4. ref \notin DOMAIN owned /\ \A s \in Slots : reftab[s] = Link(ref) => s = FREELIST_REF
  <2>1. CASE isLink(head)
    <3>1. head = Link(ref)
      BY <2>1, LinkTarget
    <3>. QED BY <2>1, <3>1 DEF RefsKept
  <2>2. CASE ~isLink(head)
    <3>1. reftab[ref] = NoValue
      BY <2>2 DEF Borders
    <3>. QED BY <2>2, <3>1, NoLink DEF RefsKept
  <2>. QED BY <2>1, <2>2
<1>5. /\ \A s \in Slots \ {FREELIST_REF, ref} : reftab'[s] = reftab[s]
      /\ reftab'[FREELIST_REF] = IF isLink(head) THEN reftab[ref] ELSE head
      /\ reftab'[ref] \in {reftab[ref], Value(v)} /\ (reftab'[ref] = reftab[ref] => reftab'[ref] = NoValue \/ reftab'[ref] = Value(v))
      /\ reftab' \in [Slots -> {NoValue} \cup {Value(w) : w \in RefValues} \cup {Link(r) : r \in Refs}]
  <2>1. tab = IF isLink(head) THEN [reftab EXCEPT ![FREELIST_REF] = reftab[ref]] ELSE reftab
    BY DEF Taken
  <2>2. tab \in [Slots -> {NoValue} \cup {Value(w) : w \in RefValues} \cup {Link(r) : r \in Refs}]
    <3>1. reftab[ref] \in {NoValue} \cup {Value(w) : w \in RefValues} \cup {Link(r) : r \in Refs}
      BY <1>3 DEF RefType
    <3>. HIDE DEF tab, ref, head
    <3>. QED BY <2>1, <3>1 DEF RefType
  <2>3. tab[ref] = reftab[ref] /\ tab[FREELIST_REF] = (IF isLink(head) THEN reftab[ref] ELSE head)
          /\ \A s \in Slots \ {FREELIST_REF} : tab[s] = reftab[s]
    <3>. HIDE DEF tab, ref
    <3>1. CASE isLink(head)
      BY <1>3, <2>1, <3>1 DEF RefType
    <3>2. CASE ~isLink(head)
      BY <1>3, <2>1, <3>2 DEF RefType
    <3>. QED BY <3>1, <3>2
  <2>4. (reftab' = tab /\ tab[ref] = NoValue) \/ reftab' = [tab EXCEPT ![ref] = Value(v)]
    BY <1>2 DEF rawseti
  <2>. HIDE DEF tab, ref, head
  <2>. QED BY <1>3, <2>2, <2>3, <2>4
<1>. HIDE DEF tab, ref
<1>6. DOMAIN owned' \subseteq DOMAIN owned \cup {ref} /\ \A r \in DOMAIN owned : r \in DOMAIN owned' /\ owned'[r] = owned[r]
  BY <1>2, <1>4 DEF Owner
<1>7. ref \in DOMAIN owned' => reftab'[ref] = Value(v) /\ owned'[ref] = v
  BY <1>2, <1>4 DEF Owner
<1>8. RefType'
  BY <1>3, <1>5, <1>6, <1>7 DEF RefType, Slots, Refs
<1>9. \A s \in Slots : isLink(reftab'[s]) =>
        /\ reftab'[s] # Link(ref) /\ s # ref
        /\ \/ s # FREELIST_REF /\ reftab'[s] = reftab[s]
           \/ s = FREELIST_REF /\ isLink(head) /\ reftab'[s] = reftab[ref]
  <2>1. isLink(head) => reftab[ref] # Link(ref)
    BY <1>3, <1>4
  <2>2. ~isLink(reftab'[ref])
    BY <1>5
  <2>. QED BY <1>3, <1>4, <1>5, <2>1, <2>2
<1>10. RefsKept'
  <2>1. \A r \in DOMAIN owned' : reftab'[r] = Value(owned'[r])
    <3>1. \A r \in DOMAIN owned : r \in Slots \ {FREELIST_REF, ref}
      BY <1>4 DEF RefType
    <3>. QED BY <1>5, <1>6, <1>7, <3>1 DEF RefsKept
  <2>2. ASSUME NEW s \in Slots, isLink(reftab'[s]) PROVE reftab'[s][2] \notin DOMAIN owned'
    <3>1. reftab'[s][2] # ref
      <4>1. reftab'[s] = Link(reftab'[s][2])
        BY <1>3, <1>9, <2>2, LinkTarget
      <4>. QED BY <1>9, <2>2, <4>1
    <3>2. reftab'[s][2] \notin DOMAIN owned
      BY <1>3, <1>9, <2>2 DEF RefsKept
    <3>. QED BY <1>6, <3>1, <3>2
  <2>3. ASSUME NEW s \in Slots, NEW u \in Slots, isLink(reftab'[s]), reftab'[s] = reftab'[u] PROVE s = u
    BY <1>3, <1>9, <2>3 DEF RefsKept
  <2>. QED BY <2>1, <2>2, <2>3 DEF RefsKept, Slots
<1>11. FreeList'
  <2>1. PICK depth \in [Slots -> Nat] : \A s \in Slots : isLink(reftab[s]) => depth[s] < depth[reftab[s][2]]
    BY DEF FreeList
  <2>2. ASSUME NEW s \in Slots, isLink(reftab'[s]) PROVE depth[s] < depth[reftab'[s][2]]
    <3>1. CASE s = FREELIST_REF
      <4>1. isLink(head) /\ isLink(reftab[ref]) /\ reftab'[s] = reftab[ref] /\ head[2] = ref
        BY <1>9, <2>2, <3>1 DEF ref
      <4>2. depth[s] < depth[ref] /\ depth[ref] < depth[reftab[ref][2]]
        BY <1>3, <2>1, <3>1, <4>1
      <4>3. reftab[ref][2] \in Slots
        BY <1>3, <4>1, LinkTarget
      <4>4. depth[s] \in Nat /\ depth[ref] \in Nat /\ depth[reftab[ref][2]] \in Nat
        BY <1>3, <4>3
      <4>. QED BY <4>1, <4>2, <4>4
    <3>2. CASE s # FREELIST_REF
      BY <1>9, <2>1, <2>2, <3>2
    <3>. QED BY <3>1, <3>2
  <2>3. ASSUME NEW s \in Slots \ {FREELIST_REF}, isLink(reftab'[s]) PROVE \E u \in Slots : reftab'[u] = Link(s)
    <3>1. reftab'[s] = reftab[s] /\ s # ref
      BY <1>9, <2>3
    <3>2. PICK u \in Slots : reftab[u] = Link(s)
      BY <2>3, <3>1 DEF FreeList
    <3>3. CASE u = ref
      <4>1. CASE isLink(head)
        BY <1>5, <3>2, <3>3, <4>1
      <4>2. CASE ~isLink(head)
        BY <1>3, <3>2, <3>3, <4>2, NoLink
      <4>. QED BY <4>1, <4>2
    <3>4. CASE u = FREELIST_REF
      <4>1. head = Link(s) /\ isLink(head)
        BY <3>2, <3>4
      <4>. QED BY <3>1, <4>1 DEF ref
    <3>5. CASE u \notin {FREELIST_REF, ref}
      BY <1>5, <3>2, <3>5
    <3>. QED BY <3>3, <3>4, <3>5
  <2>. QED BY <2>2, <2>3 DEF FreeList, Slots
<1>. QED BY <1>8, <1>10, <1>11

\* luaL_unref puts the slot in front of the list.
LEMMA UnrefStep ==
  ASSUME RefType, FreeList, RefsKept, NEW ref \in Refs, NEW nomemory \in BOOLEAN, luaL_unref(ref, nomemory)
  PROVE  RefType' /\ FreeList' /\ RefsKept'
<1>. USE SlotKinds
<1>1. /\ ref \in DOMAIN owned /\ owned' = [r \in DOMAIN owned \ {ref} |-> owned[r]]
      /\ reftab' = rawseti([reftab EXCEPT ![ref] = reftab[FREELIST_REF]], FREELIST_REF, Link(ref), nomemory)
  BY DEF luaL_unref
<1>2. ref \in Slots /\ ref # FREELIST_REF /\ reftab[ref] = Value(owned[ref]) /\ ~isLink(reftab[ref])
  BY <1>1 DEF RefsKept
<1>3. /\ \A s \in Slots \ {FREELIST_REF, ref} : reftab'[s] = reftab[s]
      /\ reftab'[ref] = reftab[FREELIST_REF]
      /\ reftab'[FREELIST_REF] = Link(ref) \/ (reftab'[FREELIST_REF] = NoValue /\ reftab[FREELIST_REF] = NoValue)
      /\ reftab' \in [Slots -> {NoValue} \cup {Value(w) : w \in RefValues} \cup {Link(r) : r \in Refs}]
  <2>. DEFINE tab == [reftab EXCEPT ![ref] = reftab[FREELIST_REF]]
  <2>1. tab \in [Slots -> {NoValue} \cup {Value(w) : w \in RefValues} \cup {Link(r) : r \in Refs}]
    BY <1>2 DEF RefType
  <2>2. tab[ref] = reftab[FREELIST_REF] /\ tab[FREELIST_REF] = reftab[FREELIST_REF]
          /\ \A s \in Slots \ {ref} : tab[s] = reftab[s]
    BY <1>2 DEF RefType
  <2>3. (reftab' = tab /\ tab[FREELIST_REF] = NoValue) \/ reftab' = [tab EXCEPT ![FREELIST_REF] = Link(ref)]
    BY <1>1 DEF rawseti
  <2>. HIDE DEF tab
  <2>. QED BY <1>2, <2>1, <2>2, <2>3
<1>4. DOMAIN owned' = DOMAIN owned \ {ref} /\ \A r \in DOMAIN owned' : owned'[r] = owned[r]
  BY <1>1
<1>5. RefType'
  BY <1>3, <1>4 DEF RefType, Slots, Refs
<1>6. \A s \in Slots : reftab[s] # Link(ref)
  BY <1>1 DEF RefsKept
<1>7. RefsKept'
  <2>1. \A r \in DOMAIN owned' : reftab'[r] = Value(owned'[r])
    <3>1. \A r \in DOMAIN owned' : r \in Slots \ {FREELIST_REF, ref}
      BY <1>4 DEF RefType
    <3>. QED BY <1>3, <1>4, <3>1 DEF RefsKept
  <2>2. ASSUME NEW s \in Slots, isLink(reftab'[s]) PROVE reftab'[s][2] \notin DOMAIN owned'
    <3>1. reftab'[s] = Link(ref) \/ reftab'[s] = reftab[s] \/ (s = ref /\ reftab'[s] = reftab[FREELIST_REF])
      BY <1>3, <2>2
    <3>. QED BY <1>4, <2>2, <3>1 DEF RefsKept
  <2>3. ASSUME NEW s \in Slots, NEW u \in Slots, isLink(reftab'[s]), reftab'[s] = reftab'[u] PROVE s = u
    BY <1>2, <1>3, <1>6, <2>3 DEF RefsKept
  <2>. QED BY <2>1, <2>2, <2>3 DEF RefsKept, Slots
<1>8. FreeList'
  <2>1. PICK depth \in [Slots -> Nat] : \A s \in Slots : isLink(reftab[s]) => depth[s] < depth[reftab[s][2]]
    BY DEF FreeList
  <2>. DEFINE d == [s \in Slots |-> IF s = FREELIST_REF THEN 0 ELSE IF s = ref THEN 1 ELSE depth[s] + 2]
  <2>2. d \in [Slots -> Nat]
    OBVIOUS
  <2>3. ASSUME NEW s \in Slots, isLink(reftab'[s]) PROVE d[s] < d[reftab'[s][2]]
    <3>1. CASE reftab'[s] = Link(ref)
      BY <1>2, <1>3, <1>6, <3>1
    <3>2. CASE reftab'[s] # Link(ref) /\ s = ref
      <4>1. isLink(reftab[FREELIST_REF]) /\ reftab'[s] = reftab[FREELIST_REF]
        BY <1>3, <2>3, <3>2
      <4>2. reftab'[s][2] \in Refs /\ reftab'[s][2] # ref
        BY <1>6, <4>1, LinkTarget
      <4>3. d[reftab'[s][2]] = depth[reftab'[s][2]] + 2 /\ d[s] = 1
        BY <1>2, <3>2, <4>2
      <4>4. depth[reftab'[s][2]] \in Nat
        BY <4>2
      <4>. QED BY <4>3, <4>4
    <3>3. CASE reftab'[s] # Link(ref) /\ s # ref
      <4>1. s # FREELIST_REF /\ reftab'[s] = reftab[s]
        BY <1>3, <2>3, <3>3
      <4>2. reftab[s][2] \in Refs /\ reftab[s][2] # ref
        BY <1>6, <2>3, <4>1, LinkTarget
      <4>3. d[s] = depth[s] + 2 /\ d[reftab[s][2]] = depth[reftab[s][2]] + 2
        BY <3>3, <4>1, <4>2
      <4>4. depth[s] < depth[reftab[s][2]]
        BY <2>1, <2>3, <4>1
      <4>5. depth[s] \in Nat /\ depth[reftab[s][2]] \in Nat
        BY <4>2
      <4>. QED BY <4>1, <4>3, <4>4, <4>5
    <3>. QED BY <3>1, <3>2, <3>3
  <2>. HIDE DEF d
  <2>4. ASSUME NEW s \in Slots \ {FREELIST_REF}, isLink(reftab'[s]) PROVE \E u \in Slots : reftab'[u] = Link(s)
    <3>1. CASE s = ref
      BY <1>3, <2>4, <3>1
    <3>2. CASE s # ref
      <4>1. PICK u \in Slots : reftab[u] = Link(s)
        BY <1>3, <2>4, <3>2 DEF FreeList
      <4>. QED BY <1>2, <1>3, <4>1
    <3>. QED BY <3>1, <3>2
  <2>5. \E e \in [Slots -> Nat] : \A s \in Slots : isLink(reftab'[s]) => e[s] < e[reftab'[s][2]]
    BY <2>2, <2>3
  <2>. QED BY <2>4, <2>5 DEF FreeList, Slots
<1>. QED BY <1>5, <1>7, <1>8

\* A reference keeps its value until it is given back, however many there
\* are and whichever stores found no memory.
THEOREM ReferencesKept == RefSpec => []RefsKept
<1>1. RefInit => RefType /\ FreeList /\ RefsKept
  <2>. SUFFICES ASSUME RefInit PROVE RefType /\ FreeList /\ RefsKept
    OBVIOUS
  <2>1. reftab = [s \in Slots |-> NoValue] /\ DOMAIN owned = {}
    BY DEF RefInit
  <2>2. [s \in Slots |-> 0] \in [Slots -> Nat] /\ \A s \in Slots : ~isLink(reftab[s])
    BY <2>1, SlotKinds
  <2>. QED BY <2>1, <2>2 DEF RefType, FreeList, RefsKept
<1>2. RefType /\ FreeList /\ RefsKept /\ [RefNext]_refVars => (RefType /\ FreeList /\ RefsKept)'
  <2>. SUFFICES ASSUME RefType, FreeList, RefsKept, [RefNext]_refVars PROVE (RefType /\ FreeList /\ RefsKept)'
    OBVIOUS
  <2>1. CASE UNCHANGED refVars
    BY <2>1 DEF refVars, RefType, FreeList, RefsKept, Slots, Refs
  <2>2. CASE RefNext
    BY <2>2, RefStep, UnrefStep DEF RefNext, Refs
  <2>. QED BY <2>1, <2>2
<1>. QED BY <1>1, <1>2, PTL DEF RefSpec

(***************************************************************************)
(* require.  RequireOnce is inductive with the types and with a count that *)
(* an entry which is set owes one start, and a search under way another.   *)
(***************************************************************************)
Calls == [phase : {"search", "body"}, module : Modules]

RequireType ==
  /\ loaded \in [Modules -> LoadedValues \cup {"sentinel"}]
  /\ running \in Seq(Calls)
  /\ starts \in [Modules -> Nat]
  /\ clears \in [Modules -> Nat]
  /\ overlaps \in [Modules -> Nat]

\* The calls of s that search for m, and whether one runs its body.
searches(s, m) == {k \in DOMAIN s : s[k] = Call("search", m)}
inBody(s, m) == \E k \in DOMAIN s : s[k] = Call("body", m)

Owed(m) ==
  /\ starts[m] + Cardinality(searches(running, m)) <= 1 + clears[m] + overlaps[m]
  /\ loaded[m] \in Falsy /\ searches(running, m) = {} => starts[m] <= clears[m] + overlaps[m]

StartsOwed == \A m \in Modules : Owed(m)

Marked == \A m \in Modules : loaded[m] = "sentinel" => inBody(running, m) \/ m \in failed

RequireInv == RequireType /\ StartsOwed /\ Marked

\* Searches are counted.
LEMMA SearchesCounted ==
  ASSUME NEW s \in Seq(Calls), NEW m
  PROVE  /\ IsFiniteSet(searches(s, m)) /\ Cardinality(searches(s, m)) \in Nat
         /\ Cardinality(searches(s, m)) = 0 <=> searches(s, m) = {}
<1>1. Len(s) \in Nat /\ DOMAIN s = 1 .. Len(s)
  OBVIOUS
<1>2. IsFiniteSet(1 .. Len(s))
  BY <1>1, FS_Interval
<1>3. IsFiniteSet(searches(s, m))
  BY <1>1, <1>2, FS_Subset DEF searches
<1>. QED BY <1>3, FS_CardinalityType, FS_EmptySet

\* What Searching and Running say of the calls of s.
LEMMA CallsUnder ==
  ASSUME NEW s \in Seq(Calls), NEW m \in Modules, NEW phase \in {"search", "body"}
  PROVE  m \in {s[k].module : k \in {c \in DOMAIN s : s[c].phase = phase}}
           <=> \E k \in DOMAIN s : s[k] = Call(phase, m)
<1>1. ASSUME NEW k \in DOMAIN s PROVE (s[k].phase = phase /\ s[k].module = m) <=> s[k] = Call(phase, m)
  <2>1. s[k] \in Calls
    OBVIOUS
  <2>. QED BY <2>1 DEF Calls, Call
<1>. QED BY <1>1

\* A step that starts nothing and begins no search owes no more, if what the
\* program takes back is counted.
LEMMA OwedStep ==
  ASSUME RequireType, StartsOwed, NEW x \in Modules, running' \in Seq(Calls),
         searches(running', x) \subseteq searches(running, x),
         starts'[x] = starts[x], overlaps'[x] = overlaps[x],
         clears'[x] \in Nat, clears[x] <= clears'[x],
         loaded'[x] \in Falsy /\ loaded[x] \notin Falsy => clears[x] + 1 <= clears'[x]
  PROVE  Owed(x)'
<1>. DEFINE s == searches(running, x)
            r == searches(running', x)
<1>1. IsFiniteSet(s) /\ Cardinality(s) \in Nat /\ (Cardinality(s) = 0 <=> s = {})
  BY SearchesCounted DEF RequireType
<1>2. Cardinality(r) \in Nat /\ Cardinality(r) <= Cardinality(s)
  BY <1>1, SearchesCounted, FS_Subset
<1>3. starts[x] \in Nat /\ clears[x] \in Nat /\ overlaps[x] \in Nat
  BY DEF RequireType
<1>4. /\ starts[x] + Cardinality(s) <= 1 + clears[x] + overlaps[x]
      /\ loaded[x] \in Falsy /\ s = {} => starts[x] <= clears[x] + overlaps[x]
  BY DEF StartsOwed, Owed
<1>. HIDE DEF s, r
<1>5. starts'[x] + Cardinality(r) <= 1 + clears'[x] + overlaps'[x]
  BY <1>1, <1>2, <1>3, <1>4
<1>6. ASSUME loaded'[x] \in Falsy PROVE starts'[x] <= clears'[x] + overlaps'[x]
  <2>1. CASE loaded[x] \notin Falsy
    BY <1>1, <1>3, <1>4, <1>6, <2>1
  <2>2. CASE loaded[x] \in Falsy /\ s = {}
    BY <1>3, <1>4, <2>2
  <2>3. CASE s # {}
    BY <1>1, <1>3, <1>4, <2>3
  <2>. QED BY <2>1, <2>2, <2>3
<1>. QED BY <1>5, <1>6 DEF Owed, r

\* An error leaves the calls above the protected call, and nothing else: the
\* bodies that were marked are running or have failed.
LEMMA UnwindStep ==
  ASSUME RequireInv, NEW k \in 0 .. Len(running), Unwind(k),
         UNCHANGED <<loaded, starts, clears, overlaps>>
  PROVE  RequireInv'
<1>1. running \in Seq(Calls) /\ Len(running) \in Nat /\ DOMAIN running = 1 .. Len(running)
  BY DEF RequireInv, RequireType
<1>2. /\ running' = SubSeq(running, 1, k)
      /\ failed' = failed \cup {running[c].module : c \in {b \in k + 1 .. Len(running) : running[b].phase = "body"}}
  BY DEF Unwind
<1>3. running' \in Seq(Calls) /\ DOMAIN running' = 1 .. k /\ \A b \in 1 .. k : running'[b] = running[b]
  BY <1>1, <1>2
<1>4. RequireType'
  BY <1>3 DEF RequireInv, RequireType
<1>5. ASSUME NEW x \in Modules PROVE Owed(x)'
  <2>1. searches(running', x) \subseteq searches(running, x)
    BY <1>1, <1>3 DEF searches
  <2>2. clears[x] \in Nat
    BY DEF RequireInv, RequireType
  <2>. QED BY <1>3, <2>1, <2>2, OwedStep DEF RequireInv
<1>6. ASSUME NEW x \in Modules, inBody(running, x) PROVE inBody(running', x) \/ x \in failed'
  <2>1. PICK b \in 1 .. Len(running) : running[b] = Call("body", x)
    BY <1>1, <1>6 DEF inBody
  <2>2. CASE b <= k
    <3>1. b \in DOMAIN running' /\ running'[b] = Call("body", x)
      BY <1>3, <2>1, <2>2
    <3>. QED BY <3>1 DEF inBody
  <2>3. CASE b > k
    <3>1. b \in k + 1 .. Len(running) /\ running[b].phase = "body" /\ running[b].module = x
      BY <2>1, <2>3 DEF Call
    <3>. QED BY <1>2, <3>1
  <2>. QED BY <2>1, <2>2, <2>3
<1>7. Marked'
  BY <1>2, <1>6 DEF Marked, RequireInv
<1>. QED BY <1>4, <1>5, <1>7 DEF RequireInv, StartsOwed

LEMMA ErrorStep ==
  ASSUME RequireInv, luaL_error
  PROVE  RequireInv'
BY UnwindStep DEF luaL_error

\* What the program stores is counted when it takes an entry back.
LEMMA StoreStep ==
  ASSUME RequireType, StartsOwed, UNCHANGED <<starts, overlaps>>,
         running' \in Seq(Calls), \A x \in Modules : searches(running', x) \subseteq searches(running, x),
         NEW m \in Modules, NEW v \in LoadedValues, Stored(m, v)
  PROVE  /\ RequireType' /\ StartsOwed'
         /\ loaded' = [loaded EXCEPT ![m] = v]
<1>1. loaded' = [loaded EXCEPT ![m] = v]
  BY DEF Stored
<1>2. clears' \in [Modules -> Nat] /\ \A x \in Modules : clears[x] <= clears'[x]
  BY DEF Stored, RequireType
<1>3. Clears(m, v) => clears'[m] = clears[m] + 1
  BY DEF Stored, RequireType
<1>4. RequireType'
  BY <1>1, <1>2 DEF RequireType
<1>5. ASSUME NEW x \in Modules PROVE Owed(x)'
  <2>1. clears'[x] \in Nat /\ clears[x] \in Nat /\ clears[x] <= clears'[x]
    BY <1>2 DEF RequireType
  <2>2. loaded'[x] \in Falsy /\ loaded[x] \notin Falsy => clears[x] + 1 <= clears'[x]
    <3>1. ASSUME loaded'[x] \in Falsy, loaded[x] \notin Falsy PROVE x = m /\ Clears(m, v)
      BY <1>1, <3>1 DEF RequireType, Clears
    <3>. QED BY <1>3, <2>1, <3>1
  <2>. QED BY <2>1, <2>2, OwedStep
<1>. QED BY <1>1, <1>4, <1>5 DEF StartsOwed

\* A search begins: with the entry empty, and counted if another is under way.
LEMMA RequireStep ==
  ASSUME RequireInv, NEW m \in Modules, ll_require(m)
  PROVE  RequireInv'
<1>1. CASE luaL_error
  BY <1>1, ErrorStep
<1>2. CASE UNCHANGED requireVars
  BY <1>2 DEF requireVars, RequireInv, RequireType, StartsOwed, Owed, Marked
<1>3. CASE /\ loaded[m] \in Falsy
           /\ running' = Append(running, Call("search", m))
           /\ overlaps' = IF m \in Searching THEN [overlaps EXCEPT ![m] = @ + 1] ELSE overlaps
           /\ UNCHANGED <<loaded, failed, starts, clears>>
  <2>. DEFINE n == Len(running)
              s == searches(running, m)
  <2>1. running \in Seq(Calls) /\ n \in Nat /\ DOMAIN running = 1 .. n /\ Call("search", m) \in Calls
    BY DEF RequireInv, RequireType, Calls, Call
  <2>2. /\ running' \in Seq(Calls) /\ DOMAIN running' = 1 .. n + 1
        /\ \A k \in 1 .. n : running'[k] = running[k]
        /\ running'[n + 1] = Call("search", m)
    BY <1>3, <2>1
  <2>3. RequireType'
    BY <1>3, <2>2 DEF RequireInv, RequireType
  <2>4. searches(running', m) = s \cup {n + 1} /\ n + 1 \notin s
    BY <2>1, <2>2 DEF searches
  <2>5. ASSUME NEW x \in Modules, x # m PROVE Owed(x)'
    <3>1. Call("search", m) # Call("search", x)
      BY <2>5 DEF Call
    <3>2. searches(running', x) = searches(running, x)
      BY <2>1, <2>2, <3>1 DEF searches
    <3>3. overlaps'[x] = overlaps[x] /\ clears[x] \in Nat
      BY <1>3, <2>5 DEF RequireInv, RequireType
    <3>. QED BY <1>3, <2>2, <3>2, <3>3, OwedStep DEF RequireInv
  <2>6. Owed(m)'
    <3>1. IsFiniteSet(s) /\ Cardinality(s) \in Nat /\ (Cardinality(s) = 0 <=> s = {})
      BY <2>1, SearchesCounted
    <3>2. Cardinality(searches(running', m)) = Cardinality(s) + 1 /\ searches(running', m) # {}
      BY <2>4, <3>1, FS_AddElement
    <3>3. starts[m] \in Nat /\ clears[m] \in Nat /\ overlaps[m] \in Nat
      BY DEF RequireInv, RequireType
    <3>4. /\ starts[m] + Cardinality(s) <= 1 + clears[m] + overlaps[m]
          /\ s = {} => starts[m] <= clears[m] + overlaps[m]
      BY <1>3 DEF RequireInv, StartsOwed, Owed
    <3>5. m \in Searching <=> s # {}
      BY <2>1, CallsUnder DEF Searching, Under, searches
    <3>6. overlaps'[m] = IF m \in Searching THEN overlaps[m] + 1 ELSE overlaps[m]
      BY <1>3 DEF RequireInv, RequireType
    <3>. HIDE DEF s
    <3>7. starts[m] + Cardinality(searches(running', m)) <= 1 + clears[m] + overlaps'[m]
      BY <3>1, <3>2, <3>3, <3>4, <3>5, <3>6
    <3>. QED BY <1>3, <3>2, <3>7 DEF Owed
  <2>7. ASSUME NEW x \in Modules, inBody(running, x) PROVE inBody(running', x)
    BY <2>1, <2>2, <2>7 DEF inBody
  <2>8. Marked'
    BY <1>3, <2>7 DEF RequireInv, Marked
  <2>. QED BY <2>3, <2>5, <2>6, <2>8 DEF RequireInv, StartsOwed
<1>. QED BY <1>1, <1>2, <1>3 DEF ll_require

\* A search becomes a start, and the entry is marked first.
LEMMA FoundMarks ==
  ASSUME RequireInv, NEW n \in Nat \ {0}, n = Len(running),
         NEW m \in Modules, running[n] = Call("search", m),
         loaded' = Entered(m), failed' = failed \ {m},
         starts' = [starts EXCEPT ![m] = @ + 1],
         running' = [running EXCEPT ![n] = Call("body", m)],
         UNCHANGED <<clears, overlaps>>
  PROVE  RequireInv'
<1>. DEFINE s == searches(running, m)
            r == searches(running', m)
<1>1. running \in Seq(Calls) /\ DOMAIN running = 1 .. n
  BY DEF RequireInv, RequireType
<1>2. Call("body", m) \in Calls
  BY DEF Calls, Call
<1>3. /\ running' \in Seq(Calls) /\ DOMAIN running' = 1 .. n
      /\ running'[n] = Call("body", m)
      /\ \A k \in 1 .. n : k # n => running'[k] = running[k]
  BY <1>1, <1>2, ExceptSeq
<1>4. RequireType'
  BY <1>3 DEF RequireInv, RequireType, Entered
<1>5. \A x : Call("body", m) # Call("search", x)
  BY DEF Call
<1>6. ASSUME NEW x \in Modules, x # m PROVE Owed(x)'
  <2>1. searches(running', x) \subseteq searches(running, x)
    BY <1>1, <1>3, <1>5 DEF searches
  <2>2. /\ starts'[x] = starts[x] /\ loaded'[x] = loaded[x]
        /\ clears'[x] = clears[x] /\ overlaps'[x] = overlaps[x] /\ clears[x] \in Nat
    BY <1>6 DEF RequireInv, RequireType, Entered
  <2>3. clears'[x] \in Nat /\ clears[x] <= clears'[x]
    BY <2>2
  <2>4. ~(loaded'[x] \in Falsy /\ loaded[x] \notin Falsy)
    BY <2>2
  <2>5. RequireType /\ StartsOwed /\ running' \in Seq(Calls)
    BY <1>3 DEF RequireInv
  <2>. HIDE DEF s, r
  <2>. QED BY <2>1, <2>2, <2>3, <2>4, <2>5, OwedStep
<1>7. Owed(m)'
  <2>1. r = s \ {n} /\ n \in s
    BY <1>1, <1>3, <1>5 DEF searches
  <2>2. IsFiniteSet(s) /\ Cardinality(s) \in Nat
    BY <1>1, SearchesCounted
  <2>3. Cardinality(r) = Cardinality(s) - 1
    BY <2>1, <2>2, FS_RemoveElement
  <2>4. starts[m] \in Nat /\ clears[m] \in Nat /\ overlaps[m] \in Nat
    BY DEF RequireInv, RequireType
  <2>5. starts[m] + Cardinality(s) <= 1 + clears[m] + overlaps[m]
    BY DEF RequireInv, StartsOwed, Owed
  <2>6. starts'[m] = starts[m] + 1 /\ loaded'[m] = "sentinel"
    BY DEF RequireInv, RequireType, Entered
  <2>. HIDE DEF s, r
  <2>7. starts'[m] + Cardinality(r) <= 1 + clears'[m] + overlaps'[m]
    BY <2>2, <2>3, <2>4, <2>5, <2>6
  <2>. QED BY <2>6, <2>7 DEF Owed, Falsy, r
<1>8. inBody(running', m)
  BY <1>1, <1>3 DEF inBody
<1>9. ASSUME NEW x \in Modules, x # m, loaded'[x] = "sentinel" PROVE inBody(running', x) \/ x \in failed'
  <2>1. loaded[x] = "sentinel"
    BY <1>9 DEF RequireInv, RequireType, Entered
  <2>2. CASE x \in failed
    BY <1>9, <2>2
  <2>3. CASE inBody(running, x)
    <3>1. PICK k \in 1 .. n : running[k] = Call("body", x)
      BY <1>1, <2>3 DEF inBody
    <3>2. k # n
      BY <3>1 DEF Call
    <3>3. k \in DOMAIN running' /\ running'[k] = Call("body", x)
      BY <1>3, <3>1, <3>2
    <3>. QED BY <3>3 DEF inBody
  <2>. QED BY <2>1, <2>2, <2>3 DEF RequireInv, Marked
<1>10. Marked'
  BY <1>8, <1>9 DEF Marked
<1>. QED BY <1>4, <1>6, <1>7, <1>10 DEF RequireInv, StartsOwed

LEMMA FoundStep ==
  ASSUME RequireInv, ll_require_found
  PROVE  RequireInv'
<1>1. running \in Seq(Calls) /\ Len(running) \in Nat \ {0} /\ running[Len(running)] \in Calls
  BY DEF RequireInv, RequireType, ll_require_found, Searches
<1>2. PICK n \in Nat \ {0} : n = Len(running)
  BY <1>1
<1>3. PICK m \in Modules : running[n] = Call("search", m) /\ current.module = m
  <2>1. running[n] \in Calls /\ running[n].phase = "search" /\ current = running[n]
    BY <1>1, <1>2 DEF ll_require_found, Searches, current
  <2>. QED BY <2>1 DEF Calls, Call
<1>4. /\ loaded' = Entered(m) /\ failed' = failed \ {m}
      /\ starts' = [starts EXCEPT ![m] = @ + 1]
      /\ running' = [running EXCEPT ![n] = Call("body", m)]
      /\ UNCHANGED <<clears, overlaps>>
  BY <1>2, <1>3 DEF ll_require_found
<1>. QED BY <1>2, <1>3, <1>4, FoundMarks

\* A body that returns leaves an entry of the program's, never its mark.
LEMMA RequireEndStep ==
  ASSUME RequireInv, NEW result \in LoadedValues, ll_require_end(result)
  PROVE  RequireInv'
<1>. DEFINE n == Len(running)
            m == running[n].module
            v == IF result # "nil" THEN result ELSE loaded[m]
            w == IF v = "sentinel" THEN "true" ELSE v
<1>1. running \in Seq(Calls) /\ n \in Nat \ {0} /\ DOMAIN running = 1 .. n
  BY DEF RequireInv, RequireType, ll_require_end
<1>2. running[n] \in Calls
  BY <1>1
<1>3. m \in Modules
  BY <1>2 DEF Calls
<1>4. w \in LoadedValues
  BY <1>3 DEF RequireInv, RequireType, LoadedValues
<1>5. /\ Stored(m, w) /\ failed' = failed \ {m} /\ running' = SubSeq(running, 1, n - 1)
      /\ UNCHANGED <<starts, overlaps>>
  BY DEF ll_require_end, current
<1>6. running' \in Seq(Calls) /\ DOMAIN running' = 1 .. n - 1 /\ \A k \in 1 .. n - 1 : running'[k] = running[k]
  BY <1>1, <1>5
<1>7. \A x \in Modules : searches(running', x) \subseteq searches(running, x)
  BY <1>1, <1>6 DEF searches
<1>. HIDE DEF w
<1>8. RequireType' /\ StartsOwed' /\ loaded' = [loaded EXCEPT ![m] = w]
  BY <1>3, <1>4, <1>5, <1>6, <1>7, StoreStep DEF RequireInv
<1>9. ASSUME NEW x \in Modules, loaded'[x] = "sentinel" PROVE inBody(running', x) \/ x \in failed'
  <2>1. x # m /\ loaded[x] = "sentinel"
    BY <1>3, <1>4, <1>8, <1>9 DEF RequireInv, RequireType, LoadedValues, Falsy
  <2>2. CASE x \in failed
    BY <1>5, <2>1, <2>2
  <2>3. CASE inBody(running, x)
    <3>1. PICK k \in 1 .. n : running[k] = Call("body", x)
      BY <1>1, <2>3 DEF inBody
    <3>2. k \in 1 .. n - 1
      BY <1>1, <2>1, <3>1 DEF Call
    <3>3. k \in DOMAIN running' /\ running'[k] = Call("body", x)
      BY <1>6, <3>1, <3>2
    <3>. QED BY <3>3 DEF inBody
  <2>. QED BY <2>1, <2>2, <2>3 DEF RequireInv, Marked
<1>. QED BY <1>8, <1>9 DEF RequireInv, Marked

\* The body of a module runs a second time only for a clear or an overlapping
\* search, and its mark is in no entry whose body has returned (ll_require),
\* for any modules, searchers and finalizers that require each other.
THEOREM RequiredOnce == RequireSpec => []RequireOnce
<1>1. RequireInit => RequireInv
  <2>. SUFFICES ASSUME RequireInit PROVE RequireInv
    OBVIOUS
  <2>1. RequireType
    BY DEF RequireInit, RequireType, LoadedValues, Falsy
  <2>2. Marked
    BY DEF RequireInit, Marked
  <2>3. ASSUME NEW m \in Modules PROVE searches(running, m) = {} /\ Cardinality(searches(running, m)) = 0
    BY FS_EmptySet DEF RequireInit, searches
  <2>4. StartsOwed
    BY <2>3 DEF RequireInit, StartsOwed, Owed
  <2>. QED BY <2>1, <2>2, <2>4 DEF RequireInv
<1>2. RequireInv /\ [RequireNext]_requireVars => RequireInv'
  <2>. SUFFICES ASSUME RequireInv, [RequireNext]_requireVars PROVE RequireInv'
    OBVIOUS
  <2>1. CASE UNCHANGED requireVars
    BY <2>1 DEF requireVars, RequireInv, RequireType, StartsOwed, Owed, Marked
  <2>2. ASSUME NEW m \in Modules, ll_require(m) PROVE RequireInv'
    BY <2>2, RequireStep
  <2>3. CASE ll_require_notfound
    <3>1. PICK k \in 0 .. Len(running) - 1 : Unwind(k)
      BY <2>3 DEF ll_require_notfound
    <3>2. k \in 0 .. Len(running)
      BY <3>1 DEF RequireInv, RequireType
    <3>3. UNCHANGED <<loaded, starts, clears, overlaps>>
      BY <2>3 DEF ll_require_notfound
    <3>. QED BY <3>1, <3>2, <3>3, UnwindStep
  <2>4. CASE ll_require_found
    BY <2>4, FoundStep
  <2>5. ASSUME NEW result \in LoadedValues, ll_require_end(result) PROVE RequireInv'
    BY <2>5, RequireEndStep
  <2>6. CASE luaL_error
    BY <2>6, ErrorStep
  <2>7. ASSUME NEW m \in Modules, ll_module(m) PROVE RequireInv'
    <3>1. CASE luaL_error
      BY <3>1, ErrorStep
    <3>2. CASE loaded' = [loaded EXCEPT ![m] = "table"] /\ UNCHANGED <<running, failed, starts, clears, overlaps>>
      <4>1. RequireType'
        BY <3>2 DEF RequireInv, RequireType, LoadedValues
      <4>2. StartsOwed'
        BY <3>2 DEF RequireInv, RequireType, StartsOwed, Owed, Falsy
      <4>3. Marked'
        BY <3>2 DEF RequireInv, RequireType, Marked
      <4>. QED BY <4>1, <4>2, <4>3 DEF RequireInv
    <3>. QED BY <2>7, <3>1, <3>2 DEF ll_module
  <2>8. ASSUME NEW m \in Modules, NEW v \in LoadedValues, Assign(m, v) PROVE RequireInv'
    <3>1. Stored(m, v) /\ UNCHANGED <<running, failed, starts, overlaps>>
      BY <2>8 DEF Assign
    <3>2. running' \in Seq(Calls) /\ \A x \in Modules : searches(running', x) \subseteq searches(running, x)
      BY <3>1 DEF RequireInv, RequireType
    <3>3. RequireType' /\ StartsOwed' /\ loaded' = [loaded EXCEPT ![m] = v]
      BY <3>1, <3>2, StoreStep DEF RequireInv
    <3>4. Marked'
      BY <3>1, <3>3 DEF RequireInv, RequireType, Marked, LoadedValues, Falsy
    <3>. QED BY <3>3, <3>4 DEF RequireInv
  <2>9. CASE RequireNext
    BY <2>2, <2>3, <2>4, <2>5, <2>6, <2>7, <2>8, <2>9 DEF RequireNext
  <2>. QED BY <2>1, <2>9
<1>3. RequireInv => RequireOnce
  <2>. SUFFICES ASSUME RequireInv, NEW m \in Modules
                PROVE  /\ starts[m] <= 1 + clears[m] + overlaps[m]
                       /\ loaded[m] = "sentinel" => m \in Running \cup failed
    BY DEF RequireOnce
  <2>1. running \in Seq(Calls)
    BY DEF RequireInv, RequireType
  <2>2. Cardinality(searches(running, m)) \in Nat
    BY <2>1, SearchesCounted
  <2>3. starts[m] \in Nat /\ clears[m] \in Nat /\ overlaps[m] \in Nat
    BY DEF RequireInv, RequireType
  <2>4. starts[m] + Cardinality(searches(running, m)) <= 1 + clears[m] + overlaps[m]
    BY DEF RequireInv, StartsOwed, Owed
  <2>5. starts[m] <= 1 + clears[m] + overlaps[m]
    BY <2>2, <2>3, <2>4
  <2>6. m \in Running <=> inBody(running, m)
    BY <2>1, CallsUnder DEF Running, Under, inBody
  <2>. QED BY <2>5, <2>6 DEF RequireInv, Marked
<1>. QED BY <1>1, <1>2, <1>3, PTL DEF RequireSpec

(***************************************************************************)
(* Buffers.                                                                *)
(***************************************************************************)
Text == Seq(Nat)

\* The strings joined from the bottom, one by one.
joined(s) == CHOOSE f : f = [k \in 0 .. Len(s) |-> IF k = 0 THEN <<>> ELSE f[k - 1] \o s[k]]

\* concat is defined by its recursion, and a text.
LEMMA Joined ==
  ASSUME NEW s \in Seq(Text)
  PROVE  /\ concat(s) = joined(s)[Len(s)]
         /\ joined(s)[0] = <<>>
         /\ \A k \in 1 .. Len(s) : joined(s)[k] = joined(s)[k - 1] \o s[k]
         /\ \A k \in 0 .. Len(s) : joined(s)[k] \in Text
<1>. DEFINE R(f) == f = [k \in 0 .. Len(s) |-> IF k = 0 THEN <<>> ELSE f[k - 1] \o s[k]]
            G(k) == [v \in Text |-> v \o s[k]]
            g == [k \in 1 .. Len(s) |-> G(k)]
<1>1. Len(s) \in Nat /\ \A k \in 1 .. Len(s) : s[k] \in Text
  BY LenProperties, ElementOfSeq
<1>2. g \in [1 .. Len(s) -> [Text -> Text]] /\ <<>> \in Text
  <2>1. ASSUME NEW k \in 1 .. Len(s) PROVE G(k) \in [Text -> Text]
    <3>1. ASSUME NEW v \in Text PROVE v \o s[k] \in Text
      BY <1>1, ConcatProperties DEF Text
    <3>. QED BY <3>1
  <2>2. <<>> \in Text
    BY DEF Text
  <2>. HIDE DEF G
  <2>. QED BY <2>1, <2>2
<1>3. PICK f \in [0 .. Len(s) -> Text] : IsRecursion(f, <<>>, Len(s), g)
  <2>. HIDE DEF g
  <2>. QED BY <1>1, <1>2, Recursion
<1>4. R(f)
  <2>1. ASSUME NEW k \in 0 .. Len(s) PROVE f[k] = IF k = 0 THEN <<>> ELSE f[k - 1] \o s[k]
    <3>1. CASE k = 0
      BY <1>3, <3>1 DEF IsRecursion
    <3>2. CASE k # 0
      <4>1. k \in 1 .. Len(s) /\ k - 1 \in 0 .. Len(s)
        BY <1>1, <3>2
      <4>2. f[k - 1] \in Text /\ f[k] = g[k][f[k - 1]] /\ g[k] = G(k)
        BY <1>3, <4>1 DEF IsRecursion
      <4>. HIDE DEF g
      <4>. QED BY <3>2, <4>2
    <3>. QED BY <3>1, <3>2
  <2>. QED BY <2>1
<1>5. R(joined(s))
  <2>1. joined(s) = CHOOSE f2 : R(f2)
    BY DEF joined
  <2>. HIDE DEF R
  <2>. QED BY <1>4, <2>1
<1>6. concat(s) = joined(s)[Len(s)]
  BY DEF concat, joined
<1>. HIDE DEF g
<1>7. joined(s)[0] = <<>>
  BY <1>1, <1>5
<1>8. ASSUME NEW k \in 1 .. Len(s) PROVE joined(s)[k] = joined(s)[k - 1] \o s[k]
  <2>1. k \in 0 .. Len(s) /\ k # 0
    BY <1>1
  <2>. DEFINE c == joined(s)
  <2>2. c = [l \in 0 .. Len(s) |-> IF l = 0 THEN <<>> ELSE c[l - 1] \o s[l]]
    BY <1>5
  <2>. HIDE DEF c
  <2>3. c[k] = IF k = 0 THEN <<>> ELSE c[k - 1] \o s[k]
    BY <2>1, <2>2
  <2>. QED BY <2>1, <2>3 DEF c
<1>9. \A k \in 0 .. Len(s) : joined(s)[k] \in Text
  <2>. DEFINE S == {k \in 0 .. Len(s) : joined(s)[k] \in Text}
  <2>1. 0 \in S
    BY <1>1, <1>2, <1>7
  <2>2. ASSUME NEW k \in 0 .. Len(s) - 1, k \in S PROVE k + 1 \in S
    <3>1. k + 1 \in 1 .. Len(s) /\ k + 1 - 1 = k
      BY <1>1
    <3>2. joined(s)[k + 1] = joined(s)[k] \o s[k + 1]
      BY <1>8, <3>1
    <3>4. s[k + 1] \in Text /\ joined(s)[k] \in Text
      BY <1>1, <2>2, <3>1
    <3>3. joined(s)[k + 1] \in Text
      BY <3>2, <3>4, ConcatProperties DEF Text
    <3>. QED BY <1>1, <3>1, <3>3
  <2>. HIDE DEF S
  <2>3. 0 .. Len(s) \subseteq S
    BY <1>1, <2>1, <2>2, BoundedInduction
  <2>. QED BY <2>3 DEF S
<1>. QED BY <1>6, <1>7, <1>8, <1>9

\* What concat does with a sequence built from the bottom.
LEMMA Concat ==
  /\ concat(<<>>) = <<>>
  /\ \A s \in Seq(Text) : concat(s) \in Text
  /\ \A s \in Seq(Text), x \in Text : Append(s, x) \in Seq(Text) /\ concat(Append(s, x)) = concat(s) \o x
<1>1. concat(<<>>) = <<>>
  <2>1. <<>> \in Seq(Text) /\ Len(<<>>) = 0
    OBVIOUS
  <2>. QED BY <2>1, Joined
<1>2. ASSUME NEW s \in Seq(Text) PROVE concat(s) \in Text
  <2>1. Len(s) \in 0 .. Len(s)
    BY LenProperties
  <2>. QED BY <2>1, Joined
<1>3. ASSUME NEW s \in Seq(Text), NEW x \in Text
      PROVE  Append(s, x) \in Seq(Text) /\ concat(Append(s, x)) = concat(s) \o x
  <2>. DEFINE d == Append(s, x)
  <2>1. /\ d \in Seq(Text) /\ Len(d) = Len(s) + 1 /\ d[Len(s) + 1] = x /\ Len(s) \in Nat
        /\ \A k \in 1 .. Len(s) : d[k] = s[k]
    BY AppendProperties, LenProperties
  <2>. HIDE DEF d
  <2>2. joined(d)[0] = joined(s)[0]
    BY <2>1, Joined
  <2>3. ASSUME NEW k \in 1 .. Len(s), joined(d)[k - 1] = joined(s)[k - 1] PROVE joined(d)[k] = joined(s)[k]
    <3>1. k \in 1 .. Len(d)
      BY <2>1
    <3>2. joined(d)[k] = joined(d)[k - 1] \o d[k]
      BY <2>1, <3>1, Joined
    <3>3. joined(s)[k] = joined(s)[k - 1] \o s[k]
      BY Joined
    <3>. QED BY <2>1, <2>3, <3>2, <3>3
  <2>4. \A k \in 0 .. Len(s) : joined(d)[k] = joined(s)[k]
    <3>1. \A k \in 1 .. Len(s) : joined(d)[k - 1] = joined(s)[k - 1] => joined(d)[k] = joined(s)[k]
      BY <2>3
    <3>2. Len(s) \in Nat
      BY <2>1
    <3>. QED BY ONLY <2>2, <3>1, <3>2, SameRecursion, ZenonT(60)
  <2>5. joined(d)[Len(s) + 1] = joined(d)[Len(s)] \o d[Len(s) + 1]
    <3>1. PICK j \in 1 .. Len(d) : j = Len(s) + 1 /\ j - 1 = Len(s)
      BY <2>1
    <3>2. joined(d)[j] = joined(d)[j - 1] \o d[j]
      BY <2>1, Joined
    <3>. QED BY <3>1, <3>2
  <2>6. concat(d) = joined(d)[Len(s) + 1] /\ concat(s) = joined(s)[Len(s)]
    BY <2>1, Joined
  <2>7. joined(d)[Len(s)] = joined(s)[Len(s)]
    BY <2>1, <2>4
  <2>. QED BY <2>1, <2>5, <2>6, <2>7 DEF d
<1>. QED BY <1>1, <1>2, <1>3

\* The order in which three texts are joined does not matter.
LEMMA Associative ==
  ASSUME NEW u \in Text, NEW v \in Text, NEW w \in Text
  PROVE  (u \o v) \o w = u \o (v \o w)
<1>. DEFINE X == Nat
<1>1. u \in Seq(X) /\ v \in Seq(X) /\ w \in Seq(X)
  BY DEF Text
<1>. HIDE DEF X
<1>. QED BY <1>1, ConcatAssociative

\* The parts of a sequence joined in two goes.
LEMMA JoinedParts ==
  ASSUME NEW s \in Seq(Text), NEW m \in 0 .. Len(s)
  PROVE  /\ SubSeq(s, 1, m) \in Seq(Text) /\ Len(SubSeq(s, 1, m)) = m /\ concat(SubSeq(s, 1, m)) \in Text
         /\ concat(SubSeq(s, m + 1, Len(s))) \in Text
         /\ concat(SubSeq(s, 1, m)) \o concat(SubSeq(s, m + 1, Len(s))) = concat(s)
<1>. DEFINE low == SubSeq(s, 1, m)
            part(k) == SubSeq(s, m + 1, m + k)
            S == {k \in 0 .. Len(s) - m : /\ part(k) \in Seq(Text) /\ concat(part(k)) \in Text
                                          /\ concat(low) \o concat(part(k)) = concat(SubSeq(s, 1, m + k))}
<1>1. Len(s) \in Nat /\ m \in Nat /\ Len(s) - m \in Nat /\ \A k \in 1 .. Len(s) : s[k] \in Text
  BY LenProperties, ElementOfSeq
<1>2. \A k \in 0 .. Len(s) : SubSeq(s, 1, k) \in Seq(Text) /\ Len(SubSeq(s, 1, k)) = k
  <2>. TAKE k \in 0 .. Len(s)
  <2>1. k \in Int /\ 1 \in Int /\ \A l \in 1 .. k : s[l] \in Text
    BY <1>1
  <2>. QED BY <1>1, <2>1, SubSeqProperties
<1>3. low \in Seq(Text) /\ concat(low) \in Text
  BY <1>2, Concat
<1>4. 0 \in S
  <2>1. part(0) = <<>> /\ m + 0 = m
    BY <1>1, SubSeqEmpty
  <2>2. <<>> \in Seq(Text) /\ concat(<<>>) = <<>> /\ <<>> \in Text
    BY Concat DEF Text
  <2>3. concat(low) \o <<>> = concat(low)
    BY <1>3, ConcatEmptySeq DEF Text
  <2>. HIDE DEF low, part
  <2>4. concat(low) \o concat(part(0)) = concat(SubSeq(s, 1, m + 0))
    BY <2>1, <2>2, <2>3 DEF low
  <2>5. 0 \in 0 .. Len(s) - m
    BY <1>1
  <2>6. part(0) \in Seq(Text) /\ concat(part(0)) \in Text
    BY ONLY <2>1, <2>2, Zenon
  <2>. QED BY ONLY <2>4, <2>5, <2>6, Zenon DEF S
<1>5. ASSUME NEW k \in 0 .. Len(s) - m - 1, k \in S PROVE k + 1 \in S
  <2>. DEFINE x == s[m + k + 1]
              p == part(k)
              q == SubSeq(s, 1, m + k)
  <2>1. m + k + 1 \in 1 .. Len(s) /\ m + k \in 0 .. Len(s) /\ m + 1 \in 1 .. Len(s)
        /\ m + (k + 1) = m + k + 1 /\ m + k + 1 \in m + 1 .. Len(s) /\ m + k + 1 - 1 = m + k /\ 1 \in 1 .. Len(s)
        /\ m + k + 1 \in 1 .. Len(s) /\ k + 1 \in 0 .. Len(s) - m
    BY <1>1
  <2>2. x \in Text
    BY <1>1, <2>1
  <2>3. p \in Seq(Text) /\ concat(p) \in Text /\ concat(low) \o concat(p) = concat(q)
    BY <1>5
  <2>4. part(k + 1) = Append(p, x)
    <3>1. SubSeq(s, m + 1, m + k + 1) = SubSeq(s, m + 1, m + k + 1 - 1) \o <<x>>
      BY <2>1, SubSeqRecursiveSecond
    <3>2. Append(p, x) = p \o <<x>>
      BY <2>2, <2>3, AppendIsConcat
    <3>. QED BY <2>1, <3>1, <3>2
  <2>5. SubSeq(s, 1, m + k + 1) = Append(q, x)
    <3>1. SubSeq(s, 1, m + k + 1) = SubSeq(s, 1, m + k + 1 - 1) \o <<x>>
      BY <2>1, SubSeqRecursiveSecond
    <3>2. Append(q, x) = q \o <<x>>
      BY <1>2, <2>1, <2>2, AppendIsConcat
    <3>. QED BY <2>1, <3>1, <3>2
  <2>6. q \in Seq(Text)
    BY <1>2, <2>1
  <2>. HIDE DEF p, q, x, low, part
  <2>7. Append(p, x) \in Seq(Text) /\ concat(Append(p, x)) = concat(p) \o x /\ concat(Append(q, x)) = concat(q) \o x
        /\ concat(Append(p, x)) \in Text
    BY <2>2, <2>3, <2>6, Concat
  <2>8. (concat(low) \o concat(p)) \o x = concat(low) \o (concat(p) \o x)
    BY <1>3, <2>2, <2>3, Associative
  <2>9. concat(low) \o concat(part(k + 1)) = concat(SubSeq(s, 1, m + (k + 1)))
    BY <2>1, <2>3, <2>4, <2>5, <2>7, <2>8
  <2>10. part(k + 1) \in Seq(Text) /\ concat(part(k + 1)) \in Text
    BY ONLY <2>4, <2>7, Zenon
  <2>11. k + 1 \in 0 .. Len(s) - m
    BY <2>1
  <2>. QED BY ONLY <2>9, <2>10, <2>11, Zenon DEF S
<1>. HIDE DEF S
<1>6. Len(s) - m \in S
  <2>1. 0 .. Len(s) - m \subseteq S
    BY <1>1, <1>4, <1>5, BoundedInduction
  <2>. QED BY <1>1, <2>1
<1>7. m + (Len(s) - m) = Len(s) /\ SubSeq(s, 1, Len(s)) = s
  BY <1>1, SubSeqFull
<1>. QED BY <1>2, <1>3, <1>6, <1>7 DEF S

\* adjuststack changes no character and leaves a stack that is short enough.
LEMMA Adjusted ==
  ASSUME NEW s \in Seq(Text)
  PROVE  /\ adjuststack(s) \in Seq(Text) /\ concat(adjuststack(s)) = concat(s)
         /\ Len(adjuststack(s)) < LIMIT
<1>1. LIMIT \in Nat /\ 1 < LIMIT /\ Len(s) \in Nat
  BY BufferConstants, LenProperties
<1>2. CASE Len(s) <= 1
  BY <1>1, <1>2 DEF adjuststack
<1>3. CASE ~(Len(s) <= 1)
  <2>. DEFINE top(k) == SubSeq(s, Len(s) - k + 1, Len(s))
              More(k) == Len(s) - k + 1 >= LIMIT \/ Len(concat(top(k))) > Len(s[Len(s) - k])
              ends == {k \in 1 .. Len(s) : k = Len(s) \/ ~More(k)}
  <2>1. toget(s) = CHOOSE k \in ends : \A m \in ends : k <= m
    BY DEF toget
  <2>2. ends \subseteq Nat /\ ends # {}
    BY <1>1, <1>3
  <2>3. toget(s) \in ends
    <3>. HIDE DEF ends
    <3>1. PICK x \in ends : \A y \in ends : ~(y < x)
      BY <2>2, Least
    <3>2. \A y \in ends : x <= y
      BY <2>2, <3>1
    <3>. QED BY <2>1, <3>1, <3>2
  <2>4. PICK k \in 1 .. Len(s) : k = toget(s) /\ (k = Len(s) \/ ~(Len(s) - k + 1 >= LIMIT))
    BY <2>3
  <2>. HIDE DEF ends, top, More
  <2>5. PICK m \in 0 .. Len(s) : m = Len(s) - k /\ m + 1 < LIMIT /\ m + 1 = Len(s) - k + 1
    BY <1>1, <2>4
  <2>. DEFINE low == SubSeq(s, 1, m)
              up == SubSeq(s, m + 1, Len(s))
  <2>6. adjuststack(s) = Append(low, concat(up))
    BY <1>3, <2>4, <2>5 DEF adjuststack
  <2>7. /\ low \in Seq(Text) /\ Len(low) = m /\ concat(up) \in Text
        /\ concat(low) \o concat(up) = concat(s)
    BY JoinedParts
  <2>. HIDE DEF low, up
  <2>8. Append(low, concat(up)) \in Seq(Text) /\ concat(Append(low, concat(up))) = concat(low) \o concat(up)
    BY <2>7, Concat
  <2>9. Len(Append(low, concat(up))) = m + 1
    BY <2>7, AppendProperties
  <2>. QED BY <2>5, <2>6, <2>7, <2>8, <2>9
<1>. QED BY <1>2, <1>3

\* The characters added so far, and those of a call.
Characters(n) == [k \in 1 .. n |-> k]

\* The characters of a call follow those before.
LEMMA NewCharacters ==
  ASSUME added \in Nat, NEW l \in Nat
  PROVE  /\ NewChars(l) \in Text /\ Len(NewChars(l)) = l /\ Characters(added) \in Text
         /\ Characters(added + l) = Characters(added) \o NewChars(l)
<1>1. /\ NewChars(l) \in Text /\ Len(NewChars(l)) = l
      /\ Characters(added) \in Text /\ Len(Characters(added)) = added
  BY DEF NewChars, Characters, Text
<1>2. Characters(added + l) \in Text /\ Len(Characters(added + l)) = added + l
  BY DEF Characters, Text
<1>. DEFINE c == Characters(added) \o NewChars(l)
<1>3. /\ c \in Text /\ Len(c) = added + l
      /\ \A k \in 1 .. added + l : c[k] = IF k <= added THEN Characters(added)[k] ELSE NewChars(l)[k - added]
  <2>. DEFINE u == Characters(added)
              v == NewChars(l)
  <2>1. u \in Seq(Nat) /\ v \in Seq(Nat) /\ Len(u) = added /\ Len(v) = l
    BY <1>1 DEF Text
  <2>. HIDE DEF u, v
  <2>2. /\ u \o v \in Seq(Nat) /\ Len(u \o v) = Len(u) + Len(v)
        /\ \A k \in 1 .. Len(u) + Len(v) : (u \o v)[k] = IF k <= Len(u) THEN u[k] ELSE v[k - Len(u)]
    BY <2>1, ConcatProperties
  <2>. QED BY <2>1, <2>2 DEF u, v, Text
<1>4. ASSUME NEW k \in 1 .. added + l PROVE c[k] = Characters(added + l)[k]
  <2>1. CASE k <= added
    BY <1>3, <2>1 DEF Characters
  <2>2. CASE ~(k <= added)
    <3>1. k - added \in 1 .. l /\ added + (k - added) = k
      BY <2>2
    <3>2. NewChars(l)[k - added] = k
      BY <3>1 DEF NewChars
    <3>. QED BY <1>3, <2>2, <3>2 DEF Characters
  <2>. QED BY <2>1, <2>2
<1>. HIDE DEF c
<1>5. c = Characters(added + l)
  BY <1>2, <1>3, <1>4, SeqEqual DEF Text
<1>. QED BY <1>1, <1>5 DEF c

\* The strings and the buffer are what BufferContents says.
BufferInvariant ==
  /\ buffer \in Text /\ pieces \in Seq(Text) /\ added \in Nat
  /\ concat(pieces) \o buffer = Characters(added)
  /\ Len(buffer) <= LUAL_BUFFERSIZE /\ Len(pieces) < LIMIT

\* Every step keeps what BufferContents says.
LEMMA BufferStep ==
  ASSUME BufferInvariant, [BufferNext]_bufferVars
  PROVE  BufferInvariant'
<1>. DEFINE text == concat(pieces) \o buffer
<1>1. /\ LUAL_BUFFERSIZE \in Nat /\ LUAL_BUFFERSIZE # 0 /\ LIMIT \in Nat /\ 1 < LIMIT
      /\ Len(buffer) \in Nat /\ <<>> \in Text /\ <<>> \in Seq(Text)
  BY BufferConstants, LenProperties DEF BufferInvariant, Text
<1>2. /\ buffer \in Text /\ pieces \in Seq(Text) /\ added \in Nat /\ concat(pieces) \in Text
      /\ text = Characters(added) /\ Len(buffer) <= LUAL_BUFFERSIZE /\ Len(pieces) < LIMIT /\ text \in Text
  BY Concat, NewCharacters DEF BufferInvariant
<1>3. emptybuffer \in Seq(Text) /\ concat(emptybuffer) = text
  <2>1. CASE buffer = <<>>
    BY <1>2, <2>1, ConcatEmptySeq DEF emptybuffer, Text
  <2>2. CASE buffer # <<>>
    BY <1>2, <2>2, Concat DEF emptybuffer
  <2>. QED BY <2>1, <2>2
<1>4. prepared \in Seq(Text) /\ concat(prepared) = text /\ Len(prepared) < LIMIT
  <2>1. CASE buffer = <<>>
    BY <1>2, <1>3, <2>1 DEF prepared, emptybuffer
  <2>2. CASE buffer # <<>>
    BY <1>3, <2>2, Adjusted DEF prepared
  <2>. QED BY <2>1, <2>2
<1>. HIDE DEF text
<1>5. ASSUME NEW l \in 0 .. MaxAdded - added PROVE l \in Nat /\ added + l \in Nat
  BY <1>2, BufferConstants
<1>6. ASSUME NEW l \in Nat
      PROVE  /\ NewChars(l) \in Text /\ Len(NewChars(l)) = l
             /\ Characters(added + l) = text \o NewChars(l)
  BY <1>2, NewCharacters
<1>7. ASSUME NEW l \in 0 .. MaxAdded - added, luaL_prepbuffer(l) PROVE BufferInvariant'
  BY <1>4, <1>5, <1>6, <1>7 DEF luaL_prepbuffer, BufferInvariant
<1>8. ASSUME luaL_addchar PROVE BufferInvariant'
  <2>1. /\ NewChars(1) \in Text /\ Len(NewChars(1)) = 1 /\ added + 1 \in Nat
        /\ Characters(added + 1) = text \o NewChars(1)
    <3>1. PICK l \in Nat : l = 1
      OBVIOUS
    <3>2. /\ NewChars(l) \in Text /\ Len(NewChars(l)) = l
          /\ Characters(added + l) = text \o NewChars(l)
      BY <1>6
    <3>. QED BY <1>2, <3>1, <3>2
  <2>2. NewChars(1) = <<added + 1>>
    BY DEF NewChars
  <2>3. CASE bufffree > 0
    <3>1. buffer' = Append(buffer, added + 1) /\ pieces' = pieces /\ added' = added + 1
      BY <1>8, <2>3 DEF luaL_addchar
    <3>2. Append(buffer, added + 1) = buffer \o NewChars(1)
      BY <1>2, <2>1, <2>2, AppendIsConcat DEF Text
    <3>3. Append(buffer, added + 1) \in Text /\ Len(Append(buffer, added + 1)) = Len(buffer) + 1
      BY <1>2, <2>1, AppendProperties DEF Text
    <3>4. concat(pieces) \o (buffer \o NewChars(1)) = text \o NewChars(1)
      BY <1>2, <2>1, Associative DEF text
    <3>5. Len(buffer) + 1 <= LUAL_BUFFERSIZE
      BY <1>1, <2>3 DEF bufffree
    <3>. QED BY <1>2, <2>1, <3>1, <3>2, <3>3, <3>4, <3>5 DEF BufferInvariant
  <2>4. CASE ~(bufffree > 0)
    <3>1. buffer' = NewChars(1) /\ pieces' = prepared /\ added' = added + 1
      BY <1>8, <2>4 DEF luaL_addchar
    <3>2. 1 <= LUAL_BUFFERSIZE
      BY <1>1
    <3>3. concat(pieces') \o buffer' = text \o NewChars(1)
      BY <1>4, <3>1
    <3>4. buffer' \in Text /\ Len(buffer') <= LUAL_BUFFERSIZE
      BY <2>1, <3>1, <3>2
    <3>. QED BY <1>4, <2>1, <3>1, <3>3, <3>4 DEF BufferInvariant
  <2>. QED BY <2>3, <2>4
<1>9. ASSUME NEW l \in 0 .. MaxAdded - added, luaL_addvalue(l) PROVE BufferInvariant'
  <2>1. /\ NewChars(l) \in Text /\ Len(NewChars(l)) = l /\ l \in Nat /\ added + l \in Nat
        /\ Characters(added + l) = text \o NewChars(l)
    BY <1>5, <1>6
  <2>2. CASE l <= bufffree
    <3>1. buffer \o NewChars(l) \in Text /\ Len(buffer \o NewChars(l)) = Len(buffer) + l
      BY <1>2, <2>1, ConcatProperties DEF Text
    <3>2. concat(pieces) \o (buffer \o NewChars(l)) = text \o NewChars(l)
      BY <1>2, <2>1, Associative DEF text
    <3>3. Len(buffer) + l <= LUAL_BUFFERSIZE
      BY <1>1, <2>1, <2>2 DEF bufffree
    <3>. QED BY <1>2, <1>9, <2>1, <2>2, <3>1, <3>2, <3>3 DEF luaL_addvalue, BufferInvariant
  <2>3. CASE ~(l <= bufffree)
    <3>1. Inserted(NewChars(l)) \in Seq(Text) /\ concat(Inserted(NewChars(l))) = text \o NewChars(l)
      BY <1>3, <2>1, Concat DEF Inserted
    <3>2. /\ pieces' \in Seq(Text) /\ concat(pieces') = text \o NewChars(l) /\ Len(pieces') < LIMIT
          /\ buffer' = <<>> /\ added' = added + l
      BY <1>9, <2>3, <3>1, Adjusted DEF luaL_addvalue
    <3>3. concat(pieces') \o <<>> = concat(pieces')
      BY <3>2, Concat, ConcatEmptySeq DEF Text
    <3>. QED BY <1>1, <2>1, <3>2, <3>3 DEF BufferInvariant
  <2>. QED BY <2>2, <2>3
<1>10. ASSUME luaL_pushresult PROVE BufferInvariant'
  <2>1. text \in Text /\ <<text>> = Append(<<>>, text) /\ pieces' = <<text>> /\ buffer' = <<>> /\ added' = added
    BY <1>2, <1>3, <1>10 DEF luaL_pushresult
  <2>2. concat(<<text>>) = <<>> \o text /\ <<text>> \in Seq(Text) /\ Len(<<text>>) = 1
    BY <1>1, <2>1, Concat
  <2>3. <<>> \o text = text /\ text \o <<>> = text
    BY <2>1, ConcatEmptySeq DEF Text
  <2>. QED BY <1>1, <1>2, <2>1, <2>2, <2>3 DEF BufferInvariant
<1>11. ASSUME luaL_buffinit PROVE BufferInvariant'
  BY <1>1, <1>11, Concat DEF luaL_buffinit, BufferInvariant, Characters
<1>12. CASE UNCHANGED bufferVars
  BY <1>12 DEF bufferVars, BufferInvariant
<1>. QED BY <1>7, <1>8, <1>9, <1>10, <1>11, <1>12 DEF BufferNext

\* The characters given to a buffer are kept, in their order, and fewer than
\* LIMIT stack slots are used between calls, for any size of the buffer, any
\* LIMIT and any sequence of calls.
THEOREM BufferKept == BufferSpec => []BufferContents
<1>1. BufferInit => BufferInvariant
  <2>1. concat(<<>>) = <<>> /\ <<>> \in Text /\ <<>> \in Seq(Text) /\ <<>> \o <<>> = <<>> /\ Len(<<>>) = 0
        /\ Characters(0) = <<>>
    BY Concat DEF Text, Characters
  <2>. QED BY <2>1, BufferConstants DEF BufferInit, BufferInvariant
<1>2. BufferInvariant /\ [BufferNext]_bufferVars => BufferInvariant'
  BY BufferStep
<1>3. BufferInvariant => BufferContents
  BY DEF BufferInvariant, BufferContents, Characters
<1>. QED BY <1>1, <1>2, <1>3, PTL DEF BufferSpec
=============================================================================
