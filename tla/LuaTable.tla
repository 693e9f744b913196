------------------------------ MODULE LuaTable ------------------------------
(***************************************************************************)
(* Lua tables (sources/lua/ltable.c): an array part and a hash part, a     *)
(* chained scatter table with Brent's variation.  The main position of a   *)
(* key is its hash modulo the size of the node vector; a colliding key     *)
(* goes to the last free node and is chained.  When no node is free the    *)
(* table is rehashed into an array part more than half full and a node     *)
(* vector for the rest.                                                    *)
(*                                                                         *)
(* Keys are integers, strings (hashed modulo a power of two) and other     *)
(* objects (hashed modulo an odd number).  The hash of a key is a constant *)
(* of the instance.                                                        *)
(***************************************************************************)
EXTENDS Integers, Sequences, FiniteSets, FiniteSetsExt

CONSTANTS
  IntKeys,   \* numbers with an integral value
  StrKeys,
  ObjKeys,   \* tables, functions, userdata
  Values,
  Nil,
  Hash,      \* the hash value of a key, before it is reduced
  MaxBits,   \* MAXBITS: the logarithm of the largest size of a part
  MaxInt,    \* MAX_INT
  MaxPre     \* the largest size a constructor asks for in advance

Keys == IntKeys \cup StrKeys \cup ObjKeys
Collectable == StrKeys \cup ObjKeys
NoNode == -1

ASSUME TableConstants ==
  /\ IntKeys \subseteq 1..MaxInt /\ Collectable \cap Int = {} /\ Nil \notin Keys \cup Values
  /\ \A k \in Keys : Hash[k] \in Nat
  /\ MaxBits \in Nat /\ MaxInt \in Nat /\ MaxPre \in Nat

VARIABLES
  t,      \* the table
  trav,   \* "idle", "on", or "invalid" when next raised an error
  key,    \* the key of the last call of next
  seen,   \* the keys in the table that the traversal has visited (history)
  hurt    \* a failed rehash has hidden integer keys (history)

vars == <<t, trav, key, seen, hurt>>

(***************************************************************************)
(* Representation.                                                         *)
(***************************************************************************)
emptyNode == [key |-> Nil, dead |-> FALSE, val |-> Nil, next |-> NoNode]

\* size = 0: the shared dummynode, which is never written.
nodevector(size) == [i \in 0..(size - 1) |-> emptyNode]
twoto(n) == LET p[i \in 0..n] == IF i = 0 THEN 1 ELSE 2 * p[i - 1] IN p[n]

sizenode(T) == twoto(T.lsizenode)

ceillog2(n) == Min({l \in 0..n : twoto(l) >= n})

\* setnodevector
newNodes(T, size) ==
  IF size = 0
    THEN [T EXCEPT !.node = nodevector(1), !.lsizenode = 0, !.dummy = TRUE, !.lastfree = 0]
    ELSE LET l == ceillog2(size)
         IN  [T EXCEPT !.node = nodevector(twoto(l)), !.lsizenode = l, !.dummy = FALSE,
                       !.lastfree = twoto(l)]

\* setarrayvector
newArray(T, size) ==
  [T EXCEPT !.array = [i \in 1..size |-> IF i <= Len(T.array) THEN T.array[i] ELSE Nil]]

mainposition(T, k) ==
  IF k \in StrKeys THEN Hash[k] % sizenode(T)
  ELSE Hash[k] % (IF sizenode(T) = 1 THEN 1 ELSE sizenode(T) - 1)

inArray(T, k) == k \in IntKeys /\ k <= Len(T.array)

\* The first node of the chain from n that is one of S, NoNode if none is.
walk(T, n, S) ==
  LET w[m \in DOMAIN T.node \cup {NoNode}] ==
        IF m = NoNode \/ m \in S THEN m ELSE w[T.node[m].next]
  IN  w[n]

\* The node of key k in the chain from n; a dead key only counts where next
\* looks for it.
inchain(T, n, k, deadtoo) ==
  walk(T, n, {m \in DOMAIN T.node : T.node[m].key = k /\ (deadtoo \/ ~T.node[m].dead)})

search(T, k) == inchain(T, mainposition(T, k), k, FALSE)

\* luaH_get, luaH_getnum, luaH_getstr
luaH_get(T, k) ==
  IF inArray(T, k) THEN T.array[k]
  ELSE LET n == search(T, k) IN IF n = NoNode THEN Nil ELSE T.node[n].val

(***************************************************************************)
(* Insertion.                                                              *)
(***************************************************************************)
\* getfreepos: the nodes that were never used, below lastfree.
getfreepos(T) == {i \in 0..(T.lastfree - 1) : T.node[i].key = Nil}

\* Mutant: the chain of the node that moves is not redone.
relink_not(T, mp, n) == T.node

\* The node before mp in the chain of its key now points to n.
previous(T, n, mp) == walk(T, n, {m \in DOMAIN T.node : T.node[m].next = mp})

relink(T, mp, n) ==
  [T.node EXCEPT ![previous(T, mainposition(T, T.node[mp].key), mp)].next = n]

\* Mutant: the shared node is taken for a free one.
isdummy_never(T) == FALSE
isdummy(T) == T.dummy

used(n, k) == [n EXCEPT !.key = k, !.dead = FALSE]

\* newkey, up to the rehash: the table with a node for k, where that node is,
\* or NoNode when the vector is full.
newkey(T, k) ==
  LET mp    == mainposition(T, k)
      free  == getfreepos(T)
      n     == Max(free)
      moved == mainposition(T, T.node[mp].key) # mp
      T1    == [T EXCEPT !.lastfree = n]
  IN  IF T.node[mp].val = Nil /\ ~isdummy(T)
        THEN [tab |-> [T EXCEPT !.node[mp] = used(@, k)], at |-> mp]
      ELSE IF free = {} THEN [tab |-> [T EXCEPT !.lastfree = -1], at |-> NoNode]
      ELSE IF moved
        THEN [tab |-> [T1 EXCEPT !.node = [relink(T, mp, n) EXCEPT
                         ![n] = T.node[mp], ![mp] = used(emptyNode, k)]], at |-> mp]
      ELSE [tab |-> [T1 EXCEPT !.node = [T.node EXCEPT
                       ![n] = [used(@, k) EXCEPT !.next = T.node[mp].next], ![mp].next = n]], at |-> n]

\* luaH_set where the key is known to find a place.  If it did not, newkey
\* would rehash the table in the middle of a rehash: stuck records that.
put(T, k, v) ==
  IF inArray(T, k) THEN [T EXCEPT !.array[k] = v]
  ELSE LET s == search(T, k)
           p == newkey(T, k)
       IN  IF s # NoNode THEN [T EXCEPT !.node[s].val = v]
           ELSE IF p.at = NoNode THEN [T EXCEPT !.stuck = TRUE]
           ELSE [p.tab EXCEPT !.node[p.at].val = v]

(***************************************************************************)
(* Rehash.                                                                 *)
(***************************************************************************)
\* resize: the vanishing slice of the array first, then the old nodes from
\* the last to the first.
resize(T, nasize, nhsize) ==
  LET oldasize == Len(T.array)
      slice    == [i \in 1..(IF nasize < oldasize THEN oldasize - nasize ELSE 0) |->
                     <<nasize + i, T.array[nasize + i]>>]
      nodes    == [i \in 1..sizenode(T) |->
                     LET n == T.node[sizenode(T) - i] IN <<n.key, n.val>>]
      entries  == slice \o nodes
      tab[i \in 0..Len(entries)] ==
        IF i = 0 THEN newNodes(newArray(T, nasize), nhsize)
        ELSE IF entries[i][2] = Nil THEN tab[i - 1]
        ELSE put(tab[i - 1], entries[i][1], entries[i][2])
  IN  tab[Len(entries)]

\* The integer keys in use, in the array part and in the hash part.
arrayKeys(T) == {i \in DOMAIN T.array : T.array[i] # Nil}
nodeKeys(T)  == {T.node[n].key : n \in {m \in DOMAIN T.node : T.node[m].val # Nil}}

\* Mutant: a power of two is counted with the keys above it (log2 for ceillog2).
nums_floor(A, N) ==
  LET slice(i) == twoto(i)..(twoto(i + 1) - 1)
  IN  [i \in 0..MaxBits |-> Cardinality(A \cap slice(i)) + Cardinality(N \cap slice(i))]

\* numusearray, numusehash and countint: how many integer keys lie in
\* (2^(i-1), 2^i], where A are the keys of the array part and N the others.
nums(A, N) ==
  LET slice(i) == {k \in 1..twoto(i) : i > 0 => k > twoto(i - 1)}
  IN  [i \in 0..MaxBits |-> Cardinality(A \cap slice(i)) + Cardinality(N \cap slice(i))]

\* A slice of the array is worth having when more than half of it is in use.
full(a, size) == a > size \div 2

\* computesizes: the size of the array part and how many keys it holds.
computesizes(ns) ==
  LET a[i \in 0..MaxBits] == IF i = 0 THEN ns[0] ELSE a[i - 1] + ns[i]
      narray == a[MaxBits]
      good   == {i \in 0..MaxBits : twoto(i) \div 2 < narray /\ ns[i] > 0 /\ full(a[i], twoto(i))}
  IN  IF good = {} THEN <<0, 0>> ELSE <<twoto(Max(good)), a[Max(good)]>>

\* Mutant: the extra key is not counted.
newsizes_extra(T, ek) ==
  LET A     == arrayKeys(T)
      N     == nodeKeys(T)
      sizes == computesizes(nums(A, N))
  IN  <<sizes[1], Cardinality(A) + Cardinality(N) - sizes[2]>>

\* rehash: the sizes of the two parts for the keys in use and the extra key.
newsizes(T, ek) ==
  LET A     == arrayKeys(T)
      N     == nodeKeys(T)
      sizes == computesizes(nums(A, N \cup {ek}))
  IN  <<sizes[1], Cardinality(A) + Cardinality(N) + 1 - sizes[2]>>

\* setnodevector raises "table overflow".
overflow(nhsize) == nhsize > 0 /\ ceillog2(nhsize) > MaxBits

(***************************************************************************)
(* Traversal and length.                                                   *)
(***************************************************************************)
Error == -2

\* Mutant: a key that the collector has killed is not found.
findindex_live(T, k) ==
  IF k = Nil THEN -1
  ELSE IF inArray(T, k) THEN k - 1
  ELSE IF search(T, k) = NoNode THEN Error ELSE Len(T.array) + search(T, k)

\* findindex: array slots are numbered first, then nodes.  The key may be dead
\* already.
findindex(T, k) ==
  IF k = Nil THEN -1
  ELSE IF inArray(T, k) THEN k - 1
  ELSE LET n == inchain(T, mainposition(T, k), k, TRUE)
       IN  IF n = NoNode THEN Error ELSE Len(T.array) + n

keyAt(T, i) == IF i < Len(T.array) THEN i + 1 ELSE T.node[i - Len(T.array)].key
valAt(T, i) == IF i < Len(T.array) THEN T.array[i + 1] ELSE T.node[i - Len(T.array)].val

\* The elements after position i, and the first of them.
after(T, i) == {j \in (i + 1)..(Len(T.array) + sizenode(T) - 1) : valAt(T, j) # Nil}

\* luaH_getnum on any integer.
getnum(T, k) == IF k \in IntKeys THEN luaH_get(T, k) ELSE Nil

\* A border between i, present or zero, and j, absent.
binsearch(T, i, j) ==
  LET b[p \in Nat \X Nat] ==
        LET m == (p[1] + p[2]) \div 2
        IN  IF p[2] - p[1] <= 1 THEN p[1]
            ELSE b[IF getnum(T, m) = Nil THEN <<p[1], m>> ELSE <<m, p[2]>>]
  IN  b[<<i, j>>]

\* Mutant: the search trusts the last power of two when j overflows.
unbound_search_wrap(T, j) ==
  LET s[p \in Nat \X Nat] ==
        IF p[2] > MaxInt THEN p[1]
        ELSE IF getnum(T, p[2]) # Nil THEN s[<<p[2], 2 * p[2]>>]
        ELSE binsearch(T, p[1], p[2])
  IN  s[<<j, j + 1>>]

\* unbound_search: j doubles until it is absent, or beyond MAX_INT.
unbound_search(T, j) ==
  LET s[p \in Nat \X Nat] ==
        IF p[2] > MaxInt THEN Min({n \in 0..MaxInt : getnum(T, n + 1) = Nil})
        ELSE IF getnum(T, p[2]) # Nil THEN s[<<p[2], 2 * p[2]>>]
        ELSE binsearch(T, p[1], p[2])
  IN  s[<<j, j + 1>>]

luaH_getn(T) ==
  LET j == Len(T.array)
  IN  IF j > 0 /\ T.array[j] = Nil THEN binsearch(T, 0, j)
      ELSE IF T.dummy THEN j
      ELSE unbound_search(T, j)

(***************************************************************************)
(* The operations of a program on one table.                               *)
(***************************************************************************)
\* luaH_new, with the sizes of a constructor.
Init ==
  /\ \E narray, nhash \in 0..MaxPre :
       LET T == [array |-> <<>>, node |-> nodevector(1), lsizenode |-> 0,
                dummy |-> TRUE, lastfree |-> 0, stuck |-> FALSE]
       IN  ~overflow(nhash) /\ t = newNodes(newArray(T, narray), nhash)
  /\ trav = "idle" /\ key = Nil /\ seen = {} /\ hurt = FALSE

abandon == trav' = "idle" /\ key' = Nil /\ seen' = {}

\* The traversal goes on if the key had a value; one that is removed is
\* forgotten.
keepOrAbandon(k, v) ==
  IF luaH_get(t, k) = Nil THEN abandon
  ELSE UNCHANGED <<trav, key>> /\ seen' = IF v = Nil THEN seen \ {k} ELSE seen

\* luaH_set and the assignment of the value: the key has a slot, or newkey
\* finds a node for it.
luaH_set(k, v) ==
  /\ inArray(t, k) \/ search(t, k) # NoNode \/ newkey(t, k).at # NoNode
  /\ t' = put(t, k, v)
  /\ keepOrAbandon(k, v) /\ UNCHANGED hurt

needsRehash(k) == ~inArray(t, k) /\ search(t, k) = NoNode /\ newkey(t, k).at = NoNode

\* luaH_set, where newkey has to rehash.
rehash(k, v) ==
  /\ needsRehash(k)
  /\ LET sizes == newsizes(t, k)
     IN  /\ ~overflow(sizes[2])
         /\ t' = put(resize(newkey(t, k).tab, sizes[1], sizes[2]), k, v)
  /\ abandon /\ UNCHANGED hurt

\* OP_SETLIST: the array part grows at once to the size of the list.
luaH_resizearray(nasize) ==
  /\ nasize > Len(t.array)
  /\ t' = resize(t, nasize, IF t.dummy THEN 0 ELSE sizenode(t))
  /\ abandon /\ UNCHANGED hurt

\* An integer key of the hash part that a slot of the array part hides.
hidden(T) == \E k \in nodeKeys(T) : inArray(T, k)

\* resize raises a memory error, or "table overflow": in setarrayvector before
\* anything has changed, or in setnodevector with the array part grown.
resizefails(T, nasize) ==
  /\ \/ t' = T
     \/ nasize > Len(T.array) /\ t' = newArray(T, nasize)
  /\ hurt' = (hurt \/ hidden(t'))
  /\ abandon

rehashfails(k) == needsRehash(k) /\ resizefails(newkey(t, k).tab, newsizes(t, k)[1])

resizearrayfails(nasize) == nasize > Len(t.array) /\ resizefails(t, nasize)

\* next with a nil key.
startnext ==
  /\ trav' = "on" /\ key' = Nil /\ seen' = {}
  /\ UNCHANGED <<t, hurt>>

luaH_next ==
  /\ trav = "on"
  /\ LET i    == findindex(t, key)
         rest == after(t, i)
     IN  IF i = Error THEN trav' = "invalid" /\ UNCHANGED <<key, seen>>
         ELSE IF rest = {} THEN abandon
         ELSE /\ key' = keyAt(t, Min(rest))
              /\ seen' = seen \cup {keyAt(t, Min(rest))}
              /\ UNCHANGED trav
  /\ UNCHANGED <<t, hurt>>

\* traversetable: the collector kills the key of every node without a value
\* (removeentry).
removeentries ==
  /\ t' = [t EXCEPT !.node = [n \in DOMAIN t.node |->
             [t.node[n] EXCEPT !.dead = @ \/ (t.node[n].val = Nil /\ t.node[n].key \in Collectable)]]]
  /\ t' # t
  /\ UNCHANGED <<trav, key, seen, hurt>>

Next ==
  \/ \E k \in Keys, v \in Values \cup {Nil} : luaH_set(k, v) \/ rehash(k, v)
  \/ \E n \in 1..MaxPre : luaH_resizearray(n) \/ resizearrayfails(n)
  \/ \E k \in Keys : rehashfails(k)
  \/ startnext \/ luaH_next \/ removeentries

Spec == Init /\ [][Next]_vars

(***************************************************************************)
(* Properties.                                                             *)
(***************************************************************************)
\* The table is well formed: a power of two of nodes, links and keys in range.
TypeOK ==
  /\ t.array \in Seq(Values \cup {Nil})
  /\ t.lsizenode \in 0..MaxBits /\ DOMAIN t.node = 0..(sizenode(t) - 1)
  /\ \A n \in DOMAIN t.node :
       t.node[n] \in [key : Keys \cup {Nil}, dead : BOOLEAN, val : Values \cup {Nil},
                      next : DOMAIN t.node \cup {NoNode}]
  /\ t.dummy => t.node = nodevector(1)
  /\ t.lastfree \in -1..sizenode(t)
  /\ trav \in {"idle", "on", "invalid"} /\ key \in Keys \cup {Nil} /\ seen \subseteq Keys
  /\ hurt \in BOOLEAN

\* The comment at the top of ltable.c: an element that is not in its main
\* position collides with one that is in its own.  And every element can be
\* found from its main position, however often nodes were reused or moved.
BrentChains ==
  \A n \in DOMAIN t.node : t.node[n].val # Nil =>
    LET mp == mainposition(t, t.node[n].key)
    IN  /\ search(t, t.node[n].key) = n
        /\ n # mp /\ t.node[mp].val # Nil => mainposition(t, t.node[mp].key) = mp

\* No node above lastfree is unused, so getfreepos forgets none, and a rehash
\* makes room for every key it moves and for the new one.
RoomAfterRehash ==
  /\ ~t.stuck
  /\ \A n \in DOMAIN t.node : t.node[n].key = Nil /\ ~t.dummy => n < t.lastfree

\* luaH_getn returns a border: the length of a list, whatever the history of
\* its table, even when the doubling search passes MAX_INT.
Border ==
  LET n == luaH_getn(t)
  IN  (n = 0 \/ getnum(t, n) # Nil) /\ getnum(t, n + 1) = Nil

\* Whatever key is inserted, a rehash chooses the largest array part, of a
\* power of two slots, that is more than half full, although it counts each
\* part by slices, skips empty slices and stops early (computesizes).  The
\* comment at the top of ltable.c says less, see ArrayAtLeastHalf.
ArrayOptimal ==
  \A k \in Keys : luaH_get(t, k) = Nil /\ ~hurt =>
    LET K    == {x \in IntKeys : luaH_get(t, x) # Nil} \cup {k}
        best == {n \in {twoto(l) : l \in 0..MaxBits} : 2 * Cardinality(K \cap 1..n) > n}
    IN  newsizes(t, k)[1] = (IF best = {} THEN 0 ELSE Max(best))

\* The same of each rehash that stores a value, as the comment at the top of
\* ltable.c has it: "the largest n such that at least half the slots between
\* 0 and n are in use".  The code asks for more than half (computesizes).
ArrayAtLeastHalf ==
  [][(\E k \in Keys, v \in Values : rehash(k, v)) =>
       LET K    == {x \in IntKeys : luaH_get(t', x) # Nil}
           best == {n \in {twoto(l) : l \in 0..MaxBits} : 2 * Cardinality(K \cap 1..n) >= n}
       IN  Len(t'.array) = (IF best = {} THEN 0 ELSE Max(best))]_vars

\* The table is a map and next a traversal of it: LuaMap!Spec.
Map == INSTANCE LuaMap WITH content <- [k \in Keys |-> luaH_get(t, k)]
MapSpec == Map!Spec
=============================================================================
