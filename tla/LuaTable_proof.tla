---------------------------- MODULE LuaTable_proof ----------------------------
(***************************************************************************)
(* Proofs about LuaTable, for any keys, hash values and sizes.             *)
(***************************************************************************)
EXTENDS LuaTable, LuaInduction, SequenceTheorems

(***************************************************************************)
(* The inductive invariant.                                                *)
(***************************************************************************)
Slots    == Values \cup {Nil}
Nodes(l) == 0..(twoto(l) - 1)
Node(l)  == [key : Keys \cup {Nil}, dead : BOOLEAN, val : Slots, next : Nodes(l) \cup {NoNode}]

\* A table with a node vector of 2^l nodes.
Table(l) == [array : Seq(Slots), node : [Nodes(l) -> Node(l)], lsizenode : {l},
             dummy : BOOLEAN, lastfree : Int, stuck : BOOLEAN]

Shaped(T) == T.lsizenode \in 0..MaxBits /\ T \in Table(T.lsizenode)

\* The nodes of the chain from x, in a node vector N: the least set with x
\* that holds the next node of each of its members.
Closed(N, X) == \A z \in X : N[z].next # NoNode => N[z].next \in X
Chain(N, x)   == {y \in DOMAIN N : \A X \in SUBSET DOMAIN N : x \in X /\ Closed(N, X) => y \in X}

\* Chains end: along each a natural number decreases.
RankOf(N, r) == \A n \in DOMAIN N : r[N[n].next] < r[n]
Ranked(N)    == \E r \in [DOMAIN N \cup {NoNode} -> Nat] : RankOf(N, r)

\* No two nodes have the same next node, and a node without key is in no chain.
Single(N) == \A m, n \in DOMAIN N : N[m].next = N[n].next /\ N[m].next # NoNode => m = n
Blank(N)  == \A n \in DOMAIN N : N[n].key = Nil => N[n] = emptyNode /\ \A m \in DOMAIN N : N[m].next # n

\* A key is not in its main position only if a key is there that is in its own.
Homes(T) ==
  \A n \in DOMAIN T.node : T.node[n].key # Nil =>
    LET mp == mainposition(T, T.node[n].key)
    IN  n # mp => T.node[mp].key # Nil /\ mainposition(T, T.node[mp].key) = mp

\* A key is in the chain from its main position, and the nodes where it died
\* come after the one where it lives.
Reached(T) ==
  \A n \in DOMAIN T.node : T.node[n].key # Nil =>
    LET chain == Chain(T.node, mainposition(T, T.node[n].key))
    IN  /\ n \in chain
        /\ ~T.node[n].dead => \A d \in chain : T.node[d].key = T.node[n].key => d \in Chain(T.node, n)

\* Dead keys have no value, and only integer keys have slots in the array.
Alive(T) ==
  /\ \A n \in DOMAIN T.node : T.node[n].val # Nil => ~T.node[n].dead
  /\ \A i \in DOMAIN T.array : T.array[i] # Nil => i \in IntKeys

\* The shared node is empty; lastfree is above every node that is.
Free(T) ==
  /\ T.dummy => T.lsizenode = 0 /\ T.node = nodevector(1) /\ T.lastfree \in -1..0
  /\ T.lastfree \in -1..twoto(T.lsizenode)
  /\ ~T.dummy => \A n \in DOMAIN T.node : T.node[n].key = Nil => n < T.lastfree

Chained(T) == Ranked(T.node) /\ Single(T.node) /\ Blank(T.node) /\ Homes(T) /\ Reached(T)

Good(T) == Shaped(T) /\ Chained(T) /\ Alive(T) /\ Free(T)

(***************************************************************************)
(* Numbers.                                                                *)
(***************************************************************************)
\* A set of natural numbers has a least member, and a bounded one a greatest.
LEMMA MinFacts ==
  ASSUME NEW X, X \subseteq Nat, X # {}
  PROVE  Min(X) \in X /\ \A x \in X : Min(X) <= x
<1>1. PICK x \in X : \A y \in X : ~(y < x)
  BY Least
<1>2. x \in X /\ \A y \in X : x <= y
  BY <1>1
<1>. QED BY <1>2 DEF Min

LEMMA MaxFacts ==
  ASSUME NEW m \in Nat, NEW X, X \subseteq 0..m, X # {}
  PROVE  Max(X) \in X /\ \A x \in X : x <= Max(X)
<1>. DEFINE Y == {m - x : x \in X}
<1>1. Y \subseteq Nat /\ Y # {}
  <2>1. PICK x \in X : TRUE
    OBVIOUS
  <2>2. m - x \in Y
    OBVIOUS
  <2>3. \A z \in X : m - z \in Nat
    OBVIOUS
  <2>. QED BY <2>2, <2>3
<1>2. PICK y \in Y : \A z \in Y : ~(z < y)
  <2>. HIDE DEF Y
  <2>. QED BY <1>1, Least
<1>3. PICK x \in X : y = m - x
  BY <1>2
<1>4. ASSUME NEW z \in X PROVE x >= z
  <2>1. m - z \in Y /\ z \in 0..m /\ x \in 0..m
    OBVIOUS
  <2>2. ~(m - z < y)
    BY <2>1, <1>2
  <2>. QED BY ONLY <2>1, <2>2, <1>3, m \in Nat
<1>5. \E u \in X : \A z \in X : u >= z
  BY <1>4
<1>6. Max(X) \in X /\ \A z \in X : Max(X) >= z
  BY <1>5 DEF Max
<1>. QED BY <1>6

\* The powers of two, from the one before each.
Doubles(p, m) == p[0] = 1 /\ \A k \in 1..m : p[k] = 2 * p[k - 1]

LEMMA SameDoubling ==
  ASSUME NEW m \in Nat, NEW p, NEW q, Doubles(p, m), Doubles(q, m)
  PROVE  \A k \in 0..m : p[k] = q[k]
<1>1. p[0] = q[0] /\ \A k \in 1..m : p[k - 1] = q[k - 1] => p[k] = q[k]
  BY DEF Doubles
<1>. QED BY <1>1, SameRecursion

LEMMA TwotoValues ==
  ASSUME NEW m \in Nat
  PROVE  \E p : Doubles(p, m) /\ twoto(m) = p[m] /\ p[m] \in Nat
<1>. DEFINE Is(p) == p = [i \in 0..m |-> IF i = 0 THEN 1 ELSE 2 * p[i - 1]]
            q == CHOOSE p : Is(p)
            g == [i \in 1..m |-> [x \in Nat |-> 2 * x]]
<1>1. PICK c \in [0..m -> Nat] : IsRecursion(c, 1, m, g)
  <2>1. g \in [1..m -> [Nat -> Nat]] /\ 1 \in Nat
    OBVIOUS
  <2>. HIDE DEF g
  <2>. QED BY <2>1, Recursion
<1>2. Doubles(c, m)
  <2>1. ASSUME NEW k \in 1..m PROVE k - 1 \in 0..m
    OBVIOUS
  <2>. QED BY <1>1, <2>1 DEF IsRecursion, Doubles
<1>3. Is(c)
  <2>1. ASSUME NEW k \in 0..m PROVE c[k] = IF k = 0 THEN 1 ELSE 2 * c[k - 1]
    BY <1>2 DEF Doubles
  <2>. QED BY <2>1
<1>4. Is(q)
  BY <1>3
<1>5. twoto(m) = q[m]
  BY DEF twoto
<1>. HIDE DEF q
<1>6. Doubles(q, m)
  BY <1>4 DEF Doubles
<1>7. \A k \in 0..m : c[k] = q[k]
  BY ONLY <1>2, <1>6, m \in Nat, SameDoubling
<1>8. q[m] \in Nat
  <2>1. c[m] \in Nat /\ c[m] = q[m]
    BY <1>7
  <2>. QED BY <2>1
<1>. QED BY <1>5, <1>6, <1>8

LEMMA TwotoZero == twoto(0) = 1
BY TwotoValues DEF Doubles

LEMMA TwotoNext ==
  ASSUME NEW m \in Nat
  PROVE  twoto(m) \in Nat /\ twoto(m + 1) = 2 * twoto(m)
<1>1. PICK p : Doubles(p, m) /\ twoto(m) = p[m] /\ p[m] \in Nat
  BY TwotoValues
<1>2. PICK q : Doubles(q, m + 1) /\ twoto(m + 1) = q[m + 1]
  <2>1. m + 1 \in Nat
    OBVIOUS
  <2>. QED BY ONLY <2>1, TwotoValues
<1>3. m \in 0..m /\ m + 1 \in 1..m + 1 /\ m + 1 - 1 = m /\ 1..m \subseteq 1..m + 1
  OBVIOUS
<1>4. Doubles(q, m) /\ q[m + 1] = 2 * q[m]
  BY <1>2, <1>3 DEF Doubles
<1>5. p[m] = q[m]
  <2>1. \A k \in 0..m : p[k] = q[k]
    BY <1>1, <1>4, SameDoubling
  <2>. QED BY <1>3, <2>1
<1>. QED BY <1>1, <1>2, <1>4, <1>5

\* They grow faster than their exponents.
LEMMA TwotoGrows == \A n \in Nat : twoto(n) \in Nat /\ n < twoto(n)
<1>. DEFINE S == {n \in Nat : twoto(n) \in Nat /\ n < twoto(n)}
<1>1. 0 \in S
  BY TwotoZero
<1>2. ASSUME NEW n \in Nat, n \in S PROVE n + 1 \in S
  <2>1. twoto(n) \in Nat /\ twoto(n + 1) = 2 * twoto(n) /\ n < twoto(n)
    BY <1>2, TwotoNext
  <2>. QED BY <2>1
<1>3. Nat \subseteq S
  <2>. HIDE DEF S
  <2>. QED BY <1>1, <1>2, SetInduction
<1>. QED BY <1>3

LEMMA TwotoMonotone ==
  ASSUME NEW m \in Nat, NEW n \in Nat, m < n
  PROVE  2 * twoto(m) <= twoto(n)
<1>. DEFINE S == {i \in Nat : 2 * twoto(m) <= twoto(m + 1 + i)}
<1>1. 0 \in S
  BY TwotoNext
<1>2. ASSUME NEW i \in Nat, i \in S PROVE i + 1 \in S
  <2>1. m + 1 + i \in Nat /\ m + 1 + (i + 1) = (m + 1 + i) + 1 /\ twoto(m) \in Nat
    BY TwotoGrows
  <2>2. twoto(m + 1 + i) \in Nat /\ twoto((m + 1 + i) + 1) = 2 * twoto(m + 1 + i)
    BY ONLY <2>1, TwotoNext
  <2>. QED BY <1>2, <2>1, <2>2
<1>3. Nat \subseteq S
  <2>. HIDE DEF S
  <2>. QED BY <1>1, <1>2, SetInduction
<1>4. n - m - 1 \in S /\ m + 1 + (n - m - 1) = n
  <2>1. n - m - 1 \in Nat
    OBVIOUS
  <2>. HIDE DEF S
  <2>. QED BY <1>3, <2>1
<1>. QED BY <1>4

\* The logarithm, rounded up.
LEMMA CeilFacts ==
  ASSUME NEW n \in Nat, n # 0
  PROVE  /\ ceillog2(n) \in Nat /\ twoto(ceillog2(n)) \in Nat /\ n <= twoto(ceillog2(n))
         /\ \A l \in Nat : n = twoto(l) => ceillog2(n) = l
<1>. DEFINE X == {l \in 0..n : twoto(l) >= n}
<1>1. n \in X /\ X \subseteq Nat
  BY TwotoGrows
<1>2. Min(X) \in X /\ \A x \in X : Min(X) <= x
  <2>. HIDE DEF X
  <2>. QED BY <1>1, MinFacts
<1>3. ceillog2(n) = Min(X)
  BY DEF ceillog2
<1>4. ASSUME NEW l \in Nat, n = twoto(l) PROVE Min(X) = l
  <2>1. l \in X /\ Min(X) \in Nat /\ twoto(Min(X)) >= twoto(l)
    BY <1>2, <1>4, TwotoGrows
  <2>2. Min(X) <= l
    <3>. HIDE DEF X
    <3>. QED BY <2>1, <1>2
  <2>3. ~(Min(X) < l)
    <3>1. SUFFICES ASSUME Min(X) < l PROVE FALSE
      OBVIOUS
    <3>. HIDE DEF X
    <3>2. 2 * twoto(Min(X)) <= twoto(l) /\ twoto(Min(X)) \in Nat /\ twoto(l) \in Nat
             /\ Min(X) < twoto(Min(X))
      BY <3>1, <2>1, TwotoMonotone, TwotoGrows
    <3>. QED BY ONLY <3>2, <2>1
  <2>. HIDE DEF X
  <2>. QED BY <2>1, <2>2, <2>3
<1>5. Min(X) \in Nat /\ twoto(Min(X)) \in Nat /\ n <= twoto(Min(X))
  BY <1>2, TwotoGrows
<1>. HIDE DEF X
<1>. QED BY <1>3, <1>4, <1>5

\* Zero has logarithm zero.
LEMMA CeilZero == ceillog2(0) = 0
<1>. DEFINE X == {l \in 0..0 : twoto(l) >= 0}
<1>1. X = {0}
  BY TwotoZero
<1>2. Min(X) \in X
  <2>. HIDE DEF X
  <2>. QED BY <1>1, MinFacts
<1>. QED BY <1>1, <1>2 DEF ceillog2

(***************************************************************************)
(* Chains.                                                                 *)
(***************************************************************************)
Links(N) == NoNode \notin DOMAIN N /\ \A n \in DOMAIN N : N[n].next \in DOMAIN N \cup {NoNode}

LEMMA ChainSelf ==
  ASSUME NEW N, NEW x \in DOMAIN N
  PROVE  x \in Chain(N, x) /\ Chain(N, x) \subseteq DOMAIN N
  BY DEF Chain

LEMMA ChainClosed ==
  ASSUME NEW N, Links(N), NEW x
  PROVE  Closed(N, Chain(N, x))
  BY DEF Chain, Closed, Links

LEMMA ChainLeast ==
  ASSUME NEW N, NEW x, NEW X, X \subseteq DOMAIN N, x \in X, Closed(N, X)
  PROVE  Chain(N, x) \subseteq X
  BY DEF Chain

LEMMA ChainWithin ==
  ASSUME NEW N, Links(N), NEW x, NEW y \in Chain(N, x)
  PROVE  Chain(N, y) \subseteq Chain(N, x)
<1>1. Chain(N, x) \subseteq DOMAIN N
  BY DEF Chain
<1>. QED BY <1>1, ChainClosed, ChainLeast

\* A chain is its first node and the chain from the next one.
LEMMA ChainStep ==
  ASSUME NEW N, Links(N), NEW x \in DOMAIN N, NEW y \in Chain(N, x), y # x
  PROVE  N[x].next # NoNode /\ y \in Chain(N, N[x].next)
<1>. DEFINE X == {x} \cup (IF N[x].next = NoNode THEN {} ELSE Chain(N, N[x].next))
<1>1. X \subseteq DOMAIN N
  BY DEF Chain
<1>2. Closed(N, X)
  <2>1. ASSUME NEW z \in X, N[z].next # NoNode PROVE N[z].next \in X
    <3>1. CASE z = x
      <4>1. N[x].next \in DOMAIN N /\ N[x].next # NoNode
        BY <2>1, <3>1 DEF Links
      <4>. QED BY <3>1, <4>1, ChainSelf
    <3>2. CASE z # x
      <4>1. N[x].next # NoNode /\ z \in Chain(N, N[x].next)
        BY <3>2
      <4>2. Closed(N, Chain(N, N[x].next))
        BY ChainClosed
      <4>. QED BY <4>1, <4>2, <2>1 DEF Closed
    <3>. QED BY <3>1, <3>2
  <2>. HIDE DEF X
  <2>. QED BY <2>1 DEF Closed
<1>3. Chain(N, x) \subseteq X
  <2>1. x \in X
    OBVIOUS
  <2>. HIDE DEF X
  <2>. QED BY <1>1, <1>2, <2>1, ChainLeast
<1>4. y \in X
  <2>. HIDE DEF X
  <2>. QED BY <1>3
<1>. QED BY <1>4

\* Along a chain the rank decreases.
LEMMA ChainRank ==
  ASSUME NEW N, Links(N), NEW r \in [DOMAIN N \cup {NoNode} -> Nat], RankOf(N, r),
         NEW x \in DOMAIN N, NEW y \in Chain(N, x), y # x
  PROVE  r[y] < r[x]
<1>. DEFINE X == {z \in DOMAIN N : z = x \/ r[z] < r[x]}
<1>1. Closed(N, X)
  <2>1. ASSUME NEW z \in X, N[z].next # NoNode PROVE N[z].next \in X
    <3>1. z \in DOMAIN N /\ N[z].next \in DOMAIN N
      BY <2>1 DEF Links
    <3>2. r[N[z].next] < r[z] /\ r[N[z].next] \in Nat /\ r[z] \in Nat /\ r[x] \in Nat
      BY <3>1 DEF RankOf
    <3>3. z = x \/ r[z] < r[x]
      OBVIOUS
    <3>4. r[N[z].next] < r[x]
      <4>1. CASE z = x
        BY <4>1, <3>2
      <4>2. CASE r[z] < r[x]
        BY <4>2, <3>2
      <4>. QED BY <3>3, <4>1, <4>2
    <3>. QED BY <3>1, <3>4
  <2>. HIDE DEF X
  <2>. QED BY <2>1 DEF Closed
<1>2. Chain(N, x) \subseteq X
  <2>1. x \in X /\ X \subseteq DOMAIN N
    OBVIOUS
  <2>. HIDE DEF X
  <2>. QED BY <1>1, <2>1, ChainLeast
<1>3. y \in X
  <2>. HIDE DEF X
  <2>. QED BY <1>2
<1>. QED BY <1>3

LEMMA ChainOrder ==
  ASSUME NEW N, Links(N), Ranked(N), NEW x \in DOMAIN N, NEW y \in DOMAIN N,
         y \in Chain(N, x), x \in Chain(N, y)
  PROVE  x = y
<1>1. PICK r \in [DOMAIN N \cup {NoNode} -> Nat] : RankOf(N, r)
  BY DEF Ranked
<1>2. x # y => r[y] < r[x] /\ r[x] < r[y]
  BY <1>1, ChainRank
<1>3. r[x] \in Nat /\ r[y] \in Nat
  BY <1>1
<1>. QED BY <1>2, <1>3

\* A node of a chain, but the first, comes next to another.
LEMMA ChainBefore ==
  ASSUME NEW N, Links(N), NEW x \in DOMAIN N, NEW y \in Chain(N, x), y # x
  PROVE  \E p \in Chain(N, x) : N[p].next = y
<1>. SUFFICES ASSUME \A p \in Chain(N, x) : N[p].next # y PROVE FALSE
  OBVIOUS
<1>. DEFINE X == Chain(N, x) \ {y}
<1>1. Closed(N, X)
  BY ChainClosed DEF Closed
<1>2. X \subseteq DOMAIN N /\ x \in X
  BY ChainSelf
<1>3. Chain(N, x) \subseteq X
  <2>. HIDE DEF X
  <2>. QED BY <1>1, <1>2, ChainLeast
<1>. QED BY <1>3

\* The chains of node vectors that are linked alike are the same.
LEMMA SameChains ==
  ASSUME NEW N, NEW M, DOMAIN M = DOMAIN N, \A n \in DOMAIN N : M[n].next = N[n].next, NEW x
  PROVE  Chain(M, x) = Chain(N, x)
<1>1. \A X \in SUBSET DOMAIN N : Closed(N, X) <=> Closed(M, X)
  BY DEF Closed
<1>. QED BY <1>1 DEF Chain

\* What walk finds: the first node of the chain that is in the set.
FirstOf(N, n, S, s) ==
  /\ n = NoNode => s = NoNode
  /\ n # NoNode /\ s = NoNode => Chain(N, n) \cap S = {}
  /\ s # NoNode => n # NoNode /\ s \in Chain(N, n) \cap S /\ Chain(N, n) \cap S \subseteq Chain(N, s)

WalkIs(T, S, w) ==
  /\ w \in [DOMAIN T.node \cup {NoNode} -> DOMAIN T.node \cup {NoNode}]
  /\ \A m \in DOMAIN T.node \cup {NoNode} :
       w[m] = IF m = NoNode \/ m \in S THEN m ELSE w[T.node[m].next]
  /\ \A n : walk(T, n, S) = w[n]

LEMMA WalkValues ==
  ASSUME NEW T, Links(T.node), Ranked(T.node), NEW S
  PROVE  \E w : WalkIs(T, S, w)
<1>. DEFINE D     == DOMAIN T.node \cup {NoNode}
            Is(w) == w = [m \in D |-> IF m = NoNode \/ m \in S THEN m ELSE w[T.node[m].next]]
            q     == CHOOSE w : Is(w)
            stop  == S \cup {NoNode}
            val   == [m \in D |-> m]
            nx    == [m \in D |-> T.node[m].next]
<1>1. PICK r \in [D -> Nat] : RankOf(T.node, r)
  BY DEF Ranked
<1>2. PICK f \in [D -> D] : TailRecursive(f, D, stop, val, nx)
  <2>1. NoNode \in D /\ \A x \in D : x \in stop => val[x] \in D
    OBVIOUS
  <2>2. ASSUME NEW x \in D, x \notin stop PROVE nx[x] \in D /\ r[nx[x]] < r[x]
    <3>1. x \in DOMAIN T.node /\ nx[x] = T.node[x].next
      BY <2>2
    <3>. QED BY <3>1, <1>1 DEF Links, RankOf
  <2>. HIDE DEF D, stop, val, nx
  <2>. QED BY ONLY <1>1, <2>1, <2>2, TailRecursion
<1>3. ASSUME NEW m \in D PROVE f[m] = IF m = NoNode \/ m \in S THEN m ELSE f[T.node[m].next]
  <2>1. f[m] = IF m \in stop THEN val[m] ELSE f[nx[m]]
    <3>. HIDE DEF D, stop, val, nx
    <3>. QED BY <1>2 DEF TailRecursive
  <2>2. val[m] = m /\ nx[m] = T.node[m].next
    OBVIOUS
  <2>3. m \in stop <=> m = NoNode \/ m \in S
    OBVIOUS
  <2>. HIDE DEF D, stop, val, nx
  <2>. QED BY <2>1, <2>2, <2>3
<1>4. Is(f)
  <2>. HIDE DEF D
  <2>. QED BY <1>2, <1>3
<1>5. Is(q)
  <2>. HIDE DEF Is
  <2>. QED BY <1>4
<1>6. \A n : walk(T, n, S) = q[n]
  BY DEF walk
<1>7. ASSUME NEW m \in D PROVE q[m] = IF m = NoNode \/ m \in S THEN m ELSE q[T.node[m].next]
  <2>. HIDE DEF q, D
  <2>. QED BY <1>5
<1>8. q \in [D -> D]
  <2>1. q = [m \in D |-> q[m]]
    <3>. HIDE DEF q, D
    <3>. QED BY <1>5
  <2>2. \A m \in D : q[m] = f[m]
    <3>. DEFINE U == {i \in Nat : \A m \in D : r[m] < i => q[m] = f[m]}
    <3>1. 0 \in U
      BY <1>1
    <3>2. ASSUME NEW i \in Nat, i \in U PROVE i + 1 \in U
      <4>1. ASSUME NEW m \in D, r[m] < i + 1 PROVE q[m] = f[m]
        <5>1. CASE m = NoNode \/ m \in S
          <6>. HIDE DEF D, q
          <6>. QED BY <5>1, <1>3, <1>7
        <5>2. CASE ~(m = NoNode \/ m \in S)
          <6>1. T.node[m].next \in D /\ r[T.node[m].next] < r[m]
            BY <5>2, <1>1 DEF Links, RankOf
          <6>2. r[T.node[m].next] < i
            <7>1. r[m] \in Nat /\ r[T.node[m].next] \in Nat
              BY <6>1, <1>1
            <7>. QED BY ONLY <7>1, <6>1, <4>1, i \in Nat
          <6>3. q[T.node[m].next] = f[T.node[m].next]
            BY <6>1, <6>2, <3>2
          <6>. HIDE DEF D, q
          <6>. QED BY <5>2, <6>3, <1>3, <1>7
        <5>. QED BY <5>1, <5>2
      <4>. HIDE DEF D, q
      <4>. QED BY <4>1
    <3>3. Nat \subseteq U
      <4>. HIDE DEF U
      <4>. QED BY <3>1, <3>2, SetInduction
    <3>4. ASSUME NEW m \in D PROVE q[m] = f[m]
      <4>1. r[m] \in Nat /\ r[m] + 1 \in U /\ r[m] < r[m] + 1
        <5>. HIDE DEF U, D
        <5>1. r[m] \in Nat
          BY <1>1
        <5>. QED BY <5>1, <3>3
      <4>. QED BY <4>1
    <3>. QED BY <3>4
  <2>3. \A m \in D : q[m] \in D
    <3>. HIDE DEF q, D
    <3>. QED BY <2>2, <1>2
  <2>. HIDE DEF q, D
  <2>. QED BY <2>1, <2>3
<1>. HIDE DEF q, D, Is
<1>9. \A m \in D : q[m] = IF m = NoNode \/ m \in S THEN m ELSE q[T.node[m].next]
  BY <1>7
<1>10. WalkIs(T, S, q)
  BY <1>6, <1>8, <1>9 DEF D, WalkIs
<1>. QED BY <1>10

LEMMA WalkFacts ==
  ASSUME NEW T, Links(T.node), Ranked(T.node), NEW S, S \subseteq DOMAIN T.node,
         NEW n \in DOMAIN T.node \cup {NoNode}
  PROVE  walk(T, n, S) \in DOMAIN T.node \cup {NoNode} /\ FirstOf(T.node, n, S, walk(T, n, S))
<1>. DEFINE N == T.node
            D == DOMAIN N \cup {NoNode}
<1>0. PICK w : WalkIs(T, S, w)
  BY WalkValues
<1>1. /\ w \in [D -> D]
      /\ \A m \in D : w[m] = IF m = NoNode \/ m \in S THEN m ELSE w[N[m].next]
      /\ \A m : walk(T, m, S) = w[m]
  BY <1>0 DEF WalkIs
<1>2. PICK r \in [D -> Nat] : RankOf(N, r)
  BY DEF Ranked
<1>. DEFINE U == {i \in Nat : \A m \in D : r[m] < i => FirstOf(N, m, S, w[m])}
<1>3. 0 \in U
  BY <1>2
<1>4. ASSUME NEW i \in Nat, i \in U PROVE i + 1 \in U
  <2>1. ASSUME NEW m \in D, r[m] < i + 1 PROVE FirstOf(N, m, S, w[m])
    <3>1. CASE m = NoNode
      BY <3>1, <1>1 DEF FirstOf
    <3>2. CASE m # NoNode /\ m \in S
      <4>1. w[m] = m /\ m \in Chain(N, m)
        BY <3>2, <1>1, ChainSelf
      <4>. QED BY <4>1, <3>2 DEF FirstOf
    <3>3. CASE m # NoNode /\ m \notin S
      <4>. DEFINE x == N[m].next
      <4>1. m \in DOMAIN N /\ x \in D /\ r[x] < r[m] /\ w[m] = w[x]
        BY <3>3, <1>1, <1>2 DEF Links, RankOf
      <4>2. r[x] < i
        <5>1. r[m] \in Nat /\ r[x] \in Nat
          BY <4>1, <1>2
        <5>. QED BY ONLY <5>1, <4>1, <2>1, i \in Nat
      <4>3. FirstOf(N, x, S, w[x])
        BY <4>1, <4>2, <1>4
      <4>4. \A y \in Chain(N, m) \cap S : x # NoNode /\ y \in Chain(N, x)
        BY <3>3, <4>1, ChainStep
      <4>5. x # NoNode => Chain(N, x) \subseteq Chain(N, m)
        <5>1. Closed(N, Chain(N, m)) /\ m \in Chain(N, m)
          BY <4>1, ChainClosed, ChainSelf
        <5>2. x # NoNode => x \in Chain(N, m)
          BY <5>1 DEF Closed
        <5>. QED BY <5>2, ChainWithin
      <4>. HIDE DEF N, x
      <4>. QED BY <3>3, <4>1, <4>3, <4>4, <4>5 DEF FirstOf
    <3>. QED BY <3>1, <3>2, <3>3
  <2>. QED BY <2>1
<1>5. Nat \subseteq U
  <2>. HIDE DEF U
  <2>. QED BY <1>3, <1>4, SetInduction
<1>6. r[n] \in Nat /\ r[n] + 1 \in U /\ r[n] < r[n] + 1
  <2>1. r[n] \in Nat
    BY <1>2
  <2>. HIDE DEF U
  <2>. QED BY <2>1, <1>5
<1>7. FirstOf(N, n, S, w[n])
  BY <1>6
<1>. QED BY <1>1, <1>7

\* There is one first node.
LEMMA FirstUnique ==
  ASSUME NEW N, Links(N), Ranked(N), NEW S, NEW n \in DOMAIN N \cup {NoNode},
         NEW s, NEW u, FirstOf(N, n, S, s), FirstOf(N, n, S, u)
  PROVE  s = u
<1>1. s = NoNode \/ u = NoNode => s = u
  BY DEF FirstOf
<1>2. CASE s # NoNode /\ u # NoNode
  <2>1. s \in Chain(N, u) /\ u \in Chain(N, s) /\ s \in Chain(N, n) /\ u \in Chain(N, n)
    BY <1>2 DEF FirstOf
  <2>2. s \in DOMAIN N /\ u \in DOMAIN N
    BY <2>1 DEF Chain
  <2>. QED BY <2>1, <2>2, ChainOrder
<1>. QED BY <1>1, <1>2

(***************************************************************************)
(* Tables.                                                                 *)
(***************************************************************************)
LEMMA KeyFacts ==
  /\ Nil \notin Keys /\ Nil \notin Values /\ MaxBits \in Nat /\ MaxInt \in Nat /\ MaxPre \in Nat
  /\ IntKeys \subseteq 1..MaxInt /\ IntKeys \subseteq Keys
  /\ \A k \in Keys : Hash[k] \in Nat /\ (k \in Int => k \in IntKeys)
  BY TableConstants DEF Keys, Collectable

LEMMA NodesFacts ==
  ASSUME NEW l \in Nat
  PROVE  twoto(l) \in Nat /\ twoto(l) >= 1 /\ 0 \in Nodes(l) /\ NoNode \notin Nodes(l)
         /\ Nodes(l) \subseteq Nat
  BY TwotoGrows DEF Nodes, NoNode

\* What the shape of a table says of its parts.
LEMMA ShapeFacts ==
  ASSUME NEW T, Shaped(T)
  PROVE  /\ T.lsizenode \in 0..MaxBits /\ T.lsizenode \in Nat
         /\ sizenode(T) = twoto(T.lsizenode) /\ sizenode(T) \in Nat /\ sizenode(T) >= 1
         /\ DOMAIN T.node = Nodes(T.lsizenode) /\ T.node \in [Nodes(T.lsizenode) -> Node(T.lsizenode)]
         /\ T.array \in Seq(Slots) /\ Len(T.array) \in Nat /\ DOMAIN T.array = 1..Len(T.array)
         /\ T.dummy \in BOOLEAN /\ T.lastfree \in Int /\ T.stuck \in BOOLEAN
<1>1. T.lsizenode \in 0..MaxBits /\ T.lsizenode \in Nat
  BY KeyFacts DEF Shaped
<1>2. sizenode(T) = twoto(T.lsizenode) /\ sizenode(T) \in Nat /\ sizenode(T) >= 1
  BY <1>1, NodesFacts DEF sizenode
<1>3. T.node \in [Nodes(T.lsizenode) -> Node(T.lsizenode)] /\ T.array \in Seq(Slots)
      /\ T.dummy \in BOOLEAN /\ T.lastfree \in Int /\ T.stuck \in BOOLEAN
  BY DEF Shaped, Table
<1>. QED BY <1>1, <1>2, <1>3

LEMMA NodeFacts ==
  ASSUME NEW T, Shaped(T), NEW n \in DOMAIN T.node
  PROVE  /\ T.node[n] \in Node(T.lsizenode)
         /\ T.node[n].key \in Keys \cup {Nil} /\ T.node[n].dead \in BOOLEAN
         /\ T.node[n].val \in Slots /\ T.node[n].next \in DOMAIN T.node \cup {NoNode}
  BY ShapeFacts DEF Node

LEMMA ShapedLinks ==
  ASSUME NEW T, Shaped(T)
  PROVE  Links(T.node) /\ NoNode \notin DOMAIN T.node
<1>1. NoNode \notin DOMAIN T.node
  BY ShapeFacts, NodesFacts
<1>. QED BY <1>1, NodeFacts DEF Links

\* The main position of a key is a node.
LEMMA MainFacts ==
  ASSUME NEW T, Shaped(T), NEW k \in Keys
  PROVE  mainposition(T, k) \in DOMAIN T.node
<1>. DEFINE size == sizenode(T)
            d == IF k \in StrKeys THEN size ELSE IF size = 1 THEN 1 ELSE size - 1
            h == Hash[k]
<1>1. size \in Nat /\ size >= 1 /\ h \in Nat /\ DOMAIN T.node = 0..(size - 1)
  BY ShapeFacts, KeyFacts DEF Nodes
<1>2. d \in Nat /\ d > 0 /\ d <= size
  BY <1>1
<1>3. h % d \in 0..(d - 1)
  <2>. HIDE DEF d, h
  <2>. QED BY <1>1, <1>2
<1>4. mainposition(T, k) = h % d
  BY DEF mainposition
<1>. HIDE DEF size, d, h
<1>. QED BY <1>1, <1>2, <1>3, <1>4

\* Main positions depend on the size alone.
LEMMA SameMain ==
  ASSUME NEW T, NEW U, T.lsizenode = U.lsizenode, NEW k
  PROVE  mainposition(T, k) = mainposition(U, k) /\ sizenode(T) = sizenode(U)
  BY DEF mainposition, sizenode

\* search finds the node where a key lives; what next finds is that one, if the
\* key lives.
Finds(T, k, deadtoo, s) ==
  /\ s \in DOMAIN T.node \cup {NoNode}
  /\ s # NoNode => s \in DOMAIN T.node /\ T.node[s].key = k /\ (deadtoo \/ ~T.node[s].dead)
  /\ \A n \in DOMAIN T.node : T.node[n].key = k /\ ~T.node[n].dead => n = s
  /\ s = NoNode => \A n \in DOMAIN T.node : T.node[n].key = k => ~deadtoo /\ T.node[n].dead

LEMMA ChainSearch ==
  ASSUME NEW T, Shaped(T), Chained(T), NEW k \in Keys, NEW deadtoo,
         NEW s, s = inchain(T, mainposition(T, k), k, deadtoo)
  PROVE  Finds(T, k, deadtoo, s)
<1>. DEFINE mp == mainposition(T, k)
            S  == {m \in DOMAIN T.node : T.node[m].key = k /\ (deadtoo \/ ~T.node[m].dead)}
<1>1. Links(T.node) /\ Ranked(T.node) /\ mp \in DOMAIN T.node /\ NoNode \notin DOMAIN T.node
  BY ShapedLinks, MainFacts DEF Chained
<1>2. s = walk(T, mp, S)
  BY DEF inchain
<1>3. s \in DOMAIN T.node \cup {NoNode} /\ FirstOf(T.node, mp, S, s)
  <2>1. S \subseteq DOMAIN T.node
    OBVIOUS
  <2>. HIDE DEF mp, S
  <2>. QED BY <1>1, <1>2, <2>1, WalkFacts
<1>4. s # NoNode => s \in S
  <2>. HIDE DEF S
  <2>. QED BY <1>3 DEF FirstOf
<1>5. ASSUME NEW n \in DOMAIN T.node, T.node[n].key = k
      PROVE  n \in Chain(T.node, mp) /\ (n \in S => s # NoNode /\ n \in Chain(T.node, s))
  <2>1. n \in Chain(T.node, mp)
    BY <1>5, KeyFacts DEF Chained, Reached
  <2>. HIDE DEF S
  <2>. QED BY <1>1, <1>3, <2>1 DEF FirstOf
<1>6. ASSUME NEW n \in DOMAIN T.node, T.node[n].key = k, ~T.node[n].dead
      PROVE  n = s
  <2>1. n \in S /\ s # NoNode /\ n \in Chain(T.node, s)
    BY <1>5, <1>6
  <2>2. s \in DOMAIN T.node /\ T.node[s].key = k /\ s \in Chain(T.node, mp)
    BY <1>4, <1>5, <2>1
  <2>3. s \in Chain(T.node, n)
    BY <1>6, <2>2, KeyFacts DEF Chained, Reached
  <2>. QED BY <1>1, <2>1, <2>2, <2>3, ChainOrder
<1>7. ASSUME s = NoNode, NEW n \in DOMAIN T.node, T.node[n].key = k
      PROVE  ~deadtoo /\ T.node[n].dead
  BY <1>5, <1>7
<1>. QED BY <1>3, <1>4, <1>6, <1>7 DEF Finds

LEMMA SearchFacts ==
  ASSUME NEW T, Shaped(T), Chained(T), NEW k \in Keys
  PROVE  /\ search(T, k) \in DOMAIN T.node \cup {NoNode}
         /\ search(T, k) # NoNode =>
              search(T, k) \in DOMAIN T.node /\ T.node[search(T, k)].key = k /\ ~T.node[search(T, k)].dead
         /\ \A n \in DOMAIN T.node : T.node[n].key = k /\ ~T.node[n].dead => n = search(T, k)
<1>1. search(T, k) = inchain(T, mainposition(T, k), k, FALSE)
  BY DEF search
<1>2. Finds(T, k, FALSE, search(T, k))
  BY <1>1, ChainSearch
<1>. QED BY <1>2 DEF Finds

(***************************************************************************)
(* The three ways to place a key k, whose main position is mp.             *)
(***************************************************************************)
Placing(T, U, k, mp) ==
  /\ Shaped(T) /\ Chained(T) /\ Shaped(U) /\ U.lsizenode = T.lsizenode
  /\ k \in Keys /\ mp = mainposition(T, k)
  /\ \A x \in DOMAIN T.node : T.node[x].key = k => T.node[x].dead

\* In its main position, whose value is nil.
Reused(N, M, mp, k) ==
  /\ \A x \in DOMAIN N : x # mp => M[x] = N[x]
  /\ M[mp].key = k /\ ~M[mp].dead /\ M[mp].val = N[mp].val /\ M[mp].next = N[mp].next

\* In the free node n, next to the key in the main position, which is at home.
Inserted(N, M, mp, k, n) ==
  /\ n \in DOMAIN N /\ N[n].key = Nil /\ N[mp].key # Nil /\ N[mp].key # k /\ n # mp
  /\ \A x \in DOMAIN N : x # mp /\ x # n => M[x] = N[x]
  /\ M[n].key = k /\ ~M[n].dead /\ M[n].val = N[n].val /\ M[n].next = N[mp].next
  /\ M[mp].key = N[mp].key /\ M[mp].dead = N[mp].dead /\ M[mp].val = N[mp].val /\ M[mp].next = n

\* In its main position, after the key there, which was not at home, has moved
\* to the free node n; p is the node before it.
Moved(N, M, mp, k, n, p) ==
  /\ n \in DOMAIN N /\ N[n].key = Nil /\ N[mp].key # Nil /\ n # mp
  /\ p \in DOMAIN N /\ p # mp /\ p # n /\ N[p].next = mp
  /\ \A x \in DOMAIN N : x # mp /\ x # n /\ x # p => M[x] = N[x]
  /\ M[p].key = N[p].key /\ M[p].dead = N[p].dead /\ M[p].val = N[p].val /\ M[p].next = n
  /\ M[n] = N[mp]
  /\ M[mp].key = k /\ ~M[mp].dead /\ M[mp].val = Nil /\ M[mp].next = NoNode

LEMMA PlacingFacts ==
  ASSUME NEW T, NEW U, NEW k, NEW mp, Placing(T, U, k, mp)
  PROVE  /\ Links(T.node) /\ Links(U.node) /\ DOMAIN U.node = DOMAIN T.node /\ NoNode \notin DOMAIN T.node
         /\ Ranked(T.node) /\ Single(T.node) /\ Blank(T.node) /\ Homes(T) /\ Reached(T)
         /\ mp \in DOMAIN T.node /\ k # Nil
         /\ \A j : mainposition(U, j) = mainposition(T, j)
         /\ \A x \in DOMAIN T.node : T.node[x].key # Nil => mainposition(T, T.node[x].key) \in DOMAIN T.node
<1>1. Links(T.node) /\ Links(U.node) /\ NoNode \notin DOMAIN T.node
  BY ShapedLinks DEF Placing
<1>2. DOMAIN U.node = DOMAIN T.node
  BY ShapeFacts DEF Placing
<1>3. mp \in DOMAIN T.node /\ k # Nil
  BY MainFacts, KeyFacts DEF Placing
<1>4. \A j : mainposition(U, j) = mainposition(T, j)
  BY SameMain DEF Placing
<1>5. \A x \in DOMAIN T.node : T.node[x].key # Nil => mainposition(T, T.node[x].key) \in DOMAIN T.node
  BY MainFacts, NodeFacts DEF Placing
<1>6. Chained(T)
  BY DEF Placing
<1>. QED BY <1>1, <1>2, <1>3, <1>4, <1>5, <1>6 DEF Chained

LEMMA ReuseChained ==
  ASSUME NEW T, NEW U, NEW k, NEW mp, Placing(T, U, k, mp), Reused(T.node, U.node, mp, k)
  PROVE  Chained(U)
<1>. DEFINE N == T.node
            M == U.node
<1>0. /\ Links(N) /\ Links(M) /\ DOMAIN M = DOMAIN N /\ NoNode \notin DOMAIN N
      /\ Ranked(N) /\ Single(N) /\ Blank(N) /\ Homes(T) /\ Reached(T)
      /\ mp \in DOMAIN N /\ k # Nil
      /\ \A j : mainposition(U, j) = mainposition(T, j)
  BY PlacingFacts
<1>1. \A x \in DOMAIN N : M[x].next = N[x].next
  BY DEF Reused
<1>2. \A x : Chain(M, x) = Chain(N, x)
  BY <1>0, <1>1, SameChains
<1>3. Ranked(M)
  BY <1>0, <1>1 DEF Ranked, RankOf
<1>4. Single(M)
  BY <1>0, <1>1 DEF Single
<1>5. Blank(M)
  <2>1. \A x \in DOMAIN N : M[x].key = Nil => x # mp /\ M[x] = N[x]
    BY <1>0 DEF Reused
  <2>. QED BY <1>0, <1>1, <2>1 DEF Blank
<1>6. Homes(U)
  <2>1. mp = mainposition(T, k)
    BY DEF Placing
  <2>2. ASSUME NEW x \in DOMAIN N, M[x].key # Nil, x # mainposition(T, M[x].key)
        PROVE  LET h == mainposition(T, M[x].key) IN M[h].key # Nil /\ mainposition(T, M[h].key) = h
    <3>. DEFINE h == mainposition(T, M[x].key)
    <3>1. x # mp /\ M[x] = N[x]
      BY <2>1, <2>2 DEF Reused
    <3>2. h \in DOMAIN N /\ N[h].key # Nil /\ mainposition(T, N[h].key) = h
      <4>1. h \in DOMAIN N
        BY <2>2, <3>1, PlacingFacts
      <4>. QED BY <4>1, <1>0, <2>2, <3>1 DEF Homes
    <3>3. CASE h = mp
      BY <1>0, <2>1, <3>3 DEF Reused
    <3>4. CASE h # mp
      BY <3>2, <3>4 DEF Reused
    <3>. QED BY <3>3, <3>4
  <2>. QED BY <1>0, <2>2 DEF Homes
<1>7. Reached(U)
  <2>1. mp = mainposition(T, k) /\ \A x \in DOMAIN N : N[x].key = k => N[x].dead
    BY DEF Placing
  <2>2. ASSUME NEW x \in DOMAIN N, M[x].key # Nil
        PROVE  LET chain == Chain(N, mainposition(T, M[x].key))
               IN  /\ x \in chain
                   /\ ~M[x].dead => \A d \in chain : M[d].key = M[x].key => d \in Chain(N, x)
    <3>1. CASE x = mp
      <4>1. M[x].key = k
        BY <3>1 DEF Reused
      <4>. QED BY <3>1, <4>1, <1>0, <2>1, ChainSelf
    <3>2. CASE x # mp
      <4>1. M[x] = N[x] /\ (~M[x].dead => N[x].key # k)
        BY <2>1, <3>2 DEF Reused
      <4>2. \A d \in DOMAIN N : M[d].key # k => M[d].key = N[d].key
        BY DEF Reused
      <4>3. \A y : Chain(N, y) \subseteq DOMAIN N
        BY DEF Chain
      <4>. QED BY <1>0, <2>2, <4>1, <4>2, <4>3 DEF Reached
    <3>. QED BY <3>1, <3>2
  <2>. QED BY <1>0, <1>2, <2>2 DEF Reached
<1>. QED BY <1>3, <1>4, <1>5, <1>6, <1>7 DEF Chained

\* A chain gets the new node if the main position is in it.
LEMMA InsertChain ==
  ASSUME NEW N, NEW M, NEW mp, NEW k, NEW n, Inserted(N, M, mp, k, n),
         Links(N), Links(M), DOMAIN M = DOMAIN N, mp \in DOMAIN N, Blank(N), k # Nil
  PROVE  /\ \A x \in DOMAIN N : Chain(N, x) \subseteq Chain(M, x)
         /\ \A x \in DOMAIN N : mp \in Chain(N, x) => n \in Chain(M, x)
         /\ \A x \in DOMAIN N : x # n => Chain(M, x) \subseteq Chain(N, x) \cup {n}
<1>0. /\ n \in DOMAIN N /\ n # mp /\ N[n].next = NoNode /\ N[n].key = Nil
      /\ \A x \in DOMAIN N : N[x].next # n
      /\ M[n].next = N[mp].next /\ M[mp].next = n
      /\ \A x \in DOMAIN N : x # mp /\ x # n => M[x].next = N[x].next
  BY DEF Inserted, Blank, emptyNode
<1>1. ASSUME NEW x \in DOMAIN N PROVE Chain(N, x) \subseteq Chain(M, x)
  <2>. DEFINE X == Chain(M, x)
  <2>1. x \in X /\ X \subseteq DOMAIN N /\ Closed(M, X)
    BY <1>1, ChainSelf, ChainClosed
  <2>2. ASSUME NEW z \in X, N[z].next # NoNode PROVE N[z].next \in X
    <3>1. z # n /\ z \in DOMAIN N
      BY <1>0, <2>1, <2>2
    <3>2. CASE z = mp
      <4>1. n # NoNode /\ n \in X
        BY <1>0, <2>1, <3>2 DEF Closed, Links
      <4>. QED BY <4>1, <1>0, <2>1, <2>2, <3>2 DEF Closed
    <3>3. CASE z # mp
      BY <1>0, <2>1, <2>2, <3>1, <3>3 DEF Closed
    <3>. QED BY <3>2, <3>3
  <2>. HIDE DEF X
  <2>3. Closed(N, X)
    BY <2>2 DEF Closed
  <2>4. Chain(N, x) \subseteq X
    BY <2>1, <2>3, ChainLeast
  <2>. QED BY <2>4 DEF X
<1>2. ASSUME NEW x \in DOMAIN N, mp \in Chain(N, x) PROVE n \in Chain(M, x)
  <2>1. mp \in Chain(M, x) /\ Closed(M, Chain(M, x))
    BY <1>1, <1>2, ChainClosed
  <2>2. n # NoNode
    BY <1>0 DEF Links
  <2>. QED BY <1>0, <2>1, <2>2 DEF Closed
<1>3. ASSUME NEW x \in DOMAIN N, x # n PROVE Chain(M, x) \subseteq Chain(N, x) \cup {n}
  <2>. DEFINE C == Chain(N, x)
              X == IF mp \in C THEN C \cup {n} ELSE C
  <2>1. x \in C /\ C \subseteq DOMAIN N /\ Closed(N, C)
    BY <1>3, ChainSelf, ChainClosed
  <2>2. n \notin C
    BY <1>0, <1>3, ChainBefore DEF Chain
  <2>. HIDE DEF C
  <2>3. ASSUME NEW z \in X, M[z].next # NoNode PROVE M[z].next \in X
    <3>1. CASE z = mp
      <4>1. mp \in C
        BY <1>0, <2>2, <3>1
      <4>. QED BY <4>1, <1>0, <3>1
    <3>2. CASE z = n
      <4>1. mp \in C
        BY <2>2, <3>2
      <4>. QED BY <4>1, <1>0, <2>1, <2>3, <3>2 DEF Closed
    <3>3. CASE z # mp /\ z # n
      <4>1. z \in C /\ M[z].next = N[z].next
        BY <1>0, <2>1, <3>3
      <4>. QED BY <4>1, <2>1, <2>3 DEF Closed
    <3>. QED BY <3>1, <3>2, <3>3
  <2>4. x \in X /\ X \subseteq DOMAIN M
    BY <1>0, <2>1
  <2>. HIDE DEF X
  <2>5. Closed(M, X)
    BY <2>3 DEF Closed
  <2>6. Chain(M, x) \subseteq X
    BY <2>4, <2>5, ChainLeast
  <2>. QED BY <2>6 DEF X, C
<1>. QED BY <1>1, <1>2, <1>3

LEMMA InsertRanked ==
  ASSUME NEW N, NEW M, NEW mp, NEW k, NEW n, Inserted(N, M, mp, k, n),
         Links(N), DOMAIN M = DOMAIN N, mp \in DOMAIN N, Blank(N), Ranked(N)
  PROVE  Ranked(M)
<1>. DEFINE D == DOMAIN N \cup {NoNode}
<1>1. PICK r \in [D -> Nat] : RankOf(N, r)
  BY DEF Ranked
<1>. DEFINE q == [x \in D |-> IF x = n THEN 2 * r[mp] ELSE 2 * r[x] + 1]
<1>2. n \in D /\ mp \in D /\ NoNode \in D /\ n # NoNode /\ n # mp
  BY DEF Inserted, Links
<1>3. q \in [D -> Nat]
  <2>1. ASSUME NEW x \in D PROVE 2 * r[mp] \in Nat /\ 2 * r[x] + 1 \in Nat
    BY <1>2
  <2>. QED BY <2>1
<1>4. ASSUME NEW x \in DOMAIN N PROVE q[M[x].next] < q[x]
  <2>1. N[x].next \in D /\ r[N[x].next] < r[x] /\ N[x].next # n /\ N[mp].next \in D
        /\ r[N[mp].next] < r[mp] /\ N[mp].next # n
    BY <1>1, <1>2 DEF RankOf, Links, Blank, Inserted
  <2>2. r[x] \in Nat /\ r[N[x].next] \in Nat /\ r[mp] \in Nat /\ r[N[mp].next] \in Nat
    BY <1>1, <1>2, <2>1
  <2>3. CASE x = n
    <3>1. M[x].next = N[mp].next
      BY <2>3 DEF Inserted
    <3>2. q[x] = 2 * r[mp] /\ q[M[x].next] = 2 * r[N[mp].next] + 1
      BY <1>2, <2>1, <2>3, <3>1
    <3>. QED BY ONLY <3>2, <2>1, <2>2
  <2>4. CASE x = mp
    <3>1. M[x].next = n
      BY <2>4 DEF Inserted
    <3>2. q[x] = 2 * r[mp] + 1 /\ q[M[x].next] = 2 * r[mp]
      BY <1>2, <2>4, <3>1
    <3>. QED BY ONLY <3>2, <2>2
  <2>5. CASE x # n /\ x # mp
    <3>1. M[x].next = N[x].next
      BY <2>5 DEF Inserted
    <3>2. q[x] = 2 * r[x] + 1 /\ q[M[x].next] = 2 * r[N[x].next] + 1
      BY <1>2, <2>1, <2>5, <3>1
    <3>. QED BY ONLY <3>2, <2>1, <2>2
  <2>. QED BY <2>3, <2>4, <2>5
<1>. HIDE DEF q
<1>5. RankOf(M, q)
  BY <1>4 DEF RankOf
<1>. QED BY <1>3, <1>5 DEF Ranked

LEMMA InsertChained ==
  ASSUME NEW T, NEW U, NEW k, NEW mp, NEW n, Placing(T, U, k, mp), Inserted(T.node, U.node, mp, k, n),
         mainposition(T, T.node[mp].key) = mp
  PROVE  Chained(U)
<1>. DEFINE N == T.node
            M == U.node
<1>0. /\ Links(N) /\ Links(M) /\ DOMAIN M = DOMAIN N /\ NoNode \notin DOMAIN N
      /\ Ranked(N) /\ Single(N) /\ Blank(N) /\ Homes(T) /\ Reached(T)
      /\ mp \in DOMAIN N /\ k # Nil
      /\ \A j : mainposition(U, j) = mainposition(T, j)
      /\ \A x \in DOMAIN N : N[x].key # Nil => mainposition(T, N[x].key) \in DOMAIN N
  BY PlacingFacts
<1>1. mp = mainposition(T, k) /\ \A x \in DOMAIN N : N[x].key = k => N[x].dead
  BY DEF Placing
<1>2. /\ n \in DOMAIN N /\ N[n].key = Nil /\ N[mp].key # Nil /\ N[mp].key # k /\ n # mp
      /\ \A x \in DOMAIN N : x # mp /\ x # n => M[x] = N[x]
      /\ M[n].key = k /\ ~M[n].dead /\ M[n].val = N[n].val /\ M[n].next = N[mp].next
      /\ M[mp].key = N[mp].key /\ M[mp].dead = N[mp].dead /\ M[mp].val = N[mp].val /\ M[mp].next = n
      /\ N[n] = emptyNode /\ \A m \in DOMAIN N : N[m].next # n
  BY <1>0 DEF Inserted, Blank
<1>3. Ranked(M)
  BY <1>0, InsertRanked
<1>4. Single(M)
  <2>1. ASSUME NEW x \in DOMAIN N, NEW y \in DOMAIN N, M[x].next = M[y].next, M[x].next # NoNode, x # y
        PROVE  FALSE
    <3>1. CASE x = mp \/ y = mp
      BY <1>2, <2>1, <3>1
    <3>2. CASE x # mp /\ y # mp /\ x = n
      BY <1>0, <1>2, <2>1, <3>2 DEF Single
    <3>3. CASE x # mp /\ y # mp /\ y = n
      BY <1>0, <1>2, <2>1, <3>3 DEF Single
    <3>4. CASE x # mp /\ y # mp /\ x # n /\ y # n
      BY <1>0, <1>2, <2>1, <3>4 DEF Single
    <3>. QED BY <3>1, <3>2, <3>3, <3>4
  <2>. QED BY <1>0, <2>1 DEF Single
<1>5. Blank(M)
  <2>1. ASSUME NEW x \in DOMAIN N, M[x].key = Nil
        PROVE  M[x] = emptyNode /\ \A m \in DOMAIN N : M[m].next # x
    <3>1. x # n /\ x # mp /\ N[x].key = Nil /\ M[x] = N[x]
      BY <1>0, <1>2, <2>1
    <3>2. M[x] = emptyNode /\ \A m \in DOMAIN N : N[m].next # x
      BY <1>0, <3>1 DEF Blank
    <3>3. ASSUME NEW m \in DOMAIN N PROVE M[m].next # x
      BY <1>0, <1>2, <3>1, <3>2
    <3>. QED BY <3>2, <3>3
  <2>. QED BY <1>0, <2>1 DEF Blank
<1>6. \A x \in DOMAIN N : x # n => M[x].key = N[x].key /\ M[x].dead = N[x].dead
  BY <1>2
<1>7. Homes(U)
  <2>1. ASSUME NEW x \in DOMAIN N, M[x].key # Nil, x # mainposition(T, M[x].key)
        PROVE  LET h == mainposition(T, M[x].key) IN M[h].key # Nil /\ mainposition(T, M[h].key) = h
    <3>. DEFINE h == mainposition(T, M[x].key)
    <3>1. CASE x = n
      <4>1. h = mp
        BY <1>1, <1>2, <3>1
      <4>. QED BY <4>1, <1>2
    <3>2. CASE x # n
      <4>1. M[x].key = N[x].key
        BY <1>6, <3>2
      <4>2. h \in DOMAIN N /\ N[h].key # Nil /\ mainposition(T, N[h].key) = h
        BY <1>0, <2>1, <4>1 DEF Homes
      <4>3. h # n
        BY <1>2, <4>2
      <4>. QED BY <1>6, <4>2, <4>3
    <3>. QED BY <3>1, <3>2
  <2>. QED BY <1>0, <2>1 DEF Homes
<1>8. /\ \A x \in DOMAIN N : Chain(N, x) \subseteq Chain(M, x)
      /\ \A x \in DOMAIN N : mp \in Chain(N, x) => n \in Chain(M, x)
      /\ \A x \in DOMAIN N : x # n => Chain(M, x) \subseteq Chain(N, x) \cup {n}
  BY <1>0, InsertChain
<1>9. Reached(U)
  <2>1. ASSUME NEW x \in DOMAIN N, M[x].key # Nil
        PROVE  LET chain == Chain(M, mainposition(T, M[x].key))
               IN  /\ x \in chain
                   /\ ~M[x].dead => \A d \in chain : M[d].key = M[x].key => d \in Chain(M, x)
    <3>1. CASE x = n
      <4>1. M[x].key = k /\ mp \in Chain(N, mp) /\ x \in Chain(M, mp)
        BY <1>0, <1>2, <1>8, <3>1, ChainSelf
      <4>2. ASSUME NEW d \in Chain(M, mp), M[d].key = k PROVE d \in Chain(M, n)
        <5>1. d # mp
          BY <1>2, <4>2
        <5>. QED BY <1>0, <1>2, <5>1, ChainStep
      <4>. QED BY <1>1, <3>1, <4>1, <4>2
    <3>2. CASE x # n
      <4>. DEFINE h == mainposition(T, N[x].key)
      <4>1. M[x].key = N[x].key /\ M[x].dead = N[x].dead /\ N[x].key # Nil /\ h \in DOMAIN N
        BY <1>0, <1>6, <2>1, <3>2
      <4>2. h # n
        <5>1. CASE x = h
          BY <3>2, <5>1
        <5>2. CASE x # h
          BY <1>0, <1>2, <4>1, <5>2 DEF Homes
        <5>. QED BY <5>1, <5>2
      <4>3. x \in Chain(N, h) /\ (~N[x].dead => \A d \in Chain(N, h) : N[d].key = N[x].key => d \in Chain(N, x))
        BY <1>0, <4>1 DEF Reached
      <4>4. x \in Chain(M, h)
        BY <1>8, <4>1, <4>3
      <4>5. ASSUME ~N[x].dead, NEW d \in Chain(M, h), M[d].key = N[x].key PROVE d \in Chain(M, x)
        <5>1. d # n
          BY <1>1, <1>2, <4>5
        <5>2. d \in Chain(N, h) /\ d \in DOMAIN N
          BY <1>8, <4>1, <4>2, <5>1 DEF Chain
        <5>3. d \in Chain(N, x)
          BY <1>6, <4>3, <4>5, <5>1, <5>2
        <5>. QED BY <1>8, <5>3
      <4>. QED BY <4>1, <4>4, <4>5
    <3>. QED BY <3>1, <3>2
  <2>. QED BY <1>0, <2>1 DEF Reached
<1>. QED BY <1>3, <1>4, <1>5, <1>7, <1>9 DEF Chained

\* When mp moves to n, its place in the chains does.
Placed(mp, n, x) == IF x = mp THEN n ELSE x

LEMMA MovedLinks ==
  ASSUME NEW N, NEW M, NEW mp, NEW k, NEW n, NEW p, Moved(N, M, mp, k, n, p),
         Links(N), Ranked(N), Single(N), Blank(N), mp \in DOMAIN N
  PROVE  /\ n \in DOMAIN N /\ n # mp /\ n # NoNode /\ N[n].next = NoNode /\ N[n].key = Nil
         /\ p \in DOMAIN N /\ p # mp /\ p # n /\ N[p].next = mp /\ M[p].next = n
         /\ M[n].next = N[mp].next /\ M[mp].next = NoNode
         /\ \A x \in DOMAIN N : N[x].next # n
         /\ N[mp].next # mp
         /\ \A x \in DOMAIN N : x # mp /\ x # n /\ x # p => M[x].next = N[x].next /\ N[x].next # mp
<1>1. /\ n \in DOMAIN N /\ n # mp /\ N[n].key = Nil
      /\ p \in DOMAIN N /\ p # mp /\ p # n /\ N[p].next = mp /\ M[p].next = n
      /\ M[n].next = N[mp].next /\ M[mp].next = NoNode
      /\ \A x \in DOMAIN N : x # mp /\ x # n /\ x # p => M[x].next = N[x].next
  BY DEF Moved
<1>2. N[n].next = NoNode /\ \A x \in DOMAIN N : N[x].next # n
  BY <1>1 DEF Blank, emptyNode
<1>3. mp # NoNode /\ n # NoNode
  BY <1>1 DEF Links
<1>4. \A x \in DOMAIN N : x # p => N[x].next # mp
  BY <1>1, <1>3 DEF Single
<1>. QED BY <1>1, <1>2, <1>3, <1>4

LEMMA MoveChain ==
  ASSUME NEW N, NEW M, NEW mp, NEW k, NEW n, NEW p, Moved(N, M, mp, k, n, p),
         Links(N), Links(M), DOMAIN M = DOMAIN N, mp \in DOMAIN N, Ranked(N), Single(N), Blank(N)
  PROVE  /\ \A x \in DOMAIN N : \A y \in Chain(N, x) : Placed(mp, n, y) \in Chain(M, Placed(mp, n, x))
         /\ \A x \in DOMAIN N : x # n /\ x # mp =>
              \A y \in Chain(M, x) : \E z \in Chain(N, x) : z # n /\ y = Placed(mp, n, z)
         /\ Chain(M, mp) = {mp}
<1>. DEFINE to(x) == Placed(mp, n, x)
<1>0. /\ n \in DOMAIN N /\ n # mp /\ n # NoNode /\ N[n].next = NoNode /\ N[n].key = Nil
      /\ p \in DOMAIN N /\ p # mp /\ p # n /\ N[p].next = mp /\ M[p].next = n
      /\ M[n].next = N[mp].next /\ M[mp].next = NoNode
      /\ \A x \in DOMAIN N : N[x].next # n
      /\ N[mp].next # mp
      /\ \A x \in DOMAIN N : x # mp /\ x # n /\ x # p => M[x].next = N[x].next /\ N[x].next # mp
  BY MovedLinks
<1>1. to(mp) = n /\ \A x : x # mp => to(x) = x
  BY DEF Placed
<1>2. \A x \in DOMAIN N : to(x) \in DOMAIN N /\ to(x) # mp
  BY <1>0, <1>1
<1>. HIDE DEF to
<1>3. ASSUME NEW x \in DOMAIN N, NEW y \in Chain(N, x) PROVE to(y) \in Chain(M, to(x))
  <2>. DEFINE C == Chain(M, to(x))
              X == {z \in DOMAIN N : to(z) \in C}
  <2>1. to(x) \in C /\ Closed(M, C)
    BY <1>2, ChainSelf, ChainClosed
  <2>. HIDE DEF C
  <2>2. ASSUME NEW z \in X, N[z].next # NoNode PROVE N[z].next \in X
    <3>1. z \in DOMAIN N /\ to(z) \in C /\ N[z].next \in DOMAIN N /\ z # n
      BY <1>0, <2>2 DEF Links
    <3>2. to(N[z].next) \in C
      <4>1. CASE z = mp
        <5>1. to(z) = n /\ M[n].next = N[z].next /\ to(N[z].next) = N[z].next
          BY <1>0, <1>1, <4>1
        <5>. QED BY <2>1, <2>2, <3>1, <5>1 DEF Closed
      <4>2. CASE z = p
        <5>1. to(z) = p /\ M[p].next = n /\ to(N[z].next) = n
          BY <1>0, <1>1, <4>2
        <5>. QED BY <1>0, <2>1, <3>1, <5>1 DEF Closed
      <4>3. CASE z # mp /\ z # p
        <5>1. to(z) = z /\ M[z].next = N[z].next /\ to(N[z].next) = N[z].next
          BY <1>0, <1>1, <3>1, <4>3
        <5>. QED BY <2>1, <2>2, <3>1, <5>1 DEF Closed
      <4>. QED BY <4>1, <4>2, <4>3
    <3>. QED BY <3>1, <3>2
  <2>3. x \in X /\ X \subseteq DOMAIN N
    BY <2>1
  <2>4. y \in X
    <3>. HIDE DEF X
    <3>1. Closed(N, X)
      BY <2>2 DEF Closed
    <3>. QED BY <2>3, <3>1, ChainLeast
  <2>. QED BY <2>4 DEF C
<1>4. ASSUME NEW x \in DOMAIN N, x # n, x # mp, NEW y \in Chain(M, x)
      PROVE  \E z \in Chain(N, x) : z # n /\ y = to(z)
  <2>. DEFINE C == Chain(N, x)
              Y == {to(z) : z \in C}
  <2>1. x \in C /\ C \subseteq DOMAIN N /\ Closed(N, C)
    BY ChainSelf, ChainClosed
  <2>2. n \notin C
    BY <1>0, <1>4, ChainBefore DEF Chain
  <2>. HIDE DEF C
  <2>3. ASSUME NEW z \in C, M[to(z)].next # NoNode PROVE M[to(z)].next \in Y
    <3>1. z # n /\ z \in DOMAIN N
      BY <2>1, <2>2
    <3>2. CASE z = mp
      <4>1. M[to(z)].next = N[mp].next /\ N[mp].next \in C /\ to(N[mp].next) = N[mp].next
        BY <1>0, <1>1, <2>1, <2>3, <3>2 DEF Closed
      <4>. QED BY <4>1
    <3>3. CASE z = p
      <4>1. M[to(z)].next = to(mp) /\ mp \in C
        <5>1. mp # NoNode
          BY DEF Links
        <5>. QED BY <5>1, <1>0, <1>1, <2>1, <3>3 DEF Closed
      <4>. QED BY <4>1
    <3>4. CASE z # mp /\ z # p
      <4>1. M[to(z)].next = N[z].next /\ N[z].next \in C /\ to(N[z].next) = N[z].next
        BY <1>0, <1>1, <2>1, <2>3, <3>1, <3>4 DEF Closed
      <4>. QED BY <4>1
    <3>. QED BY <3>2, <3>3, <3>4
  <2>4. x \in Y /\ Y \subseteq DOMAIN M
    <3>1. to(x) = x
      BY <1>1, <1>4
    <3>. QED BY <1>2, <2>1, <3>1
  <2>5. ASSUME NEW u \in Y, M[u].next # NoNode PROVE M[u].next \in Y
    <3>1. PICK z \in C : u = to(z)
      OBVIOUS
    <3>. HIDE DEF Y
    <3>. QED BY <2>3, <2>5, <3>1
  <2>6. y \in Y
    <3>. HIDE DEF Y
    <3>1. Closed(M, Y)
      BY <2>5 DEF Closed
    <3>. QED BY <1>4, <2>4, <3>1, ChainLeast
  <2>. QED BY <2>2, <2>6 DEF C
<1>5. Chain(M, mp) = {mp}
  <2>1. mp \in Chain(M, mp)
    BY ChainSelf
  <2>. QED BY <1>0, <2>1, ChainStep
<1>. QED BY <1>3, <1>4, <1>5 DEF to

LEMMA MoveRanked ==
  ASSUME NEW N, NEW M, NEW mp, NEW k, NEW n, NEW p, Moved(N, M, mp, k, n, p),
         Links(N), DOMAIN M = DOMAIN N, mp \in DOMAIN N, Single(N), Blank(N), Ranked(N)
  PROVE  Ranked(M)
<1>. DEFINE D == DOMAIN N \cup {NoNode}
<1>0. /\ n \in DOMAIN N /\ n # mp /\ n # NoNode /\ N[n].next = NoNode /\ N[n].key = Nil
      /\ p \in DOMAIN N /\ p # mp /\ p # n /\ N[p].next = mp /\ M[p].next = n
      /\ M[n].next = N[mp].next /\ M[mp].next = NoNode
      /\ \A x \in DOMAIN N : N[x].next # n
      /\ N[mp].next # mp
      /\ \A x \in DOMAIN N : x # mp /\ x # n /\ x # p => M[x].next = N[x].next /\ N[x].next # mp
  BY MovedLinks
<1>1. PICK r \in [D -> Nat] : RankOf(N, r)
  BY DEF Ranked
<1>. DEFINE q == [x \in D |-> IF x = n THEN r[mp] ELSE IF x = mp THEN r[NoNode] + 1 ELSE r[x]]
<1>2. n \in D /\ mp \in D /\ p \in D /\ NoNode \in D /\ NoNode # mp
  BY <1>0 DEF Links
<1>3. q \in [D -> Nat]
  <2>1. r[mp] \in Nat /\ r[NoNode] + 1 \in Nat /\ \A x \in D : r[x] \in Nat
    BY <1>2
  <2>. QED BY <2>1
<1>4. ASSUME NEW x \in DOMAIN N PROVE q[M[x].next] < q[x]
  <2>1. N[x].next \in D /\ r[N[x].next] < r[x] /\ N[mp].next \in D /\ r[N[mp].next] < r[mp]
    BY <1>1, <1>2 DEF RankOf, Links
  <2>2. r[NoNode] \in Nat /\ r[x] \in Nat
    BY <1>1, <1>2
  <2>3. CASE x = n
    <3>1. q[x] = r[mp] /\ q[M[x].next] = r[N[mp].next]
      BY <1>0, <1>2, <2>1, <2>3
    <3>. QED BY <3>1, <2>1
  <2>4. CASE x = mp
    <3>1. q[x] = r[NoNode] + 1 /\ q[M[x].next] = r[NoNode]
      BY <1>0, <1>2, <2>4
    <3>. QED BY <3>1, <2>2
  <2>5. CASE x = p
    <3>1. q[x] = r[p] /\ q[M[x].next] = r[mp] /\ N[p].next = mp
      BY <1>0, <1>2, <2>5
    <3>. QED BY <3>1, <2>1, <2>5
  <2>6. CASE x # n /\ x # mp /\ x # p
    <3>1. q[x] = r[x] /\ q[M[x].next] = r[N[x].next]
      BY <1>0, <1>2, <2>1, <2>6
    <3>. QED BY <3>1, <2>1
  <2>. QED BY <2>3, <2>4, <2>5, <2>6
<1>. HIDE DEF q
<1>5. RankOf(M, q)
  BY <1>4 DEF RankOf
<1>. QED BY <1>3, <1>5 DEF Ranked

LEMMA MoveChained ==
  ASSUME NEW T, NEW U, NEW k, NEW mp, NEW n, NEW p, Placing(T, U, k, mp),
         Moved(T.node, U.node, mp, k, n, p), ~T.node[mp].dead,
         mainposition(T, T.node[mp].key) # mp
  PROVE  Chained(U)
<1>. DEFINE N == T.node
            M == U.node
            to(x) == Placed(mp, n, x)
<1>0. /\ Links(N) /\ Links(M) /\ DOMAIN M = DOMAIN N /\ NoNode \notin DOMAIN N
      /\ Ranked(N) /\ Single(N) /\ Blank(N) /\ Homes(T) /\ Reached(T)
      /\ mp \in DOMAIN N /\ k # Nil
      /\ \A j : mainposition(U, j) = mainposition(T, j)
      /\ \A x \in DOMAIN N : N[x].key # Nil => mainposition(T, N[x].key) \in DOMAIN N
  BY PlacingFacts
<1>1. mp = mainposition(T, k) /\ \A x \in DOMAIN N : N[x].key = k => N[x].dead
  BY DEF Placing
<1>2. /\ n \in DOMAIN N /\ n # mp /\ n # NoNode /\ N[n].next = NoNode /\ N[n].key = Nil
      /\ p \in DOMAIN N /\ p # mp /\ p # n /\ N[p].next = mp /\ M[p].next = n
      /\ M[n].next = N[mp].next /\ M[mp].next = NoNode
      /\ \A x \in DOMAIN N : N[x].next # n
      /\ N[mp].next # mp
      /\ \A x \in DOMAIN N : x # mp /\ x # n /\ x # p => M[x].next = N[x].next /\ N[x].next # mp
  BY <1>0, MovedLinks
<1>3. /\ N[mp].key # Nil /\ M[n] = N[mp] /\ M[mp].key = k /\ ~M[mp].dead
      /\ \A x \in DOMAIN N : x # mp /\ x # n => M[x].key = N[x].key /\ M[x].dead = N[x].dead
      /\ \A x \in DOMAIN N : x # mp /\ x # n /\ x # p => M[x] = N[x]
  BY DEF Moved
<1>4. Ranked(M)
  BY <1>0, MoveRanked
<1>5. Single(M)
  <2>1. ASSUME NEW x \in DOMAIN N, NEW y \in DOMAIN N, M[x].next = M[y].next, M[x].next # NoNode, x # y
        PROVE  FALSE
    <3>1. x # mp /\ y # mp
      BY <1>2, <2>1
    <3>2. CASE x = p \/ y = p
      BY <1>0, <1>2, <2>1, <3>1, <3>2
    <3>3. CASE x # p /\ y # p /\ x = n
      BY <1>0, <1>2, <2>1, <3>1, <3>3 DEF Single
    <3>4. CASE x # p /\ y # p /\ y = n
      BY <1>0, <1>2, <2>1, <3>1, <3>4 DEF Single
    <3>5. CASE x # p /\ y # p /\ x # n /\ y # n
      BY <1>0, <1>2, <2>1, <3>1, <3>5 DEF Single
    <3>. QED BY <3>2, <3>3, <3>4, <3>5
  <2>. QED BY <1>0, <2>1 DEF Single
<1>6. Blank(M)
  <2>1. ASSUME NEW x \in DOMAIN N, M[x].key = Nil
        PROVE  M[x] = emptyNode /\ \A m \in DOMAIN N : M[m].next # x
    <3>1. x # n /\ x # mp /\ N[x].key = Nil
      BY <1>0, <1>3, <2>1
    <3>2. N[x] = emptyNode /\ \A m \in DOMAIN N : N[m].next # x
      BY <1>0, <3>1 DEF Blank
    <3>3. x # p
      BY <1>0, <1>2, <3>2 DEF emptyNode
    <3>4. M[x] = emptyNode
      BY <1>3, <3>1, <3>2, <3>3
    <3>5. ASSUME NEW m \in DOMAIN N PROVE M[m].next # x
      <4>1. x # NoNode /\ N[m].next # x /\ N[mp].next # x
        BY <1>0, <3>2
      <4>. QED BY <1>2, <3>1, <4>1
    <3>. QED BY <3>4, <3>5
  <2>. QED BY <1>0, <2>1 DEF Blank
\* The main position of another key is neither mp nor n.
<1>7. ASSUME NEW x \in DOMAIN N, x # n, N[x].key # Nil
      PROVE  LET h == mainposition(T, N[x].key)
             IN  h \in DOMAIN N /\ h # mp /\ h # n
  <2>. DEFINE h == mainposition(T, N[x].key)
  <2>1. h \in DOMAIN N /\ (x # h => N[h].key # Nil /\ mainposition(T, N[h].key) = h)
    BY <1>0, <1>7 DEF Homes
  <2>2. x = h => x # mp
    OBVIOUS
  <2>3. h # mp /\ h # n
    <3>. HIDE DEF h
    <3>. QED BY <1>2, <1>7, <2>1, <2>2
  <2>. QED BY <2>1, <2>3
<1>8. Homes(U)
  <2>1. ASSUME NEW x \in DOMAIN N, M[x].key # Nil, x # mainposition(T, M[x].key)
        PROVE  LET h == mainposition(T, M[x].key) IN M[h].key # Nil /\ mainposition(T, M[h].key) = h
    <3>. DEFINE h == mainposition(T, M[x].key)
    <3>1. x # mp
      BY <1>1, <1>3, <2>1
    <3>2. PICK z \in DOMAIN N : z # n /\ N[z].key = M[x].key /\ (x = n => z = mp) /\ (x # n => z = x)
      BY <1>0, <1>2, <1>3, <3>1
    <3>3. h \in DOMAIN N /\ h # mp /\ h # n
      BY <1>7, <2>1, <3>2
    <3>4. z # h
      BY <2>1, <3>2, <3>3
    <3>5. N[h].key # Nil /\ mainposition(T, N[h].key) = h
      BY <1>0, <2>1, <3>2, <3>4 DEF Homes
    <3>. QED BY <1>3, <3>3, <3>5
  <2>. QED BY <1>0, <2>1 DEF Homes
<1>9. /\ \A x \in DOMAIN N : \A y \in Chain(N, x) : to(y) \in Chain(M, to(x))
      /\ \A x \in DOMAIN N : x # n /\ x # mp =>
           \A y \in Chain(M, x) : \E z \in Chain(N, x) : z # n /\ y = to(z)
      /\ Chain(M, mp) = {mp}
  BY <1>0, MoveChain
<1>10. to(mp) = n /\ \A x : x # mp => to(x) = x
  BY DEF Placed
<1>. HIDE DEF to
<1>11. Reached(U)
  <2>1. ASSUME NEW x \in DOMAIN N, M[x].key # Nil
        PROVE  LET chain == Chain(M, mainposition(T, M[x].key))
               IN  /\ x \in chain
                   /\ ~M[x].dead => \A d \in chain : M[d].key = M[x].key => d \in Chain(M, x)
    <3>1. CASE x = mp
      BY <1>1, <1>3, <1>9, <3>1
    <3>2. CASE x # mp
      <4>1. PICK z \in DOMAIN N : z # n /\ x = to(z) /\ N[z].key = M[x].key /\ N[z].dead = M[x].dead
        <5>1. CASE x = n
          BY <1>0, <1>2, <1>3, <1>10, <5>1
        <5>2. CASE x # n
          BY <1>3, <1>10, <3>2, <5>2
        <5>. QED BY <5>1, <5>2
      <4>. DEFINE h == mainposition(T, N[z].key)
      <4>2. h \in DOMAIN N /\ h # mp /\ h # n /\ to(h) = h
        BY <1>7, <1>10, <2>1, <4>1
      <4>3. z \in Chain(N, h) /\ (~N[z].dead => \A d \in Chain(N, h) : N[d].key = N[z].key => d \in Chain(N, z))
        BY <1>0, <2>1, <4>1 DEF Reached
      <4>4. x \in Chain(M, h)
        <5>. HIDE DEF h
        <5>. QED BY <1>9, <4>1, <4>2, <4>3
      <4>5. ASSUME ~M[x].dead, NEW d \in Chain(M, h), M[d].key = M[x].key PROVE d \in Chain(M, x)
        <5>. HIDE DEF h
        <5>1. PICK u \in Chain(N, h) : u # n /\ d = to(u)
          BY <1>9, <4>2
        <5>2. u \in DOMAIN N
          BY DEF Chain
        <5>3. N[u].key = M[d].key
          <6>1. CASE u = mp
            BY <1>3, <1>10, <5>1, <6>1
          <6>2. CASE u # mp
            BY <1>3, <1>10, <5>1, <5>2, <6>2
          <6>. QED BY <6>1, <6>2
        <5>4. u \in Chain(N, z)
          BY <4>1, <4>3, <4>5, <5>3
        <5>. QED BY <1>9, <4>1, <5>1, <5>4
      <4>. QED BY <4>1, <4>4, <4>5
    <3>. QED BY <3>1, <3>2
  <2>. QED BY <1>0, <2>1 DEF Reached
<1>. QED BY <1>4, <1>5, <1>6, <1>8, <1>11 DEF Chained

(***************************************************************************)
(* newkey.                                                                 *)
(***************************************************************************)
\* The assignments to the fields of a table and of a node.
SameFields(T, U) ==
  U.array = T.array /\ U.lsizenode = T.lsizenode /\ U.dummy = T.dummy /\ U.stuck = T.stuck

LEMMA LastfreeField ==
  ASSUME NEW T, Shaped(T), NEW f \in Int
  PROVE  /\ Shaped([T EXCEPT !.lastfree = f]) /\ SameFields(T, [T EXCEPT !.lastfree = f])
         /\ [T EXCEPT !.lastfree = f].node = T.node /\ [T EXCEPT !.lastfree = f].lastfree = f
  BY DEF Shaped, Table, SameFields

LEMMA NodeField ==
  ASSUME NEW T, Shaped(T), NEW M \in [Nodes(T.lsizenode) -> Node(T.lsizenode)]
  PROVE  /\ Shaped([T EXCEPT !.node = M]) /\ SameFields(T, [T EXCEPT !.node = M])
         /\ [T EXCEPT !.node = M].node = M /\ [T EXCEPT !.node = M].lastfree = T.lastfree
  BY DEF Shaped, Table, SameFields

LEMMA UsedFields ==
  ASSUME NEW l, NEW n \in Node(l), NEW k \in Keys
  PROVE  /\ used(n, k) \in Node(l) /\ used(n, k).key = k /\ ~used(n, k).dead
         /\ used(n, k).val = n.val /\ used(n, k).next = n.next
  BY DEF used, Node

LEMMA NextField ==
  ASSUME NEW l, NEW n \in Node(l), NEW x \in Nodes(l) \cup {NoNode}
  PROVE  /\ [n EXCEPT !.next = x] \in Node(l) /\ [n EXCEPT !.next = x].key = n.key
         /\ [n EXCEPT !.next = x].dead = n.dead /\ [n EXCEPT !.next = x].val = n.val
         /\ [n EXCEPT !.next = x].next = x
  BY DEF Node

LEMMA ValField ==
  ASSUME NEW l, NEW n \in Node(l), NEW v \in Slots
  PROVE  /\ [n EXCEPT !.val = v] \in Node(l) /\ [n EXCEPT !.val = v].key = n.key
         /\ [n EXCEPT !.val = v].dead = n.dead /\ [n EXCEPT !.val = v].next = n.next
         /\ [n EXCEPT !.val = v].val = v
  BY DEF Node

\* The cases of newkey.
LEMMA NewkeyCases ==
  ASSUME NEW T, Shaped(T), NEW k \in Keys
  PROVE  LET mp == mainposition(T, k)
             n  == Max(getfreepos(T))
             N  == T.node
             U  == newkey(T, k).tab
             at == newkey(T, k).at
             q  == mainposition(T, N[mp].key)
         IN  /\ N[mp].val = Nil /\ ~T.dummy =>
                  U = [T EXCEPT !.node = [N EXCEPT ![mp] = used(N[mp], k)]] /\ at = mp
             /\ ~(N[mp].val = Nil /\ ~T.dummy) /\ getfreepos(T) = {} =>
                  U = [T EXCEPT !.lastfree = -1] /\ at = NoNode
             /\ ~(N[mp].val = Nil /\ ~T.dummy) /\ getfreepos(T) # {} /\ q # mp =>
                  U = [[T EXCEPT !.lastfree = n] EXCEPT !.node =
                         [relink(T, mp, n) EXCEPT ![n] = N[mp], ![mp] = used(emptyNode, k)]] /\ at = mp
             /\ ~(N[mp].val = Nil /\ ~T.dummy) /\ getfreepos(T) # {} /\ q = mp =>
                  U = [[T EXCEPT !.lastfree = n] EXCEPT !.node =
                         [N EXCEPT ![n] = [used(N[n], k) EXCEPT !.next = N[mp].next], ![mp].next = n]] /\ at = n
<1>. DEFINE mp == mainposition(T, k)
            n  == Max(getfreepos(T))
            N  == T.node
            q  == mainposition(T, N[mp].key)
            R  == newkey(T, k)
<1>1. CASE N[mp].val = Nil /\ ~T.dummy
  <2>1. R = [tab |-> [T EXCEPT !.node = [N EXCEPT ![mp] = used(N[mp], k)]], at |-> mp]
    BY <1>1 DEF newkey, isdummy, Shaped, Table
  <2>. QED BY <1>1, <2>1
<1>2. CASE ~(N[mp].val = Nil /\ ~T.dummy) /\ getfreepos(T) = {}
  <2>1. R = [tab |-> [T EXCEPT !.lastfree = -1], at |-> NoNode]
    BY <1>2 DEF newkey, isdummy
  <2>. QED BY <1>2, <2>1
<1>3. CASE ~(N[mp].val = Nil /\ ~T.dummy) /\ getfreepos(T) # {} /\ q # mp
  <2>1. R = [tab |-> [[T EXCEPT !.lastfree = n] EXCEPT !.node =
                         [relink(T, mp, n) EXCEPT ![n] = N[mp], ![mp] = used(emptyNode, k)]], at |-> mp]
    BY <1>3 DEF newkey, isdummy
  <2>. QED BY <1>3, <2>1
<1>4. CASE ~(N[mp].val = Nil /\ ~T.dummy) /\ getfreepos(T) # {} /\ q = mp
  <2>1. R = [tab |-> [[T EXCEPT !.lastfree = n] EXCEPT !.node =
                         [N EXCEPT ![n] = [used(N[n], k) EXCEPT !.next = N[mp].next], ![mp].next = n]], at |-> n]
    BY <1>4 DEF newkey, isdummy
  <2>. QED BY <1>4, <2>1
<1>. QED BY <1>1, <1>2, <1>3, <1>4

\* The free node is the last one; when there is none every node has a key.
LEMMA FreeNode ==
  ASSUME NEW T, Good(T)
  PROVE  LET free == getfreepos(T)
             n    == Max(free)
         IN  /\ free # {} => /\ n \in DOMAIN T.node /\ T.node[n].key = Nil /\ ~T.dummy
                             /\ n \in Nat /\ n \in -1..twoto(T.lsizenode)
                             /\ \A x \in DOMAIN T.node : T.node[x].key = Nil /\ x # n => x < n
             /\ free = {} => T.dummy \/ \A x \in DOMAIN T.node : T.node[x].key # Nil
<1>. DEFINE free == getfreepos(T)
            n    == Max(free)
<1>1. /\ T.lastfree \in -1..twoto(T.lsizenode) /\ twoto(T.lsizenode) \in Nat
      /\ DOMAIN T.node = 0..(twoto(T.lsizenode) - 1)
      /\ T.dummy => T.lastfree \in -1..0
      /\ ~T.dummy => \A x \in DOMAIN T.node : T.node[x].key = Nil => x < T.lastfree
  BY ShapeFacts, NodesFacts DEF Good, Free, Nodes
<1>2. free = {i \in 0..(T.lastfree - 1) : T.node[i].key = Nil}
  BY DEF getfreepos
<1>. HIDE DEF free
<1>3. free \subseteq DOMAIN T.node /\ free \subseteq 0..twoto(T.lsizenode)
  BY <1>1, <1>2
<1>4. ASSUME free # {}
      PROVE  /\ n \in DOMAIN T.node /\ T.node[n].key = Nil /\ ~T.dummy
             /\ n \in Nat /\ n \in -1..twoto(T.lsizenode)
             /\ \A x \in DOMAIN T.node : T.node[x].key = Nil /\ x # n => x < n
  <2>1. n \in free /\ \A x \in free : x <= n
    BY <1>1, <1>3, <1>4, MaxFacts
  <2>2. ~T.dummy
    BY <1>1, <1>2, <1>4
  <2>3. ASSUME NEW x \in DOMAIN T.node, T.node[x].key = Nil PROVE x \in free
    BY <1>1, <1>2, <2>2, <2>3
  <2>4. n \in 0..(T.lastfree - 1) /\ T.node[n].key = Nil
    BY <1>2, <2>1
  <2>. HIDE DEF n
  <2>5. \A x \in DOMAIN T.node : T.node[x].key = Nil /\ x # n => x < n
    <3>1. ASSUME NEW x \in DOMAIN T.node, T.node[x].key = Nil, x # n PROVE x < n
      <4>1. x \in Int /\ x <= n
        BY <1>1, <2>1, <2>3, <3>1
      <4>. QED BY <4>1, <2>4, <3>1
    <3>. QED BY <3>1
  <2>. QED BY <1>1, <2>2, <2>4, <2>5
<1>5. ASSUME free = {}, ~T.dummy, NEW x \in DOMAIN T.node PROVE T.node[x].key # Nil
  BY <1>1, <1>2, <1>5
<1>. QED BY <1>4, <1>5 DEF free

\* A node has key k and value v.
Holds(T, k, v) == \E x \in DOMAIN T.node : T.node[x].key = k /\ T.node[x].val = v

\* What newkey does when it finds a place: a node for k, and no other value is
\* lost.
Keyed(T, U, k, at) ==
  /\ Good(U) /\ U.array = T.array /\ U.lsizenode = T.lsizenode /\ U.stuck = T.stuck /\ ~U.dummy
  /\ at \in DOMAIN U.node /\ U.node[at].key = k /\ ~U.node[at].dead /\ U.node[at].val = Nil
  /\ \A j, v : v # Nil => (Holds(T, j, v) <=> Holds(U, j, v))
  /\ \A x \in DOMAIN U.node :
       /\ U.node[x].key = k \/ U.node[x].key = Nil
            \/ \E y \in DOMAIN T.node : T.node[y].key = U.node[x].key
       /\ U.node[x].dead => \E y \in DOMAIN T.node : T.node[y].dead

LEMMA NewkeyReuses ==
  ASSUME NEW T, Good(T), NEW k \in Keys, search(T, k) = NoNode,
         T.node[mainposition(T, k)].val = Nil, ~T.dummy
  PROVE  Keyed(T, newkey(T, k).tab, k, newkey(T, k).at)
<1>. DEFINE N  == T.node
            mp == mainposition(T, k)
            U  == newkey(T, k).tab
            M  == [N EXCEPT ![mp] = used(N[mp], k)]
<1>0. Shaped(T) /\ Chained(T) /\ Alive(T) /\ Free(T)
  BY DEF Good
<1>1. mp \in DOMAIN N /\ k # Nil
  BY <1>0, MainFacts, KeyFacts
<1>2. newkey(T, k).at = mp /\ U = [T EXCEPT !.node = M]
  BY <1>0, NewkeyCases
<1>3. /\ M[mp].key = k /\ ~M[mp].dead /\ M[mp].val = Nil /\ M[mp].next = N[mp].next
      /\ \A x \in DOMAIN N : x # mp => M[x] = N[x]
      /\ M \in [Nodes(T.lsizenode) -> Node(T.lsizenode)] /\ DOMAIN M = DOMAIN N
  <2>1. N[mp] \in Node(T.lsizenode)
    BY <1>0, <1>1, NodeFacts
  <2>3. used(N[mp], k) \in Node(T.lsizenode) /\ used(N[mp], k).key = k /\ ~used(N[mp], k).dead
        /\ used(N[mp], k).val = N[mp].val /\ used(N[mp], k).next = N[mp].next
    <3>. HIDE DEF N, mp
    <3>. QED BY <2>1, UsedFields
  <2>4. N \in [Nodes(T.lsizenode) -> Node(T.lsizenode)]
    BY <1>0, ShapeFacts
  <2>. HIDE DEF N, mp
  <2>. QED BY <1>1, <2>3, <2>4 DEF N, mp
<1>. HIDE DEF M
<1>4. Shaped(U) /\ SameFields(T, U) /\ U.node = M /\ U.lastfree = T.lastfree
  BY <1>0, <1>2, <1>3, NodeField
<1>. HIDE DEF U
<1>5. Placing(T, U, k, mp)
  BY <1>0, <1>4, SearchFacts, ShapedLinks DEF Placing, SameFields
<1>6. Chained(U)
  <2>1. Reused(T.node, U.node, mp, k)
    BY <1>3, <1>4 DEF Reused
  <2>. QED BY <1>5, <2>1, ReuseChained
<1>7. Alive(U)
  BY <1>0, <1>3, <1>4 DEF Alive, SameFields
<1>8. Free(U)
  BY <1>0, <1>1, <1>3, <1>4 DEF Free, SameFields
<1>9. ASSUME NEW j, NEW v, v # Nil PROVE Holds(T, j, v) <=> Holds(U, j, v)
  BY <1>3, <1>4, <1>9 DEF Holds
<1>10. \A x \in DOMAIN M :
         /\ M[x].key = k \/ M[x].key = Nil \/ \E y \in DOMAIN N : N[y].key = M[x].key
         /\ M[x].dead => \E y \in DOMAIN N : N[y].dead
  BY <1>1, <1>3
<1>. QED BY <1>1, <1>2, <1>3, <1>4, <1>6, <1>7, <1>8, <1>9, <1>10 DEF Keyed, Good, SameFields, U

LEMMA NewkeyInserts ==
  ASSUME NEW T, Good(T), NEW k \in Keys, search(T, k) = NoNode,
         ~(T.node[mainposition(T, k)].val = Nil /\ ~T.dummy), getfreepos(T) # {},
         mainposition(T, T.node[mainposition(T, k)].key) = mainposition(T, k)
  PROVE  Keyed(T, newkey(T, k).tab, k, newkey(T, k).at)
<1>. DEFINE N  == T.node
            l  == T.lsizenode
            mp == mainposition(T, k)
            n  == Max(getfreepos(T))
            U  == newkey(T, k).tab
            a  == [used(N[n], k) EXCEPT !.next = N[mp].next]
            b  == [N[mp] EXCEPT !.next = n]
            M  == [N EXCEPT ![n] = a, ![mp].next = n]
<1>0. Shaped(T) /\ Chained(T) /\ Alive(T) /\ Free(T) /\ Blank(N)
  BY DEF Good, Chained
<1>1. mp \in DOMAIN N /\ k # Nil /\ N \in [Nodes(l) -> Node(l)] /\ DOMAIN N = Nodes(l)
  BY <1>0, MainFacts, KeyFacts, ShapeFacts
<1>2. /\ n \in DOMAIN N /\ N[n].key = Nil /\ ~T.dummy /\ n \in Nat /\ n \in -1..twoto(T.lsizenode)
      /\ \A x \in DOMAIN N : N[x].key = Nil /\ x # n => x < n
  BY FreeNode
<1>3. newkey(T, k).at = n /\ U = [[T EXCEPT !.lastfree = n] EXCEPT !.node = M]
  BY <1>0, NewkeyCases
<1>4. N[mp].val # Nil /\ N[mp].key # Nil /\ ~N[mp].dead /\ n # mp /\ N[mp].key # k /\ N[n].val = Nil
      /\ N[n].next = NoNode
  <2>1. N[mp].val # Nil /\ N[n] = emptyNode
    BY <1>0, <1>1, <1>2 DEF Blank
  <2>2. N[mp].key # Nil /\ ~N[mp].dead
    BY <1>0, <1>1, <2>1 DEF Blank, emptyNode, Alive
  <2>3. N[mp].key # k
    BY <1>0, <1>1, <2>2, SearchFacts, ShapedLinks
  <2>. QED BY <1>2, <2>1, <2>2, <2>3 DEF emptyNode
<1>5. /\ a \in Node(l) /\ a.key = k /\ ~a.dead /\ a.val = Nil /\ a.next = N[mp].next
      /\ b \in Node(l) /\ b.key = N[mp].key /\ b.dead = N[mp].dead /\ b.val = N[mp].val /\ b.next = n
  <2>1. N[mp] \in Node(l) /\ N[n] \in Node(l) /\ N[mp].next \in Nodes(l) \cup {NoNode}
        /\ n \in Nodes(l) \cup {NoNode}
    BY <1>0, <1>1, <1>2, NodeFacts
  <2>. HIDE DEF l, N, mp, n
  <2>2. /\ used(N[n], k) \in Node(l) /\ used(N[n], k).key = k /\ ~used(N[n], k).dead
        /\ used(N[n], k).val = N[n].val
    BY <2>1, UsedFields
  <2>3. /\ a \in Node(l) /\ a.key = used(N[n], k).key /\ a.dead = used(N[n], k).dead
        /\ a.val = used(N[n], k).val /\ a.next = N[mp].next
    BY <2>1, <2>2, NextField
  <2>4. b \in Node(l) /\ b.key = N[mp].key /\ b.dead = N[mp].dead /\ b.val = N[mp].val /\ b.next = n
    BY <2>1, NextField
  <2>. HIDE DEF a, b
  <2>. QED BY <1>4, <2>2, <2>3, <2>4
<1>6. /\ M \in [Nodes(l) -> Node(l)] /\ DOMAIN M = DOMAIN N /\ M[n] = a /\ M[mp] = b
      /\ \A x \in DOMAIN N : x # n /\ x # mp => M[x] = N[x]
  <2>1. M = [N EXCEPT ![n] = a, ![mp] = b]
    <3>1. [N EXCEPT ![n] = a][mp] = N[mp]
      <4>. HIDE DEF a, N, mp, n
      <4>. QED BY <1>1, <1>2, <1>4
    <3>2. M = [[N EXCEPT ![n] = a] EXCEPT ![mp] = [[N EXCEPT ![n] = a][mp] EXCEPT !.next = n]]
      OBVIOUS
    <3>. QED BY <3>1, <3>2
  <2>. HIDE DEF a, b, N, mp, n, M, l
  <2>. QED BY <1>1, <1>2, <1>4, <1>5, <2>1
<1>. HIDE DEF a, b, M
<1>7. Shaped(U) /\ SameFields(T, U) /\ U.node = M /\ U.lastfree = n
  <2>. DEFINE V == [T EXCEPT !.lastfree = n]
  <2>1. n \in Int
    BY <1>2
  <2>2. Shaped(V) /\ SameFields(T, V) /\ V.node = N /\ V.lastfree = n
    <3>. HIDE DEF n
    <3>. QED BY <1>0, <2>1, LastfreeField
  <2>3. V.lsizenode = l
    BY <2>2 DEF SameFields
  <2>4. U = [V EXCEPT !.node = M]
    BY <1>3
  <2>. HIDE DEF V, U, l
  <2>5. Shaped(U) /\ SameFields(V, U) /\ U.node = M /\ U.lastfree = V.lastfree
    <3>1. M \in [Nodes(V.lsizenode) -> Node(V.lsizenode)]
      BY ONLY <1>6, <2>3
    <3>2. /\ Shaped([V EXCEPT !.node = M]) /\ SameFields(V, [V EXCEPT !.node = M])
          /\ [V EXCEPT !.node = M].node = M /\ [V EXCEPT !.node = M].lastfree = V.lastfree
      BY ONLY <2>2, <3>1, NodeField
    <3>. QED BY ONLY <2>4, <3>2
  <2>. QED BY <2>2, <2>5 DEF SameFields
<1>. HIDE DEF U
<1>8. Placing(T, U, k, mp)
  BY <1>0, <1>7, SearchFacts, ShapedLinks DEF Placing, SameFields
<1>9. Chained(U)
  <2>1. Inserted(T.node, U.node, mp, k, n)
    BY <1>1, <1>2, <1>4, <1>5, <1>6, <1>7 DEF Inserted
  <2>. QED BY <1>8, <2>1, InsertChained
<1>10. \A x \in DOMAIN N : x # n => M[x].key = N[x].key /\ M[x].dead = N[x].dead /\ M[x].val = N[x].val
  BY <1>5, <1>6
<1>11. Alive(U)
  BY <1>0, <1>5, <1>6, <1>7, <1>10 DEF Alive, SameFields
<1>12. Free(U)
  <2>1. ASSUME NEW x \in DOMAIN M, M[x].key = Nil PROVE x < n
    <3>1. x # n
      BY <1>1, <1>5, <1>6, <2>1
    <3>. QED BY <1>2, <1>6, <1>10, <2>1, <3>1
  <2>. QED BY <1>2, <1>7, <2>1 DEF Free, SameFields
<1>13. ASSUME NEW j, NEW v, v # Nil PROVE Holds(T, j, v) <=> Holds(U, j, v)
  BY <1>4, <1>5, <1>6, <1>7, <1>10, <1>13 DEF Holds
<1>14. \A x \in DOMAIN M :
         /\ M[x].key = k \/ M[x].key = Nil \/ \E y \in DOMAIN N : N[y].key = M[x].key
         /\ M[x].dead => \E y \in DOMAIN N : N[y].dead
  BY <1>5, <1>6, <1>10
<1>15. Good(U)
  BY <1>7, <1>9, <1>11, <1>12 DEF Good
<1>16. n \in DOMAIN M /\ M[n].key = k /\ ~M[n].dead /\ M[n].val = Nil
  BY <1>2, <1>5, <1>6
<1>. HIDE DEF N, n, mp
<1>17. Keyed(T, U, k, n)
  BY <1>2, <1>7, <1>13, <1>14, <1>15, <1>16 DEF Keyed, SameFields, N
<1>. QED BY <1>3, <1>17 DEF U

LEMMA NewkeyMoves ==
  ASSUME NEW T, Good(T), NEW k \in Keys, search(T, k) = NoNode,
         ~(T.node[mainposition(T, k)].val = Nil /\ ~T.dummy), getfreepos(T) # {},
         mainposition(T, T.node[mainposition(T, k)].key) # mainposition(T, k)
  PROVE  Keyed(T, newkey(T, k).tab, k, newkey(T, k).at)
<1>. DEFINE N  == T.node
            l  == T.lsizenode
            mp == mainposition(T, k)
            q  == mainposition(T, N[mp].key)
            n  == Max(getfreepos(T))
            U  == newkey(T, k).tab
            p  == previous(T, q, mp)
            a  == used(emptyNode, k)
            b  == [N[p] EXCEPT !.next = n]
            M  == [relink(T, mp, n) EXCEPT ![n] = N[mp], ![mp] = a]
<1>0. Shaped(T) /\ Chained(T) /\ Alive(T) /\ Free(T) /\ Blank(N)
  BY DEF Good, Chained
<1>1. mp \in DOMAIN N /\ k # Nil /\ N \in [Nodes(l) -> Node(l)] /\ DOMAIN N = Nodes(l)
  BY <1>0, MainFacts, KeyFacts, ShapeFacts
<1>2. /\ n \in DOMAIN N /\ N[n].key = Nil /\ ~T.dummy /\ n \in Nat /\ n \in -1..twoto(T.lsizenode)
      /\ \A x \in DOMAIN N : N[x].key = Nil /\ x # n => x < n
  BY FreeNode
<1>3. newkey(T, k).at = mp /\ U = [[T EXCEPT !.lastfree = n] EXCEPT !.node = M]
  <2>1. newkey(T, k) = [tab |-> [[T EXCEPT !.lastfree = n] EXCEPT !.node = M], at |-> mp]
    BY DEF newkey, isdummy
  <2>. HIDE DEF M
  <2>. QED BY <2>1
<1>4. N[mp].val # Nil /\ N[mp].key # Nil /\ ~N[mp].dead /\ n # mp /\ N[n] = emptyNode
      /\ \A x \in DOMAIN N : N[x].next # n
  <2>1. N[mp].val # Nil /\ N[n] = emptyNode /\ \A x \in DOMAIN N : N[x].next # n
    BY <1>0, <1>1, <1>2 DEF Blank
  <2>2. N[mp].key # Nil /\ ~N[mp].dead
    BY <1>0, <1>1, <2>1 DEF Blank, emptyNode, Alive
  <2>. QED BY <1>2, <2>1, <2>2
<1>5. p \in DOMAIN N /\ N[p].next = mp /\ p # mp /\ p # n
  <2>. DEFINE S == {m \in DOMAIN N : N[m].next = mp}
  <2>1. q \in DOMAIN N /\ mp \in Chain(N, q) /\ q # mp
    <3>1. N[mp].key \in Keys
      BY <1>0, <1>1, <1>4, NodeFacts
    <3>. QED BY <1>0, <1>1, <1>4, <3>1, MainFacts DEF Chained, Reached
  <2>2. Links(N) /\ Ranked(N) /\ NoNode \notin DOMAIN N
    BY <1>0, ShapedLinks DEF Chained
  <2>3. p = walk(T, q, S)
    BY DEF previous
  <2>4. p \in DOMAIN N \cup {NoNode} /\ FirstOf(N, q, S, p)
    <3>1. S \subseteq DOMAIN N
      OBVIOUS
    <3>. HIDE DEF p, q, S
    <3>. QED BY <2>1, <2>2, <2>3, <3>1, WalkFacts
  <2>5. PICK z \in Chain(N, q) : N[z].next = mp
    <3>. HIDE DEF q
    <3>. QED BY <2>1, <2>2, ChainBefore
  <2>6. z \in S /\ z \in DOMAIN N
    BY <2>5 DEF Chain
  <2>7. p \in S
    <3>. HIDE DEF p, q, S
    <3>. QED BY <2>1, <2>2, <2>4, <2>5, <2>6 DEF FirstOf
  <2>8. p \in DOMAIN N /\ N[p].next = mp
    <3>. HIDE DEF p
    <3>. QED BY <2>7
  <2>9. p # mp
    <3>1. PICK r \in [DOMAIN N \cup {NoNode} -> Nat] : RankOf(N, r)
      BY <2>2 DEF Ranked
    <3>2. r[N[p].next] < r[p] /\ r[p] \in Nat
      <4>. HIDE DEF p, N
      <4>. QED BY <2>8, <3>1 DEF RankOf
    <3>. HIDE DEF p
    <3>. QED BY <2>8, <3>2
  <2>10. p # n
    <3>1. N[n].next = NoNode
      BY <1>4 DEF emptyNode
    <3>. HIDE DEF p, n
    <3>. QED BY <1>1, <2>2, <2>8, <3>1
  <2>. QED BY <2>8, <2>9, <2>10
<1>6. /\ a \in Node(l) /\ a.key = k /\ ~a.dead /\ a.val = Nil /\ a.next = NoNode
      /\ b \in Node(l) /\ b.key = N[p].key /\ b.dead = N[p].dead /\ b.val = N[p].val /\ b.next = n
      /\ N[mp] \in Node(l)
  <2>1. emptyNode \in Node(l) /\ emptyNode.val = Nil /\ emptyNode.next = NoNode
    BY DEF emptyNode, Node, Slots
  <2>2. a \in Node(l) /\ a.key = k /\ ~a.dead /\ a.val = emptyNode.val /\ a.next = emptyNode.next
    <3>. HIDE DEF l
    <3>. QED BY <2>1, UsedFields
  <2>3. N[p] \in Node(l) /\ N[mp] \in Node(l) /\ n \in Nodes(l) \cup {NoNode}
    <3>. HIDE DEF p, mp, n, N
    <3>. QED BY <1>1, <1>2, <1>5
  <2>4. b \in Node(l) /\ b.key = N[p].key /\ b.dead = N[p].dead /\ b.val = N[p].val /\ b.next = n
    <3>. HIDE DEF l, N, p, n
    <3>. QED BY <2>3, NextField
  <2>. HIDE DEF a, b
  <2>. QED BY <2>1, <2>2, <2>3, <2>4
<1>7. /\ M \in [Nodes(l) -> Node(l)] /\ DOMAIN M = DOMAIN N /\ M[n] = N[mp] /\ M[mp] = a /\ M[p] = b
      /\ \A x \in DOMAIN N : x # n /\ x # mp /\ x # p => M[x] = N[x]
  <2>1. M = [[N EXCEPT ![p] = b] EXCEPT ![n] = N[mp], ![mp] = a]
    BY DEF relink
  <2>. HIDE DEF a, b, N, mp, n, p, M, l
  <2>. QED BY <1>1, <1>2, <1>4, <1>5, <1>6, <2>1
<1>. HIDE DEF a, b, M, p
<1>8. Shaped(U) /\ SameFields(T, U) /\ U.node = M /\ U.lastfree = n
  <2>. DEFINE V == [T EXCEPT !.lastfree = n]
  <2>1. n \in Int
    BY <1>2
  <2>2. Shaped(V) /\ SameFields(T, V) /\ V.node = N /\ V.lastfree = n
    <3>. HIDE DEF n
    <3>. QED BY <1>0, <2>1, LastfreeField
  <2>3. V.lsizenode = l
    BY <2>2 DEF SameFields
  <2>4. U = [V EXCEPT !.node = M]
    BY <1>3
  <2>. HIDE DEF V, U, l
  <2>5. Shaped(U) /\ SameFields(V, U) /\ U.node = M /\ U.lastfree = V.lastfree
    <3>1. M \in [Nodes(V.lsizenode) -> Node(V.lsizenode)] /\ Shaped(V)
      BY <1>7, <2>2, <2>3
    <3>. QED BY ONLY <3>1, <2>4, NodeField
  <2>. QED BY <2>2, <2>5 DEF SameFields
<1>. HIDE DEF U
<1>9. Placing(T, U, k, mp)
  BY <1>0, <1>8, SearchFacts, ShapedLinks DEF Placing, SameFields
<1>10. Chained(U)
  <2>1. Moved(T.node, U.node, mp, k, n, p)
    BY <1>1, <1>2, <1>4, <1>5, <1>6, <1>7, <1>8 DEF Moved
  <2>. QED BY <1>4, <1>9, <2>1, MoveChained
<1>11. \A x \in DOMAIN N : x # n /\ x # mp =>
         M[x].key = N[x].key /\ M[x].dead = N[x].dead /\ M[x].val = N[x].val
  BY <1>6, <1>7
<1>12. Alive(U)
  BY <1>0, <1>1, <1>6, <1>7, <1>8, <1>11 DEF Alive, SameFields
<1>13. Free(U)
  <2>1. ASSUME NEW x \in DOMAIN M, M[x].key = Nil PROVE x < n
    <3>1. x # n /\ x # mp
      BY <1>1, <1>4, <1>6, <1>7, <2>1
    <3>. QED BY <1>2, <1>7, <1>11, <2>1, <3>1
  <2>. QED BY <1>2, <1>8, <2>1 DEF Free, SameFields
<1>14. ASSUME NEW j, NEW v, v # Nil
       PROVE  Holds(T, j, v) <=> Holds(U, j, v)
  <2>1. ASSUME NEW x \in DOMAIN N, N[x].key = j, N[x].val = v
        PROVE  \E y \in DOMAIN M : M[y].key = j /\ M[y].val = v
    <3>1. CASE x = mp
      BY <1>2, <1>7, <2>1, <3>1
    <3>2. CASE x # mp
      <4>1. x # n
        BY <1>4, <1>14, <2>1 DEF emptyNode
      <4>. QED BY <1>7, <1>11, <2>1, <3>2, <4>1
    <3>. QED BY <3>1, <3>2
  <2>2. ASSUME NEW y \in DOMAIN M, M[y].key = j, M[y].val = v
        PROVE  \E x \in DOMAIN N : N[x].key = j /\ N[x].val = v
    <3>1. y # mp
      BY <1>6, <1>7, <1>14, <2>2
    <3>2. CASE y = n
      BY <1>1, <1>7, <2>2, <3>2
    <3>3. CASE y # n
      BY <1>7, <1>11, <2>2, <3>1, <3>3
    <3>. QED BY <3>2, <3>3
  <2>. QED BY <1>8, <2>1, <2>2 DEF Holds
<1>15. ASSUME NEW x \in DOMAIN M
       PROVE  /\ M[x].key = k \/ M[x].key = Nil \/ \E y \in DOMAIN N : N[y].key = M[x].key
              /\ M[x].dead => \E y \in DOMAIN N : N[y].dead
  BY <1>1, <1>6, <1>7, <1>11
<1>. QED BY <1>1, <1>2, <1>3, <1>6, <1>7, <1>8, <1>10, <1>12, <1>13, <1>14, <1>15 DEF Keyed, Good, SameFields, U

LEMMA NewkeyFinds ==
  ASSUME NEW T, Good(T), NEW k \in Keys, search(T, k) = NoNode, newkey(T, k).at # NoNode
  PROVE  Keyed(T, newkey(T, k).tab, k, newkey(T, k).at)
<1>. DEFINE mp == mainposition(T, k)
<1>1. Shaped(T)
  BY DEF Good
<1>2. CASE T.node[mp].val = Nil /\ ~T.dummy
  BY <1>2, NewkeyReuses
<1>3. CASE ~(T.node[mp].val = Nil /\ ~T.dummy)
  <2>1. getfreepos(T) # {}
    BY <1>1, <1>3, NewkeyCases
  <2>. QED BY <1>3, <2>1, NewkeyInserts, NewkeyMoves
<1>. QED BY <1>2, <1>3

LEMMA NewkeyFull ==
  ASSUME NEW T, Good(T), NEW k \in Keys, newkey(T, k).at = NoNode
  PROVE  /\ Good(newkey(T, k).tab) /\ SameFields(T, newkey(T, k).tab)
         /\ newkey(T, k).tab.node = T.node
         /\ T.dummy \/ \A x \in DOMAIN T.node : T.node[x].key # Nil
<1>. DEFINE mp == mainposition(T, k)
            U  == newkey(T, k).tab
<1>1. Shaped(T) /\ Chained(T) /\ Alive(T) /\ Free(T)
  BY DEF Good
<1>2. mp \in DOMAIN T.node /\ mp # NoNode
  BY <1>1, MainFacts, ShapedLinks
<1>3. ~(T.node[mp].val = Nil /\ ~T.dummy)
  BY <1>1, <1>2, NewkeyCases
<1>4. getfreepos(T) = {}
  <2>1. SUFFICES ASSUME getfreepos(T) # {} PROVE FALSE
    OBVIOUS
  <2>2. newkey(T, k).at = mp \/ newkey(T, k).at = Max(getfreepos(T))
    BY <1>1, <1>3, <2>1, NewkeyCases
  <2>3. Max(getfreepos(T)) \in DOMAIN T.node
    BY <2>1, FreeNode
  <2>. QED BY <1>1, <1>2, <2>2, <2>3, ShapedLinks
<1>5. T.dummy \/ \A x \in DOMAIN T.node : T.node[x].key # Nil
  BY <1>4, FreeNode
<1>6. U = [T EXCEPT !.lastfree = -1]
  BY <1>1, <1>3, <1>4, NewkeyCases
<1>7. Shaped(U) /\ SameFields(T, U) /\ U.node = T.node /\ U.lastfree = -1
  <2>1. -1 \in Int
    OBVIOUS
  <2>. HIDE DEF U
  <2>. QED BY ONLY <1>1, <1>6, <2>1, LastfreeField
<1>. HIDE DEF U
<1>8. Chained(U)
  BY <1>1, <1>7, SameMain DEF Chained, Homes, Reached, SameFields
<1>9. Alive(U)
  BY <1>1, <1>7 DEF Alive, SameFields
<1>10. Free(U)
  <2>1. twoto(T.lsizenode) \in Nat
    BY <1>1, ShapeFacts
  <2>. QED BY <1>1, <1>5, <1>7, <2>1 DEF Free, SameFields
<1>. QED BY <1>5, <1>7, <1>8, <1>9, <1>10 DEF Good, U

(***************************************************************************)
(* Assignments of values.                                                  *)
(***************************************************************************)
\* The chains do not depend on the values, and no key comes back to life.
LEMMA ChainedSame ==
  ASSUME NEW T, NEW U, Shaped(T), Chained(T), Shaped(U), U.lsizenode = T.lsizenode,
         \A x \in DOMAIN T.node : /\ U.node[x].key = T.node[x].key /\ U.node[x].next = T.node[x].next
                                  /\ T.node[x].dead => U.node[x].dead
                                  /\ T.node[x] = emptyNode => U.node[x] = emptyNode
  PROVE  Chained(U)
<1>. DEFINE N == T.node
            M == U.node
<1>1. DOMAIN M = DOMAIN N
  BY ShapeFacts
<1>2. \A j : mainposition(U, j) = mainposition(T, j)
  BY SameMain
<1>3. \A x : Chain(M, x) = Chain(N, x) /\ Chain(N, x) \subseteq DOMAIN N
  <2>1. ASSUME NEW x PROVE Chain(M, x) = Chain(N, x) /\ Chain(N, x) \subseteq DOMAIN N
    <3>1. DOMAIN M = DOMAIN N /\ \A n \in DOMAIN N : M[n].next = N[n].next
      BY <1>1
    <3>2. Chain(N, x) \subseteq DOMAIN N
      BY DEF Chain
    <3>. HIDE DEF M, N
    <3>. QED BY <3>1, <3>2, SameChains
  <2>. QED BY <2>1
<1>4. Ranked(M) /\ Single(M) /\ Blank(M)
  BY <1>1 DEF Chained, Ranked, RankOf, Single, Blank
<1>5. Homes(U)
  <2>1. \A x \in DOMAIN N : N[x].key # Nil => mainposition(T, N[x].key) \in DOMAIN N
    BY MainFacts, NodeFacts
  <2>. QED BY <1>1, <1>2, <2>1 DEF Chained, Homes
<1>6. Reached(U)
  <2>1. ASSUME NEW x \in DOMAIN N, M[x].key # Nil
        PROVE  LET chain == Chain(N, mainposition(T, N[x].key))
               IN  /\ x \in chain
                   /\ ~M[x].dead => \A d \in chain : N[d].key = N[x].key => d \in Chain(N, x)
    BY <2>1 DEF Chained, Reached
  <2>2. ASSUME NEW x \in DOMAIN N, M[x].key # Nil
        PROVE  LET chain == Chain(M, mainposition(U, M[x].key))
               IN  /\ x \in chain
                   /\ ~M[x].dead => \A d \in chain : M[d].key = M[x].key => d \in Chain(M, x)
    <3>1. Chain(M, mainposition(U, M[x].key)) = Chain(N, mainposition(T, N[x].key))
          /\ Chain(M, x) = Chain(N, x) /\ M[x].key = N[x].key
      BY <1>2, <1>3
    <3>. QED BY <1>3, <2>1, <2>2, <3>1
  <2>. QED BY <1>1, <2>2 DEF Reached
<1>. QED BY <1>4, <1>5, <1>6 DEF Chained

LEMMA ValGood ==
  ASSUME NEW T, Good(T), NEW s \in DOMAIN T.node, T.node[s].key # Nil, ~T.node[s].dead, NEW v \in Slots
  PROVE  LET U == [T EXCEPT !.node[s].val = v]
         IN  /\ Good(U) /\ SameFields(T, U) /\ U.lastfree = T.lastfree /\ DOMAIN U.node = DOMAIN T.node
             /\ \A x \in DOMAIN T.node :
                  /\ U.node[x].key = T.node[x].key /\ U.node[x].next = T.node[x].next
                  /\ U.node[x].dead = T.node[x].dead
                  /\ U.node[x].val = (IF x = s THEN v ELSE T.node[x].val)
<1>. DEFINE N == T.node
            l == T.lsizenode
            b == [N[s] EXCEPT !.val = v]
            M == [N EXCEPT ![s] = b]
            U == [T EXCEPT !.node[s].val = v]
<1>0. Shaped(T) /\ Chained(T) /\ Alive(T) /\ Free(T)
  BY DEF Good
<1>1. N \in [Nodes(l) -> Node(l)] /\ DOMAIN N = Nodes(l)
  BY <1>0, ShapeFacts
<1>2. b \in Node(l) /\ b.key = N[s].key /\ b.dead = N[s].dead /\ b.next = N[s].next /\ b.val = v
  <2>1. N[s] \in Node(l)
    BY <1>1
  <2>. HIDE DEF l, N
  <2>. QED BY <2>1, ValField
<1>3. U = [T EXCEPT !.node = M]
  BY <1>0 DEF Shaped, Table
<1>. HIDE DEF b
<1>4. M \in [Nodes(l) -> Node(l)] /\ DOMAIN M = DOMAIN N /\ M[s] = b /\ \A x \in DOMAIN N : x # s => M[x] = N[x]
  BY <1>1, <1>2
<1>. HIDE DEF M
<1>5. Shaped(U) /\ SameFields(T, U) /\ U.node = M /\ U.lastfree = T.lastfree
  <2>. HIDE DEF U
  <2>. QED BY <1>0, <1>3, <1>4, NodeField
<1>. HIDE DEF U
<1>6. \A x \in DOMAIN N :
        /\ M[x].key = N[x].key /\ M[x].next = N[x].next /\ M[x].dead = N[x].dead
        /\ M[x].val = (IF x = s THEN v ELSE N[x].val)
  BY <1>2, <1>4
<1>7. Chained(U)
  <2>1. \A x \in DOMAIN N : N[x] = emptyNode => M[x] = emptyNode
    BY <1>4 DEF emptyNode
  <2>2. U.lsizenode = T.lsizenode
    BY <1>5 DEF SameFields
  <2>. QED BY <1>0, <1>5, <1>6, <2>1, <2>2, ChainedSame
<1>8. Alive(U)
  BY <1>0, <1>4, <1>5, <1>6 DEF Alive, SameFields
<1>9. ~T.dummy
  BY <1>0 DEF Free, nodevector, emptyNode
<1>10. Free(U)
  BY <1>0, <1>4, <1>5, <1>6, <1>9 DEF Free, SameFields
<1>. QED BY <1>4, <1>5, <1>6, <1>7, <1>8, <1>10 DEF Good, U

LEMMA GetFacts ==
  ASSUME NEW T, Good(T), NEW k \in Keys
  PROVE  /\ inArray(T, k) => luaH_get(T, k) = T.array[k] /\ k \in DOMAIN T.array
         /\ luaH_get(T, k) \in Slots
         /\ ~inArray(T, k) => \A v : v # Nil => (luaH_get(T, k) = v <=> Holds(T, k, v))
<1>1. Shaped(T) /\ Chained(T) /\ Alive(T)
  BY DEF Good
<1>2. ASSUME inArray(T, k)
      PROVE luaH_get(T, k) = T.array[k] /\ k \in DOMAIN T.array /\ T.array[k] \in Slots
  <2>1. k \in 1..Len(T.array)
    BY <1>1, <1>2, KeyFacts, ShapeFacts DEF inArray
  <2>2. T.array \in Seq(Slots) /\ DOMAIN T.array = 1..Len(T.array)
    BY <1>1, ShapeFacts
  <2>3. T.array[k] \in Slots
    BY <2>1, <2>2
  <2>. QED BY <1>2, <2>1, <2>2, <2>3 DEF luaH_get
<1>. DEFINE s == search(T, k)
<1>3. /\ s \in DOMAIN T.node \cup {NoNode} /\ NoNode \notin DOMAIN T.node
      /\ s # NoNode => s \in DOMAIN T.node /\ T.node[s].key = k /\ ~T.node[s].dead
      /\ \A n \in DOMAIN T.node : T.node[n].key = k /\ ~T.node[n].dead => n = s
  BY <1>1, SearchFacts, ShapedLinks
<1>4. \A n \in DOMAIN T.node : T.node[n].val # Nil => ~T.node[n].dead
  BY <1>1 DEF Alive
<1>5. ASSUME ~inArray(T, k) PROVE luaH_get(T, k) = IF s = NoNode THEN Nil ELSE T.node[s].val
  BY <1>5 DEF luaH_get
<1>. HIDE DEF s
<1>6. ASSUME ~inArray(T, k) PROVE luaH_get(T, k) \in Slots
  <2>1. s # NoNode => T.node[s].val \in Slots
    BY <1>1, <1>3, NodeFacts
  <2>2. Nil \in Slots
    BY DEF Slots
  <2>. QED BY <1>5, <1>6, <2>1, <2>2
<1>7. ASSUME ~inArray(T, k), NEW v, v # Nil PROVE luaH_get(T, k) = v <=> Holds(T, k, v)
  <2>1. luaH_get(T, k) = v => Holds(T, k, v)
    BY <1>3, <1>5, <1>7 DEF Holds
  <2>2. Holds(T, k, v) => luaH_get(T, k) = v
    BY <1>3, <1>4, <1>5, <1>7 DEF Holds
  <2>. QED BY <2>1, <2>2
<1>. QED BY <1>2, <1>6, <1>7

\* The values that a change of the nodes leaves alone.
LEMMA SameGet ==
  ASSUME NEW T, NEW U, Good(T), Good(U), NEW j \in Keys, U.array = T.array,
         \A v : v # Nil => (Holds(T, j, v) <=> Holds(U, j, v))
  PROVE  luaH_get(U, j) = luaH_get(T, j)
<1>1. inArray(U, j) <=> inArray(T, j)
  BY DEF inArray
<1>2. CASE inArray(T, j)
  BY <1>1, <1>2, GetFacts
<1>3. CASE ~inArray(T, j)
  <2>1. \A v : v # Nil => (luaH_get(T, j) = v <=> Holds(T, j, v))
    BY <1>3, GetFacts
  <2>2. \A v : v # Nil => (luaH_get(U, j) = v <=> Holds(U, j, v))
    BY <1>1, <1>3, GetFacts
  <2>. QED BY <2>1, <2>2
<1>. QED BY <1>2, <1>3

\* An assignment to a key changes its value and no other.
PutDone(T, U, k, v) ==
  /\ Good(U) /\ U.stuck = T.stuck /\ U.lsizenode = T.lsizenode /\ Len(U.array) = Len(T.array)
  /\ (U.dummy => T.dummy)
  /\ luaH_get(U, k) = v /\ \A j \in Keys : j # k => luaH_get(U, j) = luaH_get(T, j)
  /\ (\A x \in DOMAIN T.node : ~T.node[x].dead) => \A x \in DOMAIN U.node : ~U.node[x].dead
  /\ \A x \in DOMAIN U.node : U.node[x].key # Nil =>
       (U.node[x].key = k /\ ~inArray(T, k)) \/ \E y \in DOMAIN T.node : T.node[y].key = U.node[x].key
  /\ \A x \in DOMAIN U.node : U.node[x].val # Nil =>
       \/ U.node[x].key = k /\ ~inArray(T, k)
       \/ \E y \in DOMAIN T.node : T.node[y].key = U.node[x].key /\ T.node[y].val # Nil

LEMMA PutArray ==
  ASSUME NEW T, Good(T), NEW k \in Keys, NEW v \in Slots, inArray(T, k)
  PROVE  /\ PutDone(T, put(T, k, v), k, v)
         /\ put(T, k, v).node = T.node /\ put(T, k, v).array = [T.array EXCEPT ![k] = v]
         /\ put(T, k, v).lsizenode = T.lsizenode
<1>. DEFINE U == put(T, k, v)
            A == [T.array EXCEPT ![k] = v]
<1>0. Shaped(T) /\ Chained(T) /\ Alive(T) /\ Free(T)
  BY DEF Good
<1>1. k \in IntKeys /\ k \in 1..Len(T.array) /\ T.array \in Seq(Slots) /\ DOMAIN T.array = 1..Len(T.array)
      /\ Len(T.array) \in Nat
  BY <1>0, GetFacts, ShapeFacts DEF inArray
<1>2. A \in Seq(Slots) /\ Len(A) = Len(T.array) /\ A[k] = v /\ DOMAIN A = DOMAIN T.array
      /\ \A i \in DOMAIN A : i # k => A[i] = T.array[i]
  BY <1>1
<1>3. U = [T EXCEPT !.array = A]
  BY <1>0 DEF put, Shaped, Table
<1>. HIDE DEF A
<1>4. Shaped(U) /\ U.array = A /\ U.node = T.node /\ U.lsizenode = T.lsizenode /\ U.dummy = T.dummy
      /\ U.lastfree = T.lastfree /\ U.stuck = T.stuck
  <2>. HIDE DEF U
  <2>. QED BY <1>0, <1>2, <1>3 DEF Shaped, Table
<1>. HIDE DEF U
<1>5. Chained(U)
  <2>1. Homes(U) /\ Reached(U)
    BY <1>0, <1>4, SameMain DEF Chained, Homes, Reached
  <2>. QED BY <1>0, <1>4, <2>1 DEF Chained
<1>6. Alive(U) /\ Free(U)
  BY <1>0, <1>1, <1>2, <1>4 DEF Alive, Free
<1>7. Good(U)
  BY <1>4, <1>5, <1>6 DEF Good
<1>8. \A j : inArray(U, j) <=> inArray(T, j)
  BY <1>2, <1>4 DEF inArray
<1>9. luaH_get(U, k) = v
  BY <1>2, <1>4, <1>8 DEF luaH_get
<1>10. ASSUME NEW j \in Keys, j # k PROVE luaH_get(U, j) = luaH_get(T, j)
  <2>1. CASE inArray(T, j)
    <3>1. luaH_get(U, j) = A[j] /\ luaH_get(T, j) = T.array[j] /\ j \in DOMAIN A
      BY <1>0, <1>2, <1>4, <1>7, <1>8, <2>1, GetFacts
    <3>. QED BY <1>2, <1>10, <3>1
  <2>2. CASE ~inArray(T, j)
    <3>1. \A w : Holds(T, j, w) <=> Holds(U, j, w)
      BY <1>4 DEF Holds
    <3>2. \A w : w # Nil => (luaH_get(T, j) = w <=> Holds(T, j, w))
      BY <2>2, GetFacts
    <3>3. \A w : w # Nil => (luaH_get(U, j) = w <=> Holds(U, j, w))
      BY <1>7, <1>8, <2>2, GetFacts
    <3>. QED BY <3>1, <3>2, <3>3
  <2>. QED BY <2>1, <2>2
<1>11. PutDone(T, U, k, v)
  BY <1>2, <1>4, <1>7, <1>9, <1>10 DEF PutDone
<1>. QED BY <1>4, <1>11 DEF U, A

LEMMA ValDone ==
  ASSUME NEW T, Good(T), NEW k \in Keys, NEW v \in Slots, ~inArray(T, k),
         NEW s \in DOMAIN T.node, T.node[s].key = k, ~T.node[s].dead,
         NEW U, U = [T EXCEPT !.node[s].val = v]
  PROVE  PutDone(T, U, k, v)
<1>1. k # Nil /\ k \in Keys
  BY KeyFacts
<1>2. /\ Good(U) /\ SameFields(T, U) /\ DOMAIN U.node = DOMAIN T.node
      /\ \A x \in DOMAIN T.node :
           /\ U.node[x].key = T.node[x].key /\ U.node[x].dead = T.node[x].dead
           /\ U.node[x].val = (IF x = s THEN v ELSE T.node[x].val)
  BY <1>1, ValGood
<1>3. U.array = T.array /\ \A j : inArray(U, j) <=> inArray(T, j)
  BY <1>2 DEF inArray, SameFields
<1>4. ASSUME NEW j \in Keys, j # k PROVE luaH_get(U, j) = luaH_get(T, j)
  <2>1. \A w : Holds(T, j, w) <=> Holds(U, j, w)
    BY <1>2, <1>4 DEF Holds
  <2>. QED BY <1>2, <1>3, <2>1, SameGet
<1>5. luaH_get(U, k) = v
  <2>1. \A w : w # Nil => (luaH_get(U, k) = w <=> Holds(U, k, w))
    BY <1>1, <1>2, <1>3, GetFacts
  <2>2. \A x \in DOMAIN T.node : T.node[x].key = k /\ x # s => T.node[x].val = Nil
    <3>1. \A x \in DOMAIN T.node : T.node[x].key = k /\ ~T.node[x].dead => x = search(T, k)
      BY <1>1, SearchFacts DEF Good
    <3>2. \A x \in DOMAIN T.node : T.node[x].val # Nil => ~T.node[x].dead
      BY DEF Good, Alive
    <3>. QED BY <3>1, <3>2
  <2>3. ASSUME NEW w, w # Nil PROVE Holds(U, k, w) <=> w = v
    BY <1>2, <2>2, <2>3 DEF Holds
  <2>. QED BY <2>1, <2>3
<1>6. \A x \in DOMAIN U.node : U.node[x].val # Nil =>
       \/ U.node[x].key = k /\ ~inArray(T, k)
       \/ \E y \in DOMAIN T.node : T.node[y].key = U.node[x].key /\ T.node[y].val # Nil
  BY <1>2
<1>7. \A x \in DOMAIN U.node : U.node[x].key # Nil =>
       (U.node[x].key = k /\ ~inArray(T, k)) \/ \E y \in DOMAIN T.node : T.node[y].key = U.node[x].key
  BY <1>2
<1>8. (\A x \in DOMAIN T.node : ~T.node[x].dead) => \A x \in DOMAIN U.node : ~U.node[x].dead
  BY <1>2
<1>. QED BY <1>2, <1>3, <1>4, <1>5, <1>6, <1>7, <1>8 DEF PutDone, SameFields

LEMMA PutFacts ==
  ASSUME NEW T, Good(T), NEW k \in Keys, NEW v \in Slots,
         inArray(T, k) \/ search(T, k) # NoNode \/ newkey(T, k).at # NoNode
  PROVE  PutDone(T, put(T, k, v), k, v)
<1>. DEFINE s  == search(T, k)
            at == newkey(T, k).at
            V  == newkey(T, k).tab
            U  == put(T, k, v)
<1>1. CASE inArray(T, k)
  BY <1>1, PutArray
<1>2. CASE ~inArray(T, k) /\ s # NoNode
  <2>1. s \in DOMAIN T.node /\ T.node[s].key = k /\ ~T.node[s].dead
    BY <1>2, SearchFacts DEF Good
  <2>2. U = [T EXCEPT !.node[s].val = v]
    BY <1>2 DEF put
  <2>. HIDE DEF s, U
  <2>3. PutDone(T, U, k, v)
    BY <1>2, <2>1, <2>2, ValDone
  <2>. QED BY <2>3 DEF U
<1>3. CASE ~inArray(T, k) /\ s = NoNode
  <2>1. at # NoNode
    BY <1>3
  <2>2. Keyed(T, V, k, at)
    BY <1>3, <2>1, NewkeyFinds
  <2>3. U = [V EXCEPT !.node[at].val = v]
    BY <1>3, <2>1 DEF put
  <2>. HIDE DEF s, U, V, at
  <2>12. ASSUME NEW j PROVE \A w : w # Nil => (Holds(T, j, w) <=> Holds(V, j, w))
    BY <2>2 DEF Keyed
  <2>4. Good(V) /\ V.array = T.array /\ at \in DOMAIN V.node /\ V.node[at].key = k /\ ~V.node[at].dead
        /\ V.lsizenode = T.lsizenode /\ V.stuck = T.stuck /\ ~V.dummy
    BY <2>2 DEF Keyed
  <2>5. \A j : inArray(V, j) <=> inArray(T, j)
    BY <2>4 DEF inArray
  <2>6. PutDone(V, U, k, v)
    BY <1>3, <2>3, <2>4, <2>5, ValDone
  <2>7. ASSUME NEW j \in Keys PROVE luaH_get(V, j) = luaH_get(T, j)
    <3>1. \A w : w # Nil => (Holds(T, j, w) <=> Holds(V, j, w))
      BY <2>12
    <3>. QED BY <2>4, <3>1, SameGet
  <2>8. (\A x \in DOMAIN T.node : ~T.node[x].dead) => \A x \in DOMAIN U.node : ~U.node[x].dead
    <3>1. (\A x \in DOMAIN T.node : ~T.node[x].dead) => \A x \in DOMAIN V.node : ~V.node[x].dead
      BY <2>2 DEF Keyed
    <3>. QED BY <2>6, <3>1 DEF PutDone
  <2>9. ASSUME NEW x \in DOMAIN U.node, U.node[x].key # Nil
        PROVE  U.node[x].key = k \/ \E y \in DOMAIN T.node : T.node[y].key = U.node[x].key
    <3>1. U.node[x].key = k \/ \E y \in DOMAIN V.node : V.node[y].key = U.node[x].key
      BY <2>6, <2>9 DEF PutDone
    <3>2. \A y \in DOMAIN V.node : V.node[y].key = k \/ V.node[y].key = Nil
            \/ \E z \in DOMAIN T.node : T.node[z].key = V.node[y].key
      BY <2>2 DEF Keyed
    <3>. QED BY <2>9, <3>1, <3>2
  <2>10. ASSUME NEW x \in DOMAIN U.node, U.node[x].val # Nil
         PROVE  U.node[x].key = k
                \/ \E y \in DOMAIN T.node : T.node[y].key = U.node[x].key /\ T.node[y].val # Nil
    <3>1. U.node[x].key = k \/ \E y \in DOMAIN V.node : V.node[y].key = U.node[x].key /\ V.node[y].val # Nil
      BY <2>6, <2>10 DEF PutDone
    <3>2. \A y \in DOMAIN V.node : V.node[y].val # Nil =>
            \E z \in DOMAIN T.node : T.node[z].key = V.node[y].key /\ T.node[z].val = V.node[y].val
      <4>1. ASSUME NEW y \in DOMAIN V.node, V.node[y].val # Nil
            PROVE  Holds(T, V.node[y].key, V.node[y].val)
        <5>1. Holds(V, V.node[y].key, V.node[y].val)
          BY DEF Holds
        <5>. QED BY <5>1, <4>1, <2>12
      <4>. QED BY <4>1 DEF Holds
    <3>. QED BY <3>1, <3>2
  <2>11. PutDone(T, U, k, v)
    BY <1>3, <2>4, <2>6, <2>7, <2>8, <2>9, <2>10 DEF PutDone
  <2>. QED BY <2>11 DEF U
<1>. QED BY <1>1, <1>2, <1>3

(***************************************************************************)
(* The rehash.                                                             *)
(***************************************************************************)
\* A table with a new node vector.
LEMMA BlankGood ==
  ASSUME NEW l \in 0..MaxBits, NEW U \in Table(l), U.node = nodevector(twoto(l)),
         \A i \in DOMAIN U.array : U.array[i] # Nil => i \in IntKeys,
         U.dummy => l = 0 /\ U.lastfree \in -1..0,
         U.lastfree \in -1..twoto(l), ~U.dummy => U.lastfree = twoto(l)
  PROVE  /\ Good(U)
         /\ \A k \in Keys : luaH_get(U, k) = IF inArray(U, k) THEN U.array[k] ELSE Nil
<1>1. l \in Nat /\ twoto(l) \in Nat /\ twoto(l) >= 1 /\ Nodes(l) \subseteq Nat
  BY KeyFacts, NodesFacts
<1>2. U.lsizenode = l /\ Shaped(U) /\ DOMAIN U.node = Nodes(l)
  BY DEF Table, Shaped
<1>3. \A n \in DOMAIN U.node : U.node[n] = emptyNode
  BY <1>2 DEF nodevector, Nodes
<1>4. \A n \in DOMAIN U.node : U.node[n].key = Nil /\ U.node[n].val = Nil /\ U.node[n].next = NoNode
        /\ ~U.node[n].dead
  BY <1>3 DEF emptyNode
<1>5. NoNode \notin DOMAIN U.node
  BY <1>1, <1>2 DEF NoNode
<1>6. Chained(U)
  <2>1. Ranked(U.node)
    <3>. DEFINE r == [n \in DOMAIN U.node \cup {NoNode} |-> IF n = NoNode THEN 0 ELSE 1]
    <3>1. r \in [DOMAIN U.node \cup {NoNode} -> Nat] /\ RankOf(U.node, r)
      BY <1>4, <1>5 DEF RankOf
    <3>. QED BY <3>1 DEF Ranked
  <2>2. Single(U.node) /\ Blank(U.node)
    BY <1>3, <1>4, <1>5 DEF Single, Blank
  <2>3. Homes(U) /\ Reached(U)
    BY <1>4 DEF Homes, Reached
  <2>. QED BY <2>1, <2>2, <2>3 DEF Chained
<1>7. Alive(U)
  BY <1>4 DEF Alive
<1>8. Free(U)
  <2>1. \A n \in Nodes(l) : n < twoto(l)
    BY <1>1 DEF Nodes
  <2>2. U.dummy => U.node = nodevector(1)
    BY TwotoZero
  <2>. QED BY <1>2, <2>1, <2>2 DEF Free
<1>9. Good(U)
  BY <1>2, <1>6, <1>7, <1>8 DEF Good
<1>10. ASSUME NEW k \in Keys PROVE luaH_get(U, k) = IF inArray(U, k) THEN U.array[k] ELSE Nil
  <2>1. \A v : v # Nil => ~Holds(U, k, v)
    BY <1>4 DEF Holds
  <2>. QED BY <1>9, <2>1, GetFacts
<1>. QED BY <1>9, <1>10

\* What resize inserts, in its order.
Slice(T, nasize) ==
  [i \in 1..(IF nasize < Len(T.array) THEN Len(T.array) - nasize ELSE 0) |->
     <<nasize + i, T.array[nasize + i]>>]
Back(T) == [i \in 1..sizenode(T) |-> LET n == T.node[sizenode(T) - i] IN <<n.key, n.val>>]
Entries(T, nasize) == Slice(T, nasize) \o Back(T)

LEMMA EntriesFacts ==
  ASSUME NEW T, Shaped(T), NEW nasize \in Nat
  PROVE  /\ Len(Entries(T, nasize)) \in Nat
         /\ \A i \in 1..Len(Entries(T, nasize)) :
              LET k == Entries(T, nasize)[i][1]
                  w == Entries(T, nasize)[i][2]
              IN  (k \in nasize + 1 .. Len(T.array) /\ w = T.array[k]) \/ Holds(T, k, w)
         /\ \A k \in nasize + 1 .. Len(T.array) :
              \E i \in 1..Len(Entries(T, nasize)) :
                Entries(T, nasize)[i][1] = k /\ Entries(T, nasize)[i][2] = T.array[k]
         /\ \A n \in DOMAIN T.node :
              \E i \in 1..Len(Entries(T, nasize)) :
                Entries(T, nasize)[i][1] = T.node[n].key /\ Entries(T, nasize)[i][2] = T.node[n].val
<1>. DEFINE a == Len(T.array)
            m == IF nasize < a THEN a - nasize ELSE 0
            size == sizenode(T)
            S == Slice(T, nasize)
            B == Back(T)
            E == Entries(T, nasize)
<1>1. a \in Nat /\ m \in Nat /\ size \in Nat /\ DOMAIN T.node = 0..(size - 1)
  BY ShapeFacts DEF Nodes
<1>2. DOMAIN S = 1..m /\ \A i \in 1..m : S[i] = <<nasize + i, T.array[nasize + i]>>
  BY DEF Slice
<1>3. DOMAIN B = 1..size /\ \A i \in 1..size : B[i] = <<T.node[size - i].key, T.node[size - i].val>>
  BY DEF Back
<1>4. S \in Seq(Range(S)) /\ Len(S) = m
  <2>1. S \in [1..m -> Range(S)]
    BY <1>2 DEF Slice, Range
  <2>. HIDE DEF S, m
  <2>. QED BY <1>1, <2>1
<1>5. B \in Seq(Range(B)) /\ Len(B) = size
  <2>1. B \in [1..size -> Range(B)]
    BY <1>3 DEF Back, Range
  <2>. HIDE DEF B, size
  <2>. QED BY <1>1, <2>1
<1>. HIDE DEF S, B
<1>6. /\ Len(E) = m + size
      /\ \A i \in 1..m : E[i] = S[i]
      /\ \A i \in 1..size : E[m + i] = B[i]
  <2>. DEFINE V == Range(S) \cup Range(B)
  <2>1. S \in Seq(V) /\ B \in Seq(V)
    BY <1>4, <1>5
  <2>2. E = S \o B
    BY DEF Entries, S, B
  <2>. HIDE DEF V, m, size, E
  <2>3. Len(E) = m + size /\ \A i \in 1..m + size : E[i] = IF i <= m THEN S[i] ELSE B[i - m]
    BY ONLY <1>4, <1>5, <2>1, <2>2, ConcatProperties
  <2>4. ASSUME NEW i \in 1..m PROVE E[i] = S[i]
    <3>1. i \in 1..m + size /\ i <= m
      BY <1>1
    <3>. QED BY <2>3, <3>1
  <2>5. ASSUME NEW i \in 1..size PROVE E[m + i] = B[i]
    <3>2. ASSUME NEW j, j = m + i PROVE E[j] = B[i]
      <4>1. j \in 1..m + size /\ ~(j <= m) /\ j - m = i
        BY <1>1, <3>2
      <4>2. E[j] = IF j <= m THEN S[j] ELSE B[j - m]
        BY <2>3, <4>1
      <4>. QED BY ONLY <4>1, <4>2
    <3>. QED BY <3>2
  <2>. QED BY <2>3, <2>4, <2>5
<1>. HIDE DEF E
<1>7. ASSUME NEW i \in 1..Len(E)
      PROVE  LET k == E[i][1]
                 w == E[i][2]
             IN  (k \in nasize + 1 .. Len(T.array) /\ w = T.array[k]) \/ Holds(T, k, w)
  <2>1. CASE i \in 1..m
    <3>1. E[i] = <<nasize + i, T.array[nasize + i]>> /\ nasize + i \in nasize + 1 .. a
      BY <1>1, <1>2, <1>6, <2>1
    <3>. QED BY <3>1
  <2>2. CASE i \notin 1..m
    <3>. DEFINE j == i - m
    <3>1. j \in 1..size /\ i = m + j /\ size - j \in DOMAIN T.node
      <4>. HIDE DEF m, size
      <4>. QED BY <1>1, <1>6, <2>2
    <3>2. E[i] = <<T.node[size - j].key, T.node[size - j].val>>
      <4>. HIDE DEF m, j
      <4>. QED BY <1>3, <1>6, <3>1
    <3>3. PICK n \in DOMAIN T.node : E[i] = <<T.node[n].key, T.node[n].val>>
      BY <3>1, <3>2
    <3>4. E[i][1] = T.node[n].key /\ E[i][2] = T.node[n].val
      BY <3>3
    <3>. QED BY <3>4 DEF Holds
  <2>. QED BY <2>1, <2>2
<1>8. ASSUME NEW k \in nasize + 1 .. a
      PROVE  \E i \in 1..Len(E) : E[i][1] = k /\ E[i][2] = T.array[k]
  <2>1. k - nasize \in 1..m /\ nasize + (k - nasize) = k /\ k - nasize \in 1..m + size
    BY <1>1
  <2>. HIDE DEF m, size
  <2>2. E[k - nasize] = <<k, T.array[k]>>
    BY <1>2, <1>6, <2>1
  <2>. QED BY <1>6, <2>1, <2>2
<1>9. ASSUME NEW n \in DOMAIN T.node
      PROVE  \E i \in 1..Len(E) : E[i][1] = T.node[n].key /\ E[i][2] = T.node[n].val
  <2>. HIDE DEF m, size
  <2>0. n \in 0..(size - 1)
    BY <1>1
  <2>1. size - n \in 1..size /\ size - (size - n) = n /\ m + (size - n) \in 1..m + size
    <3>1. n \in Int /\ 0 <= n /\ n <= size - 1 /\ m \in Int /\ m >= 0 /\ size \in Int
      BY <1>1, <2>0
    <3>. QED BY ONLY <3>1
  <2>2. E[m + (size - n)] = <<T.node[n].key, T.node[n].val>>
    BY <1>3, <1>6, <2>1
  <2>. QED BY <1>6, <2>1, <2>2
<1>10. Len(E) \in Nat
  BY <1>1, <1>6
<1>. QED BY <1>7, <1>8, <1>9, <1>10 DEF E

\* What the rehash keeps: a table whose live keys are in M, for which it was
\* given room.
Fits(U, M, nhsize) ==
  /\ Good(U) /\ ~U.stuck
  /\ nhsize # 0 => ~U.dummy /\ U.lsizenode = ceillog2(nhsize)
  /\ \A x \in DOMAIN U.node : ~U.node[x].dead /\ (U.node[x].key # Nil => U.node[x].key \in M)

\* The keys of the nodes, when none is dead, are as many as the nodes.
LEMMA KeysInjective ==
  ASSUME NEW U, Good(U), NEW M, IsFiniteSet(M), NEW k \in M, k \in Keys,
         \A x \in DOMAIN U.node :
           ~U.node[x].dead /\ U.node[x].key # Nil /\ U.node[x].key # k /\ U.node[x].key \in M
  PROVE  sizenode(U) < Cardinality(M)
<1>. DEFINE D == DOMAIN U.node
            S == M \ {k}
            f == [x \in D |-> U.node[x].key]
<1>1. Shaped(U) /\ Chained(U)
  BY DEF Good
<1>2. D = 0..(sizenode(U) - 1) /\ sizenode(U) \in Nat /\ sizenode(U) >= 1
  BY <1>1, ShapeFacts DEF Nodes
<1>3. IsFiniteSet(D) /\ Cardinality(D) = sizenode(U)
  <2>1. IsFiniteSet(0..(sizenode(U) - 1))
        /\ Cardinality(0..(sizenode(U) - 1)) = IF 0 > sizenode(U) - 1 THEN 0 ELSE sizenode(U) - 1 - 0 + 1
    <3>1. 0 \in Int /\ sizenode(U) - 1 \in Int
      BY <1>2
    <3>. QED BY <3>1, FS_Interval
  <2>. QED BY <1>2, <2>1
<1>4. IsFiniteSet(S) /\ Cardinality(S) = Cardinality(M) - 1 /\ Cardinality(M) \in Nat
  BY FS_RemoveElement, FS_CardinalityType
<1>5. ASSUME NEW x \in D, NEW y \in D, U.node[x].key = U.node[y].key PROVE x = y
  <2>1. U.node[x].key \in Keys
    BY <1>1, NodeFacts
  <2>. QED BY <1>1, <1>5, <2>1, SearchFacts
<1>6. f \in Injection(D, S)
  <2>1. f \in [D -> S]
    OBVIOUS
  <2>. QED BY <1>5, <2>1 DEF Injection, IsInjective
<1>7. Cardinality(D) <= Cardinality(S)
  <2>. HIDE DEF D, S, f
  <2>. QED BY <1>4, <1>6, FS_Injection
<1>. HIDE DEF D, S
<1>. QED BY <1>2, <1>3, <1>4, <1>7

LEMMA PutFits ==
  ASSUME NEW U, NEW M, IsFiniteSet(M), NEW nhsize \in Nat, Cardinality(M) <= nhsize,
         Fits(U, M, nhsize), NEW k \in Keys, NEW v \in Slots, k \in M \/ inArray(U, k)
  PROVE  /\ PutDone(U, put(U, k, v), k, v) /\ Fits(put(U, k, v), M, nhsize)
<1>1. Good(U) /\ Shaped(U) /\ Chained(U) /\ ~U.stuck /\ k # Nil
      /\ \A x \in DOMAIN U.node : ~U.node[x].dead /\ (U.node[x].key # Nil => U.node[x].key \in M)
  BY KeyFacts DEF Fits, Good
<1>2. inArray(U, k) \/ search(U, k) # NoNode \/ newkey(U, k).at # NoNode
  <2>. SUFFICES ASSUME ~inArray(U, k), search(U, k) = NoNode, newkey(U, k).at = NoNode PROVE FALSE
    OBVIOUS
  <2>1. k \in M /\ Cardinality(M) \in Nat
    BY FS_CardinalityType
  <2>2. nhsize # 0
    <3>1. Cardinality(M) # 0
      BY <2>1, FS_EmptySet
    <3>. QED BY <2>1, <3>1
  <2>3. \A x \in DOMAIN U.node : U.node[x].key # Nil
    BY <1>1, <2>2, NewkeyFull DEF Fits
  <2>4. \A x \in DOMAIN U.node : U.node[x].key # k
    BY <1>1, SearchFacts, ShapedLinks
  <2>5. sizenode(U) < Cardinality(M)
    BY <1>1, <2>1, <2>3, <2>4, KeysInjective
  <2>6. nhsize <= sizenode(U) /\ sizenode(U) \in Nat
    BY <1>1, <2>2, CeilFacts, ShapeFacts DEF Fits
  <2>. QED BY <2>1, <2>5, <2>6
<1>3. PutDone(U, put(U, k, v), k, v)
  BY <1>1, <1>2, PutFacts
<1>. DEFINE W == put(U, k, v)
<1>. HIDE DEF W
<1>4. PutDone(U, W, k, v)
  BY <1>3 DEF W
<1>5. \A x \in DOMAIN W.node : W.node[x].key # Nil => W.node[x].key \in M
  <2>1. \A x \in DOMAIN W.node : W.node[x].key # Nil =>
          (W.node[x].key = k /\ ~inArray(U, k)) \/ \E y \in DOMAIN U.node : U.node[y].key = W.node[x].key
    BY <1>4 DEF PutDone
  <2>. QED BY <1>1, <2>1
<1>6. Fits(W, M, nhsize)
  BY <1>1, <1>4, <1>5 DEF PutDone, Fits
<1>. QED BY <1>3, <1>6 DEF W

\* The array part with another size.
LEMMA NewArrayFacts ==
  ASSUME NEW T, Shaped(T), NEW nasize \in Nat
  PROVE  LET U == newArray(T, nasize)
         IN  /\ Shaped(U) /\ U.node = T.node /\ U.lsizenode = T.lsizenode /\ U.dummy = T.dummy
             /\ U.lastfree = T.lastfree /\ U.stuck = T.stuck
             /\ U.array \in Seq(Slots) /\ Len(U.array) = nasize /\ DOMAIN U.array = 1..nasize
             /\ \A i \in 1..nasize : U.array[i] = IF i <= Len(T.array) THEN T.array[i] ELSE Nil
<1>. DEFINE A == [i \in 1..nasize |-> IF i <= Len(T.array) THEN T.array[i] ELSE Nil]
            U == newArray(T, nasize)
<1>1. T.array \in Seq(Slots) /\ Len(T.array) \in Nat /\ DOMAIN T.array = 1..Len(T.array) /\ Nil \in Slots
  BY ShapeFacts DEF Slots
<1>2. \A i \in 1..nasize : i <= Len(T.array) => T.array[i] \in Slots
  <2>1. \A i \in 1..Len(T.array) : T.array[i] \in Slots
    BY <1>1
  <2>. QED BY <1>1, <2>1
<1>3. A \in [1..nasize -> Slots]
  BY <1>1, <1>2
<1>4. A \in Seq(Slots) /\ Len(A) = nasize /\ DOMAIN A = 1..nasize
      /\ \A i \in 1..nasize : A[i] = IF i <= Len(T.array) THEN T.array[i] ELSE Nil
  <2>1. \A i \in 1..nasize : A[i] = IF i <= Len(T.array) THEN T.array[i] ELSE Nil
    OBVIOUS
  <2>. HIDE DEF A
  <2>2. A \in Seq(Slots)
    BY <1>3
  <2>3. DOMAIN A = 1..nasize
    BY <1>3
  <2>4. Len(A) = nasize
    BY <2>2, <2>3
  <2>. QED BY <2>1, <2>2, <2>3, <2>4
<1>5. U = [T EXCEPT !.array = A]
  BY DEF newArray
<1>. HIDE DEF A, U
<1>6. Shaped(U) /\ U.array = A /\ U.node = T.node /\ U.lsizenode = T.lsizenode /\ U.dummy = T.dummy
      /\ U.lastfree = T.lastfree /\ U.stuck = T.stuck
  BY <1>4, <1>5 DEF Shaped, Table
<1>. QED BY <1>4, <1>6 DEF U

\* Emptied, with room for nhsize keys.
LEMMA NewNodesFacts ==
  ASSUME NEW T, Shaped(T), \A i \in DOMAIN T.array : T.array[i] # Nil => i \in IntKeys,
         NEW nhsize \in Nat, ~overflow(nhsize)
  PROVE  LET U == newNodes(T, nhsize)
         IN  /\ Good(U) /\ U.array = T.array /\ U.stuck = T.stuck
             /\ nhsize # 0 => ~U.dummy /\ U.lsizenode = ceillog2(nhsize)
             /\ \A x \in DOMAIN U.node : U.node[x] = emptyNode
             /\ \A k \in Keys : luaH_get(U, k) = IF inArray(U, k) THEN U.array[k] ELSE Nil
<1>. DEFINE U == newNodes(T, nhsize)
            l == IF nhsize = 0 THEN 0 ELSE ceillog2(nhsize)
            N == nodevector(twoto(l))
            f == IF nhsize = 0 THEN 0 ELSE twoto(l)
            d == nhsize = 0
<1>1. U = [T EXCEPT !.node = N, !.lsizenode = l, !.dummy = d, !.lastfree = f]
  BY TwotoZero DEF newNodes
<1>2. l \in 0..MaxBits /\ l \in Nat
  <2>1. nhsize # 0 => ceillog2(nhsize) \in Nat /\ ~(ceillog2(nhsize) > MaxBits)
    BY CeilFacts DEF overflow
  <2>. QED BY <2>1, KeyFacts
<1>3. twoto(l) \in Nat /\ twoto(l) >= 1
  BY <1>2, NodesFacts
<1>4. N \in [Nodes(l) -> Node(l)] /\ \A x \in DOMAIN N : N[x] = emptyNode
  BY DEF nodevector, Nodes, Node, emptyNode, Slots
<1>5. f \in Int /\ f \in -1..twoto(l) /\ (d => l = 0 /\ f = 0) /\ (~d => f = twoto(l)) /\ d \in BOOLEAN
  BY <1>3
<1>6. nhsize # 0 => ~d /\ l = ceillog2(nhsize)
  OBVIOUS
<1>7. N = nodevector(twoto(l))
  OBVIOUS
<1>. HIDE DEF U, l, N, f, d
<1>8. /\ U \in Table(l) /\ U.array = T.array /\ U.node = N /\ U.lsizenode = l /\ U.dummy = d
      /\ U.lastfree = f /\ U.stuck = T.stuck
  BY <1>1, <1>4, <1>5 DEF Shaped, Table
<1>9. Good(U) /\ \A k \in Keys : luaH_get(U, k) = IF inArray(U, k) THEN U.array[k] ELSE Nil
  BY <1>2, <1>5, <1>7, <1>8, BlankGood
<1>. QED BY <1>4, <1>6, <1>8, <1>9 DEF U

\* The array slots that stay where they are.
Kept(T, nasize, k) == k \in IntKeys /\ k <= nasize /\ k <= Len(T.array)

LEMMA NewFits ==
  ASSUME NEW T, Good(T), ~T.stuck, NEW nasize \in Nat, NEW nhsize \in Nat, ~overflow(nhsize), NEW M
  PROVE  LET U == newNodes(newArray(T, nasize), nhsize)
         IN  /\ Fits(U, M, nhsize) /\ Len(U.array) = nasize
             /\ \A k \in Keys : luaH_get(U, k) = IF Kept(T, nasize, k) THEN T.array[k] ELSE Nil
<1>. DEFINE V == newArray(T, nasize)
            U == newNodes(V, nhsize)
<1>1. Shaped(T) /\ Alive(T) /\ Len(T.array) \in Nat /\ DOMAIN T.array = 1..Len(T.array)
  BY ShapeFacts DEF Good
<1>2. /\ Shaped(V) /\ V.stuck = T.stuck /\ Len(V.array) = nasize /\ DOMAIN V.array = 1..nasize
      /\ \A i \in 1..nasize : V.array[i] = IF i <= Len(T.array) THEN T.array[i] ELSE Nil
  BY <1>1, NewArrayFacts
<1>3. \A i \in DOMAIN V.array : V.array[i] # Nil => i \in IntKeys
  BY <1>1, <1>2 DEF Alive
<1>. HIDE DEF V
<1>4. /\ Good(U) /\ U.array = V.array /\ U.stuck = V.stuck
      /\ nhsize # 0 => ~U.dummy /\ U.lsizenode = ceillog2(nhsize)
      /\ \A x \in DOMAIN U.node : U.node[x] = emptyNode
      /\ \A k \in Keys : luaH_get(U, k) = IF inArray(U, k) THEN U.array[k] ELSE Nil
  BY <1>2, <1>3, NewNodesFacts
<1>. HIDE DEF U
<1>5. Fits(U, M, nhsize)
  BY <1>2, <1>4 DEF Fits, emptyNode
<1>6. ASSUME NEW k \in Keys PROVE luaH_get(U, k) = IF Kept(T, nasize, k) THEN T.array[k] ELSE Nil
  <2>1. CASE inArray(U, k)
    <3>1. k \in 1..nasize /\ k \in IntKeys
      BY <1>2, <1>4, <2>1, KeyFacts DEF inArray
    <3>. QED BY <1>1, <1>2, <1>4, <2>1, <3>1 DEF Kept
  <2>2. CASE ~inArray(U, k)
    <3>1. ~Kept(T, nasize, k)
      BY <1>2, <1>4, <2>2 DEF Kept, inArray
    <3>. QED BY <1>4, <2>2, <3>1
  <2>. QED BY <2>1, <2>2
<1>. QED BY <1>2, <1>4, <1>5, <1>6 DEF U, V

\* The entries that are in the table after i steps of resize.
Source(T, nasize, i, k, w) ==
  \/ Kept(T, nasize, k) /\ T.array[k] = w
  \/ \E j \in 1..i : Entries(T, nasize)[j][1] = k /\ Entries(T, nasize)[j][2] = w

\* They are what the old table held, unless a slot hides a node.
LEMMA SourceGet ==
  ASSUME NEW T, Good(T), ~hidden(T), NEW nasize \in Nat, NEW k \in Keys, NEW w, w # Nil
  PROVE  Source(T, nasize, Len(Entries(T, nasize)), k, w) <=> luaH_get(T, k) = w
<1>. DEFINE E == Entries(T, nasize)
            n == Len(E)
            a == Len(T.array)
<1>1. Shaped(T) /\ Alive(T) /\ a \in Nat /\ DOMAIN T.array = 1..a
  BY ShapeFacts DEF Good
<1>2. /\ \A i \in 1..n : (E[i][1] \in nasize + 1 .. a /\ E[i][2] = T.array[E[i][1]]) \/ Holds(T, E[i][1], E[i][2])
      /\ \A j \in nasize + 1 .. a : \E i \in 1..n : E[i][1] = j /\ E[i][2] = T.array[j]
      /\ \A x \in DOMAIN T.node : \E i \in 1..n : E[i][1] = T.node[x].key /\ E[i][2] = T.node[x].val
  BY <1>1, EntriesFacts
<1>3. Source(T, nasize, n, k, w) <=>
        (Kept(T, nasize, k) /\ T.array[k] = w) \/ \E j \in 1..n : E[j][1] = k /\ E[j][2] = w
  BY DEF Source
<1>. HIDE DEF E, n
<1>4. CASE inArray(T, k)
  <2>1. k \in IntKeys /\ k \in 1..a /\ luaH_get(T, k) = T.array[k]
    BY <1>1, <1>4, GetFacts DEF inArray
  <2>2. ~Holds(T, k, w)
    BY <1>4 DEF hidden, nodeKeys, Holds
  <2>3. Source(T, nasize, n, k, w) => T.array[k] = w
    BY <1>2, <1>3, <2>2
  <2>4. T.array[k] = w => Source(T, nasize, n, k, w)
    <3>1. CASE k <= nasize
      BY <1>3, <2>1, <3>1 DEF Kept
    <3>2. CASE ~(k <= nasize)
      <4>1. k \in nasize + 1 .. a
        BY <2>1, <3>2
      <4>. QED BY <1>2, <1>3, <4>1
    <3>. QED BY <3>1, <3>2
  <2>. QED BY <2>1, <2>3, <2>4 DEF n, E
<1>5. CASE ~inArray(T, k)
  <2>1. luaH_get(T, k) = w <=> Holds(T, k, w)
    BY <1>5, GetFacts
  <2>2. Source(T, nasize, n, k, w) => Holds(T, k, w)
    <3>1. ~Kept(T, nasize, k)
      BY <1>5 DEF Kept, inArray
    <3>2. k \in nasize + 1 .. a => T.array[k] # w
      <4>1. k \in nasize + 1 .. a => k \in DOMAIN T.array /\ k <= a /\ k \notin IntKeys
        BY <1>1, <1>5 DEF inArray
      <4>. QED BY <1>1, <4>1 DEF Alive
    <3>. QED BY <1>2, <1>3, <3>1, <3>2
  <2>3. Holds(T, k, w) => Source(T, nasize, n, k, w)
    BY <1>2, <1>3 DEF Holds
  <2>. QED BY <2>1, <2>2, <2>3 DEF n, E
<1>. QED BY <1>4, <1>5

\* The keys that resize has to find a node for.
Moving(T, nasize) == {k \in arrayKeys(T) \cup nodeKeys(T) : ~(k \in IntKeys /\ k <= nasize)}

\* The table after i steps.
Steps(T, nasize, M, nhsize, i, U) ==
  /\ Fits(U, M, nhsize) /\ Len(U.array) = nasize
  /\ ~hidden(T) => \A k \in Keys : \A w : w # Nil => (luaH_get(U, k) = w <=> Source(T, nasize, i, k, w))

LEMMA StepsStart ==
  ASSUME NEW T, Good(T), ~T.stuck, NEW nasize \in Nat, NEW nhsize \in Nat, ~overflow(nhsize), NEW M
  PROVE  Steps(T, nasize, M, nhsize, 0, newNodes(newArray(T, nasize), nhsize))
<1>. DEFINE U == newNodes(newArray(T, nasize), nhsize)
<1>1. /\ Fits(U, M, nhsize) /\ Len(U.array) = nasize
      /\ \A k \in Keys : luaH_get(U, k) = IF Kept(T, nasize, k) THEN T.array[k] ELSE Nil
  BY NewFits
<1>. HIDE DEF U
<1>2. \A k, w : Source(T, nasize, 0, k, w) <=> Kept(T, nasize, k) /\ T.array[k] = w
  BY DEF Source
<1>3. \A k \in Keys : \A w : w # Nil => (luaH_get(U, k) = w <=> Source(T, nasize, 0, k, w))
  BY <1>1, <1>2
<1>. QED BY <1>1, <1>3 DEF Steps, U

Insert(e, U) == IF e[2] = Nil THEN U ELSE put(U, e[1], e[2])

LEMMA StepsNext ==
  ASSUME NEW T, Good(T), NEW nasize \in Nat, NEW nhsize \in Nat,
         NEW M, IsFiniteSet(M), Cardinality(M) <= nhsize, Moving(T, nasize) \subseteq M,
         NEW i \in 1..Len(Entries(T, nasize)), NEW U, Steps(T, nasize, M, nhsize, i - 1, U)
  PROVE  /\ Steps(T, nasize, M, nhsize, i, Insert(Entries(T, nasize)[i], U))
         /\ Insert(Entries(T, nasize)[i], U).lsizenode = U.lsizenode
<1>. DEFINE E == Entries(T, nasize)
            n == Len(E)
            a == Len(T.array)
            e == E[i]
            W == Insert(e, U)
<1>1. Shaped(T) /\ Alive(T) /\ a \in Nat /\ DOMAIN T.array = 1..a /\ n \in Nat
  BY ShapeFacts, EntriesFacts DEF Good
<1>2. (e[1] \in nasize + 1 .. a /\ e[2] = T.array[e[1]]) \/ Holds(T, e[1], e[2])
  BY <1>1, EntriesFacts
<1>3. \A k, w : Source(T, nasize, i, k, w) <=> Source(T, nasize, i - 1, k, w) \/ (e[1] = k /\ e[2] = w)
  <2>1. n \in Nat /\ i \in 1..n
    BY <1>1
  <2>2. ASSUME NEW P, P \subseteq 1..n
        PROVE  (\E j \in 1..i : j \in P) <=> (\E j \in 1..(i - 1) : j \in P) \/ i \in P
    <3>. HIDE DEF n
    <3>. QED BY <2>1
  <2>3. ASSUME NEW k, NEW w
        PROVE  (\E j \in 1..i : E[j][1] = k /\ E[j][2] = w)
                 <=> (\E j \in 1..(i - 1) : E[j][1] = k /\ E[j][2] = w) \/ (e[1] = k /\ e[2] = w)
    <3>1. 1..i = 1..(i - 1) \cup {i}
      <4>. HIDE DEF n
      <4>. QED BY <2>1
    <3>. HIDE DEF E
    <3>. QED BY <3>1
  <2>. QED BY <2>3 DEF Source
<1>4. ASSUME NEW w, w = e[2], w # Nil
      PROVE  e[1] \in Keys /\ w \in Slots /\ (e[1] \in M \/ inArray(U, e[1]))
  <2>0. Len(U.array) = nasize
    BY DEF Steps
  <2>1. CASE e[1] \in nasize + 1 .. a /\ e[2] = T.array[e[1]]
    <3>1. e[1] \in 1..a /\ T.array[e[1]] # Nil /\ ~(e[1] <= nasize)
      BY <1>4, <2>1
    <3>2. e[1] \in IntKeys /\ T.array[e[1]] \in Slots
      BY <1>1, <3>1, ShapeFacts DEF Alive
    <3>3. e[1] \in Moving(T, nasize)
      BY <1>1, <3>1 DEF Moving, arrayKeys
    <3>. QED BY <1>4, <2>1, <3>2, <3>3, KeyFacts
  <2>2. CASE Holds(T, e[1], e[2])
    <3>1. PICK x \in DOMAIN T.node : T.node[x].key = e[1] /\ T.node[x].val = w
      BY <1>4, <2>2 DEF Holds
    <3>2. w \in Slots /\ e[1] \in Keys \cup {Nil}
      BY <1>1, <3>1, NodeFacts
    <3>3. e[1] # Nil
      BY <1>4, <3>1 DEF Good, Chained, Blank, emptyNode
    <3>4. e[1] \in nodeKeys(T)
      BY <1>4, <3>1 DEF nodeKeys
    <3>. HIDE DEF e
    <3>. QED BY <2>0, <3>2, <3>3, <3>4 DEF Moving, inArray
  <2>. QED BY <1>2, <2>1, <2>2
<1>5. CASE e[2] = Nil
  <2>1. W = U
    BY <1>5 DEF Insert
  <2>2. \A k, w : w # Nil => (Source(T, nasize, i, k, w) <=> Source(T, nasize, i - 1, k, w))
    BY <1>3, <1>5
  <2>. HIDE DEF W
  <2>3. Steps(T, nasize, M, nhsize, i, W)
    BY <2>1, <2>2 DEF Steps
  <2>. QED BY <2>1, <2>3 DEF W
<1>6. CASE e[2] # Nil
  <2>. DEFINE k == e[1]
              v == e[2]
  <2>1. k \in Keys /\ v \in Slots /\ (k \in M \/ inArray(U, k)) /\ Fits(U, M, nhsize)
    BY <1>4, <1>6 DEF Steps
  <2>2. W = put(U, k, v)
    BY <1>6 DEF Insert
  <2>. HIDE DEF W, k, v
  <2>3. PutDone(U, W, k, v) /\ Fits(W, M, nhsize)
    BY <2>1, <2>2, PutFits
  <2>4. ASSUME ~hidden(T), NEW j \in Keys, NEW w, w # Nil
        PROVE  luaH_get(W, j) = w <=> Source(T, nasize, i, j, w)
    <3>1. luaH_get(U, j) = w <=> Source(T, nasize, i - 1, j, w)
      BY <2>4 DEF Steps
    <3>2. Source(T, nasize, i, j, w) <=> Source(T, nasize, i - 1, j, w) \/ (k = j /\ v = w)
      BY <1>3 DEF k, v
    <3>3. CASE j = k
      <4>1. luaH_get(W, j) = v
        BY <2>3, <3>3 DEF PutDone
      <4>2. Source(T, nasize, i, j, w) => w = v
        <5>1. ASSUME NEW u, u # Nil, Source(T, nasize, i, j, u) PROVE u = luaH_get(T, j)
          <6>1. Source(T, nasize, n, j, u)
            <7>1. 1..i \subseteq 1..n
              BY <1>1
            <7>. QED BY <5>1, <7>1 DEF Source
          <6>. QED BY <2>4, <5>1, <6>1, SourceGet
        <5>2. Source(T, nasize, i, j, v) /\ v # Nil
          BY <1>3, <1>6, <3>3 DEF k, v
        <5>. QED BY <5>1, <5>2, <2>4
      <4>. QED BY <4>1, <4>2, <3>2, <3>3
    <3>4. CASE j # k
      BY <2>3, <3>1, <3>2, <3>4 DEF PutDone
    <3>. QED BY <3>3, <3>4
  <2>5. Len(W.array) = nasize
    BY <2>3 DEF PutDone, Steps
  <2>6. Steps(T, nasize, M, nhsize, i, W) /\ W.lsizenode = U.lsizenode
    BY <2>3, <2>4, <2>5 DEF Steps, PutDone
  <2>. QED BY <2>6 DEF W
<1>. QED BY <1>5, <1>6

\* resize makes the table step by step.
Resized(q, T, nasize, nhsize) ==
  /\ q[0] = newNodes(newArray(T, nasize), nhsize)
  /\ \A i \in 1..Len(Entries(T, nasize)) : q[i] = Insert(Entries(T, nasize)[i], q[i - 1])

LEMMA StepsAll ==
  ASSUME NEW T, Good(T), ~T.stuck, NEW nasize \in Nat, NEW nhsize \in Nat, ~overflow(nhsize),
         NEW M, IsFiniteSet(M), Cardinality(M) <= nhsize, Moving(T, nasize) \subseteq M,
         NEW q, Resized(q, T, nasize, nhsize)
  PROVE  \A i \in 0..Len(Entries(T, nasize)) : Steps(T, nasize, M, nhsize, i, q[i])
<1>. DEFINE n == Len(Entries(T, nasize))
            S == {i \in Nat : Steps(T, nasize, M, nhsize, i, q[i])}
<1>1. n \in Nat
  BY EntriesFacts DEF Good
<1>2. 0 \in S
  BY StepsStart DEF Resized
<1>3. ASSUME NEW i \in 0..n - 1, i \in S PROVE i + 1 \in S
  <2>1. i + 1 \in 1..n /\ i + 1 - 1 = i /\ i + 1 \in Nat
    BY <1>1
  <2>2. q[i + 1] = Insert(Entries(T, nasize)[i + 1], q[i]) /\ Steps(T, nasize, M, nhsize, i, q[i])
    BY <1>3, <2>1 DEF Resized
  <2>3. Steps(T, nasize, M, nhsize, i + 1, Insert(Entries(T, nasize)[i + 1], q[i]))
    BY <2>1, <2>2, StepsNext
  <2>. QED BY <2>1, <2>2, <2>3
<1>4. 0..n \subseteq S
  <2>. HIDE DEF S, n
  <2>. QED BY <1>1, <1>2, <1>3, BoundedInduction
<1>. QED BY <1>4

LEMMA ResizeValues ==
  ASSUME NEW T, Good(T), ~T.stuck, NEW nasize \in Nat, NEW nhsize \in Nat, ~overflow(nhsize),
         NEW M, IsFiniteSet(M), Cardinality(M) <= nhsize, Moving(T, nasize) \subseteq M
  PROVE  \E q : Resized(q, T, nasize, nhsize)
                /\ resize(T, nasize, nhsize) = q[Len(Entries(T, nasize))]
<1>. DEFINE E     == Entries(T, nasize)
            n     == Len(E)
            U0    == newNodes(newArray(T, nasize), nhsize)
            l     == U0.lsizenode
            V     == Table(l)
            Is(p) == p = [i \in 0..n |->
                       IF i = 0 THEN U0
                       ELSE IF E[i][2] = Nil THEN p[i - 1] ELSE put(p[i - 1], E[i][1], E[i][2])]
            q     == CHOOSE p : Is(p)
            g     == [i \in 1..n |-> [U \in V |-> IF Insert(E[i], U) \in V THEN Insert(E[i], U) ELSE U]]
<1>1. n \in Nat
  BY EntriesFacts DEF Good
<1>2. Steps(T, nasize, M, nhsize, 0, U0)
  BY StepsStart
<1>3. U0 \in V
  BY <1>2 DEF Steps, Fits, Good, Shaped
<1>. HIDE DEF U0, l
<1>4. PICK c \in [0..n -> V] : IsRecursion(c, U0, n, g)
  <2>1. g \in [1..n -> [V -> V]]
    OBVIOUS
  <2>. HIDE DEF g, n, V
  <2>. QED BY <1>1, <1>3, <2>1, Recursion
<1>5. ASSUME NEW i \in 1..n, Steps(T, nasize, M, nhsize, i - 1, c[i - 1])
      PROVE  c[i] = Insert(E[i], c[i - 1]) /\ Steps(T, nasize, M, nhsize, i, c[i])
  <2>. DEFINE W == Insert(E[i], c[i - 1])
  <2>1. i - 1 \in 0..n
    BY <1>1
  <2>2. c[i - 1] \in V
    BY <1>4, <2>1
  <2>3. c[i] = IF W \in V THEN W ELSE c[i - 1]
    <3>1. c[i] = g[i][c[i - 1]]
      BY <1>4 DEF IsRecursion
    <3>. HIDE DEF V
    <3>. QED BY <2>2, <3>1
  <2>4. Steps(T, nasize, M, nhsize, i, W) /\ W.lsizenode = c[i - 1].lsizenode
    BY <1>5, StepsNext
  <2>5. W \in Table(W.lsizenode)
    BY <2>4 DEF Steps, Fits, Good, Shaped
  <2>7. c[i - 1].lsizenode = l
    BY <2>2 DEF Table
  <2>. HIDE DEF W
  <2>8. W \in V
    BY <2>4, <2>5, <2>7
  <2>. QED BY <2>3, <2>4, <2>8 DEF W
<1>6. c[0] = U0
  BY <1>4 DEF IsRecursion
<1>7. \A i \in 0..n : Steps(T, nasize, M, nhsize, i, c[i])
  <2>. DEFINE S == {i \in Nat : Steps(T, nasize, M, nhsize, i, c[i])}
  <2>1. 0 \in S
    BY <1>2, <1>6
  <2>2. ASSUME NEW i \in 0..n - 1, i \in S PROVE i + 1 \in S
    <3>1. i + 1 \in 1..n /\ i + 1 - 1 = i /\ i + 1 \in Nat
      BY <1>1
    <3>2. Steps(T, nasize, M, nhsize, i + 1, c[i + 1])
      BY <2>2, <3>1, <1>5
    <3>. QED BY <3>1, <3>2
  <2>3. 0..n \subseteq S
    <3>. HIDE DEF S, n
    <3>. QED BY <1>1, <2>1, <2>2, BoundedInduction
  <2>. QED BY <2>3
<1>8. Is(c)
  <2>1. ASSUME NEW i \in 0..n
        PROVE  c[i] = IF i = 0 THEN U0
                      ELSE IF E[i][2] = Nil THEN c[i - 1] ELSE put(c[i - 1], E[i][1], E[i][2])
    <3>1. i # 0 => i \in 1..n /\ i - 1 \in 0..n
      BY <1>1
    <3>. HIDE DEF n, E
    <3>. QED BY <3>1, <1>5, <1>6, <1>7 DEF Insert
  <2>. HIDE DEF E, n, V
  <2>. QED BY <1>4, <2>1
<1>9. Is(q)
  <2>. HIDE DEF Is
  <2>. QED BY <1>8
<1>10. resize(T, nasize, nhsize) = q[n]
  BY DEF resize, Entries, Slice, Back, U0
<1>. HIDE DEF q
<1>11. Resized(q, T, nasize, nhsize)
  <2>1. 0 \in 0..n /\ \A i \in 1..n : i \in 0..n /\ i # 0
    BY <1>1
  <2>2. q[0] = U0
    BY <1>9, <2>1
  <2>3. ASSUME NEW i \in 1..n PROVE q[i] = Insert(E[i], q[i - 1])
    <3>1. q[i] = IF E[i][2] = Nil THEN q[i - 1] ELSE put(q[i - 1], E[i][1], E[i][2])
      <4>. HIDE DEF E, n
      <4>. QED BY <1>9, <2>1
    <3>. HIDE DEF E, n
    <3>. QED BY <3>1 DEF Insert
  <2>. QED BY <2>2, <2>3 DEF Resized, U0
<1>. QED BY <1>10, <1>11

\* resize moves every key and loses none.
LEMMA ResizeFacts ==
  ASSUME NEW T, Good(T), ~T.stuck, NEW nasize \in Nat, NEW nhsize \in Nat, ~overflow(nhsize),
         NEW M, IsFiniteSet(M), Cardinality(M) <= nhsize, Moving(T, nasize) \subseteq M
  PROVE  LET U == resize(T, nasize, nhsize)
         IN  /\ Fits(U, M, nhsize) /\ Len(U.array) = nasize
             /\ ~hidden(T) => \A k \in Keys : luaH_get(U, k) = luaH_get(T, k)
<1>. DEFINE U == resize(T, nasize, nhsize)
            n == Len(Entries(T, nasize))
<1>1. PICK q : Resized(q, T, nasize, nhsize) /\ U = q[n]
  BY ResizeValues
<1>2. n \in 0..n
  BY EntriesFacts DEF Good
<1>3. Steps(T, nasize, M, nhsize, n, U)
  <2>1. \A i \in 0..n : Steps(T, nasize, M, nhsize, i, q[i])
    BY <1>1, StepsAll
  <2>. HIDE DEF U, n
  <2>. QED BY <1>1, <1>2, <2>1
<1>. HIDE DEF U
<1>4. ASSUME ~hidden(T), NEW k \in Keys PROVE luaH_get(U, k) = luaH_get(T, k)
  <2>1. ASSUME NEW w, w # Nil PROVE luaH_get(U, k) = w <=> luaH_get(T, k) = w
    <3>1. Source(T, nasize, n, k, w) <=> luaH_get(T, k) = w
      BY <1>4, <2>1, SourceGet
    <3>2. luaH_get(U, k) = w <=> Source(T, nasize, n, k, w)
      BY <1>3, <1>4, <2>1 DEF Steps
    <3>. QED BY <3>1, <3>2
  <2>. QED BY <2>1
<1>. QED BY <1>3, <1>4 DEF Steps, U

(***************************************************************************)
(* Counting the keys.                                                      *)
(***************************************************************************)
\* A set is counted in two parts.
LEMMA CountParts ==
  ASSUME NEW S, IsFiniteSet(S), NEW X, NEW Y, X \cap Y = {}, S \subseteq X \cup Y
  PROVE  /\ IsFiniteSet(S \cap X) /\ IsFiniteSet(S \cap Y)
         /\ Cardinality(S \cap X) \in Nat /\ Cardinality(S \cap Y) \in Nat
         /\ Cardinality(S) = Cardinality(S \cap X) + Cardinality(S \cap Y)
<1>1. IsFiniteSet(S \cap X) /\ IsFiniteSet(S \cap Y)
  BY FS_Subset
<1>2. Cardinality(S \cap X) \in Nat /\ Cardinality(S \cap Y) \in Nat
  BY <1>1, FS_CardinalityType
<1>3. (S \cap X) \cup (S \cap Y) = S /\ (S \cap X) \cap (S \cap Y) = {}
  OBVIOUS
<1>4. Cardinality(S) = Cardinality(S \cap X) + Cardinality(S \cap Y) - Cardinality({})
  BY <1>1, <1>3, FS_Union
<1>. QED BY <1>1, <1>2, <1>4, FS_EmptySet

\* How many keys lie in 1..2^i, and in the i-th slice.
Count(A, N, i) == Cardinality(A \cap 1..twoto(i)) + Cardinality(N \cap 1..twoto(i))
Part(i)        == {k \in 1..twoto(i) : i > 0 => k > twoto(i - 1)}

LEMMA CountSlices ==
  ASSUME NEW S, IsFiniteSet(S), NEW i \in Nat
  PROVE  /\ IsFiniteSet(S \cap 1..twoto(i))
         /\ Cardinality(S \cap 1..twoto(i)) \in Nat /\ Cardinality(S \cap Part(i)) \in Nat
         /\ i = 0 => Part(i) = 1..twoto(i)
         /\ i # 0 => Cardinality(S \cap 1..twoto(i))
                       = Cardinality(S \cap 1..twoto(i - 1)) + Cardinality(S \cap Part(i))
<1>. DEFINE p == twoto(i)
            R == S \cap 1..p
<1>1. IsFiniteSet(R) /\ Cardinality(R) \in Nat
  BY FS_Subset, FS_CardinalityType
<1>2. IsFiniteSet(S \cap Part(i)) /\ Cardinality(S \cap Part(i)) \in Nat
  BY FS_Subset, FS_CardinalityType
<1>3. i = 0 => Part(i) = 1..p
  BY DEF Part
<1>4. ASSUME i # 0 PROVE Cardinality(R) = Cardinality(S \cap 1..twoto(i - 1)) + Cardinality(S \cap Part(i))
  <2>. DEFINE r == twoto(i - 1)
  <2>1. i - 1 \in Nat /\ i > 0 /\ i - 1 < i
    BY <1>4
  <2>2. r \in Nat /\ p \in Nat /\ r <= p
    <3>1. r \in Nat /\ p \in Nat /\ 2 * r <= p
      BY <2>1, TwotoGrows, TwotoMonotone
    <3>. HIDE DEF r, p
    <3>. QED BY <3>1
  <2>3. Part(i) = {k \in 1..p : k > r}
    BY <2>1 DEF Part
  <2>. HIDE DEF r, p
  <2>4. R \cap 1..r = S \cap 1..r /\ R \cap Part(i) = S \cap Part(i)
        /\ 1..r \cap Part(i) = {} /\ R \subseteq 1..r \cup Part(i)
    BY <2>2, <2>3
  <2>. HIDE DEF R
  <2>5. Cardinality(R) = Cardinality(R \cap 1..r) + Cardinality(R \cap Part(i))
    BY ONLY <1>1, <2>4, CountParts
  <2>. QED BY <2>4, <2>5 DEF r
<1>. QED BY <1>1, <1>2, <1>3, <1>4

LEMMA NumsFacts ==
  ASSUME NEW A, NEW N, IsFiniteSet(A), IsFiniteSet(N)
  PROVE  /\ \A i \in Nat : Count(A, N, i) \in Nat
         /\ \A i \in 0..MaxBits : nums(A, N)[i] \in Nat
         /\ nums(A, N)[0] = Count(A, N, 0)
         /\ \A i \in 1..MaxBits : Count(A, N, i) = Count(A, N, i - 1) + nums(A, N)[i]
<1>1. \A i \in 0..MaxBits : nums(A, N)[i] = Cardinality(A \cap Part(i)) + Cardinality(N \cap Part(i))
  BY DEF nums, Part
<1>2. ASSUME NEW i \in Nat PROVE Count(A, N, i) \in Nat
  <2>1. Cardinality(A \cap 1..twoto(i)) \in Nat /\ Cardinality(N \cap 1..twoto(i)) \in Nat
    BY CountSlices
  <2>. QED BY <2>1 DEF Count
<1>3. ASSUME NEW i \in 0..MaxBits PROVE nums(A, N)[i] \in Nat
  <2>. DEFINE a == Cardinality(A \cap Part(i))
              b == Cardinality(N \cap Part(i))
  <2>1. i \in Nat
    OBVIOUS
  <2>2. a \in Nat /\ b \in Nat
    BY <2>1, CountSlices
  <2>3. nums(A, N)[i] = a + b
    BY <1>1
  <2>. HIDE DEF a, b
  <2>4. a + b \in Nat
    BY ONLY <2>2
  <2>. QED BY ONLY <2>3, <2>4
<1>4. nums(A, N)[0] = Count(A, N, 0)
  <2>1. 0 \in Nat /\ 0 \in 0..MaxBits
    BY KeyFacts
  <2>2. Part(0) = 1..twoto(0)
    BY <2>1, CountSlices
  <2>. QED BY <1>1, <2>1, <2>2 DEF Count
<1>5. ASSUME NEW i \in 1..MaxBits PROVE Count(A, N, i) = Count(A, N, i - 1) + nums(A, N)[i]
  <2>1. i \in Nat /\ i # 0 /\ i \in 0..MaxBits /\ i - 1 \in Nat
    OBVIOUS
  <2>2. Cardinality(A \cap 1..twoto(i)) = Cardinality(A \cap 1..twoto(i - 1)) + Cardinality(A \cap Part(i))
        /\ Cardinality(N \cap 1..twoto(i)) = Cardinality(N \cap 1..twoto(i - 1)) + Cardinality(N \cap Part(i))
    BY <2>1, CountSlices
  <2>3. Cardinality(A \cap 1..twoto(i - 1)) \in Nat /\ Cardinality(N \cap 1..twoto(i - 1)) \in Nat
        /\ Cardinality(A \cap Part(i)) \in Nat /\ Cardinality(N \cap Part(i)) \in Nat
    BY <2>1, CountSlices
  <2>4. nums(A, N)[i] = Cardinality(A \cap Part(i)) + Cardinality(N \cap Part(i))
    BY <1>1, <2>1
  <2>. QED BY <2>2, <2>3, <2>4 DEF Count
<1>. QED BY <1>2, <1>3, <1>4, <1>5

\* The sizes among which computesizes chooses.
GoodSizes(A, N) ==
  {i \in 0..MaxBits : twoto(i) \div 2 < Count(A, N, MaxBits) /\ nums(A, N)[i] > 0
                      /\ full(Count(A, N, i), twoto(i))}

LEMMA SizesFacts ==
  ASSUME NEW A, NEW N, IsFiniteSet(A), IsFiniteSet(N)
  PROVE  computesizes(nums(A, N)) =
           IF GoodSizes(A, N) = {} THEN <<0, 0>>
           ELSE <<twoto(Max(GoodSizes(A, N))), Count(A, N, Max(GoodSizes(A, N)))>>
<1>. DEFINE ns    == nums(A, N)
            Is(p) == p = [i \in 0..MaxBits |-> IF i = 0 THEN ns[0] ELSE p[i - 1] + ns[i]]
            q     == CHOOSE p : Is(p)
            c     == [i \in 0..MaxBits |-> Count(A, N, i)]
            good  == {i \in 0..MaxBits : twoto(i) \div 2 < q[MaxBits] /\ ns[i] > 0 /\ full(q[i], twoto(i))}
<1>0. MaxBits \in Nat
  BY KeyFacts
<1>1. \A i \in 0..MaxBits : c[i] = Count(A, N, i)
  OBVIOUS
<1>2. c[0] = ns[0] /\ \A i \in 1..MaxBits : i - 1 \in 0..MaxBits /\ c[i] = c[i - 1] + ns[i]
  <2>1. ns[0] = Count(A, N, 0) /\ \A i \in 1..MaxBits : Count(A, N, i) = Count(A, N, i - 1) + ns[i]
    BY NumsFacts
  <2>2. 0 \in 0..MaxBits /\ \A i \in 1..MaxBits : i - 1 \in 0..MaxBits /\ i \in 0..MaxBits
    BY <1>0
  <2>. HIDE DEF c, ns
  <2>. QED BY <1>1, <2>1, <2>2
<1>3. Is(c)
  <2>1. ASSUME NEW i \in 0..MaxBits PROVE c[i] = IF i = 0 THEN ns[0] ELSE c[i - 1] + ns[i]
    <3>1. i # 0 => i \in 1..MaxBits
      BY <1>0
    <3>. HIDE DEF c, ns
    <3>. QED BY <1>2, <3>1
  <2>2. c = [i \in 0..MaxBits |-> c[i]]
    OBVIOUS
  <2>. HIDE DEF c, ns
  <2>. QED BY <2>1, <2>2
<1>4. Is(q)
  <2>. HIDE DEF Is
  <2>. QED BY <1>3
<1>5. computesizes(ns) = IF good = {} THEN <<0, 0>> ELSE <<twoto(Max(good)), q[Max(good)]>>
  BY DEF computesizes
<1>. HIDE DEF q, c, ns
<1>6. \A i \in 0..MaxBits : q[i] = Count(A, N, i)
  <2>1. q[0] = ns[0] /\ \A i \in 1..MaxBits : q[i] = q[i - 1] + ns[i]
    <3>1. 0 \in 0..MaxBits /\ \A i \in 1..MaxBits : i \in 0..MaxBits /\ i # 0
      BY <1>0
    <3>. QED BY <1>4, <3>1
  <2>2. c[0] = q[0] /\ \A i \in 1..MaxBits : c[i - 1] = q[i - 1] => c[i] = q[i]
    BY <1>2, <2>1
  <2>3. \A i \in 0..MaxBits : c[i] = q[i]
    BY ONLY <1>0, <2>2, SameRecursion
  <2>. QED BY <1>1, <2>3
<1>7. good = GoodSizes(A, N)
  BY <1>0, <1>6 DEF GoodSizes, ns
<1>8. good # {} => Max(good) \in 0..MaxBits
  <2>1. good \subseteq 0..MaxBits
    OBVIOUS
  <2>. HIDE DEF good
  <2>2. good # {} => Max(good) \in good
    BY <1>0, <2>1, MaxFacts
  <2>. QED BY <2>1, <2>2
<1>. HIDE DEF good
<1>. QED BY <1>5, <1>6, <1>7, <1>8 DEF ns

\* computesizes makes the largest choice: each size at which the keys fill more
\* than half of the slots is one that it considers.
BestSizes(K) == {n \in {twoto(l) : l \in 0..MaxBits} : 2 * Cardinality(K \cap 1..n) > n}

LEMMA CountAll ==
  ASSUME NEW A, NEW B, NEW K, IsFiniteSet(A), IsFiniteSet(B), A \cap B = {},
         \A n \in Nat : n \in K <=> n \in A \cup B
  PROVE  \A i \in 0..MaxBits :
           /\ Count(A, B, i) = Cardinality(K \cap 1..twoto(i))
           /\ Count(A, B, i) \in Nat /\ Count(A, B, i) <= twoto(i) /\ Count(A, B, i) <= Count(A, B, MaxBits)
<1>1. ASSUME NEW i \in Nat
      PROVE /\ Count(A, B, i) = Cardinality(K \cap 1..twoto(i))
            /\ IsFiniteSet(K \cap 1..twoto(i)) /\ Count(A, B, i) \in Nat /\ Count(A, B, i) <= twoto(i)
  <2>. DEFINE p == twoto(i)
              X == A \cap 1..p
              Y == B \cap 1..p
  <2>1. p \in Nat
    BY TwotoGrows
  <2>2. IsFiniteSet(X) /\ IsFiniteSet(Y) /\ X \cap Y = {}
    BY FS_Subset
  <2>3. K \cap 1..p = X \cup Y
    <3>. HIDE DEF p
    <3>. QED BY <2>1
  <2>. HIDE DEF p
  <2>4. IsFiniteSet(1..p) /\ Cardinality(1..p) = p
    <3>1. IsFiniteSet(1..p) /\ Cardinality(1..p) = IF 1 > p THEN 0 ELSE p - 1 + 1
      BY <2>1, FS_Interval
    <3>. QED BY <2>1, <3>1
  <2>5. IsFiniteSet(K \cap 1..p) /\ Cardinality(K \cap 1..p) <= p /\ Cardinality(K \cap 1..p) \in Nat
    <3>1. K \cap 1..p \in SUBSET (1..p)
      OBVIOUS
    <3>. QED BY <2>4, <3>1, FS_Subset, FS_CardinalityType
  <2>6. Count(A, B, i) = Cardinality(K \cap 1..p)
    <3>1. Count(A, B, i) = Cardinality(X) + Cardinality(Y)
      BY DEF Count, p
    <3>. HIDE DEF X, Y
    <3>2. Cardinality(X \cup Y) = Cardinality(X) + Cardinality(Y) - Cardinality({})
      BY <2>2, FS_Union
    <3>3. Cardinality(X) \in Nat /\ Cardinality(Y) \in Nat /\ Cardinality({}) = 0
      BY <2>2, FS_CardinalityType, FS_EmptySet
    <3>4. Count(A, B, i) = Cardinality(X \cup Y)
      BY <3>1, <3>2, <3>3
    <3>. QED BY ONLY <2>3, <3>4, Zenon
  <2>. QED BY <2>5, <2>6 DEF p
<1>2. ASSUME NEW i \in 0..MaxBits PROVE Count(A, B, i) <= Count(A, B, MaxBits)
  <2>1. i \in Nat /\ MaxBits \in Nat /\ (i < MaxBits \/ i = MaxBits)
    BY KeyFacts
  <2>2. twoto(i) \in Nat /\ twoto(MaxBits) \in Nat /\ twoto(i) <= twoto(MaxBits)
    <3>1. twoto(i) \in Nat /\ twoto(MaxBits) \in Nat
      BY <2>1, TwotoGrows
    <3>2. i < MaxBits => 2 * twoto(i) <= twoto(MaxBits)
      BY <2>1, TwotoMonotone
    <3>. QED BY <2>1, <3>1, <3>2
  <2>3. K \cap 1..twoto(i) \in SUBSET (K \cap 1..twoto(MaxBits))
    BY <2>2
  <2>4. IsFiniteSet(K \cap 1..twoto(MaxBits))
    BY <1>1, <2>1
  <2>5. Cardinality(K \cap 1..twoto(i)) <= Cardinality(K \cap 1..twoto(MaxBits))
    BY <2>3, <2>4, FS_Subset
  <2>. QED BY <1>1, <2>1, <2>5
<1>. QED BY <1>1, <1>2, KeyFacts

LEMMA GoodIsBest ==
  ASSUME NEW A, NEW B, NEW K, IsFiniteSet(A), IsFiniteSet(B), A \cap B = {},
         \A n \in Nat : n \in K <=> n \in A \cup B
  PROVE  GoodSizes(A, B) = {i \in 0..MaxBits : 2 * Cardinality(K \cap 1..twoto(i)) > twoto(i)}
<1>. DEFINE c(i) == Count(A, B, i)
            ns   == nums(A, B)
<1>1. \A i \in 0..MaxBits : c(i) = Cardinality(K \cap 1..twoto(i)) /\ c(i) \in Nat
                            /\ c(i) <= twoto(i) /\ c(i) <= c(MaxBits)
  BY CountAll
<1>2. /\ \A i \in 0..MaxBits : ns[i] \in Nat
      /\ ns[0] = c(0) /\ \A i \in 1..MaxBits : c(i) = c(i - 1) + ns[i]
  BY NumsFacts
<1>3. c(MaxBits) \in Nat /\ MaxBits \in Nat
  BY NumsFacts, KeyFacts
<1>. HIDE DEF c, ns
<1>4. ASSUME NEW i \in 0..MaxBits
      PROVE  (twoto(i) \div 2 < c(MaxBits) /\ ns[i] > 0 /\ c(i) > twoto(i) \div 2) <=> 2 * c(i) > twoto(i)
  <2>1. CASE i = 0
    <3>1. twoto(i) = 1 /\ ns[i] = c(i)
      BY <1>2, <2>1, TwotoZero
    <3>2. twoto(i) \div 2 = 0
      BY <3>1
    <3>3. c(i) \in Nat /\ c(i) <= c(MaxBits)
      BY <1>1
    <3>. QED BY ONLY <1>3, <3>1, <3>2, <3>3
  <2>2. CASE i # 0
    <3>. DEFINE j == i - 1
                q == twoto(j)
    <3>1. j \in Nat /\ j + 1 = i /\ j \in 0..MaxBits /\ i \in 1..MaxBits
      BY <1>3, <2>2
    <3>2. q \in Nat /\ twoto(i) = 2 * q
      <4>1. twoto(j) \in Nat /\ twoto(j + 1) = 2 * twoto(j)
        BY ONLY <3>1, TwotoNext
      <4>. QED BY <3>1, <4>1
    <3>3. c(i) = c(j) + ns[i] /\ c(j) \in Nat /\ c(j) <= q /\ ns[i] \in Nat /\ c(i) \in Nat /\ c(i) <= c(MaxBits)
      BY <1>1, <1>2, <3>1
    <3>. HIDE DEF q, j
    <3>4. twoto(i) \div 2 = q
      BY <3>2
    <3>. QED BY <1>3, <3>2, <3>3, <3>4
  <2>. QED BY <2>1, <2>2
<1>5. GoodSizes(A, B) = {i \in 0..MaxBits : 2 * c(i) > twoto(i)}
  BY <1>4 DEF GoodSizes, full, c, ns
<1>. QED BY <1>1, <1>5

LEMMA SizesBest ==
  ASSUME NEW A, NEW B, NEW K, IsFiniteSet(A), IsFiniteSet(B), A \cap B = {},
         \A n \in Nat : n \in K <=> n \in A \cup B
  PROVE  computesizes(nums(A, B))[1] = IF BestSizes(K) = {} THEN 0 ELSE Max(BestSizes(K))
<1>. DEFINE g == GoodSizes(A, B)
            b == BestSizes(K)
<1>1. g = {i \in 0..MaxBits : 2 * Cardinality(K \cap 1..twoto(i)) > twoto(i)}
  BY GoodIsBest
<1>2. b = {twoto(i) : i \in g}
  BY <1>1 DEF BestSizes
<1>3. computesizes(nums(A, B)) = IF g = {} THEN <<0, 0>> ELSE <<twoto(Max(g)), Count(A, B, Max(g))>>
  BY SizesFacts
<1>4. g \subseteq 0..MaxBits /\ MaxBits \in Nat
  BY <1>1, KeyFacts
<1>. HIDE DEF g, b
<1>5. CASE g = {}
  <2>1. b = {} /\ computesizes(nums(A, B)) = <<0, 0>>
    BY <1>2, <1>3, <1>5
  <2>. QED BY <2>1 DEF b
<1>6. CASE g # {}
  <2>. DEFINE m == Max(g)
  <2>1. m \in g /\ \A i \in g : i <= m
    BY <1>4, <1>6, MaxFacts
  <2>. HIDE DEF m
  <2>2. twoto(m) \in b /\ m \in Nat /\ twoto(m) \in Nat
    BY <1>2, <1>4, <2>1, TwotoGrows
  <2>3. ASSUME NEW n \in b PROVE n \in Nat /\ n <= twoto(m)
    <3>1. PICK i \in g : n = twoto(i)
      BY <1>2
    <3>2. i \in Nat /\ twoto(i) \in Nat /\ (i < m \/ i = m)
      BY <1>4, <2>1, TwotoGrows
    <3>3. i < m => 2 * twoto(i) <= twoto(m)
      BY <2>2, <3>2, TwotoMonotone
    <3>. QED BY <2>2, <3>1, <3>2, <3>3
  <2>4. b \subseteq 0..twoto(m) /\ b # {}
    BY <2>2, <2>3
  <2>5. Max(b) \in b /\ \A n \in b : n <= Max(b)
    BY <2>2, <2>4, MaxFacts
  <2>6. Max(b) = twoto(m)
    <3>1. Max(b) \in Nat /\ Max(b) <= twoto(m) /\ twoto(m) <= Max(b)
      BY <2>2, <2>3, <2>5
    <3>. QED BY <2>2, <3>1
  <2>7. computesizes(nums(A, B))[1] = Max(b)
    BY <1>3, <1>6, <2>6 DEF m
  <2>. QED BY <2>4, <2>7 DEF b
<1>. QED BY <1>5, <1>6

LEMMA KeySets ==
  ASSUME NEW T, Good(T)
  PROVE  /\ IsFiniteSet(arrayKeys(T)) /\ arrayKeys(T) \subseteq IntKeys \cap 1..Len(T.array)
         /\ IsFiniteSet(nodeKeys(T)) /\ nodeKeys(T) \subseteq Keys
         /\ Cardinality(nodeKeys(T)) <= sizenode(T) /\ Cardinality(nodeKeys(T)) \in Nat
         /\ T.dummy => nodeKeys(T) = {}
<1>. DEFINE A == arrayKeys(T)
            N == nodeKeys(T)
            D == DOMAIN T.node
            S == {m \in D : T.node[m].val # Nil}
            f == [m \in S |-> T.node[m].key]
<1>1. Shaped(T) /\ Chained(T) /\ Alive(T) /\ Free(T)
  BY DEF Good
<1>2. Len(T.array) \in Nat /\ DOMAIN T.array = 1..Len(T.array) /\ D = 0..(sizenode(T) - 1)
      /\ sizenode(T) \in Nat /\ sizenode(T) >= 1
  BY <1>1, ShapeFacts DEF Nodes
<1>3. A \subseteq IntKeys \cap 1..Len(T.array)
  BY <1>1, <1>2 DEF arrayKeys, Alive
<1>4. IsFiniteSet(A)
  <2>1. IsFiniteSet(1..Len(T.array))
    BY <1>2, FS_Interval
  <2>. QED BY <1>3, <2>1, FS_Subset
<1>5. IsFiniteSet(D) /\ Cardinality(D) = sizenode(T)
  <2>1. 0 \in Int /\ sizenode(T) - 1 \in Int
    BY <1>2
  <2>2. IsFiniteSet(0..(sizenode(T) - 1))
        /\ Cardinality(0..(sizenode(T) - 1)) = IF 0 > sizenode(T) - 1 THEN 0 ELSE sizenode(T) - 1 - 0 + 1
    BY <2>1, FS_Interval
  <2>. QED BY <1>2, <2>2
<1>6. IsFiniteSet(S) /\ Cardinality(S) <= Cardinality(D) /\ Cardinality(S) \in Nat
  <2>1. S \in SUBSET D
    OBVIOUS
  <2>. HIDE DEF S, D
  <2>. QED BY <1>5, <2>1, FS_Subset, FS_CardinalityType
<1>7. N = {f[m] : m \in S}
  BY DEF nodeKeys
<1>8. f \in Surjection(S, N)
  <2>1. f \in [S -> N] /\ \A k \in N : \E m \in S : f[m] = k
    <3>1. DOMAIN f = S /\ \A m \in S : f[m] \in N
      BY <1>7
    <3>2. f \in [S -> N]
      BY <3>1
    <3>. HIDE DEF f, S, N
    <3>. QED BY <1>7, <3>2
  <2>. HIDE DEF f, S, N
  <2>. QED BY <2>1 DEF Surjection
<1>9. IsFiniteSet(N) /\ Cardinality(N) <= Cardinality(S) /\ Cardinality(N) \in Nat
  <2>. HIDE DEF f, S, N
  <2>. QED BY <1>6, <1>8, FS_Surjection, FS_CardinalityType
<1>10. N \subseteq Keys
  <2>1. ASSUME NEW m \in D, T.node[m].val # Nil PROVE T.node[m].key \in Keys
    <3>1. T.node[m].key # Nil
      BY <1>1, <2>1 DEF Chained, Blank, emptyNode
    <3>. QED BY <1>1, <3>1, NodeFacts
  <2>. QED BY <2>1 DEF nodeKeys
<1>11. T.dummy => N = {}
  BY <1>1 DEF Free, nodevector, emptyNode, nodeKeys
<1>. HIDE DEF A, N, S, D, f
<1>12. Cardinality(N) <= sizenode(T)
  BY <1>2, <1>5, <1>6, <1>9
<1>. QED BY <1>3, <1>4, <1>9, <1>10, <1>11, <1>12 DEF A, N

\* The keys that a rehash for ek has to find a node for are no more than it
\* makes room for.
Rehashed(T, ek) ==
  {k \in arrayKeys(T) \cup nodeKeys(T) \cup {ek} : ~(k \in IntKeys /\ k <= newsizes(T, ek)[1])}

LEMMA NewsizesFacts ==
  ASSUME NEW T, Good(T), NEW ek \in Keys
  PROVE  /\ newsizes(T, ek)[1] \in Nat /\ newsizes(T, ek)[2] \in Nat
         /\ IsFiniteSet(Rehashed(T, ek)) /\ Cardinality(Rehashed(T, ek)) <= newsizes(T, ek)[2]
<1>. DEFINE A == arrayKeys(T)
            N == nodeKeys(T)
            B == N \cup {ek}
            s == computesizes(nums(A, B))
            M == Rehashed(T, ek)
            g == GoodSizes(A, B)
            a == Cardinality(A)
            n == Cardinality(N)
            b == Cardinality(B)
<1>1. /\ IsFiniteSet(A) /\ A \subseteq IntKeys \cap 1..Len(T.array)
      /\ IsFiniteSet(N) /\ N \subseteq Keys
  BY KeySets
<1>2. IsFiniteSet(B) /\ B \subseteq Keys /\ a \in Nat /\ n \in Nat /\ b \in Nat /\ b <= n + 1
  <2>1. a \in Nat /\ n \in Nat
    BY <1>1, FS_CardinalityType
  <2>. HIDE DEF N, A
  <2>2. IsFiniteSet(B) /\ b = IF ek \in N THEN n ELSE n + 1
    BY <1>1, FS_AddElement
  <2>. QED BY <1>1, <2>1, <2>2
<1>3. newsizes(T, ek) = <<s[1], a + n + 1 - s[2]>>
  BY DEF newsizes
<1>4. s = IF g = {} THEN <<0, 0>> ELSE <<twoto(Max(g)), Count(A, B, Max(g))>>
  BY <1>1, <1>2, SizesFacts
<1>5. g # {} => Max(g) \in Nat
  <2>1. g \subseteq 0..MaxBits /\ MaxBits \in Nat
    BY KeyFacts DEF GoodSizes
  <2>. HIDE DEF g
  <2>2. g # {} => Max(g) \in g
    BY <2>1, MaxFacts
  <2>3. \A i \in g : i \in Nat
    BY <2>1
  <2>. QED BY <2>2, <2>3
<1>6. M = {k \in A \cup B : ~(k \in IntKeys /\ k <= s[1])}
  BY <1>3 DEF Rehashed
<1>. HIDE DEF A, N, B, s, g, M
<1>7. PICK r \in Nat : s[1] = r /\ s[2] \in Nat
        /\ IsFiniteSet(M) /\ Cardinality(M) \in Nat /\ Cardinality(M) <= a + b - s[2]
  <2>1. CASE g = {}
    <3>1. s[1] = 0 /\ s[2] = 0
      BY <1>4, <2>1
    <3>2. IsFiniteSet(A \cup B) /\ Cardinality(A \cup B) <= a + b /\ Cardinality(A \cup B) \in Nat
      <4>1. IsFiniteSet(A \cup B) /\ Cardinality(A \cup B) = a + b - Cardinality(A \cap B)
        BY <1>1, <1>2, FS_Union
      <4>2. Cardinality(A \cap B) \in Nat
        BY <1>1, FS_Subset, FS_CardinalityType
      <4>. HIDE DEF a, b
      <4>. QED BY <1>2, <4>1, <4>2, FS_CardinalityType
    <3>3. IsFiniteSet(M) /\ Cardinality(M) <= Cardinality(A \cup B) /\ Cardinality(M) \in Nat
      <4>1. M \in SUBSET (A \cup B)
        BY <1>6
      <4>. QED BY <3>2, <4>1, FS_Subset, FS_CardinalityType
    <3>. HIDE DEF a, b
    <3>. QED BY <1>2, <3>1, <3>2, <3>3
  <2>2. CASE g # {}
    <3>. DEFINE i == Max(g)
                p == twoto(i)
                X == 1..p
                Y == (Keys \cup IntKeys) \ X
    <3>1. i \in Nat /\ p \in Nat /\ s[1] = p /\ s[2] = Count(A, B, i)
      BY <1>4, <1>5, <2>2, TwotoGrows
    <3>2. A \subseteq X \cup Y /\ B \subseteq X \cup Y /\ X \cap Y = {}
      BY <1>1, <1>2
    <3>. HIDE DEF X, Y
    <3>3. /\ IsFiniteSet(A \cap Y) /\ Cardinality(A \cap X) \in Nat /\ Cardinality(A \cap Y) \in Nat
          /\ a = Cardinality(A \cap X) + Cardinality(A \cap Y)
      BY <1>1, <3>2, CountParts
    <3>4. /\ IsFiniteSet(B \cap Y) /\ Cardinality(B \cap X) \in Nat /\ Cardinality(B \cap Y) \in Nat
          /\ b = Cardinality(B \cap X) + Cardinality(B \cap Y)
      BY <1>2, <3>2, CountParts
    <3>5. s[2] = Cardinality(A \cap X) + Cardinality(B \cap X)
      BY <3>1 DEF Count, X
    <3>6. M \subseteq (A \cap Y) \cup (B \cap Y)
      <4>1. ASSUME NEW k \in M PROVE k \notin X /\ k \in A \cup B
        <5>1. k \in A \cup B /\ ~(k \in IntKeys /\ k <= p)
          BY <1>6, <3>1
        <5>2. k \in Keys
          BY <1>1, <1>2, <5>1, KeyFacts
        <5>. QED BY <5>1, <5>2, <3>1, KeyFacts DEF X
      <4>. QED BY <3>2, <4>1
    <3>7. IsFiniteSet(M) /\ Cardinality(M) \in Nat
          /\ Cardinality(M) <= Cardinality(A \cap Y) + Cardinality(B \cap Y)
      <4>. DEFINE W == (A \cap Y) \cup (B \cap Y)
      <4>1. IsFiniteSet(W)
            /\ Cardinality(W) = Cardinality(A \cap Y) + Cardinality(B \cap Y)
                                - Cardinality((A \cap Y) \cap (B \cap Y))
        BY <3>3, <3>4, FS_Union
      <4>2. Cardinality((A \cap Y) \cap (B \cap Y)) \in Nat
        BY <3>3, FS_Subset, FS_CardinalityType
      <4>3. M \in SUBSET W
        BY <3>6
      <4>. HIDE DEF W
      <4>4. IsFiniteSet(M) /\ Cardinality(M) <= Cardinality(W) /\ Cardinality(M) \in Nat
            /\ Cardinality(W) \in Nat
        BY <4>1, <4>3, FS_Subset, FS_CardinalityType
      <4>. QED BY <4>1, <4>2, <4>4, <3>3, <3>4
    <3>. HIDE DEF i, p, a, b
    <3>. QED BY <3>1, <3>3, <3>4, <3>5, <3>7
  <2>. QED BY <2>1, <2>2
<1>. HIDE DEF a, b, n
<1>8. newsizes(T, ek)[1] = r /\ newsizes(T, ek)[2] = a + n + 1 - s[2]
  BY <1>3, <1>7
<1>9. a + n + 1 - s[2] \in Nat /\ Cardinality(M) <= a + n + 1 - s[2]
  BY <1>2, <1>7
<1>. QED BY <1>7, <1>8, <1>9 DEF M

(***************************************************************************)
(* The traversal.                                                          *)
(***************************************************************************)
\* A walk depends on the links alone.
LEMMA SameWalk ==
  ASSUME NEW T, Shaped(T), Ranked(T.node), NEW U, Shaped(U), Ranked(U.node),
         DOMAIN U.node = DOMAIN T.node, \A x \in DOMAIN T.node : U.node[x].next = T.node[x].next,
         NEW S, S \subseteq DOMAIN T.node, NEW n \in DOMAIN T.node
  PROVE  walk(U, n, S) = walk(T, n, S)
<1>1. Links(T.node) /\ Links(U.node)
  BY ShapedLinks
<1>2. FirstOf(T.node, n, S, walk(T, n, S)) /\ FirstOf(U.node, n, S, walk(U, n, S))
  BY <1>1, WalkFacts
<1>3. \A x : Chain(U.node, x) = Chain(T.node, x)
  BY SameChains
<1>4. FirstOf(T.node, n, S, walk(U, n, S))
  BY <1>2, <1>3 DEF FirstOf
<1>. QED BY <1>1, <1>2, <1>4, FirstUnique

\* A change of values or of dead marks leaves every position where it was.
LEMMA SameIndex ==
  ASSUME NEW T, Good(T), NEW U, Good(U), U.lsizenode = T.lsizenode, Len(U.array) = Len(T.array),
         \A x \in DOMAIN T.node : U.node[x].next = T.node[x].next /\ U.node[x].key = T.node[x].key,
         NEW k \in Keys \cup {Nil}
  PROVE  findindex(U, k) = findindex(T, k)
<1>1. Shaped(T) /\ Shaped(U) /\ Ranked(T.node) /\ Ranked(U.node)
  BY DEF Good, Chained
<1>2. DOMAIN U.node = DOMAIN T.node
  BY <1>1, ShapeFacts
<1>3. CASE k = Nil
  BY <1>3 DEF findindex
<1>4. CASE k # Nil
  <2>. DEFINE mp == mainposition(T, k)
              S  == {m \in DOMAIN T.node : T.node[m].key = k}
  <2>1. mp \in DOMAIN T.node /\ mainposition(U, k) = mp
    BY <1>1, <1>4, MainFacts, SameMain
  <2>2. inchain(T, mp, k, TRUE) = walk(T, mp, S)
    BY DEF inchain
  <2>3. inchain(U, mp, k, TRUE) = walk(U, mp, S)
    <3>1. {m \in DOMAIN U.node : U.node[m].key = k /\ (TRUE \/ ~U.node[m].dead)} = S
      BY <1>2
    <3>. HIDE DEF S, mp
    <3>. QED BY <3>1 DEF inchain
  <2>4. walk(U, mp, S) = walk(T, mp, S)
    <3>1. S \subseteq DOMAIN T.node
      OBVIOUS
    <3>. HIDE DEF S, mp
    <3>. QED BY <1>1, <1>2, <2>1, <3>1, SameWalk
  <2>5. inArray(U, k) <=> inArray(T, k)
    BY DEF inArray
  <2>. HIDE DEF S, mp
  <2>. QED BY <1>4, <2>1, <2>2, <2>3, <2>4, <2>5 DEF findindex, mp
<1>. QED BY <1>3, <1>4

Positions(T) == 0..(Len(T.array) + sizenode(T) - 1)

LEMMA PositionCases ==
  ASSUME NEW T, Good(T)
  PROVE  /\ Positions(T) \subseteq Nat /\ Len(T.array) \in Nat
         /\ \A i \in 1..Len(T.array) :
              /\ i - 1 \in Positions(T) /\ keyAt(T, i - 1) = i /\ valAt(T, i - 1) = T.array[i]
         /\ \A n \in DOMAIN T.node :
              /\ Len(T.array) + n \in Positions(T)
              /\ keyAt(T, Len(T.array) + n) = T.node[n].key /\ valAt(T, Len(T.array) + n) = T.node[n].val
         /\ \A j \in Positions(T) :
              (\E i \in 1..Len(T.array) : j = i - 1) \/ (\E n \in DOMAIN T.node : j = Len(T.array) + n)
<1>. DEFINE a == Len(T.array)
<1>1. a \in Nat /\ DOMAIN T.node = 0..(sizenode(T) - 1) /\ sizenode(T) \in Nat /\ sizenode(T) >= 1
  BY ShapeFacts DEF Good, Nodes
<1>2. Positions(T) = 0..(a + sizenode(T) - 1)
  BY DEF Positions
<1>3. \A j : /\ keyAt(T, j) = IF j < a THEN j + 1 ELSE T.node[j - a].key
             /\ valAt(T, j) = IF j < a THEN T.array[j + 1] ELSE T.node[j - a].val
  BY DEF keyAt, valAt
<1>. HIDE DEF a
<1>4. Positions(T) \subseteq Nat
  BY <1>1, <1>2
<1>5. ASSUME NEW i \in 1..a
      PROVE  i - 1 \in Positions(T) /\ keyAt(T, i - 1) = i /\ valAt(T, i - 1) = T.array[i]
  <2>1. i - 1 \in 0..(a + sizenode(T) - 1) /\ i - 1 < a /\ i - 1 + 1 = i
    BY <1>1
  <2>. QED BY <1>2, <1>3, <2>1
<1>6. ASSUME NEW n \in DOMAIN T.node
      PROVE  /\ a + n \in Positions(T)
             /\ keyAt(T, a + n) = T.node[n].key /\ valAt(T, a + n) = T.node[n].val
  <2>0. n \in 0..(sizenode(T) - 1)
    BY <1>1
  <2>1. ASSUME NEW j, j = a + n
        PROVE  j \in Positions(T) /\ keyAt(T, j) = T.node[n].key /\ valAt(T, j) = T.node[n].val
    <3>1. j \in 0..(a + sizenode(T) - 1) /\ ~(j < a) /\ j - a = n
      BY <1>1, <2>0, <2>1
    <3>. QED BY <1>2, <1>3, <3>1
  <2>. QED BY <2>1
<1>7. ASSUME NEW j \in Positions(T)
      PROVE  (\E i \in 1..a : j = i - 1) \/ (\E n \in DOMAIN T.node : j = a + n)
  <2>1. j \in 0..(a + sizenode(T) - 1)
    BY <1>2
  <2>2. CASE j < a
    <3>1. ASSUME NEW i, i = j + 1 PROVE i \in 1..a /\ j = i - 1
      BY <1>1, <2>1, <2>2, <3>1
    <3>2. \E i \in 1..a : j = i - 1
      BY <3>1
    <3>. QED BY <3>2
  <2>3. CASE ~(j < a)
    <3>1. j - a \in 0..(sizenode(T) - 1) /\ j = a + (j - a)
      BY <1>1, <2>1, <2>3
    <3>. QED BY <1>1, <3>1
  <2>. QED BY <2>2, <2>3
<1>. QED BY <1>1, <1>4, <1>5, <1>6, <1>7 DEF a

\* Where next finds a key.
LEMMA FindFacts ==
  ASSUME NEW T, Good(T), NEW k \in Keys \cup {Nil}
  PROVE  findindex(T, k) = Error \/ findindex(T, k) \in Positions(T) \cup {-1}
<1>1. Shaped(T) /\ Chained(T) /\ Len(T.array) \in Nat /\ DOMAIN T.array = 1..Len(T.array)
  BY ShapeFacts DEF Good
<1>2. CASE k = Nil
  BY <1>2 DEF findindex
<1>3. CASE k # Nil /\ inArray(T, k)
  <2>1. k \in 1..Len(T.array)
    BY <1>1, <1>3, GetFacts
  <2>. QED BY <1>3, <2>1, PositionCases DEF findindex
<1>4. CASE k # Nil /\ ~inArray(T, k)
  <2>. DEFINE s == inchain(T, mainposition(T, k), k, TRUE)
  <2>1. Finds(T, k, TRUE, s)
    BY <1>1, <1>4, ChainSearch
  <2>2. findindex(T, k) = IF s = NoNode THEN Error ELSE Len(T.array) + s
    BY <1>4 DEF findindex
  <2>. HIDE DEF s
  <2>3. s \in DOMAIN T.node \cup {NoNode}
    BY <2>1 DEF Finds
  <2>. QED BY <2>2, <2>3, PositionCases
<1>. QED BY <1>2, <1>3, <1>4

\* Every element has one position.
LEMMA PositionFacts ==
  ASSUME NEW T, Good(T), ~hidden(T)
  PROVE  /\ \A j \in Positions(T) : valAt(T, j) # Nil =>
              /\ keyAt(T, j) \in Keys /\ luaH_get(T, keyAt(T, j)) = valAt(T, j)
              /\ findindex(T, keyAt(T, j)) = j
         /\ \A k \in Keys : luaH_get(T, k) # Nil =>
              \E j \in Positions(T) : keyAt(T, j) = k /\ valAt(T, j) = luaH_get(T, k)
<1>. DEFINE a == Len(T.array)
<1>1. Shaped(T) /\ Chained(T) /\ Alive(T) /\ a \in Nat /\ DOMAIN T.array = 1..a
  BY ShapeFacts DEF Good
<1>2. ASSUME NEW j \in Positions(T), valAt(T, j) # Nil
      PROVE  /\ keyAt(T, j) \in Keys /\ luaH_get(T, keyAt(T, j)) = valAt(T, j)
             /\ findindex(T, keyAt(T, j)) = j
  <2>1. ASSUME NEW i \in 1..a, j = i - 1
        PROVE  /\ keyAt(T, j) \in Keys /\ luaH_get(T, keyAt(T, j)) = valAt(T, j)
               /\ findindex(T, keyAt(T, j)) = j
    <3>1. keyAt(T, j) = i /\ valAt(T, j) = T.array[i]
      BY <2>1, PositionCases
    <3>2. i \in IntKeys /\ i \in Keys /\ i # Nil
      BY <1>1, <1>2, <3>1, KeyFacts DEF Alive
    <3>3. inArray(T, i)
      BY <3>2 DEF inArray
    <3>4. luaH_get(T, i) = T.array[i] /\ findindex(T, i) = i - 1
      BY <3>2, <3>3 DEF luaH_get, findindex
    <3>. QED BY <2>1, <3>1, <3>2, <3>4
  <2>2. ASSUME NEW n \in DOMAIN T.node, j = a + n
        PROVE  /\ keyAt(T, j) \in Keys /\ luaH_get(T, keyAt(T, j)) = valAt(T, j)
               /\ findindex(T, keyAt(T, j)) = j
    <3>. DEFINE k == T.node[n].key
                s == inchain(T, mainposition(T, k), k, TRUE)
    <3>1. keyAt(T, j) = k /\ valAt(T, j) = T.node[n].val
      BY <2>2, PositionCases
    <3>2. k # Nil /\ k \in Keys /\ ~T.node[n].dead
      <4>1. k # Nil
        BY <1>1, <1>2, <3>1 DEF Chained, Blank, emptyNode
      <4>. QED BY <1>1, <1>2, <3>1, <4>1, NodeFacts DEF Alive
    <3>3. ~inArray(T, k)
      <4>1. k \in nodeKeys(T)
        BY <1>2, <3>1 DEF nodeKeys
      <4>. HIDE DEF k
      <4>. QED BY <4>1 DEF hidden
    <3>4. luaH_get(T, k) = T.node[n].val
      <4>1. Holds(T, k, T.node[n].val)
        BY DEF Holds
      <4>. HIDE DEF k
      <4>. QED BY <1>2, <3>1, <3>2, <3>3, <4>1, GetFacts
    <3>5. s = n /\ n # NoNode
      <4>. HIDE DEF k
      <4>1. Finds(T, k, TRUE, s)
        BY <1>1, <3>2, ChainSearch
      <4>. HIDE DEF s
      <4>. QED BY <1>1, <3>2, <4>1, ShapedLinks DEF Finds, k
    <3>6. findindex(T, k) = a + n
      BY <3>2, <3>3, <3>5 DEF findindex
    <3>. HIDE DEF k
    <3>. QED BY <2>2, <3>1, <3>2, <3>4, <3>6
  <2>. QED BY <1>2, <2>1, <2>2, PositionCases
<1>3. ASSUME NEW k \in Keys, luaH_get(T, k) # Nil
      PROVE  \E j \in Positions(T) : keyAt(T, j) = k /\ valAt(T, j) = luaH_get(T, k)
  <2>1. CASE inArray(T, k)
    <3>1. k \in 1..a /\ luaH_get(T, k) = T.array[k]
      BY <1>1, <2>1, GetFacts
    <3>. QED BY <3>1, PositionCases
  <2>2. CASE ~inArray(T, k)
    <3>1. PICK x \in DOMAIN T.node : T.node[x].key = k /\ T.node[x].val = luaH_get(T, k)
      BY <1>3, <2>2, GetFacts DEF Holds
    <3>. QED BY <3>1, PositionCases
  <2>. QED BY <2>1, <2>2
<1>. QED BY <1>2, <1>3

\* What next has passed when it stands at position i.
Passed(T, i) == {k \in Keys : luaH_get(T, k) # Nil /\ findindex(T, k) <= i}

Basic ==
  /\ Good(t) /\ ~t.stuck
  /\ trav \in {"idle", "on", "invalid"} /\ key \in Keys \cup {Nil} /\ seen \subseteq Keys /\ hurt \in BOOLEAN

\* Unless a rehash has failed half way, no node is hidden and a traversal has
\* seen what it has passed.
Tracked ==
  ~hurt =>
    /\ ~hidden(t) /\ trav # "invalid" /\ (trav = "idle" => seen = {})
    /\ trav = "on" => findindex(t, key) # Error /\ seen = Passed(t, findindex(t, key))

IInv == Basic /\ Tracked

\* An assignment hides no node.
LEMMA PutHidden ==
  ASSUME NEW T, ~hidden(T), NEW U, NEW k, NEW v, PutDone(T, U, k, v)
  PROVE  ~hidden(U)
<1>1. \A j : inArray(U, j) <=> inArray(T, j)
  BY DEF PutDone, inArray
<1>2. ASSUME NEW x \in DOMAIN U.node, U.node[x].val # Nil PROVE ~inArray(U, U.node[x].key)
  <2>1. \/ U.node[x].key = k /\ ~inArray(T, k)
        \/ \E y \in DOMAIN T.node : T.node[y].key = U.node[x].key /\ T.node[y].val # Nil
    BY <1>2 DEF PutDone
  <2>2. \A y \in DOMAIN T.node : T.node[y].val # Nil => ~inArray(T, T.node[y].key)
    BY DEF hidden, nodeKeys
  <2>. QED BY <1>1, <2>1, <2>2
<1>. QED BY <1>2 DEF hidden, nodeKeys

\* Nor does it move anything when its key is present.
LEMMA PutKeeps ==
  ASSUME NEW T, Good(T), NEW k \in Keys, luaH_get(T, k) # Nil, NEW v \in Slots,
         NEW j \in Keys \cup {Nil}
  PROVE  findindex(put(T, k, v), j) = findindex(T, j)
<1>. DEFINE U == put(T, k, v)
            s == search(T, k)
<1>0. Shaped(T) /\ Chained(T) /\ k # Nil
  BY KeyFacts DEF Good
<1>1. CASE inArray(T, k)
  <2>1. PutDone(T, U, k, v) /\ U.node = T.node
    BY <1>1, PutArray
  <2>. HIDE DEF U
  <2>2. findindex(U, j) = findindex(T, j)
    BY <2>1, SameIndex DEF PutDone
  <2>. QED BY <2>2 DEF U
<1>2. CASE ~inArray(T, k)
  <2>1. s # NoNode
    BY <1>2 DEF luaH_get
  <2>2. s \in DOMAIN T.node /\ T.node[s].key = k /\ ~T.node[s].dead
    BY <1>0, <2>1, SearchFacts
  <2>3. U = [T EXCEPT !.node[s].val = v]
    BY <1>2, <2>1 DEF put
  <2>. HIDE DEF s, U
  <2>4. /\ Good(U) /\ SameFields(T, U)
        /\ \A x \in DOMAIN T.node : U.node[x].key = T.node[x].key /\ U.node[x].next = T.node[x].next
    <3>1. LET W == [T EXCEPT !.node[s].val = v]
          IN  /\ Good(W) /\ SameFields(T, W)
              /\ \A x \in DOMAIN T.node : W.node[x].key = T.node[x].key /\ W.node[x].next = T.node[x].next
      <4>1. T.node[s].key # Nil
        BY <1>0, <2>2
      <4>. QED BY ONLY Good(T), v \in Slots, <2>2, <4>1, ValGood
    <3>. QED BY ONLY <2>3, <3>1
  <2>5. findindex(U, j) = findindex(T, j)
    BY <2>4, SameIndex DEF SameFields
  <2>. QED BY <2>5 DEF U
<1>. QED BY <1>1, <1>2

\* The array part grown without the nodes that belong there.
LEMMA GrownFacts ==
  ASSUME NEW T, Good(T), NEW n \in Nat, n > Len(T.array)
  PROVE  LET U == newArray(T, n)
         IN  /\ Good(U) /\ U.stuck = T.stuck
             /\ ~hidden(U) => ~hidden(T) /\ \A k \in Keys : luaH_get(U, k) = luaH_get(T, k)
<1>. DEFINE U == newArray(T, n)
            a == Len(T.array)
<1>1. Shaped(T) /\ Chained(T) /\ Alive(T) /\ Free(T) /\ a \in Nat /\ DOMAIN T.array = 1..a
  BY ShapeFacts DEF Good
<1>2. /\ Shaped(U) /\ U.node = T.node /\ U.lsizenode = T.lsizenode /\ U.dummy = T.dummy
      /\ U.lastfree = T.lastfree /\ U.stuck = T.stuck
      /\ Len(U.array) = n /\ DOMAIN U.array = 1..n
      /\ \A i \in 1..n : U.array[i] = IF i <= a THEN T.array[i] ELSE Nil
  BY <1>1, NewArrayFacts
<1>. HIDE DEF U, a
<1>3. Chained(U)
  <2>1. Homes(U) /\ Reached(U)
    BY <1>1, <1>2, SameMain DEF Chained, Homes, Reached
  <2>. QED BY <1>1, <1>2, <2>1 DEF Chained
<1>4. Alive(U)
  <2>1. ASSUME NEW i \in 1..n, U.array[i] # Nil PROVE i \in IntKeys
    <3>1. i <= a /\ T.array[i] # Nil
      BY <1>2, <2>1
    <3>2. i \in 1..a
      BY <1>1, <3>1
    <3>. QED BY <1>1, <3>1, <3>2 DEF Alive
  <2>. QED BY <1>1, <1>2, <2>1 DEF Alive
<1>5. Free(U)
  BY <1>1, <1>2 DEF Free
<1>6. Good(U)
  BY <1>2, <1>3, <1>4, <1>5 DEF Good
<1>7. ASSUME NEW k, inArray(T, k) PROVE inArray(U, k)
  <2>1. k \in IntKeys /\ k <= a /\ k \in Int /\ n > a
    BY <1>7, KeyFacts DEF inArray, a
  <2>. QED BY <1>1, <1>2, <2>1 DEF inArray
<1>8. ASSUME ~hidden(U) PROVE ~hidden(T)
  BY <1>2, <1>7, <1>8 DEF hidden, nodeKeys
<1>9. ASSUME ~hidden(U), NEW k \in Keys PROVE luaH_get(U, k) = luaH_get(T, k)
  <2>1. CASE inArray(T, k)
    <3>1. k \in 1..a /\ luaH_get(T, k) = T.array[k] /\ luaH_get(U, k) = U.array[k]
      BY <1>1, <1>6, <1>7, <2>1, GetFacts
    <3>2. k \in 1..n /\ k <= a
      BY <1>1, <3>1 DEF a
    <3>. QED BY <1>2, <3>1, <3>2
  <2>2. CASE ~inArray(T, k) /\ inArray(U, k)
    <3>1. \A w : w # Nil => ~Holds(T, k, w)
      BY <1>2, <1>9, <2>2 DEF hidden, nodeKeys, Holds
    <3>2. luaH_get(T, k) = Nil
      BY <2>2, <3>1, GetFacts
    <3>3. k \in 1..n /\ luaH_get(U, k) = U.array[k] /\ k \in IntKeys
      BY <1>2, <1>6, <2>2, GetFacts DEF inArray
    <3>4. ~(k <= a)
      BY <2>2, <3>3 DEF inArray, a
    <3>. QED BY <1>2, <3>2, <3>3, <3>4
  <2>3. CASE ~inArray(T, k) /\ ~inArray(U, k)
    <3>1. \A w : Holds(U, k, w) <=> Holds(T, k, w)
      BY <1>2 DEF Holds
    <3>2. \A w : w # Nil => (luaH_get(T, k) = w <=> Holds(T, k, w))
      BY <2>3, GetFacts
    <3>3. \A w : w # Nil => (luaH_get(U, k) = w <=> Holds(U, k, w))
      BY <1>6, <2>3, GetFacts
    <3>. DEFINE x == luaH_get(T, k)
                y == luaH_get(U, k)
    <3>4. \A w : w # Nil => (x = w <=> y = w)
      BY ONLY <3>1, <3>2, <3>3, Zenon
    <3>5. x = y
      <4>. HIDE DEF x, y
      <4>. QED BY ONLY <3>4
    <3>. QED BY <3>5
  <2>. QED BY <1>7, <2>1, <2>2, <2>3
<1>. QED BY <1>2, <1>6, <1>8, <1>9 DEF U

\* After a resize no node is hidden.
LEMMA FitsHidden ==
  ASSUME NEW U, NEW M, NEW nhsize, Fits(U, M, nhsize), NEW n, Len(U.array) = n,
         \A k \in M : ~(k \in IntKeys /\ k <= n)
  PROVE  ~hidden(U)
<1>1. ASSUME NEW x \in DOMAIN U.node, U.node[x].val # Nil PROVE ~inArray(U, U.node[x].key)
  <2>1. U.node[x].key # Nil
    BY <1>1 DEF Fits, Good, Chained, Blank, emptyNode
  <2>2. U.node[x].key \in M
    BY <2>1 DEF Fits
  <2>. QED BY <2>2 DEF inArray
<1>. QED BY <1>1 DEF hidden, nodeKeys

Unmoved(T, U) == \A j \in Keys : luaH_get(U, j) = luaH_get(T, j)

LEMMA SameFieldsGet ==
  ASSUME NEW T, Good(T), NEW U, Good(U), U.array = T.array, U.node = T.node
  PROVE  Unmoved(T, U) /\ (hidden(U) <=> hidden(T))
<1>1. ASSUME NEW j \in Keys PROVE luaH_get(U, j) = luaH_get(T, j)
  <2>1. \A v : v # Nil => (Holds(T, j, v) <=> Holds(U, j, v))
    BY DEF Holds
  <2>. QED BY <2>1, SameGet
<1>2. hidden(U) <=> hidden(T)
  BY DEF hidden, nodeKeys, inArray
<1>. QED BY <1>1, <1>2 DEF Unmoved

LEMMA RehashFacts ==
  ASSUME NEW T, Good(T), ~T.stuck, NEW k \in Keys, NEW v \in Slots,
         newkey(T, k).at = NoNode, ~overflow(newsizes(T, k)[2]),
         NEW U, U = put(resize(newkey(T, k).tab, newsizes(T, k)[1], newsizes(T, k)[2]), k, v)
  PROVE  /\ Good(U) /\ ~U.stuck /\ ~hidden(U)
         /\ ~hidden(T) => luaH_get(U, k) = v
                          /\ \A j \in Keys : j # k => luaH_get(U, j) = luaH_get(T, j)
<1>. DEFINE V == newkey(T, k).tab
            a == newsizes(T, k)[1]
            h == newsizes(T, k)[2]
            M == Rehashed(T, k)
            R == resize(V, a, h)
<1>1. Good(V) /\ SameFields(T, V) /\ V.node = T.node
  BY NewkeyFull
<1>2. a \in Nat /\ h \in Nat /\ IsFiniteSet(M) /\ Cardinality(M) <= h
  BY NewsizesFacts
<1>3. U = put(R, k, v) /\ ~overflow(h)
  OBVIOUS
<1>4. \A j \in M : ~(j \in IntKeys /\ j <= a)
  BY DEF Rehashed
<1>5. k \in M \/ (k \in IntKeys /\ k <= a)
  BY DEF Rehashed
<1>6. Moving(V, a) \subseteq M
  <2>. HIDE DEF V
  <2>1. arrayKeys(V) = arrayKeys(T) /\ nodeKeys(V) = nodeKeys(T)
    BY <1>1 DEF SameFields, arrayKeys, nodeKeys
  <2>. QED BY <2>1 DEF Moving, Rehashed
<1>. HIDE DEF V, a, h, M
<1>7. Unmoved(T, V) /\ (hidden(V) <=> hidden(T)) /\ ~V.stuck
  BY <1>1, SameFieldsGet DEF SameFields
<1>8. /\ Fits(R, M, h) /\ Len(R.array) = a
      /\ ~hidden(V) => \A j \in Keys : luaH_get(R, j) = luaH_get(V, j)
  BY <1>1, <1>2, <1>3, <1>6, <1>7, ResizeFacts
<1>. HIDE DEF R
<1>9. k \in M \/ inArray(R, k)
  BY <1>5, <1>8 DEF inArray
<1>10. PutDone(R, U, k, v) /\ Fits(U, M, h)
  BY <1>2, <1>3, <1>8, <1>9, PutFits
<1>11. Len(U.array) = a
  BY <1>8, <1>10 DEF PutDone
<1>12. ~hidden(U)
  BY <1>4, <1>10, <1>11, FitsHidden
<1>13. ASSUME ~hidden(T)
       PROVE  luaH_get(U, k) = v /\ \A j \in Keys : j # k => luaH_get(U, j) = luaH_get(T, j)
  BY <1>7, <1>8, <1>10, <1>13 DEF PutDone, Unmoved
<1>. QED BY <1>10, <1>12, <1>13 DEF Fits

LEMMA ResizearrayFacts ==
  ASSUME NEW T, Good(T), ~T.stuck, NEW n \in Nat, n > Len(T.array),
         NEW U, U = resize(T, n, IF T.dummy THEN 0 ELSE sizenode(T))
  PROVE  Good(U) /\ ~U.stuck /\ ~hidden(U) /\ (~hidden(T) => Unmoved(T, U))
<1>. DEFINE h == IF T.dummy THEN 0 ELSE sizenode(T)
            M == Moving(T, n)
<1>1. Shaped(T) /\ T.lsizenode \in 0..MaxBits /\ T.lsizenode \in Nat /\ Len(T.array) \in Nat
      /\ sizenode(T) = twoto(T.lsizenode) /\ sizenode(T) \in Nat /\ sizenode(T) >= 1
  BY ShapeFacts DEF Good
<1>2. /\ arrayKeys(T) \subseteq IntKeys \cap 1..Len(T.array)
      /\ IsFiniteSet(nodeKeys(T)) /\ Cardinality(nodeKeys(T)) <= sizenode(T)
      /\ T.dummy => nodeKeys(T) = {}
  BY KeySets
<1>3. h \in Nat /\ ~overflow(h)
  <2>1. T.dummy => ~overflow(h)
    BY DEF overflow
  <2>2. ~T.dummy => ceillog2(h) = T.lsizenode
    BY <1>1, CeilFacts
  <2>. QED BY <1>1, <2>1, <2>2, KeyFacts DEF overflow
<1>4. M \in SUBSET nodeKeys(T)
  <2>1. ASSUME NEW k \in arrayKeys(T) PROVE k \in IntKeys /\ k <= n
    BY <1>1, <1>2
  <2>. QED BY <2>1 DEF Moving
<1>5. IsFiniteSet(M) /\ Cardinality(M) <= h
  <2>. HIDE DEF M
  <2>1. IsFiniteSet(M) /\ Cardinality(M) <= Cardinality(nodeKeys(T)) /\ Cardinality(M) \in Nat
        /\ Cardinality(nodeKeys(T)) \in Nat
    BY <1>2, <1>4, FS_Subset, FS_CardinalityType
  <2>2. T.dummy => Cardinality(nodeKeys(T)) = 0
    BY <1>2, FS_EmptySet
  <2>. QED BY <1>1, <1>2, <2>1, <2>2
<1>6. \A k \in M : ~(k \in IntKeys /\ k <= n)
  BY DEF Moving
<1>7. U = resize(T, n, h) /\ Moving(T, n) \subseteq M
  OBVIOUS
<1>. HIDE DEF M, h
<1>8. /\ Fits(U, M, h) /\ Len(U.array) = n
      /\ ~hidden(T) => \A j \in Keys : luaH_get(U, j) = luaH_get(T, j)
  BY <1>3, <1>5, <1>7, ResizeFacts
<1>9. ~hidden(U)
  BY <1>6, <1>8, FitsHidden
<1>. QED BY <1>8, <1>9 DEF Fits, Unmoved

\* The collector kills keys and moves nothing.
LEMMA RemoveFacts ==
  ASSUME NEW T, Good(T),
         NEW U, U = [T EXCEPT !.node = [n \in DOMAIN T.node |->
                  [T.node[n] EXCEPT !.dead = @ \/ (T.node[n].val = Nil /\ T.node[n].key \in Collectable)]]]
  PROVE  /\ Good(U) /\ U.stuck = T.stuck /\ Unmoved(T, U) /\ (hidden(U) <=> hidden(T))
         /\ \A k \in Keys \cup {Nil} : findindex(U, k) = findindex(T, k)
<1>. DEFINE N == T.node
            l == T.lsizenode
            d(n) == N[n].dead \/ (N[n].val = Nil /\ N[n].key \in Collectable)
            M == [n \in DOMAIN N |-> [N[n] EXCEPT !.dead = d(n)]]
<1>1. Shaped(T) /\ Chained(T) /\ Alive(T) /\ Free(T) /\ DOMAIN N = Nodes(l)
  BY ShapeFacts DEF Good
<1>2. U = [T EXCEPT !.node = M]
  OBVIOUS
<1>3. ASSUME NEW n \in DOMAIN N
      PROVE  /\ M[n] \in Node(l) /\ M[n].key = N[n].key /\ M[n].val = N[n].val /\ M[n].next = N[n].next
             /\ M[n].dead = d(n) /\ (N[n] = emptyNode => M[n] = emptyNode)
  <2>1. N[n] \in Node(l) /\ N[n].dead \in BOOLEAN
    BY <1>1, NodeFacts
  <2>2. d(n) \in BOOLEAN
    BY <2>1
  <2>3. M[n] = [N[n] EXCEPT !.dead = d(n)]
    OBVIOUS
  <2>4. N[n] = emptyNode => ~d(n)
    BY KeyFacts DEF emptyNode, Collectable, Keys
  <2>. HIDE DEF d, M, N
  <2>5. M[n] \in Node(l) /\ M[n].key = N[n].key /\ M[n].val = N[n].val /\ M[n].next = N[n].next
        /\ M[n].dead = d(n)
    BY <2>1, <2>2, <2>3 DEF Node
  <2>6. N[n] = emptyNode => M[n] = emptyNode
    <3>. SUFFICES ASSUME N[n] = emptyNode PROVE M[n] = emptyNode
      OBVIOUS
    <3>1. M[n] = [emptyNode EXCEPT !.dead = FALSE]
      <4>1. d(n) = FALSE
        BY <2>2, <2>4
      <4>. QED BY <2>3, <4>1
    <3>. QED BY ONLY <3>1 DEF emptyNode
  <2>. QED BY <2>5, <2>6
<1>4. M \in [Nodes(l) -> Node(l)]
  <2>1. M = [n \in Nodes(l) |-> M[n]]
    BY <1>1
  <2>. HIDE DEF M
  <2>. QED BY <1>1, <1>3, <2>1
<1>. HIDE DEF M
<1>5. Shaped(U) /\ SameFields(T, U) /\ U.node = M /\ U.lastfree = T.lastfree
  <2>1. /\ Shaped([T EXCEPT !.node = M]) /\ SameFields(T, [T EXCEPT !.node = M])
        /\ [T EXCEPT !.node = M].node = M /\ [T EXCEPT !.node = M].lastfree = T.lastfree
    BY ONLY <1>1, <1>4, NodeField
  <2>. QED BY ONLY <1>2, <2>1
<1>6. DOMAIN M = DOMAIN N
  BY <1>1, <1>4
<1>7. Chained(U)
  <2>1. \A x \in DOMAIN N : /\ U.node[x].key = N[x].key /\ U.node[x].next = N[x].next
                            /\ (N[x].dead => U.node[x].dead)
                            /\ (N[x] = emptyNode => U.node[x] = emptyNode)
    BY <1>3, <1>5
  <2>. QED BY <1>1, <1>5, <2>1, ChainedSame DEF SameFields
<1>8. Alive(U)
  BY <1>1, <1>3, <1>5, <1>6 DEF Alive, SameFields
<1>9. Free(U)
  <2>1. T.dummy => M = N
    <3>1. T.dummy => \A n \in DOMAIN N : N[n] = emptyNode
      BY <1>1 DEF Free, nodevector
    <3>2. T.dummy => \A n \in DOMAIN N : M[n] = N[n]
      BY <1>3, <3>1
    <3>. QED BY <1>1, <1>4, <1>6, <3>2, ShapeFacts
  <2>. QED BY <1>1, <1>3, <1>5, <1>6, <2>1 DEF Free, SameFields
<1>10. Good(U)
  BY <1>5, <1>7, <1>8, <1>9 DEF Good
<1>11. ASSUME NEW j \in Keys PROVE luaH_get(U, j) = luaH_get(T, j)
  <2>1. \A v : v # Nil => (Holds(T, j, v) <=> Holds(U, j, v))
    BY <1>3, <1>5, <1>6 DEF Holds
  <2>. QED BY <1>5, <1>10, <2>1, SameGet DEF SameFields
<1>12. hidden(U) <=> hidden(T)
  <2>1. nodeKeys(U) = nodeKeys(T)
    BY <1>3, <1>5, <1>6 DEF nodeKeys
  <2>. QED BY <1>5, <2>1 DEF hidden, inArray, SameFields
<1>13. ASSUME NEW k \in Keys \cup {Nil} PROVE findindex(U, k) = findindex(T, k)
  <2>1. \A x \in DOMAIN T.node : U.node[x].next = T.node[x].next /\ U.node[x].key = T.node[x].key
    BY <1>3, <1>5
  <2>. QED BY <1>5, <1>10, <2>1, SameIndex DEF SameFields
<1>. QED BY <1>5, <1>10, <1>11, <1>12, <1>13 DEF SameFields, Unmoved

\* What next finds after position i.
LEMMA NextFacts ==
  ASSUME NEW T, Good(T), NEW i \in Positions(T) \cup {-1}, after(T, i) # {},
         NEW m, m = Min(after(T, i))
  PROVE  /\ keyAt(T, m) \in Keys
         /\ ~hidden(T) => /\ luaH_get(T, keyAt(T, m)) # Nil /\ keyAt(T, m) \notin Passed(T, i)
                          /\ findindex(T, keyAt(T, m)) = m /\ m # Error
                          /\ Passed(T, m) = Passed(T, i) \cup {keyAt(T, m)}
<1>. DEFINE R == after(T, i)
<1>1. /\ Shaped(T) /\ Chained(T) /\ Alive(T) /\ Len(T.array) \in Nat /\ DOMAIN T.array = 1..Len(T.array)
      /\ sizenode(T) \in Nat
  BY ShapeFacts DEF Good
<1>2. i \in Int /\ i >= -1
  BY <1>1, PositionCases
<1>3. R = {j \in Positions(T) : i < j /\ valAt(T, j) # Nil}
  <2>1. R = {j \in (i + 1)..(Len(T.array) + sizenode(T) - 1) : valAt(T, j) # Nil}
    BY DEF after
  <2>2. ASSUME NEW j PROVE j \in (i + 1)..(Len(T.array) + sizenode(T) - 1) <=> j \in Positions(T) /\ i < j
    BY <1>1, <1>2 DEF Positions
  <2>. HIDE DEF R
  <2>. QED BY <2>1, <2>2
<1>. HIDE DEF R
<1>4. R \subseteq Nat /\ R # {} /\ m = Min(R)
  BY <1>3, PositionCases DEF R
<1>5. m \in R /\ \A x \in R : m <= x
  BY <1>4, MinFacts
<1>6. m \in Positions(T) /\ m \in Nat /\ i < m /\ valAt(T, m) # Nil
  BY <1>3, <1>4, <1>5
<1>7. keyAt(T, m) \in Keys
  <2>1. ASSUME NEW j \in 1..Len(T.array), m = j - 1 PROVE keyAt(T, m) \in Keys
    <3>1. keyAt(T, m) = j /\ T.array[j] # Nil
      BY <1>6, <2>1, PositionCases
    <3>. QED BY <1>1, <3>1, KeyFacts DEF Alive
  <2>2. ASSUME NEW n \in DOMAIN T.node, m = Len(T.array) + n PROVE keyAt(T, m) \in Keys
    <3>1. keyAt(T, m) = T.node[n].key /\ T.node[n].val # Nil
      BY <1>6, <2>2, PositionCases
    <3>2. T.node[n].key # Nil
      BY <1>1, <3>1 DEF Chained, Blank, emptyNode
    <3>. QED BY <1>1, <3>1, <3>2, NodeFacts
  <2>. QED BY <1>6, <2>1, <2>2, PositionCases
<1>8. ASSUME ~hidden(T)
      PROVE  /\ luaH_get(T, keyAt(T, m)) # Nil /\ keyAt(T, m) \notin Passed(T, i)
             /\ findindex(T, keyAt(T, m)) = m /\ m # Error
             /\ Passed(T, m) = Passed(T, i) \cup {keyAt(T, m)}
  <2>1. luaH_get(T, keyAt(T, m)) = valAt(T, m) /\ findindex(T, keyAt(T, m)) = m
    BY <1>6, <1>8, PositionFacts
  <2>2. keyAt(T, m) \notin Passed(T, i)
    BY <1>2, <1>6, <2>1 DEF Passed
  <2>3. ASSUME NEW k \in Keys, luaH_get(T, k) # Nil
        PROVE  findindex(T, k) <= m <=> findindex(T, k) <= i \/ k = keyAt(T, m)
    <3>1. PICK j \in Positions(T) : keyAt(T, j) = k /\ valAt(T, j) = luaH_get(T, k)
      BY <1>8, <2>3, PositionFacts
    <3>2. findindex(T, k) = j /\ j \in Nat
      BY <1>8, <2>3, <3>1, PositionFacts, PositionCases
    <3>3. j <= m => j <= i \/ j = m
      <4>1. i < j => j \in R
        BY <1>3, <2>3, <3>1
      <4>2. i < j => m <= j
        BY <1>5, <4>1
      <4>. QED BY <1>2, <1>6, <3>2, <4>2
    <3>4. j <= i => j <= m
      BY <1>2, <1>6, <3>2
    <3>5. k = keyAt(T, m) <=> j = m
      BY <2>1, <3>1, <3>2
    <3>. QED BY <1>6, <3>2, <3>3, <3>4, <3>5
  <2>4. Passed(T, m) = Passed(T, i) \cup {keyAt(T, m)}
    BY <1>6, <1>7, <2>1, <2>3 DEF Passed
  <2>. QED BY <1>6, <2>1, <2>2, <2>4 DEF Error
<1>. QED BY <1>7, <1>8

\* And when there is nothing more.
LEMMA LastFacts ==
  ASSUME NEW T, Good(T), ~hidden(T), NEW i \in Positions(T) \cup {-1}, after(T, i) = {},
         NEW k \in Keys, luaH_get(T, k) # Nil
  PROVE  k \in Passed(T, i)
<1>1. Len(T.array) \in Nat /\ sizenode(T) \in Nat
  BY ShapeFacts DEF Good
<1>2. i \in Int /\ i >= -1
  BY <1>1, PositionCases
<1>3. PICK j \in Positions(T) : keyAt(T, j) = k /\ valAt(T, j) # Nil
  BY PositionFacts
<1>4. findindex(T, k) = j /\ j \in Nat
  BY <1>3, PositionFacts, PositionCases
<1>5. ~(i < j)
  <2>1. i < j => j \in (i + 1)..(Len(T.array) + sizenode(T) - 1)
    BY <1>1, <1>2, <1>4 DEF Positions
  <2>2. i < j => j \in after(T, i)
    BY <1>3, <2>1 DEF after
  <2>. QED BY <2>2
<1>6. j <= i
  BY <1>2, <1>4, <1>5
<1>. QED BY <1>4, <1>6 DEF Passed

\* Before the first position nothing is passed.
LEMMA PassedStart ==
  ASSUME NEW T, Good(T), ~hidden(T)
  PROVE  Passed(T, -1) = {}
<1>1. ASSUME NEW k \in Keys, luaH_get(T, k) # Nil PROVE ~(findindex(T, k) <= -1)
  <2>1. PICK j \in Positions(T) : keyAt(T, j) = k /\ valAt(T, j) # Nil
    BY <1>1, PositionFacts
  <2>2. findindex(T, k) = j /\ j \in Nat
    BY <2>1, PositionFacts, PositionCases
  <2>. QED BY <2>2
<1>. QED BY <1>1 DEF Passed

(***************************************************************************)
(* The steps.                                                              *)
(***************************************************************************)
\* The empty table that luaH_new starts from.
LEMMA InitGood ==
  Good([array |-> <<>>, node |-> nodevector(1), lsizenode |-> 0,
        dummy |-> TRUE, lastfree |-> 0, stuck |-> FALSE])
<1>. DEFINE T == [array |-> <<>>, node |-> nodevector(1), lsizenode |-> 0,
                  dummy |-> TRUE, lastfree |-> 0, stuck |-> FALSE]
<1>1. nodevector(1) \in [Nodes(0) -> Node(0)] /\ nodevector(1) = nodevector(twoto(0))
  BY TwotoZero DEF nodevector, Nodes, Node, emptyNode, Slots
<1>2. T \in Table(0)
  BY <1>1 DEF Table
<1>3. 0 \in 0..MaxBits /\ T.dummy /\ T.lastfree = 0 /\ T.lastfree \in -1..twoto(0)
  BY KeyFacts, TwotoZero
<1>4. T.array = <<>> /\ T.node = nodevector(1)
  OBVIOUS
<1>. HIDE DEF T
<1>5. Good(T)
  BY <1>1, <1>2, <1>3, <1>4, BlankGood
<1>. QED BY <1>5 DEF T

LEMMA InitIInv == Init => IInv
<1>. SUFFICES ASSUME Init PROVE IInv
  OBVIOUS
<1>. DEFINE T == [array |-> <<>>, node |-> nodevector(1), lsizenode |-> 0,
                  dummy |-> TRUE, lastfree |-> 0, stuck |-> FALSE]
<1>1. PICK narray \in 0..MaxPre, nhash \in 0..MaxPre :
        ~overflow(nhash) /\ t = newNodes(newArray(T, narray), nhash)
  BY DEF Init
<1>2. narray \in Nat /\ nhash \in Nat
  BY KeyFacts
<1>3. Good(T)
  BY InitGood
<1>4. ~T.stuck
  OBVIOUS
<1>. HIDE DEF T
<1>5. Fits(t, {}, nhash)
  BY <1>1, <1>2, <1>3, <1>4, NewFits
<1>6. ~hidden(t)
  <2>1. Len(t.array) \in Nat
    BY <1>5, ShapeFacts DEF Fits, Good
  <2>. QED BY <1>5, <2>1, FitsHidden
<1>7. Basic
  BY <1>5 DEF Init, Fits, Basic
<1>8. Tracked
  BY <1>6 DEF Init, Tracked
<1>. QED BY <1>7, <1>8 DEF IInv

LEMMA SetStep ==
  ASSUME IInv, NEW k \in Keys, NEW v \in Values \cup {Nil}, luaH_set(k, v)
  PROVE  IInv'
<1>1. Good(t) /\ ~t.stuck /\ v \in Slots
  BY DEF IInv, Basic, Slots
<1>2. t' = put(t, k, v) /\ hurt' = hurt /\ keepOrAbandon(k, v)
      /\ (inArray(t, k) \/ search(t, k) # NoNode \/ newkey(t, k).at # NoNode)
  BY DEF luaH_set
<1>3. PutDone(t, t', k, v)
  BY <1>1, <1>2, PutFacts
<1>4. ~hidden(t) => ~hidden(t)'
  BY <1>3, PutHidden DEF hidden, nodeKeys, inArray
<1>5. Good(t)' /\ ~t'.stuck
  <2>1. Good(t') /\ ~t'.stuck
    BY <1>1, <1>3 DEF PutDone
  <2>. QED BY <2>1
<1>6. CASE luaH_get(t, k) = Nil
  <2>1. trav' = "idle" /\ key' = Nil /\ seen' = {}
    BY <1>2, <1>6 DEF keepOrAbandon, abandon
  <2>. QED BY <1>2, <1>4, <1>5, <2>1 DEF IInv, Basic, Tracked
<1>7. CASE luaH_get(t, k) # Nil
  <2>1. trav' = trav /\ key' = key /\ seen' = (IF v = Nil THEN seen \ {k} ELSE seen)
    BY <1>2, <1>7 DEF keepOrAbandon
  <2>2. Basic'
    BY <1>2, <1>5, <2>1 DEF IInv, Basic
  <2>3. \A j \in Keys \cup {Nil} : findindex(t', j) = findindex(t, j)
    BY <1>1, <1>2, <1>7, PutKeeps
  <2>4. \A i : Passed(t', i) = (IF v = Nil THEN Passed(t, i) \ {k} ELSE Passed(t, i))
    BY <1>3, <1>7, <2>3 DEF PutDone, Passed
  <2>5. ASSUME ~hurt', trav' = "on"
        PROVE  findindex(t', key') # Error /\ seen' = Passed(t', findindex(t', key'))
    <3>1. findindex(t', key') = findindex(t, key)
      BY <2>1, <2>3 DEF IInv, Basic
    <3>2. findindex(t, key) # Error /\ seen = Passed(t, findindex(t, key))
      BY <1>2, <2>1, <2>5 DEF IInv, Tracked
    <3>. QED BY <2>1, <2>4, <3>1, <3>2
  <2>6. Tracked'
    <3>1. \/ (findindex(t, key) # Error)' /\ (seen = Passed(t, findindex(t, key)))'
          \/ hurt' \/ trav' # "on"
      BY <2>5
    <3>. QED BY <1>2, <1>4, <2>1, <2>5, <3>1 DEF IInv, Tracked
  <2>. QED BY <2>2, <2>6 DEF IInv
<1>. QED BY <1>6, <1>7

\* A step that ends the traversal.
LEMMA AbandonStep ==
  ASSUME IInv, abandon, hurt' \in BOOLEAN, Good(t)', ~t'.stuck, ~hurt' => ~hidden(t)'
  PROVE  IInv'
  BY DEF abandon, IInv, Basic, Tracked

LEMMA RehashStep ==
  ASSUME IInv, NEW k \in Keys, NEW v \in Values \cup {Nil}, rehash(k, v)
  PROVE  IInv'
<1>1. Good(t) /\ ~t.stuck /\ v \in Slots /\ hurt \in BOOLEAN
  BY DEF IInv, Basic, Slots
<1>2. /\ newkey(t, k).at = NoNode /\ ~overflow(newsizes(t, k)[2])
      /\ t' = put(resize(newkey(t, k).tab, newsizes(t, k)[1], newsizes(t, k)[2]), k, v)
      /\ abandon /\ hurt' = hurt
  BY DEF rehash, needsRehash
<1>3. Good(t') /\ ~t'.stuck /\ ~hidden(t')
  BY <1>1, <1>2, RehashFacts
<1>. QED BY <1>1, <1>2, <1>3, AbandonStep

LEMMA ResizearrayStep ==
  ASSUME IInv, NEW n \in 1..MaxPre, luaH_resizearray(n)
  PROVE  IInv'
<1>1. Good(t) /\ ~t.stuck /\ hurt \in BOOLEAN /\ n \in Nat
  BY KeyFacts DEF IInv, Basic
<1>2. /\ n > Len(t.array) /\ t' = resize(t, n, IF t.dummy THEN 0 ELSE sizenode(t))
      /\ abandon /\ hurt' = hurt
  BY DEF luaH_resizearray
<1>3. Good(t') /\ ~t'.stuck /\ ~hidden(t')
  BY <1>1, <1>2, ResizearrayFacts
<1>. QED BY <1>1, <1>2, <1>3, AbandonStep

LEMMA FailStep ==
  ASSUME IInv, NEW T, Good(T), ~T.stuck, hidden(T) <=> hidden(t),
         NEW n \in Nat, resizefails(T, n)
  PROVE  IInv'
<1>1. hurt' \in BOOLEAN /\ abandon /\ (~hurt' => ~hurt /\ ~hidden(t'))
  BY DEF IInv, Basic, resizefails
<1>2. t' = T \/ (n > Len(T.array) /\ t' = newArray(T, n))
  BY DEF resizefails
<1>3. Good(t') /\ ~t'.stuck
  <2>1. CASE t' = T
    BY <2>1
  <2>2. CASE n > Len(T.array) /\ t' = newArray(T, n)
    BY <2>2, GrownFacts
  <2>. QED BY <1>2, <2>1, <2>2
<1>. QED BY <1>1, <1>3, AbandonStep

\* newkey without a free node leaves the table as it is.
LEMMA FullFacts ==
  ASSUME IInv, NEW k \in Keys, needsRehash(k), NEW T, T = newkey(t, k).tab
  PROVE  /\ Good(T) /\ ~T.stuck /\ (hidden(T) <=> hidden(t)) /\ Unmoved(t, T)
         /\ newsizes(t, k)[1] \in Nat
<1>1. Good(t) /\ ~t.stuck /\ newkey(t, k).at = NoNode
  BY DEF IInv, Basic, needsRehash
<1>2. Good(T) /\ SameFields(t, T) /\ T.node = t.node
  BY <1>1, NewkeyFull
<1>3. (hidden(T) <=> hidden(t)) /\ Unmoved(t, T) /\ ~T.stuck
  BY <1>1, <1>2, SameFieldsGet DEF SameFields
<1>. QED BY <1>1, <1>2, <1>3, NewsizesFacts

LEMMA StartStep ==
  ASSUME IInv, startnext
  PROVE  IInv'
<1>1. trav' = "on" /\ key' = Nil /\ seen' = {} /\ t' = t /\ hurt' = hurt
  BY DEF startnext
<1>2. Basic'
  BY <1>1 DEF IInv, Basic
<1>3. findindex(t, Nil) = -1
  BY DEF findindex
<1>4. ~hidden(t) => Passed(t, -1) = {}
  BY PassedStart DEF IInv, Basic
<1>5. Tracked'
  BY <1>1, <1>3, <1>4 DEF IInv, Tracked, Error
<1>. QED BY <1>2, <1>5 DEF IInv

LEMMA NextStep ==
  ASSUME IInv, luaH_next
  PROVE  IInv'
<1>. DEFINE i    == findindex(t, key)
            rest == after(t, i)
            m    == Min(rest)
<1>1. Good(t) /\ key \in Keys \cup {Nil}
  BY DEF IInv, Basic
<1>2. trav = "on" /\ t' = t /\ hurt' = hurt
  BY DEF luaH_next
<1>3. i = Error \/ i \in Positions(t) \cup {-1}
  BY <1>1, FindFacts
<1>4. CASE i = Error
  <2>1. trav' = "invalid" /\ key' = key /\ seen' = seen
    BY <1>4 DEF luaH_next
  <2>2. hurt
    BY <1>2, <1>4 DEF IInv, Tracked
  <2>. QED BY <1>2, <2>1, <2>2 DEF IInv, Basic, Tracked
<1>5. CASE i # Error /\ rest = {}
  <2>1. trav' = "idle" /\ key' = Nil /\ seen' = {}
    BY <1>5 DEF luaH_next, abandon
  <2>. QED BY <1>2, <2>1 DEF IInv, Basic, Tracked
<1>6. CASE i # Error /\ rest # {}
  <2>1. key' = keyAt(t, m) /\ seen' = seen \cup {keyAt(t, m)} /\ trav' = trav
    BY <1>6 DEF luaH_next
  <2>2. /\ keyAt(t, m) \in Keys
        /\ ~hidden(t) => /\ findindex(t, keyAt(t, m)) = m /\ m # Error
                         /\ Passed(t, m) = Passed(t, i) \cup {keyAt(t, m)}
    BY <1>1, <1>3, <1>6, NextFacts
  <2>3. Basic'
    BY <1>2, <2>1, <2>2 DEF IInv, Basic
  <2>4. ~hurt => ~hidden(t) /\ seen = Passed(t, i)
    BY <1>2 DEF IInv, Tracked
  <2>. HIDE DEF i, rest, m
  <2>5. Tracked'
    BY <1>2, <2>1, <2>2, <2>4 DEF Tracked
  <2>. QED BY <2>3, <2>5 DEF IInv
<1>. QED BY <1>4, <1>5, <1>6

LEMMA RemoveStep ==
  ASSUME IInv, removeentries
  PROVE  IInv'
<1>1. Good(t) /\ trav' = trav /\ key' = key /\ seen' = seen /\ hurt' = hurt
  BY DEF IInv, Basic, removeentries
<1>2. /\ Good(t') /\ t'.stuck = t.stuck /\ Unmoved(t, t') /\ (hidden(t') <=> hidden(t))
      /\ \A k \in Keys \cup {Nil} : findindex(t', k) = findindex(t, k)
  BY <1>1, RemoveFacts DEF removeentries
<1>3. Basic'
  BY <1>1, <1>2 DEF IInv, Basic
<1>4. \A i : Passed(t', i) = Passed(t, i)
  BY <1>2 DEF Passed, Unmoved
<1>5. findindex(t', key') = findindex(t, key)
  BY <1>1, <1>2 DEF IInv, Basic
<1>6. Tracked'
  BY <1>1, <1>2, <1>4, <1>5 DEF IInv, Tracked
<1>. QED BY <1>3, <1>6 DEF IInv

LEMMA NextIInv == IInv /\ [Next]_vars => IInv'
<1>. SUFFICES ASSUME IInv, [Next]_vars PROVE IInv'
  OBVIOUS
<1>1. ASSUME NEW k \in Keys, NEW v \in Values \cup {Nil}, luaH_set(k, v) PROVE IInv'
  BY <1>1, SetStep
<1>2. ASSUME NEW k \in Keys, NEW v \in Values \cup {Nil}, rehash(k, v) PROVE IInv'
  BY <1>2, RehashStep
<1>3. ASSUME NEW n \in 1..MaxPre, luaH_resizearray(n) PROVE IInv'
  BY <1>3, ResizearrayStep
<1>4. ASSUME NEW n \in 1..MaxPre, resizearrayfails(n) PROVE IInv'
  <2>1. Good(t) /\ ~t.stuck /\ n \in Nat /\ resizefails(t, n)
    BY <1>4, KeyFacts DEF IInv, Basic, resizearrayfails
  <2>. QED BY <2>1, FailStep
<1>5. ASSUME NEW k \in Keys, rehashfails(k) PROVE IInv'
  <2>1. needsRehash(k) /\ resizefails(newkey(t, k).tab, newsizes(t, k)[1])
    BY <1>5 DEF rehashfails
  <2>. QED BY <2>1, FullFacts, FailStep
<1>6. CASE startnext
  BY <1>6, StartStep
<1>7. CASE luaH_next
  BY <1>7, NextStep
<1>8. CASE removeentries
  BY <1>8, RemoveStep
<1>9. CASE UNCHANGED vars
  BY <1>9 DEF vars, IInv, Basic, Tracked
<1>. QED BY <1>1, <1>2, <1>3, <1>4, <1>5, <1>6, <1>7, <1>8, <1>9 DEF Next

LEMMA Invariance == Spec => []IInv
BY InitIInv, NextIInv, PTL DEF Spec

(***************************************************************************)
(* The theorems.                                                           *)
(***************************************************************************)
\* Tables keep their shape: links, keys and values of the node vector and of
\* the array stay in range, through every assignment, rehash, failure and
\* collection.
THEOREM TypeCorrect == Spec => []TypeOK
<1>1. IInv => TypeOK
  <2>. SUFFICES ASSUME IInv PROVE TypeOK
    OBVIOUS
  <2>1. Good(t) /\ Shaped(t) /\ Free(t)
    BY DEF IInv, Basic, Good
  <2>2. /\ t.lsizenode \in 0..MaxBits /\ t.array \in Seq(Values \cup {Nil})
        /\ DOMAIN t.node = 0..(sizenode(t) - 1) /\ sizenode(t) = twoto(t.lsizenode)
    BY <2>1, ShapeFacts DEF Nodes, Slots
  <2>3. ASSUME NEW n \in DOMAIN t.node
        PROVE  t.node[n] \in [key : Keys \cup {Nil}, dead : BOOLEAN, val : Values \cup {Nil},
                              next : DOMAIN t.node \cup {NoNode}]
    <3>1. t.node[n] \in Node(t.lsizenode) /\ DOMAIN t.node = Nodes(t.lsizenode)
      BY <2>1, NodeFacts, ShapeFacts
    <3>. QED BY <3>1 DEF Node, Slots
  <2>4. (t.dummy => t.node = nodevector(1)) /\ t.lastfree \in -1..sizenode(t)
    BY <2>1, <2>2 DEF Free
  <2>. QED BY <2>2, <2>3, <2>4 DEF TypeOK, IInv, Basic
<1>. QED BY <1>1, Invariance, PTL

\* Brent's variation survives every history: each element is found from its
\* main position, and only a key that is at home keeps another away.
THEOREM ChainsHold == Spec => []BrentChains
<1>1. IInv => BrentChains
  <2>. SUFFICES ASSUME IInv, NEW n \in DOMAIN t.node, t.node[n].val # Nil
                PROVE  LET mp == mainposition(t, t.node[n].key)
                       IN  /\ search(t, t.node[n].key) = n
                           /\ n # mp /\ t.node[mp].val # Nil => mainposition(t, t.node[mp].key) = mp
    BY DEF BrentChains
  <2>1. Shaped(t) /\ Chained(t) /\ Alive(t)
    BY DEF IInv, Basic, Good
  <2>2. t.node[n].key # Nil /\ ~t.node[n].dead
    BY <2>1 DEF Chained, Blank, Alive, emptyNode
  <2>3. t.node[n].key \in Keys
    BY <2>1, <2>2, NodeFacts
  <2>4. search(t, t.node[n].key) = n
    BY <2>1, <2>2, <2>3, SearchFacts
  <2>5. n # mainposition(t, t.node[n].key) =>
          mainposition(t, t.node[mainposition(t, t.node[n].key)].key) = mainposition(t, t.node[n].key)
    BY <2>1, <2>2 DEF Chained, Homes
  <2>. QED BY <2>4, <2>5
<1>. QED BY <1>1, Invariance, PTL

\* A rehash makes room for all that it moves and for the new key: newkey never
\* has to rehash in the middle of a rehash.
THEOREM RoomIsEnough == Spec => []RoomAfterRehash
<1>1. IInv => RoomAfterRehash
  BY DEF IInv, Basic, Good, Free, RoomAfterRehash
<1>. QED BY <1>1, Invariance, PTL

\* Whatever key makes it rehash, a table that no failure has damaged gets the
\* largest array part that more than half of the keys fill.
THEOREM ArrayIsBest == Spec => []ArrayOptimal
<1>1. IInv => ArrayOptimal
  <2>. SUFFICES ASSUME IInv, NEW k \in Keys, luaH_get(t, k) = Nil, ~hurt
                PROVE  LET K == {x \in IntKeys : luaH_get(t, x) # Nil} \cup {k}
                       IN  newsizes(t, k)[1] = IF BestSizes(K) = {} THEN 0 ELSE Max(BestSizes(K))
    BY DEF ArrayOptimal, BestSizes
  <2>. DEFINE A == arrayKeys(t)
              N == nodeKeys(t)
              B == N \cup {k}
              K == {x \in IntKeys : luaH_get(t, x) # Nil} \cup {k}
  <2>1. Good(t) /\ ~hidden(t) /\ Shaped(t) /\ Alive(t) /\ Chained(t)
    BY DEF IInv, Basic, Tracked, Good
  <2>2. IsFiniteSet(A) /\ A \subseteq IntKeys \cap 1..Len(t.array) /\ IsFiniteSet(N) /\ N \subseteq Keys
    BY <2>1, KeySets
  <2>3. IsFiniteSet(B)
    <3>. HIDE DEF N
    <3>. QED BY <2>2, FS_AddElement
  <2>4. \A x \in A : inArray(t, x) /\ x \in IntKeys /\ luaH_get(t, x) # Nil
    <3>1. ASSUME NEW x \in A PROVE inArray(t, x) /\ x \in IntKeys /\ luaH_get(t, x) # Nil
      <4>1. x \in IntKeys /\ x \in 1..Len(t.array)
        BY <2>2
      <4>2. inArray(t, x)
        BY <4>1 DEF inArray
      <4>3. t.array[x] # Nil
        BY DEF arrayKeys
      <4>. QED BY <4>1, <4>2, <4>3 DEF luaH_get
    <3>. QED BY <3>1
  <2>5. A \cap B = {}
    BY <2>1, <2>4 DEF hidden
  <2>6. ASSUME NEW x \in IntKeys PROVE luaH_get(t, x) # Nil <=> x \in A \cup N
    <3>0. x \in Keys
      BY KeyFacts
    <3>1. CASE inArray(t, x)
      <4>1. luaH_get(t, x) = t.array[x] /\ x \in DOMAIN t.array
        BY <2>1, <3>0, <3>1, GetFacts
      <4>2. x \notin N
        BY <2>1, <3>1 DEF hidden
      <4>. QED BY <4>1, <4>2 DEF arrayKeys
    <3>2. CASE ~inArray(t, x)
      <4>1. \A v : v # Nil => (luaH_get(t, x) = v <=> Holds(t, x, v))
        BY <2>1, <3>0, <3>2, GetFacts
      <4>2. luaH_get(t, x) # Nil => x \in N
        <5>1. ASSUME luaH_get(t, x) # Nil PROVE Holds(t, x, luaH_get(t, x))
          BY <4>1, <5>1
        <5>. QED BY <5>1 DEF Holds, nodeKeys
      <4>3. ASSUME x \in N PROVE luaH_get(t, x) # Nil
        <5>1. PICK n \in DOMAIN t.node : t.node[n].key = x /\ t.node[n].val # Nil
          BY <4>3 DEF nodeKeys
        <5>2. Holds(t, x, t.node[n].val)
          BY <2>1, <5>1 DEF Holds, Alive
        <5>. QED BY <4>1, <5>1, <5>2
      <4>4. x \notin A
        BY <2>4, <3>2
      <4>. QED BY <4>2, <4>3, <4>4
    <3>. QED BY <3>1, <3>2
  <2>7. \A n \in Nat : n \in K <=> n \in A \cup B
    <3>1. ASSUME NEW n \in Nat, n \in A \cup N PROVE n \in IntKeys
      BY <2>2, <3>1, KeyFacts
    <3>. HIDE DEF A, N
    <3>. QED BY <2>6, <3>1
  <2>8. newsizes(t, k)[1] = computesizes(nums(A, B))[1]
    BY DEF newsizes
  <2>. HIDE DEF A, B, K
  <2>9. computesizes(nums(A, B))[1] = IF BestSizes(K) = {} THEN 0 ELSE Max(BestSizes(K))
    BY <2>2, <2>3, <2>5, <2>7, SizesBest
  <2>. QED BY <2>8, <2>9 DEF K
<1>. QED BY <1>1, Invariance, PTL

(***************************************************************************)
(* The length of a list.                                                   *)
(***************************************************************************)
Pairs == Nat \X Nat

\* n is present, unless it is 0, and the next number is not.
Starts(T, n)  == n = 0 \/ getnum(T, n) # Nil
IsBorder(T, n) == n \in Nat /\ Starts(T, n) /\ getnum(T, n + 1) = Nil

\* There is something to find between the two numbers.
Bounds(T, p) == p \in Pairs /\ p[1] < p[2] /\ Starts(T, p[1])

\* The binary search halves the distance.
LEMMA BinsearchFacts ==
  ASSUME NEW T, NEW i \in Nat, NEW j \in Nat, i < j, Starts(T, i), getnum(T, j) = Nil
  PROVE  IsBorder(T, binsearch(T, i, j))
<1>. DEFINE D     == Pairs
            mid   == [p \in D |-> (p[1] + p[2]) \div 2]
            nx    == [p \in D |-> IF getnum(T, (p[1] + p[2]) \div 2) = Nil
                                  THEN <<p[1], (p[1] + p[2]) \div 2>> ELSE <<(p[1] + p[2]) \div 2, p[2]>>]
            stop  == {p \in D : p[2] - p[1] <= 1}
            val   == [p \in D |-> p[1]]
            r     == [p \in D |-> IF p[1] < p[2] THEN p[2] - p[1] ELSE 0]
            Is(b) == b = [p \in Nat \X Nat |->
                            IF p[2] - p[1] <= 1 THEN p[1]
                            ELSE b[IF getnum(T, (p[1] + p[2]) \div 2) = Nil
                                   THEN <<p[1], (p[1] + p[2]) \div 2>> ELSE <<(p[1] + p[2]) \div 2, p[2]>>]]
            q     == CHOOSE b : Is(b)
            P     == {p \in D : Bounds(T, p) /\ getnum(T, p[2]) = Nil}
            G     == {n \in Nat : IsBorder(T, n)}
<1>1. \A p \in D : p[1] \in Nat /\ p[2] \in Nat /\ p = <<p[1], p[2]>>
  BY DEF Pairs
<1>2. ASSUME NEW p \in D, p \notin stop
      PROVE  /\ nx[p] \in D /\ r[nx[p]] < r[p]
             /\ \/ nx[p] = <<p[1], mid[p]>> /\ getnum(T, mid[p]) = Nil
                \/ nx[p] = <<mid[p], p[2]>> /\ getnum(T, mid[p]) # Nil
             /\ mid[p] \in Nat /\ p[1] < mid[p] /\ mid[p] < p[2]
  <2>. DEFINE m == (p[1] + p[2]) \div 2
  <2>1. p[1] \in Nat /\ p[2] \in Nat /\ p[2] - p[1] > 1
    BY <1>1, <1>2
  <2>2. m \in Nat /\ p[1] < m /\ m < p[2] /\ mid[p] = m
    BY <2>1
  <2>3. nx[p] = IF getnum(T, m) = Nil THEN <<p[1], m>> ELSE <<m, p[2]>>
    OBVIOUS
  <2>4. <<p[1], m>> \in D /\ <<m, p[2]>> \in D
    BY <2>1, <2>2 DEF Pairs
  <2>. HIDE DEF m
  <2>5. r[p] = p[2] - p[1] /\ r[<<p[1], m>>] = m - p[1] /\ r[<<m, p[2]>>] = p[2] - m
    BY <2>1, <2>2, <2>4
  <2>. HIDE DEF nx, r, mid, D
  <2>6. r[<<p[1], m>>] < r[p] /\ r[<<m, p[2]>>] < r[p]
    BY <2>1, <2>2, <2>5
  <2>. QED BY <2>2, <2>3, <2>4, <2>6
<1>3. r \in [D -> Nat]
  <2>1. \A p \in D : (IF p[1] < p[2] THEN p[2] - p[1] ELSE 0) \in Nat
    BY <1>1
  <2>. QED BY <2>1
<1>4. PICK f \in [D -> Nat] : TailRecursive(f, D, stop, val, nx)
  <2>1. 0 \in Nat /\ \A p \in D : p \in stop => val[p] \in Nat
    BY <1>1
  <2>2. \A p \in D : p \notin stop => nx[p] \in D /\ r[nx[p]] < r[p]
    BY <1>2
  <2>. HIDE DEF D, stop, val, nx, r
  <2>. QED BY ONLY <1>3, <2>1, <2>2, TailRecursion
<1>5. ASSUME NEW b, NEW p \in D
      PROVE  (IF p \in stop THEN val[p] ELSE b[nx[p]])
               = IF p[2] - p[1] <= 1 THEN p[1]
                 ELSE b[IF getnum(T, (p[1] + p[2]) \div 2) = Nil
                        THEN <<p[1], (p[1] + p[2]) \div 2>> ELSE <<(p[1] + p[2]) \div 2, p[2]>>]
  <2>1. p \in stop <=> p[2] - p[1] <= 1
    OBVIOUS
  <2>2. val[p] = p[1]
    OBVIOUS
  <2>3. nx[p] = IF getnum(T, (p[1] + p[2]) \div 2) = Nil
                THEN <<p[1], (p[1] + p[2]) \div 2>> ELSE <<(p[1] + p[2]) \div 2, p[2]>>
    OBVIOUS
  <2>. HIDE DEF stop, val, nx, D
  <2>. QED BY <2>1, <2>2, <2>3, Zenon
<1>6. Is(f)
  <2>1. f = [p \in D |-> f[p]]
    <3>. HIDE DEF D
    <3>. QED BY <1>4
  <2>2. \A p \in D : f[p] = IF p \in stop THEN val[p] ELSE f[nx[p]]
    <3>. HIDE DEF D, stop, val, nx
    <3>. QED BY <1>4 DEF TailRecursive
  <2>3. \A p \in D : f[p] = IF p[2] - p[1] <= 1 THEN p[1]
                 ELSE f[IF getnum(T, (p[1] + p[2]) \div 2) = Nil
                        THEN <<p[1], (p[1] + p[2]) \div 2>> ELSE <<(p[1] + p[2]) \div 2, p[2]>>]
    <3>1. ASSUME NEW p \in D
          PROVE  f[p] = IF p[2] - p[1] <= 1 THEN p[1]
                   ELSE f[IF getnum(T, (p[1] + p[2]) \div 2) = Nil
                          THEN <<p[1], (p[1] + p[2]) \div 2>> ELSE <<(p[1] + p[2]) \div 2, p[2]>>]
      <4>. HIDE DEF D, stop, val, nx
      <4>1. f[p] = IF p \in stop THEN val[p] ELSE f[nx[p]]
        BY <2>2
      <4>2. (IF p \in stop THEN val[p] ELSE f[nx[p]])
               = IF p[2] - p[1] <= 1 THEN p[1]
                 ELSE f[IF getnum(T, (p[1] + p[2]) \div 2) = Nil
                        THEN <<p[1], (p[1] + p[2]) \div 2>> ELSE <<(p[1] + p[2]) \div 2, p[2]>>]
        BY <1>5
      <4>. QED BY ONLY <4>1, <4>2, Zenon
    <3>. HIDE DEF D
    <3>. QED BY <3>1
  <2>4. D = Nat \X Nat
    BY DEF Pairs
  <2>. HIDE DEF D, stop, val, nx
  <2>. QED BY <2>1, <2>3, <2>4, Zenon
<1>7. Is(q)
  <2>. HIDE DEF Is
  <2>. QED BY <1>6
<1>8. binsearch(T, i, j) = q[<<i, j>>]
  BY DEF binsearch
<1>9. TailRecursive(q, D, stop, val, nx)
  <2>1. ASSUME NEW p \in D
        PROVE  q[p] = IF p[2] - p[1] <= 1 THEN p[1]
                 ELSE q[IF getnum(T, (p[1] + p[2]) \div 2) = Nil
                        THEN <<p[1], (p[1] + p[2]) \div 2>> ELSE <<(p[1] + p[2]) \div 2, p[2]>>]
    <3>1. p \in Nat \X Nat
      BY DEF Pairs
    <3>. HIDE DEF q
    <3>. QED BY <1>7, <3>1, Zenon
  <2>. HIDE DEF q, D, stop, val, nx
  <2>. QED BY <2>1, <1>5, Zenon DEF TailRecursive
<1>10. \A p \in P : p \in stop => val[p] \in G
  <2>1. ASSUME NEW p \in P, p \in stop PROVE val[p] \in G
    <3>1. p \in D /\ p[1] < p[2] /\ p[2] - p[1] <= 1 /\ Starts(T, p[1]) /\ getnum(T, p[2]) = Nil
      BY <2>1 DEF Bounds
    <3>2. val[p] = p[1] /\ p[1] \in Nat /\ p[2] \in Nat
      BY <3>1, <1>1
    <3>3. p[2] = p[1] + 1
      BY <3>1, <3>2
    <3>. HIDE DEF P, D, stop, val
    <3>. QED BY <3>1, <3>2, <3>3 DEF IsBorder
  <2>. QED BY <2>1
<1>11. \A p \in P : p \notin stop => nx[p] \in P /\ r[nx[p]] < r[p]
  <2>1. ASSUME NEW p \in P, p \notin stop PROVE nx[p] \in P /\ r[nx[p]] < r[p]
    <3>1. p \in D /\ p[1] < p[2] /\ Starts(T, p[1]) /\ getnum(T, p[2]) = Nil
      BY DEF Bounds
    <3>2. /\ nx[p] \in D /\ r[nx[p]] < r[p]
          /\ \/ nx[p] = <<p[1], mid[p]>> /\ getnum(T, mid[p]) = Nil
             \/ nx[p] = <<mid[p], p[2]>> /\ getnum(T, mid[p]) # Nil
          /\ mid[p] \in Nat /\ p[1] < mid[p] /\ mid[p] < p[2]
      BY <2>1, <3>1, <1>2
    <3>. DEFINE x == nx[p]
                m == mid[p]
    <3>. HIDE DEF x, m
    <3>3. x[1] < x[2] /\ Starts(T, x[1]) /\ getnum(T, x[2]) = Nil
      BY <3>1, <3>2 DEF x, m, Starts
    <3>4. x \in D
      BY <3>2 DEF x
    <3>5. x \in P
      BY <3>3, <3>4 DEF Bounds
    <3>. QED BY <3>2, <3>5 DEF x
  <2>. QED BY <2>1
<1>12. <<i, j>> \in P
  <2>1. <<i, j>> \in D
    BY DEF Pairs
  <2>. QED BY <2>1 DEF Bounds
<1>13. q[<<i, j>>] \in G
  <2>1. P \in SUBSET D
    OBVIOUS
  <2>. HIDE DEF q, D, stop, val, nx, r, P, G
  <2>2. \A p \in P : q[p] \in G
    BY ONLY <1>3, <1>9, <1>10, <1>11, <2>1, TailInduction
  <2>. QED BY <1>12, <2>2
<1>. QED BY <1>8, <1>13

\* What the integer keys of a table hold.
LEMMA GetnumFacts ==
  ASSUME NEW T, Good(T)
  PROVE  /\ \A i \in DOMAIN T.array : getnum(T, i) = T.array[i]
         /\ \A n \in Nat : n > MaxInt \/ n = 0 => getnum(T, n) = Nil
         /\ T.dummy => \A n \in Nat : n > Len(T.array) => getnum(T, n) = Nil
<1>1. Shaped(T) /\ Alive(T) /\ Free(T) /\ DOMAIN T.array = 1..Len(T.array) /\ Len(T.array) \in Nat
  BY ShapeFacts DEF Good
<1>2. ASSUME NEW i \in DOMAIN T.array PROVE getnum(T, i) = T.array[i]
  <2>1. CASE i \in IntKeys
    <3>1. inArray(T, i)
      BY <1>1, <2>1 DEF inArray
    <3>. QED BY <2>1, <3>1 DEF getnum, luaH_get
  <2>2. CASE i \notin IntKeys
    <3>1. T.array[i] = Nil
      BY <1>1, <2>2 DEF Alive
    <3>. QED BY <2>2, <3>1 DEF getnum
  <2>. QED BY <2>1, <2>2
<1>3. ASSUME NEW n \in Nat, n > MaxInt \/ n = 0 PROVE getnum(T, n) = Nil
  <2>1. n \notin IntKeys
    BY <1>3, KeyFacts
  <2>. QED BY <2>1 DEF getnum
<1>4. ASSUME T.dummy, NEW n \in Nat, n > Len(T.array) PROVE getnum(T, n) = Nil
  <2>1. ASSUME n \in IntKeys, luaH_get(T, n) # Nil PROVE FALSE
    <3>1. n \in Keys /\ ~inArray(T, n)
      BY <1>1, <1>4, <2>1, KeyFacts DEF inArray
    <3>2. Holds(T, n, luaH_get(T, n))
      BY <2>1, <3>1, GetFacts
    <3>3. PICK x \in DOMAIN T.node : T.node[x].val # Nil
      BY <2>1, <3>2 DEF Holds
    <3>. QED BY <1>1, <1>4, <3>3 DEF Free, nodevector, emptyNode
  <2>. QED BY <2>1 DEF getnum
<1>. QED BY <1>2, <1>3, <1>4

\* The linear search that a list of length MAX_INT falls back on.
LEMMA LinearFacts ==
  ASSUME NEW T, Good(T)
  PROVE  IsBorder(T, Min({n \in 0..MaxInt : getnum(T, n + 1) = Nil}))
<1>. DEFINE X == {n \in 0..MaxInt : getnum(T, n + 1) = Nil}
            n == Min(X)
<1>1. MaxInt \in X
  <2>1. MaxInt \in 0..MaxInt /\ MaxInt + 1 \in Nat /\ MaxInt + 1 > MaxInt
    BY KeyFacts
  <2>. QED BY <2>1, GetnumFacts
<1>2. X \subseteq Nat /\ X # {}
  BY <1>1
<1>3. n \in X /\ \A x \in X : n <= x
  <2>. HIDE DEF X
  <2>. QED BY <1>2, MinFacts
<1>4. n \in Nat /\ n \in 0..MaxInt /\ getnum(T, n + 1) = Nil
  BY <1>3
<1>5. ASSUME n # 0, getnum(T, n) = Nil PROVE FALSE
  <2>. DEFINE m == n - 1
  <2>1. m \in 0..MaxInt /\ m + 1 = n
    BY <1>4, <1>5, KeyFacts
  <2>2. m \in X
    <3>. HIDE DEF n, m
    <3>. QED BY <1>5, <2>1
  <2>. HIDE DEF X
  <2>3. n <= m
    BY <1>3, <2>2
  <2>. HIDE DEF n
  <2>. QED BY <1>4, <2>3
<1>. QED BY <1>4, <1>5 DEF IsBorder, Starts

\* The search by doubling.
LEMMA UnboundFacts ==
  ASSUME NEW T, Good(T), NEW j \in Nat, Starts(T, j)
  PROVE  IsBorder(T, unbound_search(T, j))
<1>. DEFINE D     == Pairs
            last  == Min({n \in 0..MaxInt : getnum(T, n + 1) = Nil})
            nx    == [p \in D |-> <<p[2], 2 * p[2]>>]
            stop  == {p \in D : p[2] > MaxInt \/ getnum(T, p[2]) = Nil}
            val   == [p \in D |-> IF p[2] > MaxInt THEN last ELSE binsearch(T, p[1], p[2])]
            V     == {val[p] : p \in D}
            r     == [p \in D |-> IF p[2] <= MaxInt THEN MaxInt + 1 - p[2] ELSE 0]
            Is(b) == b = [p \in Nat \X Nat |->
                            IF p[2] > MaxInt THEN last
                            ELSE IF getnum(T, p[2]) # Nil THEN b[<<p[2], 2 * p[2]>>]
                            ELSE binsearch(T, p[1], p[2])]
            q     == CHOOSE b : Is(b)
            P     == {p \in D : Bounds(T, p)}
            G     == {n \in Nat : IsBorder(T, n)}
<1>0. MaxInt \in Nat
  BY KeyFacts
<1>1. \A p \in D : p[1] \in Nat /\ p[2] \in Nat /\ p = <<p[1], p[2]>>
  BY DEF Pairs
<1>2. ASSUME NEW p \in D, p \notin stop
      PROVE  nx[p] = <<p[2], 2 * p[2]>> /\ nx[p] \in D /\ r[nx[p]] < r[p] /\ p[2] # 0 /\ getnum(T, p[2]) # Nil
  <2>1. p[2] \in Nat /\ p[2] <= MaxInt /\ getnum(T, p[2]) # Nil
    BY <1>0, <1>1, <1>2
  <2>2. p[2] # 0
    BY <2>1, GetnumFacts
  <2>3. nx[p] = <<p[2], 2 * p[2]>> /\ <<p[2], 2 * p[2]>> \in D
    BY <2>1 DEF Pairs
  <2>4. r[p] = MaxInt + 1 - p[2]
        /\ r[<<p[2], 2 * p[2]>>] = IF 2 * p[2] <= MaxInt THEN MaxInt + 1 - 2 * p[2] ELSE 0
    BY <2>1, <2>3
  <2>. HIDE DEF r, nx, D
  <2>5. r[<<p[2], 2 * p[2]>>] < r[p]
    BY <1>0, <2>1, <2>2, <2>4
  <2>. QED BY <2>1, <2>2, <2>3, <2>5
<1>3. r \in [D -> Nat]
  <2>1. \A p \in D : (IF p[2] <= MaxInt THEN MaxInt + 1 - p[2] ELSE 0) \in Nat
    BY <1>0, <1>1
  <2>. QED BY <2>1
<1>4. PICK f \in [D -> V] : TailRecursive(f, D, stop, val, nx)
  <2>1. \A p \in D : val[p] \in V
    OBVIOUS
  <2>2. \A p \in D : p \notin stop => nx[p] \in D /\ r[nx[p]] < r[p]
    BY <1>2
  <2>3. <<0, 0>> \in D
    BY DEF Pairs
  <2>. HIDE DEF D, stop, val, nx, r, V
  <2>4. val[<<0, 0>>] \in V /\ \A p \in D : p \in stop => val[p] \in V
    BY <2>1, <2>3
  <2>. QED BY ONLY <1>3, <2>2, <2>4, TailRecursion
<1>5. ASSUME NEW b, NEW p \in D
      PROVE  (IF p \in stop THEN val[p] ELSE b[nx[p]])
               = IF p[2] > MaxInt THEN last
                 ELSE IF getnum(T, p[2]) # Nil THEN b[<<p[2], 2 * p[2]>>]
                 ELSE binsearch(T, p[1], p[2])
  <2>1. p \in stop <=> p[2] > MaxInt \/ getnum(T, p[2]) = Nil
    OBVIOUS
  <2>2. val[p] = IF p[2] > MaxInt THEN last ELSE binsearch(T, p[1], p[2])
    OBVIOUS
  <2>3. nx[p] = <<p[2], 2 * p[2]>>
    OBVIOUS
  <2>. HIDE DEF stop, val, nx, D, last
  <2>. QED BY <2>1, <2>2, <2>3, Zenon
<1>6. Is(f)
  <2>1. f = [p \in D |-> f[p]]
    <3>. HIDE DEF D, V
    <3>. QED BY <1>4
  <2>2. \A p \in D : f[p] = IF p \in stop THEN val[p] ELSE f[nx[p]]
    <3>. HIDE DEF D, stop, val, nx, V
    <3>. QED BY <1>4 DEF TailRecursive
  <2>3. ASSUME NEW p \in D
        PROVE  f[p] = IF p[2] > MaxInt THEN last
                 ELSE IF getnum(T, p[2]) # Nil THEN f[<<p[2], 2 * p[2]>>]
                 ELSE binsearch(T, p[1], p[2])
    <3>. HIDE DEF D, stop, val, nx, last
    <3>1. f[p] = IF p \in stop THEN val[p] ELSE f[nx[p]]
      BY <2>2
    <3>2. (IF p \in stop THEN val[p] ELSE f[nx[p]])
               = IF p[2] > MaxInt THEN last
                 ELSE IF getnum(T, p[2]) # Nil THEN f[<<p[2], 2 * p[2]>>]
                 ELSE binsearch(T, p[1], p[2])
      BY <1>5
    <3>. QED BY ONLY <3>1, <3>2, Zenon
  <2>4. D = Nat \X Nat
    BY DEF Pairs
  <2>. HIDE DEF D, stop, val, nx, last, V
  <2>. QED BY <2>1, <2>3, <2>4, Zenon
<1>7. Is(q)
  <2>. HIDE DEF Is
  <2>. QED BY <1>6
<1>8. unbound_search(T, j) = q[<<j, j + 1>>]
  BY DEF unbound_search
<1>9. TailRecursive(q, D, stop, val, nx)
  <2>1. ASSUME NEW p \in D
        PROVE  q[p] = IF p[2] > MaxInt THEN last
                 ELSE IF getnum(T, p[2]) # Nil THEN q[<<p[2], 2 * p[2]>>]
                 ELSE binsearch(T, p[1], p[2])
    <3>1. p \in Nat \X Nat
      BY DEF Pairs
    <3>. HIDE DEF q, last
    <3>. QED BY <1>7, <3>1, Zenon
  <2>. HIDE DEF q, D, stop, val, nx, last
  <2>. QED BY <2>1, <1>5, Zenon DEF TailRecursive
<1>10. \A p \in P : p \in stop => val[p] \in G
  <2>1. ASSUME NEW p \in P, p \in stop PROVE val[p] \in G
    <3>1. p \in D /\ p[1] < p[2] /\ Starts(T, p[1]) /\ p[1] \in Nat /\ p[2] \in Nat
          /\ (p[2] > MaxInt \/ getnum(T, p[2]) = Nil)
      BY <1>1, <2>1 DEF Bounds
    <3>2. val[p] = IF p[2] > MaxInt THEN last ELSE binsearch(T, p[1], p[2])
      BY <3>1
    <3>3. IsBorder(T, last)
      BY LinearFacts
    <3>. HIDE DEF P, D, stop, val, last
    <3>4. getnum(T, p[2]) = Nil => IsBorder(T, binsearch(T, p[1], p[2]))
      BY <3>1, BinsearchFacts
    <3>5. IsBorder(T, val[p])
      BY <3>1, <3>2, <3>3, <3>4
    <3>. QED BY <3>5 DEF IsBorder
  <2>. QED BY <2>1
<1>11. \A p \in P : p \notin stop => nx[p] \in P /\ r[nx[p]] < r[p]
  <2>1. ASSUME NEW p \in P, p \notin stop PROVE nx[p] \in P /\ r[nx[p]] < r[p]
    <3>1. p \in D /\ p[2] \in Nat
      BY <1>1
    <3>2. nx[p] = <<p[2], 2 * p[2]>> /\ nx[p] \in D /\ r[nx[p]] < r[p] /\ p[2] # 0 /\ getnum(T, p[2]) # Nil
      BY <2>1, <3>1, <1>2
    <3>. DEFINE x == nx[p]
    <3>. HIDE DEF x
    <3>3. x[1] < x[2] /\ Starts(T, x[1])
      BY <3>1, <3>2 DEF x, Starts
    <3>4. x \in D
      BY <3>2 DEF x
    <3>5. x \in P
      BY <3>3, <3>4 DEF Bounds
    <3>. QED BY <3>2, <3>5 DEF x
  <2>. QED BY <2>1
<1>12. <<j, j + 1>> \in P
  <2>1. <<j, j + 1>> \in D
    BY DEF Pairs
  <2>. QED BY <2>1 DEF Bounds
<1>13. q[<<j, j + 1>>] \in G
  <2>1. P \in SUBSET D
    OBVIOUS
  <2>. HIDE DEF q, D, stop, val, nx, r, P, G, V
  <2>2. \A p \in P : q[p] \in G
    BY ONLY <1>3, <1>9, <1>10, <1>11, <2>1, TailInduction
  <2>. QED BY <1>12, <2>2
<1>. QED BY <1>8, <1>13

\* The length operator returns a border whatever the history of the table, one
\* that a failed rehash has damaged included.
THEOREM LengthIsBorder == Spec => []Border
<1>1. IInv => Border
  <2>. SUFFICES ASSUME IInv PROVE IsBorder(t, luaH_getn(t))
    BY DEF Border, IsBorder, Starts
  <2>. DEFINE j == Len(t.array)
  <2>1. Good(t) /\ j \in Nat /\ DOMAIN t.array = 1..j
    BY ShapeFacts DEF IInv, Basic, Good
  <2>2. CASE j > 0 /\ t.array[j] = Nil
    <3>1. luaH_getn(t) = binsearch(t, 0, j)
      BY <2>2 DEF luaH_getn
    <3>2. j \in DOMAIN t.array /\ getnum(t, j) = t.array[j]
      BY <2>1, <2>2, GetnumFacts
    <3>3. Starts(t, 0) /\ 0 < j /\ 0 \in Nat
      BY <2>2 DEF Starts
    <3>. HIDE DEF j
    <3>. QED BY <2>1, <2>2, <3>1, <3>2, <3>3, BinsearchFacts
  <2>3. CASE ~(j > 0 /\ t.array[j] = Nil)
    <3>1. Starts(t, j)
      <4>1. CASE j = 0
        BY <4>1 DEF Starts
      <4>2. CASE j # 0
        <5>1. j \in DOMAIN t.array /\ t.array[j] # Nil
          BY <2>1, <2>3, <4>2
        <5>2. getnum(t, j) = t.array[j]
          BY <2>1, <5>1, GetnumFacts
        <5>. QED BY <5>1, <5>2 DEF Starts
      <4>. QED BY <4>1, <4>2
    <3>2. luaH_getn(t) = IF t.dummy THEN j ELSE unbound_search(t, j)
      BY <2>3 DEF luaH_getn
    <3>3. t.dummy => IsBorder(t, j)
      BY <2>1, <3>1, GetnumFacts DEF IsBorder
    <3>. HIDE DEF j
    <3>4. IsBorder(t, unbound_search(t, j))
      BY <2>1, <3>1, UnboundFacts
    <3>. QED BY <3>2, <3>3, <3>4
  <2>. QED BY <2>2, <2>3
<1>. QED BY <1>1, Invariance, PTL

(***************************************************************************)
(* A table is a map: LuaTable implements LuaMap.                           *)
(***************************************************************************)
LEMMA MapInit ==
  ASSUME Init
  PROVE  Map!Init
<1>. DEFINE T == [array |-> <<>>, node |-> nodevector(1), lsizenode |-> 0,
                  dummy |-> TRUE, lastfree |-> 0, stuck |-> FALSE]
<1>1. ASSUME NEW k \in Keys PROVE luaH_get(t, k) = Nil
  <2>1. PICK narray \in 0..MaxPre, nhash \in 0..MaxPre :
          ~overflow(nhash) /\ t = newNodes(newArray(T, narray), nhash)
    BY DEF Init
  <2>2. narray \in Nat /\ nhash \in Nat
    BY KeyFacts
  <2>3. Good(T)
    BY InitGood
  <2>4. ~T.stuck /\ Len(T.array) = 0
    OBVIOUS
  <2>. HIDE DEF T
  <2>5. luaH_get(t, k) = IF Kept(T, narray, k) THEN T.array[k] ELSE Nil
    BY <2>1, <2>2, <2>3, <2>4, NewFits
  <2>6. ~Kept(T, narray, k)
    BY <2>4, KeyFacts DEF Kept
  <2>. QED BY <2>5, <2>6
<1>2. [k \in Keys |-> luaH_get(t, k)] = [k \in Keys |-> Nil]
  BY <1>1
<1>. QED BY <1>2 DEF Init, Map!Init

\* What the abstract steps say of a table.
LEMMA MapPresent ==
  ASSUME NEW k
  PROVE  /\ k \in Map!Present <=> k \in Keys /\ luaH_get(t, k) # Nil
         /\ k \in Map!Present' <=> k \in Keys /\ luaH_get(t', k) # Nil
  BY DEF Map!Present

LEMMA MapAbandon ==
  ASSUME abandon, Unmoved(t, t')
  PROVE  Map!Abandon
  BY DEF abandon, Unmoved, Map!Abandon, Map!Abandoned

LEMMA MapAssign ==
  ASSUME NEW k \in Keys, NEW v \in Slots, Good(t'), luaH_get(t', k) = v,
         \A j \in Keys : j # k => luaH_get(t', j) = luaH_get(t, j),
         (luaH_get(t, k) = Nil /\ abandon)
           \/ (luaH_get(t, k) # Nil /\ trav' = trav /\ \A j : j \in seen' <=> j \in seen /\ luaH_get(t', j) # Nil),
         seen \subseteq Keys
  PROVE  Map!Assign(k)
<1>1. \A j \in Keys : luaH_get(t', j) \in Values \cup {Nil}
  BY GetFacts DEF Slots
<1>2. luaH_get(t, k) # Nil => seen' = seen \cap Map!Present'
  BY MapPresent DEF abandon
<1>. QED BY <1>1, <1>2, MapPresent DEF Map!Assign, Map!Abandoned, abandon

LEMMA MapStep ==
  ASSUME IInv, IInv', [Next]_vars, ~hurt, ~hurt'
  PROVE  Map!Promise \/ UNCHANGED Map!mapVars
<1>0. /\ Good(t) /\ ~t.stuck /\ key \in Keys \cup {Nil} /\ seen \subseteq Keys
      /\ ~hidden(t) /\ trav # "invalid" /\ (trav = "idle" => seen = {})
      /\ trav = "on" => findindex(t, key) # Error /\ seen = Passed(t, findindex(t, key))
      /\ Good(t') /\ trav \in {"idle", "on", "invalid"}
  BY DEF IInv, Basic, Tracked
<1>1. ASSUME NEW k \in Keys, NEW v \in Values \cup {Nil}, luaH_set(k, v) PROVE Map!Promise
  <2>1. v \in Slots
    BY DEF Slots
  <2>2. /\ t' = put(t, k, v) /\ keepOrAbandon(k, v)
        /\ (inArray(t, k) \/ search(t, k) # NoNode \/ newkey(t, k).at # NoNode)
    BY <1>1 DEF luaH_set
  <2>3. luaH_get(t', k) = v /\ \A j \in Keys : j # k => luaH_get(t', j) = luaH_get(t, j)
    BY <1>0, <2>1, <2>2, PutFacts DEF PutDone
  <2>4. \A j \in seen : j \in Keys /\ luaH_get(t, j) # Nil
    BY <1>0 DEF Passed
  <2>5. CASE luaH_get(t, k) = Nil
    <3>1. abandon
      BY <2>2, <2>5 DEF keepOrAbandon
    <3>2. Map!Assign(k)
      BY <1>0, <2>1, <2>3, <2>5, <3>1, MapAssign
    <3>. QED BY <3>2 DEF Map!Promise
  <2>6. CASE luaH_get(t, k) # Nil
    <3>1. trav' = trav /\ seen' = IF v = Nil THEN seen \ {k} ELSE seen
      BY <2>2, <2>6 DEF keepOrAbandon
    <3>2. ASSUME NEW j PROVE j \in seen' <=> j \in seen /\ luaH_get(t', j) # Nil
      BY <2>3, <2>4, <3>1
    <3>3. Map!Assign(k)
      BY <1>0, <2>1, <2>3, <2>6, <3>1, <3>2, MapAssign
    <3>. QED BY <3>3 DEF Map!Promise
  <2>. QED BY <2>5, <2>6
<1>2. ASSUME NEW k \in Keys, NEW v \in Values \cup {Nil}, rehash(k, v) PROVE Map!Promise
  <2>1. v \in Slots
    BY DEF Slots
  <2>2. /\ newkey(t, k).at = NoNode /\ ~overflow(newsizes(t, k)[2])
        /\ t' = put(resize(newkey(t, k).tab, newsizes(t, k)[1], newsizes(t, k)[2]), k, v)
        /\ abandon /\ ~inArray(t, k) /\ search(t, k) = NoNode
    BY <1>2 DEF rehash, needsRehash
  <2>3. luaH_get(t', k) = v /\ \A j \in Keys : j # k => luaH_get(t', j) = luaH_get(t, j)
    BY <1>0, <2>1, <2>2, RehashFacts
  <2>4. luaH_get(t, k) = Nil
    BY <2>2 DEF luaH_get
  <2>5. Map!Assign(k)
    BY <1>0, <2>1, <2>2, <2>3, <2>4, MapAssign
  <2>. QED BY <2>5 DEF Map!Promise
<1>3. ASSUME NEW n \in 1..MaxPre, luaH_resizearray(n) PROVE Map!Promise
  <2>1. /\ n > Len(t.array) /\ t' = resize(t, n, IF t.dummy THEN 0 ELSE sizenode(t))
        /\ abandon /\ n \in Nat
    BY <1>3, KeyFacts DEF luaH_resizearray
  <2>2. Unmoved(t, t')
    BY <1>0, <2>1, ResizearrayFacts
  <2>. QED BY <2>1, <2>2, MapAbandon DEF Map!Promise
<1>4. ASSUME NEW T, Good(T), Unmoved(t, T), hidden(T) <=> hidden(t), NEW n \in Nat, resizefails(T, n)
      PROVE  Map!Promise
  <2>1. abandon /\ ~hidden(t') /\ (t' = T \/ (n > Len(T.array) /\ t' = newArray(T, n)))
    BY <1>4 DEF resizefails
  <2>2. Unmoved(T, t')
    <3>1. CASE t' = T
      BY <3>1 DEF Unmoved
    <3>2. CASE n > Len(T.array) /\ t' = newArray(T, n)
      BY <1>4, <2>1, <3>2, GrownFacts DEF Unmoved
    <3>. QED BY <2>1, <3>1, <3>2
  <2>3. Unmoved(t, t')
    BY <1>4, <2>2 DEF Unmoved
  <2>. QED BY <2>1, <2>3, MapAbandon DEF Map!Promise
<1>5. ASSUME NEW n \in 1..MaxPre, resizearrayfails(n) PROVE Map!Promise
  <2>1. n \in Nat /\ resizefails(t, n) /\ Unmoved(t, t)
    BY <1>5, KeyFacts DEF resizearrayfails, Unmoved
  <2>. QED BY <1>0, <1>4, <2>1
<1>6. ASSUME NEW k \in Keys, rehashfails(k) PROVE Map!Promise
  <2>1. needsRehash(k) /\ resizefails(newkey(t, k).tab, newsizes(t, k)[1])
    BY <1>6 DEF rehashfails
  <2>. QED BY <1>4, <2>1, FullFacts
<1>7. CASE startnext
  <2>1. trav' = "on" /\ seen' = {} /\ t' = t
    BY <1>7 DEF startnext
  <2>. QED BY <2>1 DEF Map!Promise, Map!Start
<1>8. CASE luaH_next
  <2>. DEFINE i    == findindex(t, key)
              rest == after(t, i)
              m    == Min(rest)
  <2>1. trav = "on" /\ t' = t
    BY <1>8 DEF luaH_next
  <2>2. i # Error /\ seen = Passed(t, i) /\ i \in Positions(t) \cup {-1}
    BY <1>0, <2>1, FindFacts
  <2>3. CASE rest = {}
    <3>1. abandon
      BY <1>8, <2>2, <2>3 DEF luaH_next
    <3>2. Map!Present \subseteq seen
      <4>1. ASSUME NEW k \in Map!Present PROVE k \in seen
        <5>1. k \in Keys /\ luaH_get(t, k) # Nil
          BY MapPresent
        <5>. QED BY <1>0, <2>2, <2>3, <5>1, LastFacts
      <4>. QED BY <4>1
    <3>3. Map!Finish
      BY <2>1, <3>1, <3>2 DEF Map!Finish, Map!Abandoned, abandon
    <3>. QED BY <3>3 DEF Map!Promise
  <2>4. CASE rest # {}
    <3>. DEFINE k == keyAt(t, m)
    <3>1. seen' = seen \cup {k} /\ trav' = trav
      BY <1>8, <2>2, <2>4 DEF luaH_next
    <3>2. k \in Keys /\ luaH_get(t, k) # Nil /\ k \notin Passed(t, i)
      BY <1>0, <2>2, <2>4, NextFacts
    <3>. HIDE DEF k, i, rest, m
    <3>3. Map!Visit(k)
      BY <2>1, <2>2, <3>1, <3>2, MapPresent DEF Map!Visit
    <3>. QED BY <3>2, <3>3 DEF Map!Promise
  <2>. QED BY <2>3, <2>4
<1>9. CASE removeentries
  <2>1. Unmoved(t, t') /\ trav' = trav /\ seen' = seen /\ hurt' = hurt
    BY <1>0, <1>9, RemoveFacts DEF removeentries
  <2>. QED BY <2>1 DEF Unmoved, Map!mapVars
<1>10. CASE UNCHANGED vars
  BY <1>10 DEF vars, Map!mapVars
<1>. QED BY <1>1, <1>2, <1>3, <1>5, <1>6, <1>7, <1>8, <1>9, <1>10 DEF Next

\* Whatever its history of insertions, removals, rehashes, failed rehashes and
\* collections, a table is a map, and next visits every key that stays in it
\* once: as long as no rehash has failed half way.
THEOREM TableIsMap == Spec => MapSpec
<1>1. Init => Map!Init
  BY MapInit
<1>2. IInv /\ IInv' /\ [Next]_vars => [Map!Next]_Map!mapVars
  <2>. SUFFICES ASSUME IInv, IInv', [Next]_vars PROVE [Map!Next]_Map!mapVars
    OBVIOUS
  <2>1. hurt => hurt'
    BY DEF Next, vars, luaH_set, rehash, luaH_resizearray, rehashfails, resizearrayfails, resizefails,
           startnext, luaH_next, removeentries
  <2>2. CASE hurt'
    BY <2>1, <2>2 DEF Map!Next
  <2>3. CASE ~hurt'
    <3>1. ~hurt
      BY <2>1, <2>3
    <3>2. Map!Promise \/ UNCHANGED Map!mapVars
      BY <2>3, <3>1, MapStep
    <3>. QED BY <2>3, <3>1, <3>2 DEF Map!Next
  <2>. QED BY <2>2, <2>3
<1>. QED BY <1>1, <1>2, Invariance, PTL DEF Spec, MapSpec, Map!Spec
=============================================================================
