---------------------------- MODULE LuaInduction ----------------------------
(***************************************************************************)
(* Induction over the natural numbers, stated for sets: what the proofs    *)
(* about lists, stacks and chains rest on.                                 *)
(***************************************************************************)
EXTENDS Integers, FiniteSetTheorems, TLAPS

\* Every nonempty set of natural numbers has a least member.
LEMMA Least ==
  ASSUME NEW X, X \subseteq Nat, X # {}
  PROVE  \E x \in X : \A y \in X : ~(y < x)
<1>. DEFINE T == {1..n : n \in X}
<1>1. T \subseteq FiniteSubsetsOf(Nat) /\ T # {}
  <2>1. \A n \in Nat : IsFiniteSet(1..n)
    BY FS_Interval
  <2>2. T \subseteq FiniteSubsetsOf(Nat)
    BY <2>1 DEF FiniteSubsetsOf
  <2>3. PICK n \in X : TRUE
    OBVIOUS
  <2>4. 1..n \in T
    OBVIOUS
  <2>. QED BY <2>2, <2>4
<1>2. \E A \in T : \A B \in T : ~(<<B, A>> \in StrictSubsetOrdering(Nat))
  <2>. HIDE DEF T
  <2>. QED BY <1>1, FS_StrictSubsetOrderingWellFounded, WFMin
<1>3. PICK x \in X : \A B \in T : ~(<<B, 1..x>> \in StrictSubsetOrdering(Nat))
  BY <1>2
<1>4. ASSUME NEW y \in X, y < x PROVE FALSE
  <2>1. 1..y \in T /\ 1..y \subseteq 1..x /\ x \in 1..x /\ x \notin 1..y
    BY <1>4
  <2>2. <<1..y, 1..x>> \in StrictSubsetOrdering(Nat)
    BY <2>1 DEF StrictSubsetOrdering
  <2>. QED BY <1>3, <2>1, <2>2
<1>. QED BY <1>3, <1>4

\* A set that has 0, and with each number the next, has all numbers.
LEMMA SetInduction ==
  ASSUME NEW S, 0 \in S, \A n \in Nat : n \in S => n + 1 \in S
  PROVE  Nat \subseteq S
<1>. DEFINE X == Nat \ S
<1>. SUFFICES ASSUME X # {} PROVE FALSE
  OBVIOUS
<1>1. X \subseteq Nat
  OBVIOUS
<1>2. PICK x \in X : \A y \in X : ~(y < x)
  <2>. HIDE DEF X
  <2>. QED BY <1>1, Least
<1>3. x # 0 /\ x - 1 \in Nat /\ x - 1 < x
  BY <1>2
<1>4. x - 1 \in S
  BY <1>2, <1>3
<1>. QED BY <1>2, <1>3, <1>4

\* The same up to a bound.
LEMMA BoundedInduction ==
  ASSUME NEW S, NEW m \in Nat, 0 \in S, \A i \in 0..m - 1 : i \in S => i + 1 \in S
  PROVE  0..m \subseteq S
<1>. DEFINE T == {i \in Nat : i <= m => i \in S}
<1>1. 0 \in T /\ \A i \in Nat : i \in T => i + 1 \in T
  OBVIOUS
<1>2. Nat \subseteq T
  <2>. HIDE DEF T
  <2>. QED BY <1>1, SetInduction
<1>. QED BY <1>2

\* What a value and a function for each step determine: each value is made from
\* the one before.
IsRecursion(c, v, n, g) == c[0] = v /\ \A i \in 1..n : c[i] = g[i][c[i - 1]]

\* There are such values, whatever the number of steps.
LEMMA Recursion ==
  ASSUME NEW V, NEW v \in V, NEW n \in Nat, NEW g \in [1..n -> [V -> V]]
  PROVE  \E c \in [0..n -> V] : IsRecursion(c, v, n, g)
<1>. DEFINE Good(c, m) == c[0] = v /\ \A i \in 1..m : c[i] = g[i][c[i - 1]]
            S == {m \in Nat : \E c \in [0..n -> V] : Good(c, m)}
<1>1. 0 \in S
  <2>1. [i \in 0..n |-> v] \in [0..n -> V] /\ Good([i \in 0..n |-> v], 0)
    OBVIOUS
  <2>. QED BY <2>1
<1>2. ASSUME NEW m \in 0..n - 1, m \in S PROVE m + 1 \in S
  <2>1. PICK c \in [0..n -> V] : Good(c, m)
    BY <1>2
  <2>. DEFINE d == [c EXCEPT ![m + 1] = g[m + 1][c[m]]]
  <2>2. m + 1 \in 1..n /\ m \in 0..n /\ c[m] \in V
    BY <1>2
  <2>3. g[m + 1][c[m]] \in V
    BY <2>2
  <2>4. d \in [0..n -> V] /\ d[m + 1] = g[m + 1][c[m]] /\ \A i \in 0..m : d[i] = c[i]
    BY <2>2, <2>3
  <2>. HIDE DEF d
  <2>5. ASSUME NEW i \in 1..m + 1 PROVE d[i] = g[i][d[i - 1]]
    <3>1. CASE i = m + 1
      <4>1. i - 1 = m /\ d[m] = c[m]
        BY <2>2, <2>4, <3>1
      <4>. QED BY <2>4, <3>1, <4>1
    <3>2. CASE i \in 1..m
      <4>1. i - 1 \in 0..m /\ i \in 0..m
        BY <2>2, <3>2
      <4>. QED BY <2>1, <2>4, <3>2, <4>1
    <3>. QED BY <2>2, <3>1, <3>2
  <2>6. d[0] = v
    BY <2>1, <2>2, <2>4
  <2>7. Good(d, m + 1)
    BY <2>5, <2>6
  <2>. QED BY <2>2, <2>4, <2>7
<1>3. 0..n \subseteq S
  <2>. HIDE DEF S
  <2>. QED BY <1>1, <1>2, BoundedInduction
<1>4. n \in S
  BY <1>3
<1>. QED BY <1>4 DEF IsRecursion

\* Functions that start alike and go on alike are alike.
LEMMA SameRecursion ==
  ASSUME NEW c, NEW d, NEW m \in Nat, c[0] = d[0],
         \A i \in 1..m : c[i - 1] = d[i - 1] => c[i] = d[i]
  PROVE  \A i \in 0..m : c[i] = d[i]
<1>. DEFINE S == {i \in Nat : c[i] = d[i]}
<1>1. 0 \in S
  OBVIOUS
<1>2. ASSUME NEW i \in 0..m - 1, i \in S PROVE i + 1 \in S
  <2>1. i + 1 \in 1..m /\ i + 1 - 1 = i
    BY <1>2
  <2>. QED BY <1>2, <2>1
<1>3. 0..m \subseteq S
  <2>. HIDE DEF S
  <2>. QED BY <1>1, <1>2, BoundedInduction
<1>. QED BY <1>3

\* Definitions by tail recursion: at each place the value is known, or is the one
\* of the next place, which is nearer to an end.
TailRecursive(f, D, stop, val, nx) == \A x \in D : f[x] = IF x \in stop THEN val[x] ELSE f[nx[x]]

LEMMA TailRecursion ==
  ASSUME NEW D, NEW V, NEW v \in V, NEW stop, NEW val, NEW nx, NEW r \in [D -> Nat],
         \A x \in D : x \in stop => val[x] \in V,
         \A x \in D : x \notin stop => nx[x] \in D /\ r[nx[x]] < r[x]
  PROVE  \E f \in [D -> V] : TailRecursive(f, D, stop, val, nx)
<1>. DEFINE Eq(f, x)   == f[x] = IF x \in stop THEN val[x] ELSE f[nx[x]]
            Upto(f, m) == \A x \in D : r[x] < m => Eq(f, x)
            S          == {m \in Nat : \E f \in [D -> V] : Upto(f, m)}
<1>1. 0 \in S
  <2>1. [x \in D |-> v] \in [D -> V] /\ Upto([x \in D |-> v], 0)
    OBVIOUS
  <2>. QED BY <2>1
<1>2. ASSUME NEW m \in Nat, m \in S PROVE m + 1 \in S
  <2>1. PICK f \in [D -> V] : Upto(f, m)
    BY <1>2
  <2>. DEFINE g == [x \in D |-> IF x \in stop THEN val[x] ELSE IF r[x] = m THEN f[nx[x]] ELSE f[x]]
  <2>2. g \in [D -> V]
    OBVIOUS
  <2>3. ASSUME NEW x \in D, r[x] < m PROVE g[x] = f[x]
    BY <2>1, <2>3
  <2>4. ASSUME NEW x \in D, r[x] < m + 1, x \notin stop PROVE g[x] = g[nx[x]]
    <3>1. nx[x] \in D /\ r[nx[x]] < m /\ g[nx[x]] = f[nx[x]]
      <4>1. nx[x] \in D /\ r[nx[x]] < r[x] /\ r[x] \in Nat /\ r[nx[x]] \in Nat
        BY <2>4
      <4>2. r[nx[x]] < m
        BY ONLY <4>1, <2>4, m \in Nat
      <4>. HIDE DEF g
      <4>. QED BY <4>1, <4>2, <2>3
    <3>2. CASE r[x] = m
      BY <3>1, <3>2, <2>4
    <3>3. CASE r[x] # m
      <4>1. r[x] < m
        BY <3>3, <2>4
      <4>2. g[x] = f[x] /\ f[x] = f[nx[x]]
        BY <4>1, <2>1, <2>3, <2>4
      <4>. QED BY <4>2, <3>1
    <3>. QED BY <3>2, <3>3
  <2>5. Upto(g, m + 1)
    <3>1. ASSUME NEW x \in D, x \in stop PROVE g[x] = val[x]
      BY <3>1
    <3>. HIDE DEF g
    <3>. QED BY <2>4, <3>1
  <2>. HIDE DEF g, Upto
  <2>. QED BY <2>2, <2>5
<1>3. Nat \subseteq S
  <2>. HIDE DEF S
  <2>. QED BY <1>1, <1>2, SetInduction
<1>4. ASSUME NEW f, NEW g, NEW m \in Nat, NEW n \in Nat, Upto(f, m), Upto(g, n),
             NEW x \in D, r[x] < m, r[x] < n
      PROVE  f[x] = g[x]
  <2>. DEFINE U == {i \in Nat : \A y \in D : r[y] < i /\ r[y] < m /\ r[y] < n => f[y] = g[y]}
  <2>1. 0 \in U
    OBVIOUS
  <2>2. ASSUME NEW i \in Nat, i \in U PROVE i + 1 \in U
    <3>1. ASSUME NEW y \in D, r[y] < i + 1, r[y] < m, r[y] < n PROVE f[y] = g[y]
      <4>1. CASE y \in stop
        BY <1>4, <3>1, <4>1
      <4>2. CASE y \notin stop
        <5>1. nx[y] \in D /\ r[nx[y]] < r[y] /\ r[y] \in Nat /\ r[nx[y]] \in Nat
          BY <4>2
        <5>2. r[nx[y]] < i /\ r[nx[y]] < m /\ r[nx[y]] < n
          BY ONLY <5>1, <3>1, i \in Nat, m \in Nat, n \in Nat
        <5>3. f[nx[y]] = g[nx[y]]
          BY <5>1, <5>2, <2>2
        <5>. QED BY <1>4, <3>1, <4>2, <5>3
      <4>. QED BY <4>1, <4>2
    <3>. QED BY <3>1
  <2>3. Nat \subseteq U
    <3>. HIDE DEF U
    <3>. QED BY <2>1, <2>2, SetInduction
  <2>4. r[x] + 1 \in U
    <3>. HIDE DEF U
    <3>. QED BY <2>3
  <2>. QED BY <1>4, <2>4
<1>. DEFINE h(m) == CHOOSE f \in [D -> V] : Upto(f, m)
            F    == [x \in D |-> h(r[x] + 1)[x]]
<1>5. ASSUME NEW m \in Nat PROVE h(m) \in [D -> V] /\ Upto(h(m), m)
  <2>1. \E f \in [D -> V] : Upto(f, m)
    BY <1>3
  <2>. HIDE DEF Upto
  <2>. QED BY <2>1
<1>6. F \in [D -> V]
  <2>. HIDE DEF h
  <2>1. ASSUME NEW x \in D PROVE h(r[x] + 1)[x] \in V
    BY <1>5
  <2>. QED BY <2>1
<1>7. ASSUME NEW x \in D PROVE Eq(F, x)
  <2>. DEFINE m == r[x] + 1
  <2>1. m \in Nat /\ r[x] < m
    OBVIOUS
  <2>2. F[x] = h(m)[x] /\ Eq(h(m), x)
    <3>1. Upto(h(m), m)
      BY <2>1, <1>5
    <3>. HIDE DEF h
    <3>. QED BY <2>1, <3>1
  <2>3. CASE x \in stop
    <3>. HIDE DEF F, h, m
    <3>. QED BY <2>2, <2>3
  <2>4. CASE x \notin stop
    <3>. DEFINE y == nx[x]
    <3>1. y \in D /\ r[y] < r[x]
      BY <2>4
    <3>2. r[y] + 1 \in Nat /\ r[y] < r[y] + 1 /\ r[y] < m
      BY <3>1
    <3>3. F[y] = h(r[y] + 1)[y]
      <4>. HIDE DEF h, y
      <4>. QED BY <3>1
    <3>4. Upto(h(r[y] + 1), r[y] + 1) /\ Upto(h(m), m)
      BY <3>2, <2>1, <1>5
    <3>5. h(r[y] + 1)[y] = h(m)[y]
      <4>. HIDE DEF h, Upto, y, m
      <4>. QED BY <3>1, <3>2, <3>4, <2>1, <1>4
    <3>. HIDE DEF F, h, m
    <3>. QED BY <2>2, <2>4, <3>3, <3>5
  <2>. QED BY <2>3, <2>4
<1>. HIDE DEF F
<1>. QED BY <1>6, <1>7 DEF TailRecursive
\* What such a definition returns: a set that the steps do not leave, and whose
\* ends have good values, has good values only.
LEMMA TailInduction ==
  ASSUME NEW D, NEW f, NEW stop, NEW val, NEW nx, NEW r \in [D -> Nat],
         TailRecursive(f, D, stop, val, nx), NEW P \in SUBSET D, NEW G,
         \A x \in P : x \in stop => val[x] \in G,
         \A x \in P : x \notin stop => nx[x] \in P /\ r[nx[x]] < r[x]
  PROVE  \A x \in P : f[x] \in G
<1>. DEFINE Bad == {x \in P : f[x] \notin G}
            R   == {r[x] : x \in Bad}
<1>. SUFFICES ASSUME Bad # {} PROVE FALSE
  OBVIOUS
<1>1. R \subseteq Nat /\ R # {}
  OBVIOUS
<1>2. PICK i \in R : \A j \in R : ~(j < i)
  <2>. HIDE DEF R
  <2>. QED BY <1>1, Least
<1>3. PICK x \in Bad : i = r[x]
  BY <1>2
<1>4. f[x] = IF x \in stop THEN val[x] ELSE f[nx[x]]
  BY DEF TailRecursive
<1>5. x \notin stop
  BY <1>4
<1>6. nx[x] \in Bad /\ r[nx[x]] < r[x]
  BY <1>4, <1>5
<1>7. r[nx[x]] \in R
  BY <1>6
<1>. HIDE DEF R, Bad
<1>. QED BY <1>2, <1>3, <1>6, <1>7
=============================================================================
