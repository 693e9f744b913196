---------------------------- MODULE LuaSort_proof ----------------------------
(***************************************************************************)
(* Proofs about table.sort, for any array and any order function: first    *)
(* what holds whatever the function answers, then that "<" sorts.          *)
(***************************************************************************)
EXTENDS LuaSort, LuaInduction, SequenceTheorems

\* The comparisons of the partition, those that choose a pivot, and the end.
Scanning == {"a[i] < P", "P < a[j]"}
Choosing == {"a[i] < a[l]", "a[u] < a[i]"}
Ended == {"done", "error"}
Ranges == Seq(Int \X Int)

\* How often v is in a table.
Count(t, v) == Cardinality({k \in DOMAIN t : t[k] = v})

\* A range lies in an array and, if it is to be sorted, is short enough for
\* d calls that wait for it.
Fits(r, d, size) ==
  /\ r \in Int \X Int /\ r[1] >= 1 /\ r[2] <= size
  /\ r[1] < r[2] => (r[2] - r[1] + 1) * twopower(d) <= size

AllFit(rs, size) == rs \in Ranges /\ \A k \in 1 .. Len(rs) : Fits(rs[k], k - 1, size)

\* A table has the elements of the one that was given.
Copy(t) == t \in [0 .. n + 1 -> Int] /\ \A v \in Int : Count(t, v) = Count(input, v)

Permuted == n \in Nat /\ Copy(input) /\ Copy(a)

\* The ranges, and the places the scans look at.
Bounds ==
  /\ sortPc \in Scanning \cup Choosing \cup Ended \cup {"a[u] < a[l]"}
  /\ AllFit(pending, n)
  /\ sortPc \notin Ended => lo < up /\ Fits(<<lo, up>>, Len(pending), n)
  /\ sortPc \in Choosing => i \in lo .. up /\ lo + 2 <= up
  /\ sortPc = "a[i] < P" => i \in lo .. up + 1 /\ j \in lo .. up
  /\ sortPc = "P < a[j]" => i \in lo .. up + 1 /\ j \in lo - 1 .. up

SafeInvariant == Permuted /\ Bounds

\* The powers of two, from the one before each.
Doubles(p, m) == p[0] = 1 /\ \A k \in 1 .. m : p[k] = 2 * p[k - 1]

LEMMA SameDoubling ==
  ASSUME NEW m \in Nat, NEW p, NEW q, Doubles(p, m), Doubles(q, m)
  PROVE  \A k \in 0 .. m : p[k] = q[k]
<1>1. p[0] = q[0] /\ \A k \in 1 .. m : p[k - 1] = q[k - 1] => p[k] = q[k]
  BY DEF Doubles
<1>. QED BY <1>1, SameRecursion

LEMMA TwotoValues ==
  ASSUME NEW m \in Nat
  PROVE  \E p : Doubles(p, m) /\ twopower(m) = p[m] /\ p[m] \in Nat
<1>. DEFINE Is(p) == p = [k \in 0 .. m |-> IF k = 0 THEN 1 ELSE 2 * p[k - 1]]
            q == CHOOSE p : Is(p)
            g == [k \in 1 .. m |-> [x \in Nat |-> 2 * x]]
<1>1. PICK c \in [0 .. m -> Nat] : IsRecursion(c, 1, m, g)
  <2>1. g \in [1 .. m -> [Nat -> Nat]] /\ 1 \in Nat
    OBVIOUS
  <2>. HIDE DEF g
  <2>. QED BY <2>1, Recursion
<1>2. Doubles(c, m)
  <2>1. ASSUME NEW k \in 1 .. m PROVE k - 1 \in 0 .. m
    OBVIOUS
  <2>. QED BY <1>1, <2>1 DEF IsRecursion, Doubles
<1>3. Is(c)
  <2>1. ASSUME NEW k \in 0 .. m PROVE c[k] = IF k = 0 THEN 1 ELSE 2 * c[k - 1]
    BY <1>2 DEF Doubles
  <2>. QED BY <2>1
<1>4. Is(q)
  BY <1>3
<1>5. twopower(m) = q[m]
  BY DEF twopower
<1>. HIDE DEF q
<1>6. Doubles(q, m)
  BY <1>4 DEF Doubles
<1>7. \A k \in 0 .. m : c[k] = q[k]
  BY ONLY <1>2, <1>6, m \in Nat, SameDoubling
<1>8. q[m] \in Nat
  <2>1. c[m] \in Nat /\ c[m] = q[m]
    BY <1>7
  <2>. QED BY <2>1
<1>. QED BY <1>5, <1>6, <1>8

LEMMA TwotoZero == twopower(0) = 1
BY TwotoValues DEF Doubles

LEMMA TwotoNext ==
  ASSUME NEW m \in Nat
  PROVE  twopower(m) \in Nat /\ twopower(m + 1) = 2 * twopower(m)
<1>1. PICK p : Doubles(p, m) /\ twopower(m) = p[m] /\ p[m] \in Nat
  BY TwotoValues
<1>2. PICK q : Doubles(q, m + 1) /\ twopower(m + 1) = q[m + 1]
  <2>1. m + 1 \in Nat
    OBVIOUS
  <2>. QED BY ONLY <2>1, TwotoValues
<1>3. m \in 0 .. m /\ m + 1 \in 1 .. m + 1 /\ m + 1 - 1 = m /\ 1 .. m \subseteq 1 .. m + 1
  OBVIOUS
<1>4. Doubles(q, m) /\ q[m + 1] = 2 * q[m]
  BY <1>2, <1>3 DEF Doubles
<1>5. p[m] = q[m]
  <2>1. \A k \in 0 .. m : p[k] = q[k]
    BY <1>1, <1>4, SameDoubling
  <2>. QED BY <1>3, <2>1
<1>. QED BY <1>1, <1>2, <1>4, <1>5

\* Products of lengths.
LEMMA Longer ==
  ASSUME NEW w \in Int, NEW v \in Int, NEW t \in Nat, w <= v
  PROVE  w * t <= v * t
OBVIOUS

LEMMA Shorter ==
  ASSUME NEW w \in Int, NEW v \in Int, NEW t \in Nat, 2 * w <= v
  PROVE  w * (2 * t) <= v * t
<1>1. w * (2 * t) = (2 * w) * t
  OBVIOUS
<1>2. 2 * w \in Int
  OBVIOUS
<1>. QED BY <1>1, <1>2, Longer

-----------------------------------------------------------------------------
\* An exchange keeps the elements of a table.
LEMMA Exchange ==
  ASSUME NEW m \in Nat, NEW t \in [0 .. m -> Int], NEW x \in 0 .. m, NEW y \in 0 .. m
  PROVE  /\ set2(t, x, y) \in [0 .. m -> Int]
         /\ set2(t, x, y)[x] = t[y] /\ set2(t, x, y)[y] = t[x]
         /\ \A k \in (0 .. m) \ {x, y} : set2(t, x, y)[k] = t[k]
         /\ \A v \in Int : Count(set2(t, x, y), v) = Count(t, v)
<1>. DEFINE u == set2(t, x, y)
            other == [k \in 0 .. m |-> IF k = x THEN y ELSE IF k = y THEN x ELSE k]
<1>1. /\ u \in [0 .. m -> Int] /\ u[x] = t[y] /\ u[y] = t[x]
      /\ \A k \in (0 .. m) \ {x, y} : u[k] = t[k]
  BY DEF set2
<1>2. other \in [0 .. m -> 0 .. m] /\ \A k \in 0 .. m : other[other[k]] = k /\ u[other[k]] = t[k]
  BY <1>1
<1>. HIDE DEF u, other
<1>3. ASSUME NEW v \in Int PROVE Count(u, v) = Count(t, v)
  <2>. DEFINE A == {k \in 0 .. m : t[k] = v}
              B == {k \in 0 .. m : u[k] = v}
              f == [k \in A |-> other[k]]
  <2>1. f \in Bijection(A, B)
    <3>1. f \in [A -> B]
      BY <1>2
    <3>2. \A k \in A, l \in A : f[k] = f[l] => k = l
      BY <1>2
    <3>3. \A l \in B : \E k \in A : f[k] = l
      <4>. TAKE l \in B
      <4>1. other[l] \in A /\ f[other[l]] = l
        BY <1>2
      <4>. QED BY <4>1
    <3>. QED BY <3>1, <3>2, <3>3 DEF Bijection, Injection, Surjection, IsInjective
  <2>2. IsFiniteSet(A)
    <3>1. IsFiniteSet(0 .. m) /\ A \in SUBSET (0 .. m)
      BY FS_Interval
    <3>. HIDE DEF A
    <3>. QED BY <3>1, FS_Subset
  <2>3. Cardinality(A) = Cardinality(B)
    BY <2>1, <2>2, FS_Bijection DEF ExistsBijection
  <2>. QED BY <1>1, <2>3 DEF Count
<1>. QED BY <1>1, <1>3 DEF u

Open(rs) == {k \in DOMAIN rs : rs[k][1] < rs[k][2]}

\* The loop goes on with the innermost of the ranges that are to be sorted.
LEMMA Innermost ==
  ASSUME NEW rs \in Ranges, while(rs), Open(rs) # {}
  PROVE  \E last \in Open(rs) :
            /\ \A k \in Open(rs) : k <= last
            /\ sortPc' = "a[u] < a[l]" /\ <<lo', up'>> = rs[last]
            /\ pending' \in Ranges /\ Len(pending') = last - 1
            /\ \A k \in 1 .. last - 1 : pending'[k] = rs[k]
<1>. DEFINE X == {Len(rs) - k : k \in Open(rs)}
            IsLast(k) == k \in Open(rs) /\ \A m \in Open(rs) : m <= k
            last == CHOOSE k \in Open(rs) : \A m \in Open(rs) : m <= k
<1>1. Len(rs) \in Nat /\ Open(rs) \subseteq 1 .. Len(rs) /\ \A k \in 1 .. Len(rs) : rs[k] \in Int \X Int
  BY DEF Ranges, Open
<1>2. X \subseteq Nat /\ X # {}
  BY <1>1
<1>3. PICK x \in X : \A y \in X : ~(y < x)
  <2>. HIDE DEF X
  <2>. QED BY <1>2, Least
<1>4. PICK k \in Open(rs) : x = Len(rs) - k
  BY <1>3
<1>5. ASSUME NEW m \in Open(rs) PROVE m <= k
  <2>1. Len(rs) - m \in X
    OBVIOUS
  <2>2. ~(Len(rs) - m < x)
    <3>. HIDE DEF X
    <3>. QED BY <1>3, <2>1
  <2>. QED BY <1>1, <1>4, <2>2
<1>6. IsLast(last)
  BY <1>5
<1>7. /\ sortPc' = "a[u] < a[l]" /\ lo' = rs[last][1] /\ up' = rs[last][2]
      /\ pending' = SubSeq(rs, 1, last - 1)
  BY DEF while, Open
<1>. HIDE DEF last
<1>8. last \in 1 .. Len(rs) /\ 1 .. last - 1 \subseteq 1 .. Len(rs)
  BY <1>1, <1>6
<1>9. rs[last] = <<lo', up'>>
  <2>1. rs[last] \in Int \X Int
    BY <1>1, <1>8
  <2>2. rs[last] = <<rs[last][1], rs[last][2]>>
    BY <2>1
  <2>. QED BY <1>7, <2>2
<1>10. /\ pending' \in Ranges /\ Len(pending') = last - 1
       /\ \A m \in 1 .. last - 1 : pending'[m] = rs[m]
  <2>1. /\ pending' \in Ranges /\ Len(pending') = (IF 1 <= last - 1 THEN last - 1 - 1 + 1 ELSE 0)
        /\ \A m \in 1 .. last - 1 - 1 + 1 : pending'[m] = rs[1 + m - 1]
    <3>. DEFINE S == Int \X Int
                t == SubSeq(rs, 1, last - 1)
    <3>1. \A m \in 1 .. last - 1 : rs[m] \in S
      BY <1>1, <1>8
    <3>2. 1 \in Int /\ last - 1 \in Int
      BY <1>8
    <3>3. pending' = t /\ Seq(S) = Ranges
      BY <1>7 DEF Ranges
    <3>. HIDE DEF S
    <3>4. /\ t \in Seq(S) /\ Len(t) = (IF 1 <= last - 1 THEN last - 1 - 1 + 1 ELSE 0)
          /\ \A m \in 1 .. last - 1 - 1 + 1 : t[m] = rs[1 + m - 1]
      BY ONLY <3>1, <3>2, SubSeqProperties
    <3>. QED BY <3>3, <3>4
  <2>. QED BY <1>8, <2>1
<1>. QED BY <1>6, <1>7, <1>9, <1>10

\* Without such a range the sort is done.
LEMMA NoneOpen ==
  ASSUME NEW rs, while(rs), Open(rs) = {}
  PROVE  sortPc' = "done" /\ pending' = <<>> /\ UNCHANGED <<lo, up>>
BY DEF while, Open

\* The range that comes next, and the ones that wait for it, are short enough.
LEMMA StillFit ==
  ASSUME NEW size \in Nat, NEW rs, AllFit(rs, size), while(rs)
  PROVE  /\ sortPc' \in {"done", "a[u] < a[l]"} /\ AllFit(pending', size)
         /\ sortPc' # "done" => lo' < up' /\ Fits(<<lo', up'>>, Len(pending'), size)
<1>1. rs \in Ranges /\ \A k \in 1 .. Len(rs) : Fits(rs[k], k - 1, size)
  BY DEF AllFit
<1>2. CASE Open(rs) = {}
  <2>1. sortPc' = "done" /\ pending' = <<>> 
    BY <1>2, NoneOpen
  <2>. QED BY <2>1 DEF AllFit, Ranges
<1>3. CASE Open(rs) # {}
  <2>1. PICK last \in Open(rs) :
            /\ sortPc' = "a[u] < a[l]" /\ <<lo', up'>> = rs[last]
            /\ pending' \in Ranges /\ Len(pending') = last - 1
            /\ \A k \in 1 .. last - 1 : pending'[k] = rs[k]
    BY <1>1, <1>3, Innermost
  <2>2. last \in 1 .. Len(rs) /\ rs[last][1] < rs[last][2]
    BY <1>1 DEF Open, Ranges
  <2>3. lo' < up'
    <3>1. rs[last][1] = lo' /\ rs[last][2] = up'
      <4>1. rs[last] = <<lo', up'>>
        BY <2>1, Zenon
      <4>. QED BY ONLY <4>1
    <3>. QED BY <2>2, <3>1
  <2>4. Fits(<<lo', up'>>, Len(pending'), size)
    BY <1>1, <2>1, <2>2
  <2>5. ASSUME NEW k \in 1 .. Len(pending') PROVE Fits(pending'[k], k - 1, size)
    <3>1. k \in 1 .. last - 1 /\ k \in 1 .. Len(rs)
      <4>1. Len(pending') = last - 1
        BY <2>1, Zenon
      <4>2. Len(rs) \in Nat
        BY <1>1 DEF Ranges
      <4>. QED BY ONLY <2>2, <4>1, <4>2, k \in 1 .. Len(pending')
    <3>. QED BY <1>1, <2>1, <3>1, Zenon
  <2>. QED BY <2>1, <2>3, <2>4, <2>5 DEF AllFit
<1>. QED BY <1>2, <1>3

-----------------------------------------------------------------------------
\* The steps of a sort keep the elements and the bounds.
LEMMA CopyKept ==
  ASSUME n \in Nat, NEW t, Copy(t), NEW x \in 0 .. n + 1, NEW y \in 0 .. n + 1
  PROVE  Copy(set2(t, x, y))
<1>. DEFINE size == n
<1>1. size + 1 \in Nat /\ t \in [0 .. size + 1 -> Int]
  BY DEF Copy
<1>. HIDE DEF size
<1>2. /\ set2(t, x, y) \in [0 .. size + 1 -> Int]
      /\ \A v \in Int : Count(set2(t, x, y), v) = Count(t, v)
  <2>1. x \in 0 .. size + 1 /\ y \in 0 .. size + 1
    BY DEF size
  <2>. QED BY <1>1, <2>1, Exchange
<1>. QED BY <1>2 DEF Copy, size

LEMMA SameInput ==
  ASSUME UNCHANGED input
  PROVE  n' = n /\ \A t : Copy(t)' = Copy(t)
<1>1. n' = n
  BY DEF n
<1>. QED BY <1>1 DEF Copy

LEMMA Stopped ==
  ASSUME SafeInvariant, UNCHANGED input, invalid_order
  PROVE  SafeInvariant'
BY SameInput DEF SafeInvariant, Permuted, Copy, Bounds, invalid_order, Scanning, Choosing, Ended

\* The next range keeps the invariant, if the ranges it is taken from fit.
LEMMA LoopSafe ==
  ASSUME SafeInvariant, UNCHANGED input, Copy(a'), NEW rs, AllFit(rs, n), while(rs)
  PROVE  SafeInvariant'
<1>1. n \in Nat /\ n' = n /\ \A t : Copy(t)' = Copy(t)
  BY SameInput DEF SafeInvariant, Permuted
<1>2. Permuted'
  BY <1>1 DEF SafeInvariant, Permuted, Copy
<1>3. /\ sortPc' \in {"done", "a[u] < a[l]"} /\ AllFit(pending', n)
      /\ sortPc' # "done" => lo' < up' /\ Fits(<<lo', up'>>, Len(pending'), n)
  BY <1>1, StillFit
<1>4. Bounds'
  BY <1>1, <1>3 DEF Bounds, Scanning, Choosing, Ended
<1>. QED BY <1>2, <1>4 DEF SafeInvariant

\* What a comparison may rely on.
LEMMA Reach ==
  ASSUME SafeInvariant, sortPc \notin Ended
  PROVE  /\ n \in Nat /\ Copy(a) /\ AllFit(pending, n) /\ Fits(<<lo, up>>, Len(pending), n)
         /\ lo \in 1 .. n /\ up \in 1 .. n /\ lo < up
<1>1. n \in Nat /\ Copy(a) /\ AllFit(pending, n) /\ Fits(<<lo, up>>, Len(pending), n) /\ lo < up
  BY DEF SafeInvariant, Permuted, Bounds
<1>2. lo \in Int /\ up \in Int /\ lo >= 1 /\ up <= n
  BY <1>1 DEF Fits
<1>. QED BY <1>1, <1>2

\* The middle of three or more places is between them.
LEMMA Half ==
  ASSUME NEW x \in Int, NEW y \in Int, x + 2 <= y
  PROVE  (x + y) \div 2 \in x + 1 .. y - 1
<1>1. (x + y) \div 2 \in Int
  OBVIOUS
<1>2. 2 * ((x + y) \div 2) <= x + y /\ x + y <= 2 * ((x + y) \div 2) + 1
  OBVIOUS
<1>. QED BY <1>1, <1>2

\* The first comparison: two elements are in order, or the middle comes next.
LEMMA FirstPairSafe ==
  ASSUME SafeInvariant, UNCHANGED input, FirstPair
  PROVE  SafeInvariant'
<1>1. sortPc = "a[u] < a[l]" /\ sortPc \notin Ended
  BY DEF FirstPair, Ended
<1>2. /\ n \in Nat /\ Copy(a) /\ AllFit(pending, n) /\ Fits(<<lo, up>>, Len(pending), n)
      /\ lo \in 1 .. n /\ up \in 1 .. n /\ lo < up
  BY <1>1, Reach
<1>3. CASE invalid_order
  BY <1>3, Stopped
<1>4. ASSUME NEW less, a' = IF less THEN set2(a, lo, up) ELSE a,
             IF up - lo = 1 THEN break
             ELSE /\ sortPc' = "a[i] < a[l]" /\ i' = (lo + up) \div 2
                  /\ UNCHANGED <<lo, up, j, P, pending>>
      PROVE  SafeInvariant'
  <2>1. Copy(a')
    <3>1. Copy(set2(a, lo, up))
      BY <1>2, CopyKept
    <3>. QED BY <1>2, <1>4, <3>1
  <2>2. CASE up - lo = 1
    <3>1. while(pending)
      BY <1>4, <2>2 DEF break
    <3>. QED BY <1>2, <2>1, <3>1, LoopSafe
  <2>3. CASE up - lo # 1
    <3>1. /\ sortPc' = "a[i] < a[l]" /\ i' = (lo + up) \div 2
          /\ lo' = lo /\ up' = up /\ pending' = pending
      BY <1>4, <2>3
    <3>2. n' = n /\ \A t : Copy(t)' = Copy(t)
      BY SameInput
    <3>3. Permuted'
      BY <1>2, <2>1, <3>2 DEF SafeInvariant, Permuted, Copy
    <3>4. i' \in lo' .. up' /\ lo' + 2 <= up'
      <4>1. lo + 2 <= up /\ lo \in Int /\ up \in Int
        BY <1>2, <2>3
      <4>2. i' \in lo + 1 .. up - 1
        BY <3>1, <4>1, Half
      <4>3. lo' = lo /\ up' = up
        BY <3>1, Zenon
      <4>. QED BY ONLY <4>1, <4>2, <4>3
    <3>5. Bounds'
      BY <1>2, <3>1, <3>2, <3>4 DEF Bounds, Scanning, Choosing, Ended
    <3>. QED BY <3>3, <3>5 DEF SafeInvariant
  <2>. QED BY <2>2, <2>3
<1>. QED BY <1>3, <1>4 DEF FirstPair, comp_error

\* A step that stays in the range it works on.
LEMMA RangeSafe ==
  ASSUME SafeInvariant, sortPc \notin Ended, UNCHANGED <<input, lo, up, pending>>, Copy(a'),
         sortPc' \in Choosing => i' \in lo .. up /\ lo + 2 <= up,
         sortPc' = "a[i] < P" => i' \in lo .. up + 1 /\ j' \in lo .. up,
         sortPc' = "P < a[j]" => i' \in lo .. up + 1 /\ j' \in lo - 1 .. up,
         sortPc' \in Scanning \cup Choosing
  PROVE  SafeInvariant'
<1>1. n' = n /\ \A t : Copy(t)' = Copy(t)
  BY SameInput
<1>2. Permuted'
  BY <1>1 DEF SafeInvariant, Permuted, Copy
<1>3. Bounds'
  BY <1>1 DEF SafeInvariant, Bounds, Scanning, Choosing, Ended
<1>. QED BY <1>2, <1>3 DEF SafeInvariant

\* The pivot is put aside and the scans begin inside the range.
LEMMA PivotSafe ==
  ASSUME SafeInvariant, UNCHANGED input, sortPc \in Choosing, NEW t, Copy(t), Pivot(t)
  PROVE  SafeInvariant'
<1>1. sortPc \notin Ended /\ i \in lo .. up /\ lo + 2 <= up
  BY DEF SafeInvariant, Bounds, Choosing, Ended
<1>2. /\ n \in Nat /\ AllFit(pending, n) /\ lo \in 1 .. n /\ up \in 1 .. n
  BY <1>1, Reach
<1>3. CASE up - lo = 2
  <2>1. a' = t /\ while(pending)
    BY <1>3 DEF Pivot, break
  <2>. QED BY <1>2, <2>1, LoopSafe
<1>4. CASE up - lo # 2
  <2>1. /\ a' = set2(t, i, up - 1) /\ i' = lo + 1 /\ j' = up - 1 /\ sortPc' = "a[i] < P"
        /\ UNCHANGED <<lo, up, pending>>
    BY <1>4 DEF Pivot
  <2>2. i \in 0 .. n + 1 /\ up - 1 \in 0 .. n + 1 /\ lo + 1 \in lo .. up + 1 /\ up - 1 \in lo .. up
    BY <1>1, <1>2
  <2>3. Copy(a')
    BY <1>2, <2>1, <2>2, CopyKept
  <2>. QED BY <1>1, <2>1, <2>2, <2>3, RangeSafe DEF Scanning, Choosing
<1>. QED BY <1>3, <1>4

LEMMA MiddleSafe ==
  ASSUME SafeInvariant, UNCHANGED input, Middle
  PROVE  SafeInvariant'
<1>1. sortPc = "a[i] < a[l]" /\ sortPc \in Choosing /\ sortPc \notin Ended
  BY DEF Middle, Ended, Choosing
<1>2. n \in Nat /\ Copy(a) /\ lo \in 1 .. n /\ up \in 1 .. n /\ i \in lo .. up /\ lo + 2 <= up
  BY <1>1, Reach DEF SafeInvariant, Bounds
<1>3. CASE invalid_order
  BY <1>3, Stopped
<1>4. CASE Pivot(set2(a, i, lo))
  <2>1. i \in 0 .. n + 1 /\ lo \in 0 .. n + 1
    BY <1>2
  <2>2. Copy(set2(a, i, lo))
    BY <1>2, <2>1, CopyKept
  <2>. QED BY <1>1, <1>4, <2>2, PivotSafe
<1>5. CASE sortPc' = "a[u] < a[i]" /\ UNCHANGED <<a, lo, up, i, j, P, pending>>
  BY <1>1, <1>2, <1>5, RangeSafe DEF Scanning, Choosing
<1>. QED BY <1>3, <1>4, <1>5 DEF Middle, comp_error

LEMMA MiddleHighSafe ==
  ASSUME SafeInvariant, UNCHANGED input, MiddleHigh
  PROVE  SafeInvariant'
<1>1. sortPc = "a[u] < a[i]" /\ sortPc \in Choosing /\ sortPc \notin Ended
  BY DEF MiddleHigh, Ended, Choosing
<1>2. n \in Nat /\ Copy(a) /\ lo \in 1 .. n /\ up \in 1 .. n /\ i \in lo .. up
  BY <1>1, Reach DEF SafeInvariant, Bounds
<1>3. CASE invalid_order
  BY <1>3, Stopped
<1>4. ASSUME NEW less, Pivot(IF less THEN set2(a, i, up) ELSE a) PROVE SafeInvariant'
  <2>. DEFINE t == IF less THEN set2(a, i, up) ELSE a
  <2>1. i \in 0 .. n + 1 /\ up \in 0 .. n + 1
    BY <1>2
  <2>2. Copy(set2(a, i, up))
    BY <1>2, <2>1, CopyKept
  <2>3. Copy(t)
    BY <1>2, <2>2
  <2>4. Pivot(t)
    BY <1>4
  <2>. HIDE DEF t
  <2>. QED BY <1>1, <2>3, <2>4, PivotSafe
<1>. QED BY <1>3, <1>4 DEF MiddleHigh, comp_error

LEMMA ScanUpSafe ==
  ASSUME SafeInvariant, UNCHANGED input, ScanUp
  PROVE  SafeInvariant'
<1>1. sortPc = "a[i] < P" /\ sortPc \notin Ended
  BY DEF ScanUp, Ended
<1>2. n \in Nat /\ Copy(a) /\ lo \in 1 .. n /\ up \in 1 .. n
  BY <1>1, Reach
<1>3. i \in lo .. up + 1 /\ j \in lo .. up
  BY <1>1 DEF SafeInvariant, Bounds
<1>4. CASE invalid_order
  BY <1>4, Stopped
<1>5. CASE i <= up /\ i' = i + 1 /\ UNCHANGED <<a, sortPc, lo, up, j, P, pending>>
  <2>1. i' \in lo .. up + 1 /\ j' \in lo .. up
    BY <1>2, <1>3, <1>5
  <2>2. Copy(a') /\ UNCHANGED <<input, lo, up, pending>> /\ sortPc' = "a[i] < P"
    BY <1>1, <1>2, <1>5
  <2>. QED BY <1>1, <2>1, <2>2, RangeSafe DEF Scanning, Choosing
<1>6. CASE j' = j - 1 /\ sortPc' = "P < a[j]" /\ UNCHANGED <<a, lo, up, i, P, pending>>
  <2>1. i' \in lo .. up + 1 /\ j' \in lo - 1 .. up
    <3>1. i' = i /\ j' = j - 1
      BY <1>6
    <3>. QED BY ONLY <1>2, <1>3, <3>1
  <2>2. Copy(a') /\ UNCHANGED <<input, lo, up, pending>>
    BY <1>1, <1>2, <1>6
  <2>. QED BY <1>1, <1>6, <2>1, <2>2, RangeSafe DEF Scanning, Choosing
<1>. QED BY <1>4, <1>5, <1>6 DEF ScanUp, comp_error

\* The two parts fit: the smaller one, a call more deep, has at most half.
LEMMA PartsFit ==
  ASSUME SafeInvariant, sortPc \notin Ended, NEW m \in lo .. up + 1
  PROVE  AllFit(pending \o (IF m - lo < up - m THEN <<<<m + 1, up>>, <<lo, m - 1>>>>
                                               ELSE <<<<lo, m - 1>>, <<m + 1, up>>>>), n)
<1>1. /\ n \in Nat /\ AllFit(pending, n) /\ Fits(<<lo, up>>, Len(pending), n)
      /\ lo \in 1 .. n /\ up \in 1 .. n /\ lo < up
  BY Reach
<1>. DEFINE d == Len(pending)
            T == twopower(Len(pending))
            S == Int \X Int
<1>2. d \in Nat /\ pending \in Seq(S) /\ \A k \in 1 .. d : Fits(pending[k], k - 1, n)
  BY <1>1 DEF AllFit, Ranges
<1>3. T \in Nat /\ twopower(d + 1) = 2 * T /\ (up - lo + 1) * T <= n
  BY <1>1, <1>2, TwotoNext DEF Fits
<1>4. ASSUME NEW x \in 1 .. n + 2, NEW y \in 0 .. n, y - x <= up - lo PROVE Fits(<<x, y>>, d, n)
  <2>1. (y - x + 1) * T <= (up - lo + 1) * T
    BY <1>1, <1>3, <1>4, Longer
  <2>. HIDE DEF d, T
  <2>2. (y - x + 1) * T <= n
    <3>. DEFINE w == (y - x + 1) * T
                z == (up - lo + 1) * T
    <3>1. w <= z /\ z <= n /\ z \in Int /\ w \in Int
      BY <1>1, <1>3, <2>1
    <3>. HIDE DEF w, z
    <3>2. w <= n
      BY <1>1, <3>1
    <3>. QED BY <3>2 DEF w
  <2>3. <<x, y>> \in Int \X Int /\ <<x, y>>[1] = x /\ <<x, y>>[2] = y /\ x >= 1 /\ y <= n
    BY <1>1
  <2>. QED BY <2>2, <2>3 DEF Fits, d, T
<1>5. ASSUME NEW x \in 1 .. n + 2, NEW y \in 0 .. n, 2 * (y - x + 1) <= up - lo + 1 PROVE Fits(<<x, y>>, d + 1, n)
  <2>1. (y - x + 1) * (2 * T) <= (up - lo + 1) * T
    BY <1>1, <1>3, <1>5, Shorter
  <2>. HIDE DEF d, T
  <2>2. (y - x + 1) * twopower(d + 1) <= n
    <3>. DEFINE w == y - x + 1
                z == (up - lo + 1) * T
    <3>1. w * twopower(d + 1) <= z /\ z <= n /\ z \in Int /\ w * twopower(d + 1) \in Int
      BY <1>1, <1>3, <2>1
    <3>. QED BY <1>1, <3>1
  <2>3. <<x, y>> \in Int \X Int /\ <<x, y>>[1] = x /\ <<x, y>>[2] = y /\ x >= 1 /\ y <= n
    BY <1>1
  <2>. QED BY <2>2, <2>3 DEF Fits
<1>6. ASSUME NEW r \in S, NEW q \in S, Fits(r, d, n), Fits(q, d + 1, n) PROVE AllFit(pending \o <<r, q>>, n)
  <2>. DEFINE rs == pending \o <<r, q>>
  <2>. HIDE DEF S
  <2>1. <<r, q>> \in Seq(S) /\ Len(<<r, q>>) = 2 /\ <<r, q>>[1] = r /\ <<r, q>>[2] = q
    OBVIOUS
  <2>2. /\ rs \in Seq(S) /\ Len(rs) = d + 2
        /\ \A k \in 1 .. d + 2 : rs[k] = IF k <= d THEN pending[k] ELSE <<r, q>>[k - d]
    BY <1>2, <2>1, ConcatProperties
  <2>. HIDE DEF rs
  <2>3. ASSUME NEW k \in 1 .. d + 2 PROVE Fits(rs[k], k - 1, n)
    <3>1. CASE k <= d
      BY <1>2, <2>2, <3>1
    <3>2. CASE k = d + 1
      <4>1. k - d = 1 /\ k - 1 = d /\ ~(k <= d)
        BY <1>2, <3>2
      <4>. QED BY <1>6, <2>1, <2>2, <4>1
    <3>3. CASE k = d + 2
      <4>1. k - d = 2 /\ k - 1 = d + 1 /\ ~(k <= d)
        BY <1>2, <3>3
      <4>. QED BY <1>6, <2>1, <2>2, <4>1
    <3>. QED BY <1>2, <3>1, <3>2, <3>3
  <2>4. AllFit(rs, n)
    BY <2>2, <2>3 DEF AllFit, Ranges, S
  <2>. QED BY <2>4 DEF rs
<1>. HIDE DEF d, T
<1>7. <<m + 1, up>> \in S /\ <<lo, m - 1>> \in S
  BY <1>1
<1>. HIDE DEF S
<1>8. CASE m - lo < up - m
  <2>1. Fits(<<m + 1, up>>, d, n) /\ Fits(<<lo, m - 1>>, d + 1, n)
    BY <1>1, <1>4, <1>5, <1>8
  <2>. QED BY <1>6, <1>7, <1>8, <2>1
<1>9. CASE ~(m - lo < up - m)
  <2>1. Fits(<<lo, m - 1>>, d, n) /\ Fits(<<m + 1, up>>, d + 1, n)
    BY <1>1, <1>4, <1>5, <1>9
  <2>. QED BY <1>6, <1>7, <1>9, <2>1
<1>. QED BY <1>8, <1>9

\* The range gives way to its parts.
LEMMA PartitionedSafe ==
  ASSUME SafeInvariant, UNCHANGED input, sortPc \in Scanning, Partitioned
  PROVE  SafeInvariant'
<1>1. sortPc \notin Ended /\ i \in lo .. up + 1
  BY DEF SafeInvariant, Bounds, Scanning, Ended
<1>2. n \in Nat /\ Copy(a) /\ lo \in 1 .. n /\ up \in 1 .. n
  BY <1>1, Reach
<1>. DEFINE rs == pending \o (IF i - lo < up - i THEN <<<<i + 1, up>>, <<lo, i - 1>>>>
                                                 ELSE <<<<lo, i - 1>>, <<i + 1, up>>>>)
<1>3. a' = set2(a, up - 1, i) /\ while(rs)
  BY DEF Partitioned
<1>4. AllFit(rs, n)
  BY <1>1, PartsFit
<1>5. Copy(a')
  <2>1. up - 1 \in 0 .. n + 1 /\ i \in 0 .. n + 1
    BY <1>1, <1>2
  <2>. QED BY <1>2, <1>3, <2>1, CopyKept
<1>. HIDE DEF rs
<1>. QED BY <1>3, <1>4, <1>5, LoopSafe

LEMMA ScanDownSafe ==
  ASSUME SafeInvariant, UNCHANGED input, ScanDown
  PROVE  SafeInvariant'
<1>1. sortPc = "P < a[j]" /\ sortPc \notin Ended /\ sortPc \in Scanning
  BY DEF ScanDown, Ended, Scanning
<1>2. n \in Nat /\ Copy(a) /\ lo \in 1 .. n /\ up \in 1 .. n
  BY <1>1, Reach
<1>3. i \in lo .. up + 1 /\ j \in lo - 1 .. up
  BY <1>1 DEF SafeInvariant, Bounds
<1>4. CASE invalid_order
  BY <1>4, Stopped
<1>5. CASE j >= lo /\ j' = j - 1 /\ UNCHANGED <<a, sortPc, lo, up, i, P, pending>>
  <2>1. i' \in lo .. up + 1 /\ j' \in lo - 1 .. up
    BY <1>2, <1>3, <1>5
  <2>2. Copy(a') /\ UNCHANGED <<input, lo, up, pending>> /\ sortPc' = "P < a[j]"
    BY <1>1, <1>2, <1>5
  <2>. QED BY <1>1, <2>1, <2>2, RangeSafe DEF Scanning, Choosing
<1>6. CASE Partitioned
  BY <1>1, <1>6, PartitionedSafe
<1>7. CASE ~Crossed /\ a' = set2(a, i, j) /\ i' = i + 1 /\ sortPc' = "a[i] < P" /\ UNCHANGED <<lo, up, j, P, pending>>
  <2>1. i <= j
    <3>1. ~(j < i)
      BY <1>7 DEF Crossed
    <3>. QED BY <1>2, <1>3, <3>1
  <2>2. i' = i + 1 /\ j' = j
    BY <1>7
  <2>3. i' \in lo .. up + 1 /\ j' \in lo .. up /\ i \in 0 .. n + 1 /\ j \in 0 .. n + 1
    BY ONLY <1>2, <1>3, <2>1, <2>2
  <2>4. Copy(a')
    BY <1>2, <1>7, <2>3, CopyKept
  <2>5. UNCHANGED <<input, lo, up, pending>> /\ sortPc' = "a[i] < P"
    BY <1>7
  <2>. QED BY <1>1, <2>3, <2>4, <2>5, RangeSafe DEF Scanning, Choosing
<1>. QED BY <1>4, <1>5, <1>6, <1>7 DEF ScanDown, comp_error

\* The first states.
LEMMA SafeInit ==
  ASSUME SortInit
  PROVE  SafeInvariant
<1>1. PICK s \in SortInputs \cup UnorderedInputs :
         /\ input = [k \in 0 .. Len(s) + 1 |-> IF k \in DOMAIN s THEN s[k] ELSE NoElement]
         /\ lo = 1 /\ up = Len(s) /\ sortPc = IF 1 < Len(s) THEN "a[u] < a[l]" ELSE "done"
  BY DEF SortInit
<1>2. a = input /\ pending = <<>>
  BY DEF SortInit
<1>3. s \in Seq(Nat) /\ Len(s) \in Nat
  BY SortConstants
<1>4. n = Len(s)
  <2>1. DOMAIN input = 0 .. Len(s) + 1
    BY <1>1
  <2>2. Cardinality(0 .. Len(s) + 1) = Len(s) + 2
    <3>1. 0 \in Int /\ Len(s) + 1 \in Int
      BY <1>3
    <3>. QED BY <1>3, <3>1, FS_Interval
  <2>. QED BY <1>3, <2>1, <2>2 DEF n
<1>5. input \in [0 .. n + 1 -> Int]
  <2>1. \A k \in DOMAIN s : s[k] \in Int
    BY <1>3
  <2>2. \A k \in 0 .. Len(s) + 1 : (IF k \in DOMAIN s THEN s[k] ELSE NoElement) \in Int
    BY <2>1 DEF NoElement
  <2>3. input = [k \in 0 .. Len(s) + 1 |-> IF k \in DOMAIN s THEN s[k] ELSE NoElement]
    BY <1>1, Zenon
  <2>4. input \in [0 .. Len(s) + 1 -> Int]
    BY <2>2, <2>3
  <2>. QED BY <1>4, <2>4
<1>6. Permuted
  BY <1>2, <1>3, <1>4, <1>5 DEF Permuted, Copy
<1>7. AllFit(pending, n)
  BY <1>2 DEF AllFit, Ranges
<1>8. 1 < Len(s) => lo < up /\ Fits(<<lo, up>>, Len(pending), n)
  <2>1. Len(pending) = 0 /\ twopower(0) = 1
    BY <1>2, TwotoZero
  <2>2. lo = 1 /\ up = Len(s)
    BY <1>1, Zenon
  <2>3. (up - lo + 1) * twopower(Len(pending)) = n
    BY ONLY <1>3, <1>4, <2>1, <2>2
  <2>4. lo \in Int /\ up \in Int /\ lo >= 1 /\ up <= n /\ n <= n
    BY ONLY <1>3, <1>4, <2>2
  <2>. QED BY <2>2, <2>3, <2>4 DEF Fits
<1>9. Bounds
  BY <1>1, <1>7, <1>8 DEF Bounds, Scanning, Choosing, Ended
<1>. QED BY <1>6, <1>9 DEF SafeInvariant

\* Every step.
LEMMA SafeNext ==
  ASSUME SafeInvariant, [SortNext]_sortVars
  PROVE  SafeInvariant'
<1>1. CASE UNCHANGED sortVars
  BY <1>1 DEF SafeInvariant, Permuted, Copy, Bounds, sortVars, n
<1>2. CASE SortNext
  BY <1>2, FirstPairSafe, MiddleSafe, MiddleHighSafe, ScanUpSafe, ScanDownSafe DEF SortNext
<1>. QED BY <1>1, <1>2

\* The invariant is more than what the runs check.
LEMMA SafeImplies == SafeInvariant => SortSafe
<1>. SUFFICES ASSUME SafeInvariant PROVE SortSafe
  OBVIOUS
<1>1. n \in Nat /\ Copy(input) /\ Copy(a)
  BY DEF SafeInvariant, Permuted
<1>2. ASSUME NEW v \in {input[k] : k \in DOMAIN input}
      PROVE  Cardinality({k \in DOMAIN a : a[k] = v}) = Cardinality({k \in DOMAIN input : input[k] = v})
  <2>1. v \in Int
    BY <1>1 DEF Copy
  <2>. QED BY <1>1, <2>1 DEF Copy, Count
<1>3. sortPc \in {"a[i] < P", "P < a[j]"} => i \in lo .. up + 1 /\ j \in lo - 1 .. up
  <2>1. CASE sortPc = "a[i] < P"
    <3>1. i \in lo .. up + 1 /\ j \in lo .. up
      BY <2>1 DEF SafeInvariant, Bounds
    <3>2. lo \in Int /\ up \in Int
      <4>1. n \in Nat /\ lo \in 1 .. n /\ up \in 1 .. n
        BY <2>1, Reach DEF Ended
      <4>. QED BY <4>1
    <3>3. j \in lo - 1 .. up
      BY <3>1, <3>2
    <3>. QED BY <3>1, <3>3
  <2>2. CASE sortPc = "P < a[j]"
    BY <2>2 DEF SafeInvariant, Bounds
  <2>. QED BY <2>1, <2>2
<1>4. sortPc \notin {"done", "error"} => (up - lo + 1) * twopower(Len(pending)) <= n
  <2>1. CASE sortPc \notin Ended
    BY <2>1, Reach DEF Fits
  <2>. QED BY <2>1 DEF Ended
<1>. QED BY <1>2, <1>3, <1>4 DEF SortSafe

\* Whatever the order function answers, table.sort loses no element, scans no
\* further than one place beyond its range, and calls itself at most log2(n)
\* deep.
THEOREM SortKeepsElements == SortSpec => []SortSafe
<1>1. SortInit => SafeInvariant
  BY SafeInit
<1>2. SafeInvariant /\ [SortNext]_sortVars => SafeInvariant'
  BY SafeNext
<1>. QED BY <1>1, <1>2, SafeImplies, PTL DEF SortSpec

-----------------------------------------------------------------------------

\* A range has both of two places, the first of them the lower one.
Together(rs, x, y) == \E k \in 1 .. Len(rs) : rs[k][1] <= x /\ y <= rs[k][2]

Apart(rs) == \A k, m \in 1 .. Len(rs) : k = m \/ rs[k][2] < rs[m][1] \/ rs[m][2] < rs[k][1]

\* The ranges to sort have no place in common, and apart from them a table is
\* sorted.
SortedBut(t, rs, size) ==
  Apart(rs) /\ \A x, y \in 1 .. size : x < y /\ ~Together(rs, x, y) => t[x] <= t[y]

\* Numbers, and nothing at either end.
Filled(t, size) ==
  /\ t \in [0 .. size + 1 -> Int] /\ t[0] = NoElement /\ t[size + 1] = NoElement
  /\ \A k \in 1 .. size : t[k] \in Nat

\* The bounds of a range are numbers.
LEMMA RangeOf ==
  ASSUME NEW rs \in Ranges
  PROVE  Len(rs) \in Nat /\ \A k \in 1 .. Len(rs) : rs[k] \in Int \X Int /\ rs[k][1] \in Int /\ rs[k][2] \in Int
BY DEF Ranges

\* An exchange within the array leaves nothing at its ends.
LEMMA FilledKept ==
  ASSUME NEW size \in Nat, NEW t, Filled(t, size), NEW x \in 1 .. size, NEW y \in 1 .. size
  PROVE  Filled(set2(t, x, y), size)
<1>. DEFINE u == set2(t, x, y)
<1>1. /\ u \in [0 .. size + 1 -> Int]
      /\ \A k \in 0 .. size + 1 : u[k] = IF k = x THEN t[y] ELSE IF k = y THEN t[x] ELSE t[k]
  <2>1. t \in [0 .. size + 1 -> Int]
    BY DEF Filled
  <2>. QED BY <2>1 DEF set2
<1>. HIDE DEF u
<1>2. u[0] = t[0] /\ u[size + 1] = t[size + 1]
  BY <1>1
<1>3. ASSUME NEW k \in 1 .. size PROVE u[k] \in Nat
  <2>1. t[k] \in Nat /\ t[x] \in Nat /\ t[y] \in Nat
    BY DEF Filled
  <2>. QED BY <1>1, <2>1
<1>4. Filled(u, size)
  BY <1>1, <1>2, <1>3 DEF Filled
<1>. QED BY <1>4 DEF u

\* An exchange in a range leaves the rest of the order alone.
LEMMA Inside ==
  ASSUME NEW size \in Nat, NEW t \in [0 .. size + 1 -> Int], NEW rs \in Ranges, SortedBut(t, rs, size),
         NEW r \in 1 .. Len(rs), NEW x \in 1 .. size, NEW y \in 1 .. size,
         rs[r][1] <= x, x <= rs[r][2], rs[r][1] <= y, y <= rs[r][2]
  PROVE  SortedBut(set2(t, x, y), rs, size)
<1>. DEFINE u == set2(t, x, y)
<1>0. \A k \in 1 .. Len(rs) : rs[k][1] \in Int /\ rs[k][2] \in Int
  BY RangeOf
<1>1. PICK l \in Int, h \in Int : l = rs[r][1] /\ h = rs[r][2]
  BY <1>0
<1>2. ASSUME NEW k \in 1 .. size PROVE IF k \in {x, y} THEN u[k] \in {t[x], t[y]} ELSE u[k] = t[k]
  <2>1. u[k] = IF k = x THEN t[y] ELSE IF k = y THEN t[x] ELSE t[k]
    <3>1. k \in 0 .. size + 1
      OBVIOUS
    <3>. QED BY <3>1 DEF set2
  <2>. HIDE DEF u
  <2>. QED BY <2>1
<1>3. \A k \in 1 .. Len(rs) : k = r \/ rs[k][2] < l \/ h < rs[k][1]
  BY <1>1 DEF SortedBut, Apart
<1>4. l <= x /\ x <= h /\ l <= y /\ y <= h
  BY <1>1
<1>5. \A p, q \in 1 .. size : p < q /\ ~Together(rs, p, q) => t[p] <= t[q]
  BY DEF SortedBut
<1>. HIDE DEF u
<1>6. ASSUME NEW z \in 1 .. size, NEW v \in 1 .. size, z < v,
             \/ l <= z /\ z <= h /\ h < v
             \/ z < l /\ l <= v /\ v <= h
      PROVE  t[z] <= t[v]
  <2>1. ASSUME NEW k \in 1 .. Len(rs), rs[k][1] <= z, v <= rs[k][2] PROVE FALSE
    <3>1. PICK c \in Int, d \in Int : c = rs[k][1] /\ d = rs[k][2]
      BY <1>0
    <3>2. c <= z /\ v <= d
      BY <2>1, <3>1
    <3>3. k = r \/ d < l \/ h < c
      BY <1>3, <3>1
    <3>4. k # r
      <4>. SUFFICES ASSUME k = r PROVE FALSE
        OBVIOUS
      <4>1. c = l /\ d = h
        BY <1>1, <3>1
      <4>. QED BY ONLY <1>6, <3>2, <4>1, l \in Int, h \in Int
    <3>. QED BY ONLY <1>6, <3>2, <3>3, <3>4, l \in Int, h \in Int
  <2>2. ~Together(rs, z, v)
    BY <2>1 DEF Together
  <2>. QED BY <1>5, <1>6, <2>2
<1>7. ASSUME NEW p \in 1 .. size, NEW q \in 1 .. size, p < q, ~Together(rs, p, q) PROVE u[p] <= u[q]
  <2>1. ~(l <= p /\ q <= h)
    BY <1>1, <1>7 DEF Together
  <2>. HIDE DEF u
  <2>2. CASE l <= p /\ p <= h
    <3>1. h < q /\ q \notin {x, y} /\ x < q /\ y < q
      BY <1>4, <2>1, <2>2
    <3>2. t[p] <= t[q] /\ t[x] <= t[q] /\ t[y] <= t[q]
      BY <1>4, <1>6, <1>7, <2>2, <3>1
    <3>. QED BY <1>2, <3>1, <3>2
  <2>3. CASE p < l /\ l <= q /\ q <= h
    <3>1. p \notin {x, y} /\ p < x /\ p < y
      BY <1>4, <2>3
    <3>2. t[p] <= t[q] /\ t[p] <= t[x] /\ t[p] <= t[y]
      BY <1>4, <1>6, <1>7, <2>3, <3>1
    <3>. QED BY <1>2, <3>1, <3>2
  <2>4. CASE ~(l <= p /\ p <= h) /\ ~(l <= q /\ q <= h)
    <3>1. p \notin {x, y} /\ q \notin {x, y}
      BY <1>4, <2>4
    <3>2. u[p] = t[p] /\ u[q] = t[q]
      BY <1>2, <3>1
    <3>. QED BY <1>5, <1>7, <3>2
  <2>. QED BY <1>7, <2>1, <2>2, <2>3, <2>4
<1>. QED BY <1>7 DEF SortedBut, u

\* The ranges with one more.
LEMMA OneMoreRange ==
  ASSUME NEW rs \in Ranges, NEW x \in Int, NEW y \in Int
  PROVE  /\ Append(rs, <<x, y>>) \in Ranges /\ Len(Append(rs, <<x, y>>)) = Len(rs) + 1
         /\ \A k \in 1 .. Len(rs) : Append(rs, <<x, y>>)[k] = rs[k]
         /\ Append(rs, <<x, y>>)[Len(rs) + 1] = <<x, y>>
<1>. DEFINE S == Int \X Int
            e == <<x, y>>
<1>1. rs \in Seq(S) /\ e \in S
  BY DEF Ranges
<1>. HIDE DEF S, e
<1>2. /\ Append(rs, e) \in Seq(S) /\ Len(Append(rs, e)) = Len(rs) + 1
      /\ \A k \in 1 .. Len(rs) : Append(rs, e)[k] = rs[k]
      /\ Append(rs, e)[Len(rs) + 1] = e
  BY <1>1, AppendProperties
<1>. QED BY <1>2 DEF S, e, Ranges

\* The ranges that are left are all that separates the table from a sorted one.
LEMMA StillSorted ==
  ASSUME NEW size \in Nat, NEW t, NEW rs \in Ranges, SortedBut(t, rs, size), while(rs)
  PROVE  \/ sortPc' = "done" /\ pending' = <<>> /\ SortedBut(t, <<>>, size)
         \/ /\ sortPc' = "a[u] < a[l]" /\ pending' \in Ranges /\ lo' \in Int /\ up' \in Int
            /\ SortedBut(t, Append(pending', <<lo', up'>>), size)
<1>1. Len(rs) \in Nat /\ \A k \in 1 .. Len(rs) : rs[k] \in Int \X Int /\ rs[k][1] \in Int /\ rs[k][2] \in Int
  BY RangeOf
<1>2. /\ \A k, m \in 1 .. Len(rs) : k = m \/ rs[k][2] < rs[m][1] \/ rs[m][2] < rs[k][1]
      /\ \A x, y \in 1 .. size : x < y /\ ~Together(rs, x, y) => t[x] <= t[y]
  BY DEF SortedBut, Apart
<1>3. \A k \in 1 .. Len(rs) : k \in Open(rs) \/ rs[k][2] <= rs[k][1]
  <2>1. DOMAIN rs = 1 .. Len(rs)
    BY DEF Ranges
  <2>. QED BY <1>1, <2>1 DEF Open
<1>4. CASE Open(rs) = {}
  <2>1. ASSUME NEW x \in 1 .. size, NEW y \in 1 .. size, x < y PROVE ~Together(rs, x, y)
    BY <1>1, <1>3, <1>4, <2>1 DEF Together
  <2>2. SortedBut(t, <<>>, size)
    BY <1>2, <2>1 DEF SortedBut, Apart
  <2>. QED BY <1>4, <2>2, NoneOpen
<1>5. CASE Open(rs) # {}
  <2>1. PICK last \in Open(rs) :
            /\ \A k \in Open(rs) : k <= last
            /\ sortPc' = "a[u] < a[l]" /\ rs[last] = <<lo', up'>>
            /\ pending' \in Ranges /\ Len(pending') = last - 1
            /\ \A k \in 1 .. last - 1 : pending'[k] = rs[k]
    BY <1>5, Innermost
  <2>2. last \in 1 .. Len(rs)
    BY <1>1 DEF Open, Ranges
  <2>3. rs[last] = <<lo', up'>>
    BY <2>1, Zenon
  <2>4. lo' \in Int /\ up' \in Int
    <3>1. rs[last][1] = lo' /\ rs[last][2] = up'
      BY ONLY <2>3
    <3>. QED BY <1>1, <2>2, <3>1
  <2>. DEFINE left == Append(pending', <<lo', up'>>)
  <2>5. Len(left) = last /\ \A k \in 1 .. last : left[k] = rs[k]
    <3>1. Len(pending') = last - 1 /\ pending' \in Ranges /\ \A k \in 1 .. last - 1 : pending'[k] = rs[k]
      BY <2>1, Zenon
    <3>2. /\ Len(left) = last - 1 + 1 /\ \A k \in 1 .. last - 1 : left[k] = pending'[k]
          /\ left[last - 1 + 1] = <<lo', up'>>
      BY <2>4, <3>1, OneMoreRange
    <3>3. last - 1 + 1 = last /\ last \in Nat
      BY <1>1, <2>2
    <3>. HIDE DEF left
    <3>4. ASSUME NEW k \in 1 .. last PROVE left[k] = rs[k]
      <4>1. CASE k = last
        BY <2>3, <3>2, <3>3, <4>1
      <4>2. CASE k # last
        <5>1. k \in 1 .. last - 1
          BY <3>3, <4>2
        <5>. QED BY <3>1, <3>2, <5>1
      <4>. QED BY <4>1, <4>2
    <3>. QED BY <3>2, <3>3, <3>4
  <2>. HIDE DEF left
  <2>6. 1 .. last \subseteq 1 .. Len(rs)
    BY <1>1, <2>2
  <2>7. Apart(left)
    BY <1>2, <2>5, <2>6 DEF Apart
  <2>8. ASSUME NEW x \in 1 .. size, NEW y \in 1 .. size, x < y, Together(rs, x, y) PROVE Together(left, x, y)
    <3>1. PICK k \in 1 .. Len(rs) : rs[k][1] <= x /\ y <= rs[k][2]
      BY <2>8 DEF Together
    <3>2. k \in Open(rs)
      BY <1>1, <1>3, <2>8, <3>1
    <3>3. k <= last
      BY <2>1, <3>2
    <3>4. k \in 1 .. last
      BY <2>2, <3>3
    <3>. QED BY <2>5, <3>1, <3>4 DEF Together
  <2>9. SortedBut(t, left, size)
    BY <1>2, <2>7, <2>8 DEF SortedBut
  <2>. QED BY <2>1, <2>4, <2>9 DEF left
<1>. QED BY <1>4, <1>5

\* A range that is sorted need not be kept.
LEMMA RangeDone ==
  ASSUME NEW size \in Nat, NEW t, NEW rs \in Ranges, NEW x \in Int, NEW y \in Int,
         SortedBut(t, Append(rs, <<x, y>>), size),
         \A p, q \in 1 .. size : x <= p /\ p < q /\ q <= y => t[p] <= t[q]
  PROVE  SortedBut(t, rs, size)
<1>. DEFINE all == Append(rs, <<x, y>>)
<1>1. Len(rs) \in Nat /\ Len(all) = Len(rs) + 1 /\ \A k \in 1 .. Len(rs) : all[k] = rs[k]
  BY OneMoreRange, RangeOf
<1>2. all[Len(rs) + 1] = <<x, y>>
  BY OneMoreRange
<1>3. 1 .. Len(rs) \subseteq 1 .. Len(all)
  BY <1>1
<1>4. /\ \A k, m \in 1 .. Len(all) : k = m \/ all[k][2] < all[m][1] \/ all[m][2] < all[k][1]
      /\ \A p, q \in 1 .. size : p < q /\ ~Together(all, p, q) => t[p] <= t[q]
  BY DEF SortedBut, Apart
<1>. HIDE DEF all
<1>5. Apart(rs)
  BY <1>1, <1>3, <1>4 DEF Apart
<1>6. ASSUME NEW p \in 1 .. size, NEW q \in 1 .. size, p < q, ~Together(rs, p, q) PROVE t[p] <= t[q]
  <2>1. CASE x <= p /\ q <= y
    BY <1>6, <2>1
  <2>2. CASE ~(x <= p /\ q <= y)
    <3>1. ASSUME NEW k \in 1 .. Len(all), all[k][1] <= p, q <= all[k][2] PROVE FALSE
      <4>1. CASE k = Len(rs) + 1
        <5>1. all[k][1] = x /\ all[k][2] = y
          BY <1>2, <4>1
        <5>. QED BY <2>2, <3>1, <5>1
      <4>2. CASE k \in 1 .. Len(rs)
        BY <1>1, <1>6, <3>1, <4>2 DEF Together
      <4>. QED BY <1>1, <4>1, <4>2
    <3>2. ~Together(all, p, q)
      BY <3>1 DEF Together
    <3>. QED BY <1>4, <1>6, <3>2
  <2>. QED BY <2>1, <2>2
<1>. QED BY <1>5, <1>6 DEF SortedBut

\* Two ranges take the place of one, when what is between them is in its place.
LEMMA Parted ==
  ASSUME NEW size \in Nat, NEW t, NEW rs \in Ranges, NEW x \in Int, NEW y \in Int, NEW m \in 1 .. size,
         x <= m, m <= y, SortedBut(t, Append(rs, <<x, y>>), size), \A k \in 1 .. size : t[k] \in Int,
         \A k \in 1 .. size : x <= k /\ k < m => t[k] <= t[m],
         \A k \in 1 .. size : m < k /\ k <= y => t[m] <= t[k],
         NEW q \in Int \X Int, NEW r \in Int \X Int,
         \/ q = <<x, m - 1>> /\ r = <<m + 1, y>>
         \/ q = <<m + 1, y>> /\ r = <<x, m - 1>>
  PROVE  SortedBut(t, rs \o <<q, r>>, size)
<1>. DEFINE all == Append(rs, <<x, y>>)
            new == rs \o <<q, r>>
            L == Len(rs)
<1>1. /\ L \in Nat /\ Len(all) = L + 1 /\ \A k \in 1 .. L : all[k] = rs[k]
      /\ \A k \in 1 .. L : rs[k][1] \in Int /\ rs[k][2] \in Int
  <2>1. Len(rs) \in Nat /\ \A k \in 1 .. Len(rs) : rs[k][1] \in Int /\ rs[k][2] \in Int
    BY RangeOf
  <2>. QED BY <2>1, OneMoreRange
<1>2. all[L + 1] = <<x, y>>
  BY OneMoreRange
<1>3. /\ Len(new) = L + 2 /\ \A k \in 1 .. L : new[k] = rs[k]
      /\ new[L + 1] = q /\ new[L + 2] = r
  <2>. DEFINE S == Int \X Int
  <2>1. rs \in Seq(S) /\ q \in S /\ r \in S
    BY DEF Ranges
  <2>. HIDE DEF S
  <2>2. <<q, r>> \in Seq(S) /\ Len(<<q, r>>) = 2 /\ <<q, r>>[1] = q /\ <<q, r>>[2] = r
    BY <2>1
  <2>3. /\ Len(new) = L + 2
        /\ \A k \in 1 .. L + 2 : new[k] = IF k <= L THEN rs[k] ELSE <<q, r>>[k - L]
    BY <2>1, <2>2, ConcatProperties
  <2>. HIDE DEF new
  <2>4. L + 1 \in 1 .. L + 2 /\ L + 2 \in 1 .. L + 2 /\ L + 1 - L = 1 /\ L + 2 - L = 2
        /\ ~(L + 1 <= L) /\ ~(L + 2 <= L) /\ \A k \in 1 .. L : k \in 1 .. L + 2 /\ k <= L
    BY <1>1
  <2>. HIDE DEF L
  <2>5. ASSUME NEW k \in 1 .. L PROVE new[k] = rs[k]
    BY <2>3, <2>4
  <2>6. new[L + 1] = <<q, r>>[1] /\ new[L + 2] = <<q, r>>[2]
    <3>0. L \in Nat
      BY <1>1
    <3>1. PICK k : k = L + 1 /\ k \in 1 .. L + 2 /\ ~(k <= L) /\ k - L = 1
      BY ONLY <3>0
    <3>2. PICK l : l = L + 2 /\ l \in 1 .. L + 2 /\ ~(l <= L) /\ l - L = 2
      BY ONLY <3>0
    <3>3. new[k] = <<q, r>>[k - L] /\ new[l] = <<q, r>>[l - L]
      BY <2>3, <3>1, <3>2
    <3>. QED BY <3>1, <3>2, <3>3
  <2>. QED BY <2>2, <2>3, <2>5, <2>6
<1>4. /\ \A k, l \in 1 .. Len(all) : k = l \/ all[k][2] < all[l][1] \/ all[l][2] < all[k][1]
      /\ \A u, v \in 1 .. size : u < v /\ ~Together(all, u, v) => t[u] <= t[v]
  BY DEF SortedBut, Apart
<1>. HIDE DEF all, new, L
<1>5. /\ \A k, l \in 1 .. L : k = l \/ rs[k][2] < rs[l][1] \/ rs[l][2] < rs[k][1]
      /\ \A k \in 1 .. L : rs[k][2] < x \/ y < rs[k][1]
  <2>1. 1 .. L \subseteq 1 .. Len(all) /\ L + 1 \in 1 .. Len(all) /\ \A k \in 1 .. L : k # L + 1
    BY <1>1
  <2>2. all[L + 1][1] = x /\ all[L + 1][2] = y
    BY <1>2
  <2>. QED BY <1>1, <1>4, <2>1, <2>2
<1>6. /\ q[1] \in Int /\ q[2] \in Int /\ r[1] \in Int /\ r[2] \in Int
      /\ x <= q[1] /\ q[2] <= y /\ x <= r[1] /\ r[2] <= y /\ (q[2] < r[1] \/ r[2] < q[1])
  OBVIOUS
<1>7. Apart(new)
  <2>1. ASSUME NEW k \in 1 .. L + 2, NEW l \in 1 .. L + 2
        PROVE  k = l \/ new[k][2] < new[l][1] \/ new[l][2] < new[k][1]
    <3>1. (k \in 1 .. L \/ k = L + 1 \/ k = L + 2) /\ (l \in 1 .. L \/ l = L + 1 \/ l = L + 2)
      <4>1. L \in Nat
        BY <1>1
      <4>. QED BY ONLY <4>1, k \in 1 .. L + 2, l \in 1 .. L + 2
    <3>2. CASE k \in 1 .. L /\ l \in 1 .. L
      BY <1>3, <1>5, <3>2
    <3>3. CASE k \in 1 .. L /\ l \notin 1 .. L
      <4>1. new[k] = rs[k] /\ new[l] \in {q, r} /\ rs[k][1] \in Int /\ rs[k][2] \in Int
        BY <1>1, <1>3, <3>1, <3>3
      <4>. QED BY <1>5, <1>6, <3>3, <4>1
    <3>4. CASE k \notin 1 .. L /\ l \in 1 .. L
      <4>1. new[l] = rs[l] /\ new[k] \in {q, r} /\ rs[l][1] \in Int /\ rs[l][2] \in Int
        BY <1>1, <1>3, <3>1, <3>4
      <4>. QED BY <1>5, <1>6, <3>4, <4>1
    <3>5. CASE k \notin 1 .. L /\ l \notin 1 .. L
      BY <1>3, <1>6, <3>1, <3>5
    <3>. QED BY <3>2, <3>3, <3>4, <3>5
  <2>. QED BY <1>3, <2>1 DEF Apart
<1>8. ASSUME NEW u \in 1 .. size, NEW v \in 1 .. size, u < v, ~Together(new, u, v) PROVE t[u] <= t[v]
  <2>1. \A k \in 1 .. L + 2 : ~(new[k][1] <= u /\ v <= new[k][2])
    BY <1>3, <1>8 DEF Together
  <2>2. ~(q[1] <= u /\ v <= q[2]) /\ ~(r[1] <= u /\ v <= r[2])
    <3>1. L + 1 \in 1 .. L + 2 /\ L + 2 \in 1 .. L + 2
      BY <1>1
    <3>. QED BY <1>3, <2>1, <3>1
  <2>3. \A k \in 1 .. L : ~(rs[k][1] <= u /\ v <= rs[k][2])
    <3>1. \A k \in 1 .. L : k \in 1 .. L + 2
      BY <1>1
    <3>. QED BY <1>3, <2>1, <3>1
  <2>4. CASE x <= u /\ v <= y
    <3>1. ~(v <= m - 1) /\ ~(m + 1 <= u)
      BY <2>2, <2>4
    <3>2. u <= m /\ m <= v
      BY <3>1
    <3>3. t[u] <= t[m] /\ t[m] <= t[v]
      BY <2>4, <3>2
    <3>. QED BY <3>3
  <2>5. CASE ~(x <= u /\ v <= y)
    <3>1. ASSUME NEW k \in 1 .. L + 1, all[k][1] <= u, v <= all[k][2] PROVE FALSE
      <4>1. CASE k = L + 1
        <5>1. all[k][1] = x /\ all[k][2] = y
          BY <1>2, <4>1
        <5>. QED BY <2>5, <3>1, <5>1
      <4>2. CASE k \in 1 .. L
        BY <1>1, <2>3, <3>1, <4>2
      <4>. QED BY <1>1, <4>1, <4>2
    <3>2. ~Together(all, u, v)
      BY <1>1, <3>1 DEF Together
    <3>. QED BY <1>4, <1>8, <3>2
  <2>. QED BY <2>4, <2>5
<1>. QED BY <1>7, <1>8 DEF SortedBut, new

-----------------------------------------------------------------------------
\* What auxsort says of its partition: a[l..i] <= P <= a[j..u], with the pivot
\* at u - 1.
Partitioning ==
  /\ i \in lo + 1 .. up - 1 /\ P \in Nat /\ a[up - 1] = P
  /\ \A k \in lo .. i - 1 : a[k] <= P
  /\ sortPc = "a[i] < P" => j \in lo + 1 .. up - 1 /\ \A k \in j .. up : P <= a[k]
  /\ sortPc = "P < a[j]" => j \in lo .. up - 2 /\ P <= a[i] /\ \A k \in j + 1 .. up : P <= a[k]

\* With "<", no comparison has failed, and the ranges are what is to be sorted.
LessInvariant ==
  order = "<" =>
    /\ sortPc # "error" /\ Filled(a, n)
    /\ sortPc = "done" => SortedBut(a, <<>>, n)
    /\ sortPc # "done" => SortedBut(a, Append(pending, <<lo, up>>), n)
    /\ sortPc \in Choosing => lo < i /\ i < up /\ a[lo] <= a[up]
    /\ sortPc = "a[u] < a[i]" => a[lo] <= a[i]
    /\ sortPc \in Scanning => Partitioning

\* "<" compares numbers, and does not fail.
LEMMA Comparable ==
  ASSUME order = "<", NEW x \in Nat, NEW y \in Nat
  PROVE  ~comp_error(x, y) /\ sort_comp(x, y) = {x < y}
<1>1. order # "any" /\ NoElement \notin {x, y}
  BY DEF NoElement
<1>. QED BY <1>1 DEF comp_error, sort_comp

\* What a comparison with "<" may rely on.
LEMMA LessReach ==
  ASSUME SafeInvariant, LessInvariant, order = "<", sortPc \notin Ended
  PROVE  /\ n \in Nat /\ lo \in 1 .. n /\ up \in 1 .. n /\ lo < up /\ pending \in Ranges
         /\ Filled(a, n) /\ \A k \in 1 .. n : a[k] \in Nat
         /\ SortedBut(a, Append(pending, <<lo, up>>), n)
<1>1. n \in Nat /\ lo \in 1 .. n /\ up \in 1 .. n /\ lo < up /\ AllFit(pending, n)
  BY Reach
<1>2. Filled(a, n) /\ SortedBut(a, Append(pending, <<lo, up>>), n)
  BY DEF LessInvariant, Ended
<1>. QED BY <1>1, <1>2 DEF Filled, AllFit

\* Two tables that differ by an exchange.
Exchanged(u, t, x, y) == u[x] = t[y] /\ u[y] = t[x] /\ \A k \in 1 .. n : k \in {x, y} \/ u[k] = t[k]

\* An exchange in the range that is being sorted.
LEMMA ExchangeLess ==
  ASSUME n \in Nat, lo \in 1 .. n, up \in 1 .. n, pending \in Ranges, NEW t, Filled(t, n),
         SortedBut(t, Append(pending, <<lo, up>>), n), NEW x \in lo .. up, NEW y \in lo .. up
  PROVE  /\ Filled(set2(t, x, y), n) /\ SortedBut(set2(t, x, y), Append(pending, <<lo, up>>), n)
         /\ Exchanged(set2(t, x, y), t, x, y)
<1>1. x \in 1 .. n /\ y \in 1 .. n /\ lo \in Int /\ up \in Int
  OBVIOUS
<1>2. t \in [0 .. n + 1 -> Int]
  BY DEF Filled
<1>3. Filled(set2(t, x, y), n)
  BY <1>1, FilledKept
<1>4. Exchanged(set2(t, x, y), t, x, y)
  BY <1>1, <1>2 DEF Exchanged, set2
<1>. DEFINE rs == Append(pending, <<lo, up>>)
            r == Len(pending) + 1
<1>5. rs \in Ranges /\ r \in 1 .. Len(rs) /\ rs[r][1] = lo /\ rs[r][2] = up
  <2>1. rs \in Ranges /\ Len(rs) = r /\ rs[r] = <<lo, up>>
    BY <1>1, OneMoreRange
  <2>2. Len(pending) \in Nat
    BY DEF Ranges
  <2>. HIDE DEF rs
  <2>. QED BY <2>1, <2>2
<1>6. SortedBut(set2(t, x, y), rs, n)
  <2>1. rs[r][1] <= x /\ x <= rs[r][2] /\ rs[r][1] <= y /\ y <= rs[r][2]
    BY <1>1, <1>5
  <2>2. SortedBut(t, rs, n)
    OBVIOUS
  <2>. HIDE DEF rs, r
  <2>. QED BY <1>1, <1>2, <1>5, <2>1, <2>2, Inside
<1>. QED BY <1>3, <1>4, <1>6

\* The next range, from ranges outside of which the table is sorted.
LEMMA LoopLess ==
  ASSUME n \in Nat, order = "<", UNCHANGED <<input, order>>, Filled(a', n),
         NEW rs \in Ranges, SortedBut(a', rs, n), while(rs)
  PROVE  LessInvariant'
<1>1. n' = n
  BY SameInput
<1>2. \/ sortPc' = "done" /\ SortedBut(a', <<>>, n)
      \/ sortPc' = "a[u] < a[l]" /\ SortedBut(a', Append(pending', <<lo', up'>>), n)
  BY StillSorted
<1>. QED BY <1>1, <1>2 DEF LessInvariant, Choosing, Scanning

\* A step that stays in the range it works on.
LEMMA RangeLess ==
  ASSUME UNCHANGED <<input, order, lo, up, pending>>,
         Filled(a', n), SortedBut(a', Append(pending, <<lo, up>>), n),
         sortPc' \in Choosing \/ sortPc' \in Scanning,
         sortPc' \in Choosing => lo < i' /\ i' < up /\ a'[lo] <= a'[up],
         sortPc' = "a[u] < a[i]" => a'[lo] <= a'[i'],
         sortPc' \in Scanning => Partitioning'
  PROVE  LessInvariant'
<1>1. n' = n
  BY SameInput
<1>. QED BY <1>1 DEF LessInvariant, Choosing, Scanning

\* The first comparison puts the ends of the range in order.
LEMMA FirstPairLess ==
  ASSUME SafeInvariant, LessInvariant, UNCHANGED <<input, order>>, FirstPair, order = "<"
  PROVE  LessInvariant'
<1>1. sortPc = "a[u] < a[l]" /\ sortPc \notin Ended
  BY DEF FirstPair, Ended
<1>2. /\ n \in Nat /\ lo \in 1 .. n /\ up \in 1 .. n /\ lo < up /\ pending \in Ranges
      /\ Filled(a, n) /\ \A k \in 1 .. n : a[k] \in Nat
      /\ SortedBut(a, Append(pending, <<lo, up>>), n)
  BY <1>1, LessReach
<1>3. ~comp_error(a[up], a[lo]) /\ sort_comp(a[up], a[lo]) = {a[up] < a[lo]}
  <2>1. a[up] \in Nat /\ a[lo] \in Nat
    BY <1>2
  <2>. QED BY <2>1, Comparable
<1>4. /\ a' = IF a[up] < a[lo] THEN set2(a, lo, up) ELSE a
      /\ IF up - lo = 1 THEN break
         ELSE /\ sortPc' = "a[i] < a[l]" /\ i' = (lo + up) \div 2
              /\ UNCHANGED <<lo, up, j, P, pending>>
  BY <1>3 DEF FirstPair
<1>5. Filled(a', n) /\ SortedBut(a', Append(pending, <<lo, up>>), n) /\ a'[lo] <= a'[up]
  <2>1. /\ Filled(set2(a, lo, up), n) /\ SortedBut(set2(a, lo, up), Append(pending, <<lo, up>>), n)
        /\ Exchanged(set2(a, lo, up), a, lo, up)
    <3>1. lo \in lo .. up /\ up \in lo .. up
      BY <1>2
    <3>. QED BY <1>2, <3>1, ExchangeLess
  <2>2. a[up] \in Nat /\ a[lo] \in Nat
    BY <1>2
  <2>3. CASE a[up] < a[lo]
    <3>1. a' = set2(a, lo, up)
      BY <1>4, <2>3
    <3>2. a'[lo] = a[up] /\ a'[up] = a[lo]
      BY <2>1, <3>1 DEF Exchanged
    <3>. QED BY <2>1, <2>2, <2>3, <3>1, <3>2
  <2>4. CASE ~(a[up] < a[lo])
    <3>1. a' = a
      BY <1>4, <2>4
    <3>. QED BY <1>2, <2>2, <2>4, <3>1
  <2>. QED BY <2>3, <2>4
<1>6. CASE up - lo = 1
  <2>1. while(pending)
    BY <1>4, <1>6 DEF break
  <2>2. SortedBut(a', pending, n)
    <3>1. lo \in Int /\ up \in Int /\ \A p, q \in 1 .. n : lo <= p /\ p < q /\ q <= up => p = lo /\ q = up
      BY <1>2, <1>6
    <3>2. \A p, q \in 1 .. n : lo <= p /\ p < q /\ q <= up => a'[p] <= a'[q]
      BY <1>5, <3>1
    <3>. QED BY <1>2, <1>5, <3>1, <3>2, RangeDone
  <2>. QED BY <1>2, <1>5, <2>1, <2>2, LoopLess
<1>7. CASE up - lo # 1
  <2>1. sortPc' = "a[i] < a[l]" /\ i' = (lo + up) \div 2 /\ UNCHANGED <<lo, up, pending>>
    BY <1>4, <1>7
  <2>2. lo < i' /\ i' < up
    <3>1. lo \in Int /\ up \in Int /\ lo + 2 <= up
      BY <1>2, <1>7
    <3>2. i' \in lo + 1 .. up - 1
      BY <2>1, <3>1, Half
    <3>. QED BY <3>1, <3>2
  <2>. QED BY <1>5, <2>1, <2>2, RangeLess DEF Choosing, Scanning
<1>. QED BY <1>6, <1>7

\* The pivot is the median of three; three elements are sorted by it.
LEMMA PivotLess ==
  ASSUME SafeInvariant, LessInvariant, UNCHANGED <<input, order>>, order = "<", sortPc \in Choosing,
         NEW t, Filled(t, n), SortedBut(t, Append(pending, <<lo, up>>), n),
         t[lo] <= t[i], t[i] <= t[up], Pivot(t)
  PROVE  LessInvariant'
<1>1. sortPc \notin Ended /\ lo < i /\ i < up /\ i \in lo .. up
  BY DEF Choosing, Ended, SafeInvariant, Bounds, LessInvariant
<1>2. n \in Nat /\ lo \in 1 .. n /\ up \in 1 .. n /\ pending \in Ranges
  BY <1>1, LessReach
<1>3. \A k \in 1 .. n : t[k] \in Nat
  BY DEF Filled
<1>4. i \in 1 .. n /\ lo \in Int /\ up \in Int
  BY <1>1, <1>2
<1>5. CASE up - lo = 2
  <2>1. a' = t /\ while(pending)
    BY <1>5 DEF Pivot, break
  <2>2. i = lo + 1 /\ up = lo + 2
    BY <1>1, <1>4, <1>5
  <2>3. ASSUME NEW p \in 1 .. n, NEW q \in 1 .. n, lo <= p, p < q, q <= up PROVE t[p] <= t[q]
    <3>1. (p = lo /\ q = i) \/ (p = lo /\ q = up) \/ (p = i /\ q = up)
      <4>1. p \in Int /\ q \in Int /\ lo \in Int
        BY <1>4
      <4>2. lo <= p /\ p < q /\ q <= lo + 2
        BY <2>2, <2>3
      <4>3. (p = lo /\ q = lo + 1) \/ (p = lo /\ q = lo + 2) \/ (p = lo + 1 /\ q = lo + 2)
        BY ONLY <4>1, <4>2
      <4>. QED BY <2>2, <4>3
    <3>. QED BY <1>2, <1>3, <1>4, <3>1
  <2>4. SortedBut(a', pending, n)
    BY <1>2, <1>4, <2>1, <2>3, RangeDone
  <2>. QED BY <1>2, <2>1, <2>4, LoopLess
<1>6. CASE up - lo # 2
  <2>1. /\ P' = t[i] /\ a' = set2(t, i, up - 1) /\ i' = lo + 1 /\ j' = up - 1 /\ sortPc' = "a[i] < P"
        /\ UNCHANGED <<lo, up, pending>>
    BY <1>6 DEF Pivot
  <2>2. lo + 3 <= up /\ up - 1 \in lo .. up /\ up - 1 \in 1 .. n
    BY <1>1, <1>2, <1>4, <1>6
  <2>3. /\ Filled(a', n) /\ SortedBut(a', Append(pending, <<lo, up>>), n)
        /\ Exchanged(a', t, i, up - 1)
    BY <1>1, <1>2, <2>1, <2>2, ExchangeLess
  <2>4. a'[up - 1] = P' /\ a'[lo] = t[lo] /\ a'[up] = t[up] /\ P' \in Nat
    <3>1. lo \notin {i, up - 1} /\ up \notin {i, up - 1}
      BY <1>1, <1>4, <2>2
    <3>. QED BY <1>2, <1>3, <1>4, <2>1, <2>3, <3>1 DEF Exchanged
  <2>5. a'[lo] <= P' /\ P' <= a'[up] /\ P' <= a'[up - 1]
    <3>1. P' = t[i]
      BY <2>1
    <3>2. P' <= P'
      BY <2>4
    <3>. QED BY <2>4, <3>1, <3>2, Zenon
  <2>6. i' \in lo' + 1 .. up' - 1 /\ j' \in lo' + 1 .. up' - 1 /\ a'[up' - 1] = P'
    <3>1. i' = lo + 1 /\ j' = up - 1 /\ lo' = lo /\ up' = up
      BY <2>1
    <3>. QED BY <1>4, <2>2, <2>4, <3>1
  <2>7. \A k \in lo' .. i' - 1 : a'[k] <= P'
    <3>1. i' = lo + 1 /\ lo' = lo
      BY <2>1
    <3>2. \A k \in lo' .. i' - 1 : k = lo
      BY <1>4, <3>1
    <3>. QED BY <2>5, <3>2
  <2>8. \A k \in j' .. up' : P' <= a'[k]
    <3>1. j' = up - 1 /\ up' = up
      BY <2>1
    <3>2. \A k \in j' .. up' : k = up \/ k = up - 1
      BY <1>4, <3>1
    <3>. QED BY <2>5, <3>2
  <2>9. Partitioning'
    BY <2>1, <2>4, <2>6, <2>7, <2>8 DEF Partitioning
  <2>. QED BY <2>1, <2>3, <2>9, RangeLess DEF Choosing, Scanning
<1>. QED BY <1>5, <1>6

LEMMA MiddleLess ==
  ASSUME SafeInvariant, LessInvariant, UNCHANGED <<input, order>>, Middle, order = "<"
  PROVE  LessInvariant'
<1>1. sortPc = "a[i] < a[l]" /\ sortPc \notin Ended /\ sortPc \in Choosing
  BY DEF Middle, Ended, Choosing
<1>2. /\ n \in Nat /\ lo \in 1 .. n /\ up \in 1 .. n /\ pending \in Ranges
      /\ Filled(a, n) /\ \A k \in 1 .. n : a[k] \in Nat
      /\ SortedBut(a, Append(pending, <<lo, up>>), n)
  BY <1>1, LessReach
<1>3. lo < i /\ i < up /\ a[lo] <= a[up] /\ i \in lo .. up
  BY <1>1 DEF LessInvariant, SafeInvariant, Bounds
<1>4. i \in 1 .. n /\ a[i] \in Nat /\ a[lo] \in Nat /\ a[up] \in Nat
  <2>1. i \in 1 .. n
    BY <1>2, <1>3
  <2>. QED BY <1>2, <2>1
<1>5. ~comp_error(a[i], a[lo]) /\ sort_comp(a[i], a[lo]) = {a[i] < a[lo]}
  BY <1>4, Comparable
<1>6. IF a[i] < a[lo] THEN Pivot(set2(a, i, lo))
      ELSE sortPc' = "a[u] < a[i]" /\ UNCHANGED <<a, lo, up, i, j, P, pending>>
  BY <1>5 DEF Middle
<1>7. CASE a[i] < a[lo]
  <2>. DEFINE t == set2(a, i, lo)
  <2>1. /\ Filled(t, n) /\ SortedBut(t, Append(pending, <<lo, up>>), n) /\ Exchanged(t, a, i, lo)
    <3>1. lo \in lo .. up
      BY <1>2, <1>3
    <3>. QED BY <1>2, <1>3, <3>1, ExchangeLess
  <2>. HIDE DEF t
  <2>2. t[i] = a[lo] /\ t[lo] = a[i] /\ t[up] = a[up]
    <3>1. up \notin {i, lo}
      BY <1>2, <1>3
    <3>. QED BY <1>2, <2>1, <3>1 DEF Exchanged
  <2>3. t[lo] <= t[i] /\ t[i] <= t[up]
    BY <1>3, <1>4, <1>7, <2>2
  <2>4. Pivot(t)
    BY <1>6, <1>7 DEF t
  <2>. QED BY <1>1, <2>1, <2>3, <2>4, PivotLess
<1>8. CASE ~(a[i] < a[lo])
  <2>1. sortPc' = "a[u] < a[i]" /\ UNCHANGED <<a, lo, up, i, j, P, pending>>
    BY <1>6, <1>8
  <2>2. a[lo] <= a[i]
    BY <1>4, <1>8
  <2>. QED BY <1>2, <1>3, <2>1, <2>2, RangeLess DEF Choosing, Scanning
<1>. QED BY <1>7, <1>8

LEMMA MiddleHighLess ==
  ASSUME SafeInvariant, LessInvariant, UNCHANGED <<input, order>>, MiddleHigh, order = "<"
  PROVE  LessInvariant'
<1>1. sortPc = "a[u] < a[i]" /\ sortPc \notin Ended /\ sortPc \in Choosing
  BY DEF MiddleHigh, Ended, Choosing
<1>2. /\ n \in Nat /\ lo \in 1 .. n /\ up \in 1 .. n /\ pending \in Ranges
      /\ Filled(a, n) /\ \A k \in 1 .. n : a[k] \in Nat
      /\ SortedBut(a, Append(pending, <<lo, up>>), n)
  BY <1>1, LessReach
<1>3. lo < i /\ i < up /\ a[lo] <= a[up] /\ a[lo] <= a[i] /\ i \in lo .. up
  BY <1>1 DEF LessInvariant, SafeInvariant, Bounds
<1>4. i \in 1 .. n /\ a[i] \in Nat /\ a[lo] \in Nat /\ a[up] \in Nat
  <2>1. i \in 1 .. n
    BY <1>2, <1>3
  <2>. QED BY <1>2, <2>1
<1>5. ~comp_error(a[up], a[i]) /\ sort_comp(a[up], a[i]) = {a[up] < a[i]}
  BY <1>4, Comparable
<1>6. Pivot(IF a[up] < a[i] THEN set2(a, i, up) ELSE a)
  BY <1>5 DEF MiddleHigh
<1>7. CASE a[up] < a[i]
  <2>. DEFINE t == set2(a, i, up)
  <2>1. /\ Filled(t, n) /\ SortedBut(t, Append(pending, <<lo, up>>), n) /\ Exchanged(t, a, i, up)
    <3>1. up \in lo .. up
      BY <1>2, <1>3
    <3>. QED BY <1>2, <1>3, <3>1, ExchangeLess
  <2>. HIDE DEF t
  <2>2. t[i] = a[up] /\ t[up] = a[i] /\ t[lo] = a[lo]
    <3>1. lo \notin {i, up}
      BY <1>2, <1>3
    <3>. QED BY <1>2, <2>1, <3>1 DEF Exchanged
  <2>3. t[lo] <= t[i] /\ t[i] <= t[up]
    BY <1>3, <1>4, <1>7, <2>2
  <2>4. Pivot(t)
    BY <1>6, <1>7 DEF t
  <2>. QED BY <1>1, <2>1, <2>3, <2>4, PivotLess
<1>8. CASE ~(a[up] < a[i])
  <2>1. Pivot(a) /\ a[i] <= a[up]
    BY <1>4, <1>6, <1>8
  <2>. QED BY <1>1, <1>2, <1>3, <2>1, PivotLess
<1>. QED BY <1>7, <1>8

\* The scans stop at the latest at the elements that the median put at the
\* ends of the range.
LEMMA ScanUpLess ==
  ASSUME SafeInvariant, LessInvariant, UNCHANGED <<input, order>>, ScanUp, order = "<"
  PROVE  LessInvariant'
<1>1. sortPc = "a[i] < P" /\ sortPc \notin Ended /\ sortPc \in Scanning
  BY DEF ScanUp, Ended, Scanning
<1>2. /\ n \in Nat /\ lo \in 1 .. n /\ up \in 1 .. n
      /\ Filled(a, n) /\ \A k \in 1 .. n : a[k] \in Nat
      /\ SortedBut(a, Append(pending, <<lo, up>>), n)
  BY <1>1, LessReach
<1>3. /\ i \in lo + 1 .. up - 1 /\ P \in Nat /\ a[up - 1] = P
      /\ \A k \in lo .. i - 1 : a[k] <= P
      /\ j \in lo + 1 .. up - 1 /\ \A k \in j .. up : P <= a[k]
  BY <1>1 DEF LessInvariant, Partitioning
<1>4. lo \in Int /\ up \in Int /\ i \in Int /\ j \in Int /\ i \in 1 .. n /\ lo + 1 <= i /\ i <= up - 1
  BY <1>2, <1>3
<1>5. a[i] \in Nat
  BY <1>2, <1>4
<1>6. ~comp_error(a[i], P) /\ sort_comp(a[i], P) = {a[i] < P}
  BY <1>3, <1>5, Comparable
<1>7. \/ /\ a[i] < P /\ i > up
      \/ /\ a[i] < P /\ i' = i + 1 /\ UNCHANGED <<a, sortPc, lo, up, j, P, pending>>
      \/ /\ ~(a[i] < P) /\ j' = j - 1 /\ sortPc' = "P < a[j]" /\ UNCHANGED <<a, lo, up, i, P, pending>>
  BY <1>6 DEF ScanUp
<1>8. CASE a[i] < P /\ i' = i + 1 /\ UNCHANGED <<a, sortPc, lo, up, j, P, pending>>
  <2>1. i # up - 1
    BY <1>3, <1>5, <1>8
  <2>2. i' = i + 1 /\ lo' = lo /\ up' = up /\ j' = j /\ P' = P /\ a' = a
    BY <1>8
  <2>3. i' \in lo' + 1 .. up' - 1
    BY ONLY <1>4, <2>1, <2>2
  <2>4. \A k \in lo' .. i' - 1 : a'[k] <= P'
    <3>1. \A k \in lo' .. i' - 1 : k = i \/ k \in lo .. i - 1
      BY ONLY <1>4, <2>2
    <3>2. a[i] <= P
      BY <1>3, <1>5, <1>8
    <3>. QED BY <1>3, <2>2, <3>1, <3>2
  <2>5. Partitioning'
    BY <1>1, <1>3, <1>8, <2>2, <2>3, <2>4 DEF Partitioning
  <2>. QED BY <1>1, <1>2, <1>8, <2>5, RangeLess DEF Choosing, Scanning
<1>9. CASE ~(a[i] < P) /\ j' = j - 1 /\ sortPc' = "P < a[j]" /\ UNCHANGED <<a, lo, up, i, P, pending>>
  <2>1. j' = j - 1 /\ lo' = lo /\ up' = up /\ i' = i /\ P' = P /\ a' = a
    BY <1>9
  <2>2. j' \in lo' .. up' - 2
    <3>1. lo + 1 <= j /\ j <= up - 1
      BY <1>3, <1>4
    <3>. QED BY ONLY <1>4, <2>1, <3>1
  <2>3. P <= a[i]
    <3>1. P \in Nat /\ ~(a[i] < P)
      BY <1>3, <1>9
    <3>. QED BY ONLY <1>5, <3>1
  <2>4. \A k \in j' + 1 .. up' : P' <= a'[k]
    <3>1. j' + 1 = j
      BY ONLY <1>4, <2>1
    <3>. QED BY <1>3, <2>1, <3>1
  <2>5. Partitioning'
    BY <1>3, <1>9, <2>1, <2>2, <2>3, <2>4 DEF Partitioning
  <2>. QED BY <1>2, <1>9, <2>5, RangeLess DEF Choosing, Scanning
<1>10. ~(i > up)
  BY ONLY <1>4
<1>. QED BY <1>7, <1>8, <1>9, <1>10

\* With the pivot between the parts, they can be sorted one by one.
LEMMA PartitionedLess ==
  ASSUME n \in Nat, lo \in 1 .. n, up \in 1 .. n, pending \in Ranges, Filled(a, n), i \in lo + 1 .. up - 1,
         SortedBut(a, Append(pending, <<lo, up>>), n), UNCHANGED <<input, order>>, order = "<",
         P \in Nat, a[up - 1] = P, \A k \in lo .. i - 1 : a[k] <= P, \A k \in i .. up : P <= a[k], Partitioned
  PROVE  LessInvariant'
<1>1. lo \in Int /\ up \in Int /\ i \in Int /\ i \in 1 .. n /\ up - 1 \in lo .. up /\ i \in lo .. up /\ lo <= i /\ i <= up - 1
  OBVIOUS
<1>2. a' = set2(a, up - 1, i)
  BY DEF Partitioned
<1>3. Filled(a', n) /\ SortedBut(a', Append(pending, <<lo, up>>), n) /\ Exchanged(a', a, up - 1, i)
  BY <1>1, <1>2, ExchangeLess
<1>4. a'[i] = P /\ a'[up - 1] = a[i] /\ \A k \in 1 .. n : k \in {up - 1, i} \/ a'[k] = a[k]
  BY <1>3 DEF Exchanged
<1>5. \A k \in 1 .. n : a'[k] \in Int
  BY <1>3 DEF Filled
<1>6. ASSUME NEW k \in 1 .. n, lo <= k, k < i PROVE a'[k] <= a'[i]
  <2>1. k \in lo .. i - 1 /\ k \notin {up - 1, i}
    BY <1>1, <1>6
  <2>. QED BY <1>4, <2>1
<1>7. ASSUME NEW k \in 1 .. n, i < k, k <= up PROVE a'[i] <= a'[k]
  <2>1. k \in i .. up /\ i \in i .. up /\ k # i
    BY <1>1, <1>7
  <2>2. P <= a[k] /\ P <= a[i]
    BY <2>1
  <2>. QED BY <1>4, <2>1, <2>2
<1>8. <<i + 1, up>> \in Int \X Int /\ <<lo, i - 1>> \in Int \X Int
  BY <1>1
<1>. DEFINE below == <<lo, i - 1>>
            above == <<i + 1, up>>
<1>9. SortedBut(a', pending \o <<below, above>>, n) /\ SortedBut(a', pending \o <<above, below>>, n)
  <2>1. below \in Int \X Int /\ above \in Int \X Int /\ below = <<lo, i - 1>> /\ above = <<i + 1, up>>
    BY <1>8
  <2>2. lo <= i /\ i <= up
    BY <1>1
  <2>. HIDE DEF below, above
  <2>3. SortedBut(a', pending \o <<below, above>>, n)
    BY <1>1, <1>3, <1>5, <1>6, <1>7, <2>1, <2>2, Parted
  <2>4. SortedBut(a', pending \o <<above, below>>, n)
    BY <1>1, <1>3, <1>5, <1>6, <1>7, <2>1, <2>2, Parted
  <2>. QED BY <2>3, <2>4
<1>10. while(pending \o IF i - lo < up - i THEN <<above, below>> ELSE <<below, above>>)
  BY DEF Partitioned
<1>11. pending \o <<below, above>> \in Ranges /\ pending \o <<above, below>> \in Ranges
  BY <1>8 DEF Ranges
<1>. HIDE DEF below, above
<1>12. CASE i - lo < up - i
  BY <1>3, <1>9, <1>10, <1>11, <1>12, LoopLess
<1>13. CASE ~(i - lo < up - i)
  BY <1>3, <1>9, <1>10, <1>11, <1>13, LoopLess
<1>. QED BY <1>12, <1>13

LEMMA ScanDownLess ==
  ASSUME SafeInvariant, LessInvariant, UNCHANGED <<input, order>>, ScanDown, order = "<"
  PROVE  LessInvariant'
<1>1. sortPc = "P < a[j]" /\ sortPc \notin Ended /\ sortPc \in Scanning
  BY DEF ScanDown, Ended, Scanning
<1>2. /\ n \in Nat /\ lo \in 1 .. n /\ up \in 1 .. n /\ pending \in Ranges
      /\ Filled(a, n) /\ \A k \in 1 .. n : a[k] \in Nat
      /\ SortedBut(a, Append(pending, <<lo, up>>), n)
  BY <1>1, LessReach
<1>3. /\ i \in lo + 1 .. up - 1 /\ P \in Nat /\ a[up - 1] = P
      /\ \A k \in lo .. i - 1 : a[k] <= P
      /\ j \in lo .. up - 2 /\ P <= a[i] /\ \A k \in j + 1 .. up : P <= a[k]
  BY <1>1 DEF LessInvariant, Partitioning
<1>4. /\ lo \in Int /\ up \in Int /\ i \in Int /\ j \in Int /\ j \in 1 .. n
      /\ lo + 1 <= i /\ i <= up - 1 /\ lo <= j /\ j <= up - 2
  BY <1>2, <1>3
<1>5. a[j] \in Nat /\ P \in Nat
  BY <1>2, <1>3, <1>4
<1>6. ~comp_error(P, a[j]) /\ sort_comp(P, a[j]) = {P < a[j]}
  BY <1>5, Comparable
<1>7. \/ /\ P < a[j] /\ j < lo
      \/ /\ P < a[j] /\ j' = j - 1 /\ UNCHANGED <<a, sortPc, lo, up, i, P, pending>>
      \/ /\ ~(P < a[j]) /\ Crossed /\ Partitioned
      \/ /\ ~(P < a[j]) /\ ~Crossed
         /\ a' = set2(a, i, j) /\ i' = i + 1 /\ sortPc' = "a[i] < P"
         /\ UNCHANGED <<lo, up, j, P, pending>>
  BY <1>6 DEF ScanDown
<1>8. CASE P < a[j] /\ j' = j - 1 /\ UNCHANGED <<a, sortPc, lo, up, i, P, pending>>
  <2>1. j' = j - 1 /\ lo' = lo /\ up' = up /\ i' = i /\ P' = P /\ a' = a
    BY <1>8
  <2>2. j # lo
    <3>1. a[lo] <= P
      <4>1. lo \in lo .. i - 1
        BY ONLY <1>4
      <4>. QED BY <1>3, <4>1
    <3>2. ~(a[j] <= P)
      BY <1>5, <1>8
    <3>. QED BY <3>1, <3>2
  <2>3. j' \in lo' .. up' - 2
    BY ONLY <1>4, <2>1, <2>2
  <2>4. \A k \in j' + 1 .. up' : P' <= a'[k]
    <3>1. \A k \in j' + 1 .. up' : k = j \/ k \in j + 1 .. up
      BY ONLY <1>4, <2>1
    <3>2. P <= a[j]
      BY <1>5, <1>8
    <3>. QED BY <1>3, <2>1, <3>1, <3>2
  <2>5. Partitioning'
    BY <1>1, <1>3, <1>8, <2>1, <2>3, <2>4 DEF Partitioning
  <2>. QED BY <1>1, <1>2, <1>8, <2>5, RangeLess DEF Choosing, Scanning
<1>9. CASE Crossed /\ Partitioned
  <2>1. j < i
    BY <1>9 DEF Crossed
  <2>2. \A k \in i .. up : k \in j + 1 .. up
    BY ONLY <1>4, <2>1
  <2>3. \A k \in i .. up : P <= a[k]
    BY <1>3, <2>2
  <2>. QED BY <1>2, <1>3, <1>9, <2>3, PartitionedLess
<1>10. CASE /\ ~(P < a[j]) /\ ~Crossed
            /\ a' = set2(a, i, j) /\ i' = i + 1 /\ sortPc' = "a[i] < P"
            /\ UNCHANGED <<lo, up, j, P, pending>>
  <2>1. i <= j
    <3>1. ~(j < i)
      BY <1>10 DEF Crossed
    <3>. QED BY ONLY <1>4, <3>1
  <2>2. i' = i + 1 /\ lo' = lo /\ up' = up /\ j' = j /\ P' = P
    BY <1>10
  <2>3. i \in lo .. up /\ j \in lo .. up /\ i \in 1 .. n
    <3>1. i \in lo .. up /\ j \in lo .. up
      BY ONLY <1>4
    <3>. QED BY <1>2, <3>1
  <2>4. Filled(a', n) /\ SortedBut(a', Append(pending, <<lo, up>>), n) /\ Exchanged(a', a, i, j)
    BY <1>2, <1>10, <2>3, ExchangeLess
  <2>5. a'[i] = a[j] /\ a'[j] = a[i] /\ \A k \in 1 .. n : k \in {i, j} \/ a'[k] = a[k]
    BY <2>4 DEF Exchanged
  <2>6. a[j] <= P
    <3>1. ~(P < a[j])
      BY <1>10
    <3>. QED BY ONLY <1>5, <3>1
  <2>7. i' \in lo' + 1 .. up' - 1 /\ j' \in lo' + 1 .. up' - 1 /\ up - 1 \notin {i, j}
    BY ONLY <1>4, <2>1, <2>2
  <2>8. a'[up' - 1] = P'
    <3>1. up - 1 \in 1 .. n
      BY <1>2, <1>4
    <3>. QED BY <1>3, <2>2, <2>5, <2>7, <3>1
  <2>9. \A k \in lo' .. i' - 1 : a'[k] <= P'
    <3>1. \A k \in lo' .. i' - 1 : k = i \/ (k \in lo .. i - 1 /\ k \notin {i, j} /\ k \in 1 .. n)
      BY <1>2, <1>4, <2>1, <2>2
    <3>. QED BY <1>3, <2>2, <2>5, <2>6, <3>1
  <2>10. \A k \in j' .. up' : P' <= a'[k]
    <3>1. \A k \in j' .. up' : k = j \/ (k \in j + 1 .. up /\ k \notin {i, j} /\ k \in 1 .. n)
      BY <1>2, <1>4, <2>1, <2>2
    <3>. QED BY <1>3, <2>2, <2>5, <3>1
  <2>11. Partitioning'
    BY <1>3, <1>10, <2>2, <2>7, <2>8, <2>9, <2>10 DEF Partitioning
  <2>. QED BY <1>10, <2>4, <2>11, RangeLess DEF Choosing, Scanning
<1>11. ~(j < lo)
  BY ONLY <1>4
<1>. QED BY <1>7, <1>8, <1>9, <1>10, <1>11

\* The first states, every step, and what follows.
LEMMA LessInit ==
  ASSUME SortInit
  PROVE  LessInvariant
<1>. SUFFICES ASSUME order = "<" PROVE LessInvariant
  BY DEF LessInvariant
<1>1. PICK s \in SortInputs :
         /\ input = [k \in 0 .. Len(s) + 1 |-> IF k \in DOMAIN s THEN s[k] ELSE NoElement]
         /\ lo = 1 /\ up = Len(s) /\ sortPc = IF 1 < Len(s) THEN "a[u] < a[l]" ELSE "done"
  BY DEF SortInit
<1>2. a = input /\ pending = <<>>
  BY DEF SortInit
<1>3. s \in Seq(Nat) /\ Len(s) \in Nat /\ DOMAIN s = 1 .. Len(s) /\ \A k \in 1 .. Len(s) : s[k] \in Nat
  BY SortConstants
<1>4. lo = 1 /\ up = Len(s)
  BY <1>1, Zenon
<1>5. input = [k \in 0 .. Len(s) + 1 |-> IF k \in DOMAIN s THEN s[k] ELSE NoElement]
  BY <1>1, Zenon
<1>6. n = Len(s)
  <2>1. DOMAIN input = 0 .. Len(s) + 1
    BY <1>5
  <2>2. Cardinality(0 .. Len(s) + 1) = Len(s) + 2
    <3>1. 0 \in Int /\ Len(s) + 1 \in Int
      BY <1>3
    <3>. QED BY <1>3, <3>1, FS_Interval
  <2>. QED BY <1>3, <2>1, <2>2 DEF n
<1>. DEFINE size == Len(s)
<1>7. Filled(a, n)
  <2>1. \A k \in 0 .. size + 1 : (IF k \in DOMAIN s THEN s[k] ELSE NoElement) \in Int
    BY <1>3 DEF NoElement
  <2>2. input \in [0 .. size + 1 -> Int]
    BY <1>5, <2>1
  <2>3. 0 \notin DOMAIN s /\ size + 1 \notin DOMAIN s /\ 0 \in 0 .. size + 1 /\ size + 1 \in 0 .. size + 1
    BY <1>3
  <2>4. input[0] = NoElement /\ input[size + 1] = NoElement
    BY <1>5, <2>3
  <2>5. \A k \in 1 .. size : input[k] = s[k]
    BY <1>3, <1>5
  <2>. QED BY <1>2, <1>3, <1>6, <2>2, <2>4, <2>5 DEF Filled
<1>8. CASE 1 < Len(s)
  <2>1. sortPc = "a[u] < a[l]"
    BY <1>1, <1>8
  <2>. DEFINE rs == Append(pending, <<lo, up>>)
  <2>2. Len(rs) = 1 /\ rs[1] = <<lo, up>>
    BY <1>2
  <2>. HIDE DEF rs
  <2>3. \A x, y \in 1 .. n : Together(rs, x, y)
    <3>1. rs[1][1] = 1 /\ rs[1][2] = n
      BY <1>4, <1>6, <2>2
    <3>. QED BY <1>3, <1>6, <2>2, <3>1 DEF Together
  <2>4. SortedBut(a, rs, n)
    BY <2>2, <2>3 DEF SortedBut, Apart
  <2>. QED BY <1>7, <2>1, <2>4 DEF LessInvariant, Choosing, Scanning, rs
<1>9. CASE ~(1 < Len(s))
  <2>1. sortPc = "done"
    BY <1>1, <1>9
  <2>2. SortedBut(a, <<>>, n)
    BY <1>3, <1>6, <1>9 DEF SortedBut, Apart
  <2>. QED BY <1>7, <2>1, <2>2 DEF LessInvariant, Choosing, Scanning
<1>. QED BY <1>8, <1>9

LEMMA LessNext ==
  ASSUME SafeInvariant, LessInvariant, [SortNext]_sortVars
  PROVE  LessInvariant'
<1>1. CASE UNCHANGED sortVars
  BY <1>1 DEF LessInvariant, Partitioning, sortVars, n
<1>2. CASE SortNext
  <2>1. UNCHANGED <<input, order>>
    BY <1>2 DEF SortNext
  <2>2. CASE order # "<"
    BY <2>1, <2>2 DEF LessInvariant
  <2>3. CASE order = "<"
    BY <1>2, <2>1, <2>3, FirstPairLess, MiddleLess, MiddleHighLess, ScanUpLess, ScanDownLess DEF SortNext
  <2>. QED BY <2>2, <2>3
<1>. QED BY <1>1, <1>2

LEMMA LessImplies ==
  ASSUME SafeInvariant, LessInvariant
  PROVE  SortsByLess
<1>. SUFFICES ASSUME order = "<"
              PROVE  /\ sortPc # "error" /\ a[0] = NoElement /\ a[n + 1] = NoElement
                     /\ sortPc = "done" => \A k \in 1 .. n - 1 : a[k] <= a[k + 1]
                     /\ sortPc = "a[i] < P" =>
                          (\A k \in lo .. i - 1 : a[k] <= P) /\ (\A k \in j .. up : P <= a[k])
  BY DEF SortsByLess
<1>1. sortPc # "error" /\ Filled(a, n) /\ n \in Nat
  BY DEF LessInvariant, SafeInvariant, Permuted
<1>2. ASSUME sortPc = "done" PROVE \A k \in 1 .. n - 1 : a[k] <= a[k + 1]
  <2>1. \A x, y \in 1 .. n : x < y /\ ~Together(<<>>, x, y) => a[x] <= a[y]
    BY <1>2 DEF LessInvariant, SortedBut
  <2>2. \A x, y \in 1 .. n : ~Together(<<>>, x, y)
    BY DEF Together
  <2>3. \A k \in 1 .. n - 1 : k \in 1 .. n /\ k + 1 \in 1 .. n /\ k < k + 1
    BY <1>1
  <2>. QED BY <2>1, <2>2, <2>3
<1>3. ASSUME sortPc = "a[i] < P" PROVE (\A k \in lo .. i - 1 : a[k] <= P) /\ (\A k \in j .. up : P <= a[k])
  BY <1>3 DEF LessInvariant, Partitioning, Scanning
<1>. QED BY <1>1, <1>2, <1>3 DEF Filled

\* With "<", table.sort sorts.
THEOREM SortSorts == SortSpec => []SortsByLess
<1>1. SortInit => SafeInvariant /\ LessInvariant
  BY SafeInit, LessInit
<1>2. SafeInvariant /\ LessInvariant /\ [SortNext]_sortVars => (SafeInvariant /\ LessInvariant)'
  BY SafeNext, LessNext
<1>3. SafeInvariant /\ LessInvariant => SortsByLess
  BY LessImplies
<1>. QED BY <1>1, <1>2, <1>3, PTL DEF SortSpec
=============================================================================
