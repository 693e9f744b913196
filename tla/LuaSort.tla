------------------------------ MODULE LuaSort ------------------------------
(***************************************************************************)
(* table.sort (ltablib.c): a quicksort that asks the order function for    *)
(* each comparison, one comparison at a step.  The order is "<" on the     *)
(* elements, or a function that answers as it likes and may fail.  The     *)
(* function leaves the table alone.                                        *)
(***************************************************************************)
EXTENDS Integers, Sequences, FiniteSets

CONSTANTS
    SortInputs,     \* the arrays to sort, sequences of numbers
    UnorderedInputs \* the arrays that an arbitrary order function sorts

ASSUME SortConstants == SortInputs \cup UnorderedInputs \subseteq Seq(Nat)

VARIABLES
    input,    \* the table as it was given, at the indices 0 .. n + 1
    a,        \* the table
    order,    \* "<" or "any"
    sortPc,   \* the comparison that comes next, or "done" or "error"
    lo, up,   \* l and u of the running auxsort
    i, j, P,  \* its i, j and pivot
    pending   \* <<l, u>> of the auxsorts that wait for a recursive call

sortVars == <<input, a, order, sortPc, lo, up, i, j, P, pending>>

NoElement == -1  \* nil, which "<" refuses to compare
n == Cardinality(DOMAIN input) - 2

\* The answers to "x < y": those of "<", or any a function may give.
sort_comp(x, y) ==
    IF order = "any" THEN BOOLEAN ELSE IF NoElement \in {x, y} THEN {} ELSE {x < y}

invalid_order == sortPc' = "error" /\ UNCHANGED <<a, lo, up, i, j, P, pending>>

\* The comparison fails: "<" on nil, or an error in the function.
comp_error(x, y) == (order = "any" \/ NoElement \in {x, y}) /\ invalid_order

\* The table with two elements exchanged.
set2(t, x, y) == [t EXCEPT ![x] = t[y], ![y] = t[x]]

\* while (l < u): the innermost range of two or more elements comes next.
\* One that has fewer ends its auxsort.
while(ranges) ==
    LET open == {k \in DOMAIN ranges : ranges[k][1] < ranges[k][2]}
        last == CHOOSE k \in open : \A m \in open : m <= k
    IN  IF open = {}
        THEN sortPc' = "done" /\ pending' = <<>> /\ UNCHANGED <<lo, up>>
        ELSE /\ sortPc' = "a[u] < a[l]"
             /\ lo' = ranges[last][1] /\ up' = ranges[last][2]
             /\ pending' = SubSeq(ranges, 1, last - 1)

\* Mutant: the loop goes on with the range it has sorted.
break_continue == while(Append(pending, <<lo, up>>)) /\ UNCHANGED <<i, j, P>>

break == while(pending) /\ UNCHANGED <<i, j, P>>

\* Two elements are sorted by the first comparison.
FirstPair ==
    LET Then(less) ==
          /\ a' = IF less THEN set2(a, lo, up) ELSE a
          /\ IF up - lo = 1 THEN break
             ELSE /\ sortPc' = "a[i] < a[l]" /\ i' = (lo + up) \div 2
                  /\ UNCHANGED <<lo, up, j, P, pending>>
    IN  sortPc = "a[u] < a[l]" /\ (comp_error(a[up], a[lo]) \/ \E less \in sort_comp(a[up], a[lo]) : Then(less))

\* The median of three is the pivot and is put aside at u - 1.
Pivot(t) ==
    IF up - lo = 2 THEN a' = t /\ break
    ELSE /\ P' = t[i] /\ a' = set2(t, i, up - 1)
         /\ i' = lo + 1 /\ j' = up - 1 /\ sortPc' = "a[i] < P"
         /\ UNCHANGED <<lo, up, pending>>

Middle ==
    LET Then(less) ==
          IF less THEN Pivot(set2(a, i, lo))
          ELSE sortPc' = "a[u] < a[i]" /\ UNCHANGED <<a, lo, up, i, j, P, pending>>
    IN  sortPc = "a[i] < a[l]" /\ (comp_error(a[i], a[lo]) \/ \E less \in sort_comp(a[i], a[lo]) : Then(less))

MiddleHigh ==
    LET Then(less) == Pivot(IF less THEN set2(a, i, up) ELSE a)
    IN  sortPc = "a[u] < a[i]" /\ (comp_error(a[up], a[i]) \/ \E less \in sort_comp(a[up], a[i]) : Then(less))

\* "repeat ++i until a[i] >= P"
ScanUp ==
    LET Then(less) ==
          \/ less /\ i > up /\ invalid_order
          \/ less /\ i <= up /\ i' = i + 1 /\ UNCHANGED <<a, sortPc, lo, up, j, P, pending>>
          \/ /\ ~less /\ j' = j - 1 /\ sortPc' = "P < a[j]"
             /\ UNCHANGED <<a, lo, up, i, P, pending>>
    IN  sortPc = "a[i] < P" /\ (comp_error(a[i], P) \/ \E less \in sort_comp(a[i], P) : Then(less))

\* Mutant: the larger part is the one sorted by the recursive call.
Partitioned_larger ==
    /\ a' = set2(a, up - 1, i)
    /\ while(pending \o IF i - lo < up - i THEN <<<<lo, i - 1>>, <<i + 1, up>>>>
                                           ELSE <<<<i + 1, up>>, <<lo, i - 1>>>>)
    /\ UNCHANGED <<i, j, P>>

\* The pivot goes between the parts; the recursive call sorts the smaller
\* part and then the loop the larger one.
Partitioned ==
    /\ a' = set2(a, up - 1, i)
    /\ while(pending \o IF i - lo < up - i THEN <<<<i + 1, up>>, <<lo, i - 1>>>>
                                           ELSE <<<<lo, i - 1>>, <<i + 1, up>>>>)
    /\ UNCHANGED <<i, j, P>>

\* Mutant: the scans stop one comparison too early.
Crossed_early == j <= i + 1

Crossed == j < i

\* "repeat --j until a[j] <= P", then an exchange or the end of the partition.
ScanDown ==
    LET Then(less) ==
          \/ less /\ j < lo /\ invalid_order
          \/ less /\ j >= lo /\ j' = j - 1 /\ UNCHANGED <<a, sortPc, lo, up, i, P, pending>>
          \/ ~less /\ Crossed /\ Partitioned
          \/ /\ ~less /\ ~Crossed
             /\ a' = set2(a, i, j) /\ i' = i + 1 /\ sortPc' = "a[i] < P"
             /\ UNCHANGED <<lo, up, j, P, pending>>
    IN  sortPc = "P < a[j]" /\ (comp_error(P, a[j]) \/ \E less \in sort_comp(P, a[j]) : Then(less))

\* sort: the table has its length and nothing at 0 and n + 1.
SortInit ==
    /\ order \in {"<", "any"}
    /\ \E s \in IF order = "<" THEN SortInputs ELSE UnorderedInputs :
         /\ input = [k \in 0 .. Len(s) + 1 |-> IF k \in DOMAIN s THEN s[k] ELSE NoElement]
         /\ lo = 1 /\ up = Len(s)
         /\ sortPc = IF 1 < Len(s) THEN "a[u] < a[l]" ELSE "done"
    /\ a = input /\ i = 0 /\ j = 0 /\ P = 0 /\ pending = <<>>

SortIdle ==
    /\ order = "<" /\ input = [k \in 0 .. 1 |-> NoElement] /\ lo = 1 /\ up = 0 /\ sortPc = "done"
    /\ a = input /\ i = 0 /\ j = 0 /\ P = 0 /\ pending = <<>>

SortNext ==
    /\ FirstPair \/ Middle \/ MiddleHigh \/ ScanUp \/ ScanDown
    /\ UNCHANGED <<input, order>>

SortSpec == SortInit /\ [][SortNext]_sortVars

(***************************************************************************)
(* Properties.                                                             *)
(***************************************************************************)
\* 2^m (lobject.h)
twopower(m) == LET p[k \in 0 .. m] == IF k = 0 THEN 1 ELSE 2 * p[k - 1] IN p[m]

\* Whatever the order function answers and wherever it fails, no element is
\* lost or doubled, the scans stay within one place of the range they
\* partition, and the recursion is at most log2(n) deep: each level has at
\* most half of the elements of the one below (auxsort, set2, "invalid order
\* function for sorting", "assume array is smaller than 2^40").
SortSafe ==
    /\ \A v \in {input[k] : k \in DOMAIN input} :
         Cardinality({k \in DOMAIN a : a[k] = v}) = Cardinality({k \in DOMAIN input : input[k] = v})
    /\ sortPc \in {"a[i] < P", "P < a[j]"} => i \in lo .. up + 1 /\ j \in lo - 1 .. up
    /\ sortPc \notin {"done", "error"} => (up - lo + 1) * twopower(Len(pending)) <= n

\* With "<" no comparison fails, the array ends sorted and nothing moves in
\* or out of it; on the way the partition keeps the invariant that its
\* comment states, a[l..i] <= P <= a[j..u] (auxsort).
SortsByLess ==
    order = "<" =>
      /\ sortPc # "error" /\ a[0] = NoElement /\ a[n + 1] = NoElement
      /\ sortPc = "done" => \A k \in 1 .. n - 1 : a[k] <= a[k + 1]
      /\ sortPc = "a[i] < P" =>
           (\A k \in lo .. i - 1 : a[k] <= P) /\ (\A k \in j .. up : P <= a[k])
=============================================================================
