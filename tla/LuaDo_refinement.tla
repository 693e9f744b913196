---------------------------- MODULE LuaDo_refinement ----------------------------
EXTENDS LuaDo_proof

(***************************************************************************)
(* The coroutines are the abstract ones.                                   *)
(***************************************************************************)

\* The threads that the lowest frames have resumed.
resumedTo(cs) ==
  CHOOSE c : c = [i \in 0..Len(cs) |->
                    IF i = 0 THEN <<Main>> ELSE IF cs[i].k = "resume" THEN Append(c[i - 1], cs[i].th)
                    ELSE c[i - 1]]

\* The chain of a C stack is built from the bottom, frame by frame.
LEMMA ResumedFacts ==
  ASSUME NEW cs \in Seq(Frames)
  PROVE  /\ resumed(cs) = resumedTo(cs)[Len(cs)]
         /\ resumedTo(cs)[0] = <<Main>>
         /\ \A i \in 1..Len(cs) :
              resumedTo(cs)[i] = IF cs[i].k = "resume" THEN Append(resumedTo(cs)[i - 1], cs[i].th)
                                 ELSE resumedTo(cs)[i - 1]
<1>. DEFINE V == Seq(Threads)
            P(c) == c = [i \in 0..Len(cs) |->
                           IF i = 0 THEN <<Main>> ELSE IF cs[i].k = "resume" THEN Append(c[i - 1], cs[i].th)
                           ELSE c[i - 1]]
            G(i) == [v \in V |-> IF cs[i].k = "resume" THEN Append(v, cs[i].th) ELSE v]
            g == [i \in 1..Len(cs) |-> G(i)]
<1>1. resumed(cs) = resumedTo(cs)[Len(cs)]
  BY DEF resumed, resumedTo
<1>2. \A i \in 1..Len(cs) : cs[i].th \in Threads
  BY FrameFacts
<1>3. g \in [1..Len(cs) -> [V -> V]] /\ Len(cs) \in Nat /\ <<Main>> \in V
  <2>1. ASSUME NEW i \in 1..Len(cs) PROVE G(i) \in [V -> V]
    <3>1. ASSUME NEW v \in V PROVE Append(v, cs[i].th) \in V
      BY <1>2
    <3>. HIDE DEF V
    <3>. QED BY <3>1
  <2>2. <<Main>> \in V
    BY LimitFacts
  <2>. HIDE DEF V, G
  <2>. QED BY <2>1, <2>2
<1>4. PICK c \in [0..Len(cs) -> V] : IsRecursion(c, <<Main>>, Len(cs), g)
  <2>. HIDE DEF g, V
  <2>. QED BY <1>3, Recursion
<1>5. P(c)
  <2>1. ASSUME NEW i \in 0..Len(cs)
        PROVE  c[i] = IF i = 0 THEN <<Main>> ELSE IF cs[i].k = "resume" THEN Append(c[i - 1], cs[i].th)
                      ELSE c[i - 1]
    <3>1. CASE i = 0
      BY <1>4, <3>1 DEF IsRecursion
    <3>2. CASE i # 0
      <4>1. i \in 1..Len(cs) /\ i - 1 \in 0..Len(cs)
        BY <1>3, <3>2
      <4>2. c[i - 1] \in V /\ c[i] = g[i][c[i - 1]]
        BY <1>4, <4>1 DEF IsRecursion
      <4>3. g[i] = G(i)
        BY <4>1
      <4>. HIDE DEF g, V
      <4>. QED BY <3>2, <4>2, <4>3
    <3>. QED BY <3>1, <3>2
  <2>. HIDE DEF V
  <2>. QED BY <2>1
<1>6. P(resumedTo(cs))
  <2>1. resumedTo(cs) = CHOOSE c2 : P(c2)
    BY DEF resumedTo
  <2>. HIDE DEF P
  <2>. QED BY <1>5, <2>1
<1>. HIDE DEF g, V
<1>7. resumedTo(cs)[0] = <<Main>>
  BY <1>3, <1>6
<1>8. ASSUME NEW i \in 1..Len(cs)
      PROVE  resumedTo(cs)[i] = IF cs[i].k = "resume" THEN Append(resumedTo(cs)[i - 1], cs[i].th)
                                ELSE resumedTo(cs)[i - 1]
  <2>. DEFINE c2 == resumedTo(cs)
  <2>1. i \in 0..Len(cs) /\ i # 0
    BY <1>3
  <2>2. c2 = [j \in 0..Len(cs) |->
                IF j = 0 THEN <<Main>> ELSE IF cs[j].k = "resume" THEN Append(c2[j - 1], cs[j].th)
                ELSE c2[j - 1]]
    BY <1>6
  <2>. HIDE DEF c2
  <2>3. c2[i] = IF i = 0 THEN <<Main>> ELSE IF cs[i].k = "resume" THEN Append(c2[i - 1], cs[i].th)
                ELSE c2[i - 1]
    BY <2>1, <2>2
  <2>. QED BY <2>1, <2>3 DEF c2
<1>. QED BY <1>1, <1>7, <1>8

\* A resume adds its thread to the chain; no other frame does.
LEMMA ResumedAppend ==
  /\ resumed(<<>>) = <<Main>>
  /\ \A cs \in Seq(Frames), f \in Frames :
       resumed(Append(cs, f)) = IF f.k = "resume" THEN Append(resumed(cs), f.th) ELSE resumed(cs)
<1>1. resumed(<<>>) = <<Main>>
  <2>1. <<>> \in Seq(Frames) /\ Len(<<>>) = 0
    OBVIOUS
  <2>. QED BY <2>1, ResumedFacts
<1>2. ASSUME NEW cs \in Seq(Frames), NEW f \in Frames
      PROVE  resumed(Append(cs, f)) = IF f.k = "resume" THEN Append(resumed(cs), f.th) ELSE resumed(cs)
  <2>. DEFINE ds == Append(cs, f)
  <2>1. /\ ds \in Seq(Frames) /\ Len(ds) = Len(cs) + 1 /\ ds[Len(cs) + 1] = f
        /\ \A i \in 1..Len(cs) : ds[i] = cs[i]
    BY Appended
  <2>. HIDE DEF ds
  <2>2. Len(cs) \in Nat
    OBVIOUS
  <2>3. \A i \in 1..Len(cs) :
          resumedTo(cs)[i] = IF cs[i].k = "resume" THEN Append(resumedTo(cs)[i - 1], cs[i].th)
                             ELSE resumedTo(cs)[i - 1]
    BY ResumedFacts
  <2>4. ASSUME NEW i \in 1..Len(cs)
        PROVE  resumedTo(ds)[i] = IF cs[i].k = "resume" THEN Append(resumedTo(ds)[i - 1], cs[i].th)
                                  ELSE resumedTo(ds)[i - 1]
    <3>1. i \in 1..Len(ds) /\ ds[i] = cs[i]
      BY <2>1, <2>2
    <3>. QED BY <2>1, <3>1, ResumedFacts
  <2>5. resumedTo(ds)[0] = resumedTo(cs)[0]
    BY <2>1, ResumedFacts
  <2>6. \A i \in 0..Len(cs) : resumedTo(ds)[i] = resumedTo(cs)[i]
    <3>1. \A i \in 1..Len(cs) : resumedTo(ds)[i - 1] = resumedTo(cs)[i - 1] => resumedTo(ds)[i] = resumedTo(cs)[i]
      BY <2>3, <2>4
    <3>2. Len(cs) \in Nat /\ resumedTo(ds)[0] = resumedTo(cs)[0]
      BY <2>2, <2>5
    <3>. QED BY ONLY <3>1, <3>2, SameRecursion, ZenonT(60)
  <2>7. resumedTo(ds)[Len(cs) + 1] =
          IF f.k = "resume" THEN Append(resumedTo(ds)[Len(cs)], f.th) ELSE resumedTo(ds)[Len(cs)]
    <3>1. Len(cs) + 1 \in 1..Len(ds) /\ Len(cs) + 1 - 1 = Len(cs)
      BY <2>1, <2>2
    <3>. QED BY <2>1, <3>1, ResumedFacts
  <2>8. resumedTo(ds)[Len(cs)] = resumedTo(cs)[Len(cs)]
    BY <2>2, <2>6
  <2>9. resumed(ds) = resumedTo(ds)[Len(cs) + 1] /\ resumed(cs) = resumedTo(cs)[Len(cs)]
    BY <2>1, ResumedFacts
  <2>. QED BY <2>7, <2>8, <2>9 DEF ds
<1>. QED BY <1>1, <1>2

\* The chain is one of threads, and ends with the thread on top.
LEMMA ResumedType ==
  ASSUME NEW cs, Stack(cs)
  PROVE  /\ resumed(cs) \in Seq(Threads) /\ Len(resumed(cs)) \in Nat \ {0}
         /\ cs # <<>> => resumed(cs)[Len(resumed(cs))] = cs[Len(cs)].th
<1>. DEFINE R(i) == resumed(SubSeq(cs, 1, i))
            Ends(i) == /\ R(i) \in Seq(Threads) /\ Len(R(i)) \in Nat \ {0}
                       /\ i # 0 => R(i)[Len(R(i))] = cs[i].th
                       /\ i = 0 => R(i) = <<Main>>
            S == {i \in 0..Len(cs) : Ends(i)}
<1>1. cs \in Seq(Frames) /\ Len(cs) \in Nat
  BY DEF Stack
<1>2. SubSeq(cs, 1, 0) = <<>> /\ SubSeq(cs, 1, Len(cs)) = cs
  BY <1>1
<1>3. 0 \in S
  <2>1. R(0) = <<Main>>
    BY <1>2, ResumedAppend
  <2>2. <<Main>> \in Seq(Threads) /\ Len(<<Main>>) \in Nat \ {0}
    BY LimitFacts
  <2>. HIDE DEF R
  <2>3. Ends(0)
    BY <2>1, <2>2
  <2>4. 0 \in 0..Len(cs)
    BY <1>1
  <2>. HIDE DEF Ends
  <2>. QED BY <2>3, <2>4
<1>4. ASSUME NEW i \in 0..Len(cs) - 1, i \in S PROVE i + 1 \in S
  <2>. DEFINE f == cs[i + 1]
  <2>1. i + 1 \in 1..Len(cs) /\ i + 1 - 1 = i /\ i \in Nat /\ i + 1 # 0
    BY <1>1
  <2>2. /\ SubSeq(cs, 1, i + 1) = Append(SubSeq(cs, 1, i), f)
        /\ SubSeq(cs, 1, i) \in Seq(Frames) /\ f \in Frames
    BY <1>1, <2>1, TopPart
  <2>3. R(i + 1) = IF f.k = "resume" THEN Append(R(i), f.th) ELSE R(i)
    <3>. DEFINE p == SubSeq(cs, 1, i)
    <3>1. p \in Seq(Frames) /\ f \in Frames /\ SubSeq(cs, 1, i + 1) = Append(p, f)
      BY <2>2
    <3>. HIDE DEF p, f
    <3>2. resumed(Append(p, f)) = IF f.k = "resume" THEN Append(resumed(p), f.th) ELSE resumed(p)
      BY <3>1, ResumedAppend
    <3>. QED BY <3>1, <3>2 DEF p
  <2>4. f.th \in Threads /\ (i + 1 = 1 => f.k = "pcall" /\ f.th = Main)
    BY <2>1, StackOrder
  <2>5. i # 0 /\ f.k # "resume" => f.th = cs[i].th
    <3>. DEFINE j == i + 1
    <3>1. j \in 1..Len(cs) /\ j - 1 = i
      BY <2>1
    <3>2. i # 0 => j > 1
      BY <2>1
    <3>. HIDE DEF j
    <3>3. j > 1 => (cs[j].k # "resume" => cs[j].th = cs[j - 1].th)
      BY <3>1, StackOrder
    <3>. QED BY <3>1, <3>2, <3>3 DEF j
  <2>6. Ends(i)
    BY <1>4
  <2>. HIDE DEF R, f
  <2>7. CASE f.k = "resume"
    <3>1. R(i) \in Seq(Threads) /\ f.th \in Threads /\ R(i + 1) = Append(R(i), f.th)
      BY <2>3, <2>4, <2>6, <2>7
    <3>. DEFINE a == R(i)
                b == Append(a, f.th)
    <3>. HIDE DEF a
    <3>2. b \in Seq(Threads) /\ Len(b) \in Nat \ {0} /\ b[Len(b)] = f.th
      BY <3>1 DEF a
    <3>3. Ends(i + 1)
      BY <2>1, <3>1, <3>2 DEF f, a
    <3>. QED BY <2>1, <3>3
  <2>8. CASE f.k # "resume"
    <3>1. R(i + 1) = R(i)
      BY <2>3, <2>8
    <3>2. R(i)[Len(R(i))] = f.th
      <4>1. CASE i = 0
        <5>1. R(i) = <<Main>>
          BY <2>6, <4>1
        <5>2. f.th = Main
          BY <2>4, <4>1
        <5>. QED BY <5>1, <5>2
      <4>2. CASE i # 0
        BY <2>5, <2>6, <2>8, <4>2
      <4>. QED BY <4>1, <4>2
    <3>3. Ends(i + 1)
      BY <2>1, <2>6, <3>1, <3>2 DEF f
    <3>. QED BY <2>1, <3>3
  <2>. QED BY <2>7, <2>8
<1>5. 0..Len(cs) \subseteq S
  <2>. HIDE DEF S
  <2>. QED BY <1>1, <1>3, <1>4, BoundedInduction
<1>6. Ends(Len(cs)) /\ R(Len(cs)) = resumed(cs) /\ (cs # <<>> => Len(cs) # 0)
  <2>1. Len(cs) \in S
    BY <1>1, <1>5
  <2>. QED BY <1>1, <1>2, <2>1
<1>. HIDE DEF R
<1>. QED BY <1>6

(***************************************************************************)
(* The state of a thread, as the abstract specification names it, from its *)
(* record alone unless it runs.                                            *)
(***************************************************************************)
look(l) ==
  CASE l.status = "none" -> "none"
    [] l.status = "LUA_YIELD" -> "suspended"
    [] l.status = "0" -> IF Len(l.ci) > 1 THEN "normal" ELSE IF l.top = "none" THEN "dead" ELSE "initial"
    [] OTHER -> "dead"

seen(T, cs, c, t) ==
  IF c = "exit" THEN IF t = Main THEN "dead" ELSE look(T[t])
  ELSE IF t = cs[Len(cs)].th THEN "running" ELSE look(T[t])

\* The body of a coroutine is on its stack only before it starts, and until
\* lua_resume has called it.
Bodies(T, cs, c) ==
  /\ T[Main].status # "none"
  /\ \A t \in Threads : T[t].top # "none" =>
       /\ T[t].status # "LUA_YIELD"
       /\ framesOf(cs, t) # {} => /\ c \in {"precall", "errormsg"} /\ cs[Len(cs)].k = "resume"
                                  /\ cs[Len(cs)].th = t

AInv == IInv /\ Bodies(L, cstack, ctl)

\* The thread on top has frames, hence is not one that does not exist.
LEMMA TopExists ==
  ASSUME NEW T, NEW cs, NEW c, Good(T, cs, c), Bodies(T, cs, c)
  PROVE  /\ T \in [Threads -> States]
         /\ c # "exit" => cs # <<>> /\ cs[Len(cs)].th \in Threads /\ T[cs[Len(cs)].th].status \in {"0", "LUA_YIELD"}
<1>1. T \in [Threads -> States] /\ Stack(cs) /\ (c = "exit" <=> cs = <<>>)
  BY DEF Good, Accounts, Control
<1>2. ASSUME c # "exit" PROVE cs # <<>> /\ cs[Len(cs)].th \in Threads /\ T[cs[Len(cs)].th].status \in {"0", "LUA_YIELD"}
  <2>1. cs # <<>>
    BY <1>1, <1>2
  <2>. DEFINE r == cs[Len(cs)].th
  <2>2. r \in Threads /\ Len(cs) \in 1..Len(cs)
    BY <1>1, <2>1, StackTop
  <2>3. framesOf(cs, r) # {}
    BY <2>2 DEF framesOf
  <2>4. T[r].status \in {"0", "LUA_YIELD"}
    BY <2>2, <2>3 DEF Good, Active
  <2>. QED BY <2>1, <2>2, <2>4
<1>. QED BY <1>1, <1>2

\* The abstract state, before a step and after it.
LEMMA SeenNow ==
  ASSUME AInv
  PROVE  [t \in Threads |-> stateOf(t)] = [t \in Threads |-> seen(L, cstack, ctl, t)]
<1>1. /\ L \in [Threads -> States] /\ L[Main].status # "none"
      /\ ctl # "exit" => running \in Threads /\ L[running].status \in {"0", "LUA_YIELD"}
  BY TopExists DEF AInv, IInv, Bodies, running, top
<1>2. ASSUME NEW t \in Threads PROVE stateOf(t) = seen(L, cstack, ctl, t)
  <2>1. L[t].status \in {"none", "0", "LUA_YIELD", "error"}
    BY <1>1 DEF States
  <2>2. CASE ctl = "exit"
    <3>1. CASE t = Main
      BY <1>1, <2>2, <3>1 DEF stateOf, seen
    <3>2. CASE t # Main
      BY <2>1, <2>2, <3>2 DEF stateOf, seen, costatus, observer, look
    <3>. QED BY <3>1, <3>2
  <2>3. CASE ctl # "exit"
    <3>1. CASE t = running
      BY <1>1, <2>3, <3>1 DEF stateOf, seen, costatus, observer, running, top
    <3>2. CASE t # running
      BY <2>1, <2>3, <3>2 DEF stateOf, seen, costatus, observer, look, running, top
    <3>. QED BY <3>1, <3>2
  <2>. QED BY <2>2, <2>3
<1>. QED BY <1>2

\* The same of the state that a step leaves.
LEMMA SeenNext ==
  ASSUME AInv'
  PROVE  [t \in Threads |-> stateOf(t)]' = [t \in Threads |-> seen(L', cstack', ctl', t)]
<1>1. /\ L' \in [Threads -> States] /\ L'[Main].status # "none"
      /\ ctl' # "exit" => running' \in Threads /\ L'[running'].status \in {"0", "LUA_YIELD"}
  BY TopExists DEF AInv, IInv, Bodies, running, top
<1>2. ASSUME NEW t \in Threads PROVE stateOf(t)' = seen(L', cstack', ctl', t)
  <2>1. L'[t].status \in {"none", "0", "LUA_YIELD", "error"}
    BY <1>1 DEF States
  <2>2. CASE ctl' = "exit"
    <3>1. CASE t = Main
      BY <1>1, <2>2, <3>1 DEF stateOf, seen
    <3>2. CASE t # Main
      BY <2>1, <2>2, <3>2 DEF stateOf, seen, costatus, observer, look
    <3>. QED BY <3>1, <3>2
  <2>3. CASE ctl' # "exit"
    <3>1. CASE t = running'
      BY <1>1, <2>3, <3>1 DEF stateOf, seen, costatus, observer, running, top
    <3>2. CASE t # running'
      BY <2>1, <2>3, <3>2 DEF stateOf, seen, costatus, observer, look, running, top
    <3>. QED BY <3>1, <3>2
  <2>. QED BY <2>2, <2>3
<1>. QED BY <1>2


(***************************************************************************)
(* Steps of one thread.  They add, exchange or drop its own C functions,   *)
(* and mean nothing to the coroutines.                                     *)
(***************************************************************************)
Moves(cs, ds, r) ==
  /\ ds \in Seq(Frames) /\ ds # <<>> /\ ds[Len(ds)].th = r
  /\ resumed(ds) = resumed(cs)
  /\ \A t \in Threads \ {r} : framesOf(ds, t) = framesOf(cs, t)

\* A C function that resumes nothing is pushed.
LEMMA MovePush ==
  ASSUME NEW cs \in Seq(Frames), NEW f \in Frames, f.k # "resume"
  PROVE  Moves(cs, Append(cs, f), f.th)
<1>. DEFINE ds == Append(cs, f)
<1>1. /\ ds \in Seq(Frames) /\ Len(ds) = Len(cs) + 1 /\ ds[Len(cs) + 1] = f /\ Len(cs) \in Nat
      /\ \A i \in 1..Len(cs) : ds[i] = cs[i]
  BY Appended
<1>2. resumed(ds) = resumed(cs)
  BY ResumedAppend
<1>. HIDE DEF ds
<1>3. ASSUME NEW t \in Threads \ {f.th} PROVE framesOf(ds, t) = framesOf(cs, t)
  <2>1. \A i \in 1..Len(ds) : ds[i].th = t => i \in 1..Len(cs)
    BY <1>1, <1>3
  <2>2. \A i \in 1..Len(cs) : i \in 1..Len(ds)
    BY <1>1
  <2>. QED BY <1>1, <2>1, <2>2 DEF framesOf
<1>4. ds # <<>> /\ ds[Len(ds)].th = f.th
  BY <1>1
<1>. QED BY <1>1, <1>2, <1>3, <1>4 DEF Moves, ds

\* Two such moves make one.
LEMMA MoveTwice ==
  ASSUME NEW a, NEW b, NEW c, NEW r, Moves(a, b, r), Moves(b, c, r)
  PROVE  Moves(a, c, r)
BY DEF Moves

\* A C stack that stays as it is has moved by nothing.
LEMMA MoveNot ==
  ASSUME NEW cs \in Seq(Frames), cs # <<>>
  PROVE  Moves(cs, cs, cs[Len(cs)].th)
BY DEF Moves

\* C functions of one thread are dropped from the top, down to position m.
LEMMA MoveCut ==
  ASSUME NEW cs, Stack(cs), NEW r, NEW m \in 1..Len(cs), cs[m].th = r,
         \A i \in m + 1..Len(cs) : cs[i].th = r /\ cs[i].k # "resume"
  PROVE  Moves(cs, SubSeq(cs, 1, m), r)
<1>. DEFINE P(i) == SubSeq(cs, 1, i)
            S == {n \in Nat : n <= Len(cs) - m => Moves(P(m), P(m + n), r)}
<1>1. cs \in Seq(Frames) /\ Len(cs) \in Nat /\ m \in Nat
  BY DEF Stack
<1>2. ASSUME NEW i \in 1..Len(cs) PROVE P(i) \in Seq(Frames) /\ Len(P(i)) = i /\ P(i)[i] = cs[i]
  <2>1. i \in 0..Len(cs) /\ i \in 1..i
    BY <1>1
  <2>. QED BY <1>1, <2>1, Prefix
<1>3. 0 \in S
  <2>1. P(m) \in Seq(Frames) /\ P(m) # <<>> /\ P(m)[Len(P(m))].th = r
    BY <1>1, <1>2
  <2>2. Moves(P(m), P(m), r)
    <3>. DEFINE p == P(m)
    <3>. HIDE DEF p
    <3>1. p \in Seq(Frames) /\ p # <<>> /\ p[Len(p)].th = r
      BY <2>1 DEF p
    <3>2. Moves(p, p, r)
      BY <3>1, MoveNot
    <3>. QED BY <3>2 DEF p
  <2>3. m + 0 = m
    BY <1>1
  <2>. QED BY <2>2, <2>3
<1>4. ASSUME NEW n \in Nat, n \in S PROVE n + 1 \in S
  <2>. SUFFICES ASSUME n + 1 <= Len(cs) - m PROVE Moves(P(m), P(m + (n + 1)), r)
    OBVIOUS
  <2>1. m + n + 1 \in m + 1..Len(cs) /\ m + n + 1 \in 1..Len(cs) /\ m + n + 1 - 1 = m + n /\ m + (n + 1) = m + n + 1
    BY <1>1
  <2>2. Moves(P(m), P(m + n), r)
    BY <1>1, <1>4
  <2>. DEFINE i == m + n + 1
              f == cs[i]
              p == P(m + n)
  <2>3. P(i) = Append(p, f) /\ p \in Seq(Frames) /\ f \in Frames
    <3>1. i \in 1..Len(cs) /\ cs \in Seq(Frames) /\ i - 1 = m + n
      BY <1>1, <2>1
    <3>2. SubSeq(cs, 1, i) = Append(SubSeq(cs, 1, i - 1), cs[i]) /\ SubSeq(cs, 1, i - 1) \in Seq(Frames) /\ cs[i] \in Frames
      BY ONLY <3>1, TopPart
    <3>. QED BY <3>1, <3>2
  <2>4. f.th = r /\ f.k # "resume"
    BY <2>1
  <2>. HIDE DEF f, p
  <2>5. Moves(p, Append(p, f), r)
    BY <2>3, <2>4, MovePush
  <2>6. Moves(P(m), p, r)
    BY <2>2 DEF p
  <2>. HIDE DEF P
  <2>7. Moves(P(m), Append(p, f), r)
    BY <2>5, <2>6, MoveTwice
  <2>. QED BY <2>1, <2>3, <2>7
<1>5. \A n \in Nat : n \in S
  <2>. HIDE DEF S
  <2>. QED BY <1>3, <1>4, SetInduction
<1>6. Moves(P(m), P(Len(cs)), r)
  <2>1. Len(cs) - m \in Nat /\ m + (Len(cs) - m) = Len(cs)
    BY <1>1
  <2>. QED BY <1>5, <2>1
<1>7. P(Len(cs)) = cs
  BY <1>1
<1>8. P(m) \in Seq(Frames) /\ P(m) # <<>> /\ P(m)[Len(P(m))].th = r
  BY <1>1, <1>2
<1>. HIDE DEF P
<1>9. Moves(cs, P(m), r)
  BY <1>6, <1>7, <1>8 DEF Moves
<1>. QED BY <1>9 DEF P

(***************************************************************************)
(* What a step has to show: the body invariant, and a step of the abstract *)
(* coroutines or none.                                                     *)
(***************************************************************************)
Refines == Abstract!Next \/ UNCHANGED <<[t \in Threads |-> stateOf(t)], chainOf>>

\* Nothing that concerns the coroutines has changed in a record.
Same(l, m) == l.status = m.status /\ l.ci = m.ci /\ l.top = m.top

\* Another thread that has a body to run has no frames.
LEMMA OthersWait ==
  ASSUME AInv, ctl # "exit"
  PROVE  /\ running \in Threads /\ L \in [Threads -> States] /\ cstack # <<>> /\ Stack(cstack)
         /\ \A t \in Threads \ {running} : L[t].top # "none" => framesOf(cstack, t) = {}
         /\ \A t \in Threads : L[t].top # "none" => L[t].status # "LUA_YIELD"
         /\ me = L[running]
         /\ (ctl \in {"precall", "errormsg"} => top.k # "resume") => me.top = "none"
         /\ L[Main].status # "none"
<1>1. /\ running \in Threads /\ L \in [Threads -> States] /\ cstack # <<>> /\ Stack(cstack)
  BY TopExists DEF AInv, IInv, Good, running, top
<1>2. framesOf(cstack, running) # {}
  <2>1. Len(cstack) \in 1..Len(cstack)
    BY <1>1, StackTop
  <2>. QED BY <2>1 DEF framesOf, running, top
<1>. QED BY <1>1, <1>2 DEF AInv, Bodies, running, top, me

\* A step of the running thread that changes its own frames and record only.
LEMMA LocalStep ==
  ASSUME AInv, IInv', ctl # "exit", Moves(cstack, cstack', running),
         \A t \in Threads \ {running} : Same(L'[t], L[t]),
         \/ L'[running].top = "none"
         \/ /\ cstack' = cstack /\ ctl' \in {"precall", "errormsg"} /\ top.k = "resume"
            /\ L'[running].status # "LUA_YIELD"
  PROVE  Bodies(L', cstack', ctl') /\ Refines
<1>1. /\ running \in Threads /\ cstack # <<>>
      /\ \A t \in Threads \ {running} : L[t].top # "none" => framesOf(cstack, t) = {} /\ L[t].status # "LUA_YIELD"
      /\ L[Main].status # "none"
  BY OthersWait
<1>2. /\ cstack' # <<>> /\ cstack'[Len(cstack')].th = running
      /\ resumed(cstack') = resumed(cstack)
      /\ \A t \in Threads \ {running} : framesOf(cstack', t) = framesOf(cstack, t)
      /\ cstack' \in Seq(Frames)
  BY DEF Moves
<1>3. ctl' # "exit" /\ Stack(cstack')
  BY <1>2 DEF IInv, Good, Control
<1>4. L'[running].status # "none"
  <2>1. framesOf(cstack', running) # {}
    <3>1. Len(cstack') \in 1..Len(cstack')
      BY <1>2, <1>3, StackTop
    <3>. QED BY <1>2, <3>1 DEF framesOf
  <2>. QED BY <1>1, <2>1 DEF IInv, Good, Active
<1>5. Bodies(L', cstack', ctl')
  <2>1. L'[Main].status # "none"
    <3>1. Main \in Threads
      BY LimitFacts
    <3>. QED BY <1>1, <1>4, <3>1 DEF Same
  <2>2. ASSUME NEW t \in Threads, L'[t].top # "none"
        PROVE  /\ L'[t].status # "LUA_YIELD"
               /\ framesOf(cstack', t) # {} => /\ ctl' \in {"precall", "errormsg"}
                                               /\ cstack'[Len(cstack')].k = "resume"
                                               /\ cstack'[Len(cstack')].th = t
    <3>1. CASE t = running
      BY <1>2, <2>2, <3>1 DEF top
    <3>2. CASE t # running
      BY <1>1, <1>2, <2>2, <3>2 DEF Same
    <3>. QED BY <3>1, <3>2
  <2>. QED BY <2>1, <2>2 DEF Bodies
<1>6. chainOf' = chainOf
  BY <1>2, <1>3 DEF chainOf
<1>7. [t \in Threads |-> stateOf(t)]' = [t \in Threads |-> stateOf(t)]
  <2>1. [t \in Threads |-> stateOf(t)]' = [t \in Threads |-> seen(L', cstack', ctl', t)]
    BY <1>5, SeenNext DEF AInv
  <2>2. [t \in Threads |-> stateOf(t)] = [t \in Threads |-> seen(L, cstack, ctl, t)]
    BY SeenNow
  <2>3. ASSUME NEW t \in Threads PROVE seen(L', cstack', ctl', t) = seen(L, cstack, ctl, t)
    <3>1. CASE t = running
      BY <1>2, <1>3, <3>1 DEF seen, running, top
    <3>2. CASE t # running
      BY <1>2, <1>3, <3>2 DEF seen, running, top, Same, look
    <3>. QED BY <3>1, <3>2
  <2>. QED BY <2>1, <2>2, <2>3
<1>. QED BY <1>5, <1>6, <1>7 DEF Refines

\* A step that drops C functions of the running thread, of which the last may
\* be its resume or the first of all.
LEMMA DropStep ==
  ASSUME AInv, IInv', ctl # "exit", NEW j \in 1..Len(cstack), cstack[j].th = running,
         \A i \in j + 1..Len(cstack) : cstack[i].th = running /\ cstack[i].k # "resume",
         cstack' = SubSeq(cstack, 1, j - 1),
         NEW m \in States, L' = [L EXCEPT ![running] = m], m.top = me.top, m.status # "none",
         cstack[j].k = "resume" => /\ look(m) \in {"suspended", "dead"}
                                   /\ m.status = "LUA_YIELD" => m.top = "none"
  PROVE  Bodies(L', cstack', ctl') /\ Refines
<1>. DEFINE q == SubSeq(cstack, 1, j)
            f == cstack[j]
<1>1. /\ running \in Threads /\ cstack # <<>> /\ Stack(cstack) /\ L \in [Threads -> States]
      /\ \A t \in Threads \ {running} : L[t].top # "none" => framesOf(cstack, t) = {} /\ L[t].status # "LUA_YIELD"
      /\ L[Main].status # "none"
  BY OthersWait
<1>2. cstack \in Seq(Frames) /\ j \in Nat /\ Len(cstack) \in Nat /\ Main \in Threads
  BY <1>1, LimitFacts DEF Stack
<1>3. Moves(cstack, q, running)
  BY <1>1, MoveCut
<1>4. q = Append(cstack', f) /\ f \in Frames /\ cstack' \in Seq(Frames)
  BY <1>2, TopPart
<1>5. resumed(cstack) = IF f.k = "resume" THEN Append(resumed(cstack'), running) ELSE resumed(cstack')
  <2>1. resumed(q) = IF f.k = "resume" THEN Append(resumed(cstack'), f.th) ELSE resumed(cstack')
    BY <1>4, ResumedAppend
  <2>. QED BY <1>3, <2>1 DEF Moves
<1>6. L'[running] = m /\ \A t \in Threads \ {running} : L'[t] = L[t]
  BY <1>1
<1>7. CASE f.k # "resume" /\ cstack' # <<>>
  <2>1. j > 1 /\ j - 1 \in 1..Len(cstack) /\ cstack'[Len(cstack')] = cstack[j - 1]
    <3>1. j - 1 \in 0..Len(cstack)
      BY <1>2
    <3>2. Len(cstack') = j - 1 /\ \A i \in 1..j - 1 : cstack'[i] = cstack[i]
      BY <1>2, <3>1, Prefix
    <3>3. j - 1 # 0
      BY <1>4, <1>7, <3>2
    <3>. QED BY <1>2, <3>2, <3>3
  <2>2. cstack[j - 1].th = running
    BY <1>1, <1>7, <2>1, StackOrder
  <2>3. Moves(cstack, cstack', running)
    <3>1. \A i \in j - 1 + 1..Len(cstack) : cstack[i].th = running /\ cstack[i].k # "resume"
      BY <1>2, <1>7
    <3>. QED BY <1>1, <2>1, <2>2, <3>1, MoveCut
  <2>4. me.top = "none"
    <3>1. top.k # "resume"
      BY <1>2, <1>7 DEF top
    <3>. QED BY <3>1, OthersWait
  <2>. QED BY <1>6, <2>3, <2>4, LocalStep DEF Same
<1>8. Stack(cstack') /\ (ctl' = "exit" <=> cstack' = <<>>)
  BY DEF IInv, Good, Control
<1>9. Len(cstack') = j - 1 /\ \A i \in 1..j - 1 : cstack'[i] = cstack[i]
  <2>1. j - 1 \in 0..Len(cstack)
    BY <1>2
  <2>. QED BY <1>2, <2>1, Prefix
<1>. DEFINE old == [t \in Threads |-> seen(L, cstack, ctl, t)]
            new == [t \in Threads |-> seen(L', cstack', ctl', t)]
<1>10. old = [t \in Threads |-> stateOf(t)]
  BY SeenNow
<1>11. CASE cstack' = <<>>
  <2>1. j = 1
    BY <1>2, <1>9, <1>11
  <2>2. f.k = "pcall" /\ running = Main
    BY <1>1, <2>1, StackOrder
  <2>3. me.top = "none"
    <3>1. top.k # "resume"
      BY <1>2, <2>1, <2>2 DEF top
    <3>. QED BY <3>1, OthersWait
  <2>4. \A t : framesOf(cstack', t) = {}
    BY <1>11 DEF framesOf
  <2>5. Bodies(L', cstack', ctl')
    BY <1>1, <1>6, <2>2, <2>3, <2>4 DEF Bodies
  <2>6. new = [t \in Threads |-> stateOf(t)]'
    BY <2>5, SeenNext DEF AInv
  <2>7. chainOf = <<Main>> /\ chainOf' = <<>>
    BY <1>5, <1>8, <1>11, <2>2, ResumedAppend DEF chainOf
  <2>8. new = [old EXCEPT ![Main] = "dead"]
    <3>1. ASSUME NEW t \in Threads PROVE new[t] = [old EXCEPT ![Main] = "dead"][t]
      BY <1>2, <1>6, <1>8, <1>11, <2>2 DEF seen, running, top
    <3>. QED BY <3>1
  <2>. HIDE DEF old, new
  <2>9. Abstract!Exit
    BY <1>10, <2>6, <2>7, <2>8 DEF Abstract!Exit
  <2>. QED BY <2>5, <2>9 DEF Refines, Abstract!Next
<1>12. CASE f.k = "resume"
  <2>. DEFINE r == cstack'[Len(cstack')].th
              c == resumed(cstack')
  <2>1. j > 1 /\ j - 1 \in 1..Len(cstack) /\ \A i \in 1..j - 1 : cstack[i].th # running
    BY <1>1, <1>2, <1>12, StackOrder
  <2>2. cstack' # <<>> /\ ctl' # "exit" /\ r \in Threads /\ r # running
    <3>1. cstack' # <<>>
      <4>1. Len(cstack') # 0
        BY <1>2, <1>9, <2>1
      <4>. QED BY <1>4, <4>1
    <3>2. r \in Threads
      BY <1>8, <3>1, StackTop
    <3>3. r # running
      <4>1. Len(cstack') \in 1..j - 1
        BY <1>2, <1>9, <2>1
      <4>. QED BY <1>9, <2>1, <4>1
    <3>. QED BY <1>8, <3>1, <3>2, <3>3
  <2>3. framesOf(cstack', running) = {}
    BY <1>9, <2>1 DEF framesOf
  <2>4. ASSUME NEW t \in Threads, framesOf(cstack, t) = {} PROVE framesOf(cstack', t) = {}
    BY <1>2, <1>9, <2>4 DEF framesOf
  <2>5. Bodies(L', cstack', ctl')
    <3>1. L'[Main].status # "none"
      BY <1>1, <1>2, <1>6
    <3>2. ASSUME NEW t \in Threads, L'[t].top # "none"
          PROVE  L'[t].status # "LUA_YIELD" /\ framesOf(cstack', t) = {}
      BY <1>1, <1>6, <1>12, <2>3, <2>4, <3>2
    <3>. QED BY <3>1, <3>2 DEF Bodies
  <2>6. new = [t \in Threads |-> stateOf(t)]'
    BY <2>5, SeenNext DEF AInv
  <2>7. c \in Seq(Threads) /\ Len(c) \in Nat \ {0} /\ c[Len(c)] = r
    BY <1>8, <2>2, ResumedType
  <2>8. chainOf = Append(c, running) /\ chainOf' = c
    BY <1>5, <1>12, <2>2 DEF chainOf
  <2>9. look(m) \in {"suspended", "dead"}
    BY <1>12
  <2>10. new = [old EXCEPT ![running] = look(m), ![r] = "running"]
    <3>1. ASSUME NEW t \in Threads PROVE new[t] = [old EXCEPT ![running] = look(m), ![r] = "running"][t]
      BY <1>1, <1>6, <2>2 DEF seen, running, top
    <3>. QED BY <3>1
  <2>. HIDE DEF old, new, c, r
  <2>11. /\ Len(chainOf) = Len(c) + 1 /\ chainOf[Len(chainOf)] = running /\ chainOf[Len(chainOf) - 1] = r
         /\ SubSeq(chainOf, 1, Len(chainOf) - 1) = c
    <3>1. Len(Append(c, running)) = Len(c) + 1 /\ Append(c, running)[Len(c) + 1] = running
      BY <1>1, <2>7
    <3>2. Append(c, running)[Len(c)] = c[Len(c)] /\ SubSeq(Append(c, running), 1, Len(c)) = c
      BY <1>1, <2>7, Appended
    <3>3. Len(c) + 1 - 1 = Len(c)
      BY <2>7
    <3>. DEFINE d == Append(c, running)
    <3>4. chainOf = d
      BY <2>8
    <3>5. Len(d) = Len(c) + 1 /\ d[Len(c) + 1] = running /\ d[Len(c)] = r /\ SubSeq(d, 1, Len(c)) = c
      BY <2>7, <3>1, <3>2
    <3>. HIDE DEF d
    <3>6. /\ Len(d) = Len(c) + 1 /\ d[Len(d)] = running /\ d[Len(d) - 1] = r
          /\ SubSeq(d, 1, Len(d) - 1) = c
      BY <3>3, <3>5
    <3>. QED BY <3>4, <3>6
  <2>12. Abstract!Leave(look(m))
    <3>1. Len(chainOf) > 1
      BY <2>7, <2>11
    <3>. QED BY <1>10, <2>6, <2>8, <2>10, <2>11, <3>1 DEF Abstract!Leave, Abstract!current, Abstract!resumer
  <2>. QED BY <2>5, <2>9, <2>12 DEF Refines, Abstract!Next
<1>. QED BY <1>7, <1>11, <1>12

(***************************************************************************)
(* Errors.  The protected call they reach is one of the running thread.    *)
(***************************************************************************)

\* A catch leaves alone what coroutines are about, except that lua_resume ends
\* the coroutine.
LEMMA CaughtFacts ==
  ASSUME NEW l \in States, NEW f
  PROVE  /\ pcallCaught(l, f).top = l.top /\ pcallCaught(l, f).status = l.status
         /\ resumeCaught(l, f).top = l.top /\ resumeCaught(l, f).status = "error"
BY DEF pcallCaught, resumeCaught, restore_stack_limit, States

\* Two stacks are the same up to the last longjmp buffer.
Agree(cs, ds, j) ==
  /\ j \in 1..Len(cs) /\ j \in 1..Len(ds) /\ cs[j] = ds[j]
  /\ SubSeq(cs, 1, j - 1) = SubSeq(ds, 1, j - 1)

\* luaD_throw by the running thread, perhaps from C functions it has just called.
LEMMA ThrowRefines ==
  ASSUME AInv, IInv', ctl \in {"run", "precall", "errormsg"} \/ (ctl = "returned" /\ top.k # "resume"),
         NEW l \in States, l.top = me.top, l.status = "0", l.errorJmp = me.errorJmp,
         NEW cs, Agree(cs, cstack, me.errorJmp), luaD_throw(l, cs)
  PROVE  Bodies(L', cstack', ctl') /\ Refines
<1>. DEFINE j == me.errorJmp
            f == cstack[j]
            m == IF f.k = "pcall" THEN pcallCaught(l, f) ELSE resumeCaught(l, f)
<1>1. IInv /\ ctl # "exit"
  BY DEF AInv
<1>2. /\ Stack(cstack) /\ cstack # <<>> /\ running = cstack[Len(cstack)].th /\ running \in Threads
      /\ L \in [Threads -> States] /\ Len(cstack) \in Nat
  BY <1>1, Current
<1>3. j = greatest(protectedOf(cstack, running))
  BY <1>1, CurrentReady
<1>. HIDE DEF j
<1>4. /\ j \in 1..Len(cstack) /\ f.th = running /\ f.k \in {"pcall", "resume"}
      /\ \A i \in j..Len(cstack) : cstack[i].th = running
      /\ \A i \in j + 1..Len(cstack) : cstack[i].k \notin {"pcall", "resume"}
  BY <1>2, <1>3, LastBuffer
<1>5. L' = [L EXCEPT ![running] = m] /\ cstack' = SubSeq(cstack, 1, j - 1)
  BY DEF luaD_throw, set, Agree, j
<1>6. m.top = me.top /\ m.status \in {"0", "error"} /\ (f.k = "resume" => m.status = "error")
  BY <1>4, CaughtFacts
<1>7. m \in States
  <2>1. L' \in [Threads -> States]
    BY DEF IInv, Good, Accounts
  <2>2. L'[running] = m
    BY <1>2, <1>5
  <2>. HIDE DEF m
  <2>. QED BY <1>2, <2>1, <2>2
<1>. HIDE DEF m
<1>8. f.k = "resume" => look(m) \in {"suspended", "dead"} /\ m.status # "LUA_YIELD"
  BY <1>6 DEF look
<1>9. \A i \in j + 1..Len(cstack) : cstack[i].th = running /\ cstack[i].k # "resume"
  BY <1>2, <1>4
<1>. QED BY <1>1, <1>4, <1>5, <1>6, <1>7, <1>8, <1>9, DropStep

\* What lies above the last longjmp buffer does not matter to a throw.
LEMMA AgreeFacts ==
  ASSUME IInv, ctl \in {"run", "precall", "errormsg"} \/ (ctl = "returned" /\ top.k # "resume")
  PROVE  /\ Agree(cstack, cstack, me.errorJmp)
         /\ \A f \in Frames : Agree(Append(cstack, f), cstack, me.errorJmp)
         /\ \A f, g \in Frames : Agree(Append(Append(cstack, f), g), cstack, me.errorJmp)
         /\ \A f \in Frames : top.k \notin {"pcall", "resume"} => Agree(Append(popped, f), cstack, me.errorJmp)
<1>. DEFINE j == me.errorJmp
<1>1. /\ Stack(cstack) /\ cstack # <<>> /\ running = cstack[Len(cstack)].th /\ cstack \in Seq(Frames)
      /\ popped \in Seq(Frames) /\ Len(popped) = Len(cstack) - 1 /\ cstack = Append(popped, top) /\ top \in Frames
      /\ Len(cstack) \in Nat \ {0} /\ cstack[Len(cstack)] = top
  BY Current
<1>2. j = greatest(protectedOf(cstack, running))
  BY CurrentReady
<1>. HIDE DEF j
<1>3. j \in 1..Len(cstack) /\ cstack[j].k \in {"pcall", "resume"}
  <2>1. Stack(cstack) /\ cstack # <<>> /\ running = cstack[Len(cstack)].th
    BY <1>1
  <2>. QED BY ONLY <1>2, <2>1, LastBuffer
<1>4. ASSUME NEW cs \in Seq(Frames), NEW f \in Frames, j \in 1..Len(cs)
      PROVE  Agree(Append(cs, f), cs, j)
  <2>. DEFINE ds == Append(cs, f)
  <2>1. /\ ds \in Seq(Frames) /\ Len(ds) = Len(cs) + 1 /\ Len(cs) \in Nat
        /\ \A i \in 1..Len(cs) : ds[i] = cs[i]
        /\ SubSeq(ds, 1, Len(cs)) = cs
    BY Appended
  <2>. HIDE DEF ds
  <2>2. Len(cs) \in 0..Len(ds) /\ j - 1 \in 0..Len(cs) /\ j \in 1..Len(ds)
    BY <1>4, <2>1
  <2>3. SubSeq(SubSeq(ds, 1, Len(cs)), 1, j - 1) = SubSeq(ds, 1, j - 1)
    BY <2>1, <2>2, PrefixOfPrefix
  <2>. QED BY <1>4, <2>1, <2>2, <2>3 DEF Agree, ds
<1>5. ASSUME NEW a, NEW b, NEW c, Agree(a, b, j), Agree(b, c, j) PROVE Agree(a, c, j)
  BY <1>5 DEF Agree
<1>6. Agree(cstack, cstack, j)
  BY <1>3 DEF Agree
<1>7. ASSUME NEW f \in Frames, NEW g \in Frames PROVE Agree(Append(Append(cstack, f), g), cstack, j)
  <2>. DEFINE a == Append(cstack, f)
  <2>1. a \in Seq(Frames) /\ j \in 1..Len(a) /\ Agree(a, cstack, j)
    <3>1. Agree(a, cstack, j)
      BY <1>1, <1>3, <1>4
    <3>2. a \in Seq(Frames)
      BY <1>1
    <3>. QED BY <3>1, <3>2 DEF Agree
  <2>. HIDE DEF a
  <2>2. Agree(Append(a, g), a, j)
    BY <1>4, <2>1
  <2>3. Agree(Append(a, g), cstack, j)
    BY <1>5, <2>1, <2>2
  <2>. QED BY <2>3 DEF a
<1>8. ASSUME NEW f \in Frames, top.k \notin {"pcall", "resume"} PROVE Agree(Append(popped, f), cstack, j)
  <2>1. j # Len(cstack)
    BY <1>1, <1>3, <1>8
  <2>2. j \in 1..Len(popped)
    BY <1>1, <1>3, <2>1
  <2>3. Agree(Append(popped, f), popped, j) /\ Agree(Append(popped, top), popped, j)
    BY <1>1, <1>4, <2>2
  <2>4. Agree(popped, cstack, j)
    BY <1>1, <2>3 DEF Agree
  <2>. QED BY <1>5, <2>3, <2>4
<1>9. \A f \in Frames : Agree(Append(cstack, f), cstack, j)
  BY <1>1, <1>3, <1>4
<1>. QED BY <1>6, <1>7, <1>8, <1>9 DEF j

(***************************************************************************)
(* The actions, by what they do to the C stack.                            *)
(***************************************************************************)

\* The record of the running thread becomes l and the C stack cs, or an error
\* is thrown from there.
LEMMA GoRefines ==
  ASSUME AInv, IInv', ctl \in {"run", "precall", "errormsg"} \/ (ctl = "returned" /\ top.k # "resume"),
         NEW l \in States, l.top = me.top, l.status = "0", l.errorJmp = me.errorJmp,
         NEW cs, Moves(cstack, cs, running), Agree(cs, cstack, me.errorJmp), NEW c,
         me.top = "none" \/ (cs = cstack /\ c \in {"throw", "errormsg", "precall"} /\ top.k = "resume"),
         go(l, cs, c)
  PROVE  Bodies(L', cstack', ctl') /\ Refines
<1>1. CASE c = "throw"
  BY <1>1, ThrowRefines DEF go
<1>2. CASE c # "throw"
  <2>1. L' = [L EXCEPT ![running] = l] /\ cstack' = cs /\ ctl' = c
    BY <1>2 DEF go, set
  <2>2. ctl # "exit" /\ running \in Threads /\ L \in [Threads -> States]
    BY OthersWait
  <2>3. L'[running] = l /\ \A t \in Threads \ {running} : Same(L'[t], L[t])
    BY <2>1, <2>2 DEF Same
  <2>. QED BY <1>2, <2>1, <2>2, <2>3, LocalStep
<1>. QED BY <1>1, <1>2

\* The C stack as it is.
LEMMA StayFacts ==
  ASSUME AInv, ctl # "exit"
  PROVE  /\ Moves(cstack, cstack, running) /\ me \in States /\ me = L[running]
         /\ L \in [Threads -> States] /\ running \in Threads /\ IInv
         /\ cstack \in Seq(Frames) /\ popped \in Seq(Frames) /\ cstack # <<>> /\ top \in Frames /\ top.th = running
         /\ (ctl \in {"precall", "errormsg"} => top.k # "resume") => me.top = "none"
<1>1. IInv
  BY DEF AInv
<1>2. /\ cstack \in Seq(Frames) /\ cstack # <<>> /\ cstack[Len(cstack)].th = running
      /\ me \in States /\ me = L[running] /\ L \in [Threads -> States] /\ running \in Threads
      /\ popped \in Seq(Frames) /\ top \in Frames /\ top.th = running
  BY <1>1, Current
<1>3. Moves(cstack, cstack, running)
  BY <1>2, MoveNot
<1>4. (ctl \in {"precall", "errormsg"} => top.k # "resume") => me.top = "none"
  BY OthersWait
<1>. QED BY <1>1, <1>2, <1>3, <1>4

\* A step that changes only what the topmost C function is doing.
LEMMA ControlRefines ==
  ASSUME AInv, IInv', ctl # "exit", UNCHANGED <<L, cstack>>,
         me.top = "none" \/ (ctl' \in {"precall", "errormsg"} /\ top.k = "resume")
  PROVE  Bodies(L', cstack', ctl') /\ Refines
<1>1. Moves(cstack, cstack', running) /\ me = L[running] /\ running \in Threads
  BY StayFacts
<1>2. me.top # "none" => L[running].status # "LUA_YIELD"
  BY OthersWait
<1>. QED BY <1>1, <1>2, LocalStep DEF Same

\* The topmost C function is done.
LEMMA PopRefines ==
  ASSUME AInv, IInv', ctl # "exit", cstack' = popped,
         NEW m, L' = [L EXCEPT ![running] = m], m.top = me.top, m.status # "none",
         top.k = "resume" => /\ look(m) \in {"suspended", "dead"}
                             /\ m.status = "LUA_YIELD" => m.top = "none"
  PROVE  Bodies(L', cstack', ctl') /\ Refines
<1>. DEFINE j == Len(cstack)
<1>1. j \in Nat \ {0} /\ cstack[j] = top /\ top.th = running
  BY Current DEF AInv
<1>2. cstack' = SubSeq(cstack, 1, j - 1)
  BY DEF popped
<1>3. j \in 1..Len(cstack) /\ \A i \in j + 1..Len(cstack) : FALSE
  BY <1>1
<1>4. m \in States
  <2>1. L' \in [Threads -> States]
    BY DEF IInv, Good, Accounts
  <2>. QED BY <2>1, StayFacts
<1>. HIDE DEF j
<1>. QED BY <1>1, <1>2, <1>3, <1>4, DropStep

\* The topmost C function calls another.
LEMMA PushFacts ==
  ASSUME AInv, ctl # "exit", NEW f \in Frames, f.k # "resume", f.th = running
  PROVE  /\ Moves(cstack, Append(cstack, f), running) /\ Append(cstack, f) \in Seq(Frames)
         /\ \A g \in Frames : g.k # "resume" /\ g.th = running =>
              Moves(cstack, Append(Append(cstack, f), g), running)
<1>. DEFINE a == Append(cstack, f)
<1>1. cstack \in Seq(Frames)
  BY StayFacts
<1>2. Moves(cstack, a, running) /\ a \in Seq(Frames)
  BY <1>1, MovePush DEF Moves
<1>. HIDE DEF a
<1>3. ASSUME NEW g \in Frames, g.k # "resume", g.th = running PROVE Moves(cstack, Append(a, g), running)
  <2>1. Moves(a, Append(a, g), running)
    BY <1>2, <1>3, MovePush
  <2>. QED BY <1>2, <2>1, MoveTwice
<1>. QED BY <1>2, <1>3 DEF a

\* The topmost C function goes on as another frame of its kind.
LEMMA SwapFacts ==
  ASSUME AInv, ctl # "exit", top.k # "resume", NEW g \in Frames, g.k # "resume", g.th = running
  PROVE  Moves(cstack, Append(popped, g), running)
<1>1. /\ cstack \in Seq(Frames) /\ popped \in Seq(Frames) /\ top \in Frames /\ top.th = running
      /\ cstack = Append(popped, top)
  BY Current DEF AInv
<1>2. Moves(popped, Append(popped, top), running) /\ Moves(popped, Append(popped, g), running)
  BY <1>1, MovePush
<1>. QED BY <1>1, <1>2 DEF Moves

\* Steps without a call or a return: OP_CALL up to luaD_precall, and errors.
LEMMA PlainRefine ==
  ASSUME AInv, IInv', OP_CALL \/ tryfuncTM \/ luaG_runerror
  PROVE  Bodies(L', cstack', ctl') /\ Refines
<1>1. ctl \in {"run", "precall"} /\ UNCHANGED <<L, cstack>> /\ ctl' \in {"precall", "errormsg"}
  BY DEF OP_CALL, tryfuncTM, luaG_runerror, run
<1>2. (ctl \in {"precall", "errormsg"} => top.k # "resume") => me.top = "none"
  BY <1>1, StayFacts
<1>. QED BY <1>1, <1>2, ControlRefines

\* The steps that do nothing but raise an error.
LEMMA ThrowsRefine ==
  ASSUME AInv, IInv', luaM_realloc_fails \/ luaX_lexerror \/ luaG_errormsg_end
  PROVE  Bodies(L', cstack', ctl') /\ Refines
<1>1. ctl \in {"run", "precall", "errormsg"} \/ (ctl = "returned" /\ top.k # "resume")
  BY DEF luaM_realloc_fails, luaX_lexerror, luaG_errormsg_end, run
<1>2. go(me, cstack, "throw")
  BY DEF luaM_realloc_fails, luaX_lexerror, luaG_errormsg_end
<1>3. IInv /\ me \in States
  BY <1>1, StayFacts
<1>4. me.status = "0" /\ Agree(cstack, cstack, me.errorJmp)
  BY <1>1, <1>3, CurrentReady, AgreeFacts
<1>. QED BY <1>1, <1>2, <1>3, <1>4, ThrowRefines DEF go

\* growCI concerns the size of the array only.
LEMMA GrowRefines ==
  ASSUME AInv, IInv', ctl = "run" \/ (ctl = "precall" /\ inc_ci(me) # "run"), go(growCI(me), cstack, inc_ci(me))
  PROVE  Bodies(L', cstack', ctl') /\ Refines
<1>. DEFINE l == growCI(me)
<1>1. IInv /\ me \in States /\ Moves(cstack, cstack, running)
      /\ ((ctl \in {"precall", "errormsg"} => top.k # "resume") => me.top = "none")
  BY StayFacts
<1>2. me.status = "0" /\ Agree(cstack, cstack, me.errorJmp)
  BY <1>1, CurrentReady, AgreeFacts
<1>3. l \in States /\ l.top = me.top /\ l.status = me.status /\ l.errorJmp = me.errorJmp
  BY <1>1 DEF growCI, States
<1>4. inc_ci(me) \in {"run", "throw", "errormsg"}
  BY DEF inc_ci
<1>. HIDE DEF l
<1>5. me.top = "none" \/ (inc_ci(me) \in {"throw", "errormsg", "precall"} /\ top.k = "resume")
  BY <1>1, <1>4
<1>6. go(l, cstack, inc_ci(me))
  BY DEF l
<1>. QED BY <1>1, <1>2, <1>3, <1>5, <1>6, GoRefines

\* A tail call starts the called function in the frame of the calling one.
LEMMA TailcallRefines ==
  ASSUME AInv, IInv', OP_TAILCALL
  PROVE  Bodies(L', cstack', ctl') /\ Refines
BY GrowRefines DEF OP_TAILCALL, run

\* Returns.
LEMMA PopsRefine ==
  ASSUME AInv, IInv',
         luaD_call_end \/ luaD_poscall \/ luaD_pcall_end \/ f_parser_end \/ luaD_callhook_end \/ GCTM_end
  PROVE  Bodies(L', cstack', ctl') /\ Refines
<1>1. ctl \in {"run", "returned"} /\ top.k # "resume" /\ cstack' = popped
  BY DEF luaD_call_end, luaD_poscall, luaD_pcall_end, f_parser_end, luaD_callhook_end, GCTM_end, run
<1>2. me \in States /\ me = L[running] /\ IInv /\ L \in [Threads -> States] /\ running \in Threads
  BY <1>1, StayFacts
<1>3. me.status = "0"
  BY <1>1, <1>2, CurrentReady
<1>4. \E m : L' = [L EXCEPT ![running] = m] /\ m.top = me.top /\ m.status = me.status
  <2>1. CASE luaD_call_end
    <3>. DEFINE m == [me EXCEPT !.nCcalls = @ - 1]
    <3>1. L' = [L EXCEPT ![running] = m]
      BY <2>1 DEF luaD_call_end, set
    <3>2. m.top = me.top /\ m.status = me.status
      BY <1>2 DEF States
    <3>. HIDE DEF m
    <3>. QED BY <3>1, <3>2
  <2>2. CASE luaD_poscall
    <3>. DEFINE m == [me EXCEPT !.ci = SubSeq(@, 1, Len(@) - 1)]
    <3>1. L' = [L EXCEPT ![running] = m]
      BY <2>2 DEF luaD_poscall, set
    <3>2. m.top = me.top /\ m.status = me.status
      BY <1>2 DEF States
    <3>. HIDE DEF m
    <3>. QED BY <3>1, <3>2
  <2>3. CASE luaD_pcall_end
    <3>. DEFINE m == [me EXCEPT !.errfunc = top.errfunc, !.errorJmp = top.previous]
    <3>1. L' = [L EXCEPT ![running] = m]
      BY <2>3 DEF luaD_pcall_end, set
    <3>2. m.top = me.top /\ m.status = me.status
      BY <1>2 DEF States
    <3>. HIDE DEF m
    <3>. QED BY <3>1, <3>2
  <2>4. CASE f_parser_end
    <3>1. L' = [L EXCEPT ![running] = me]
      BY <1>2, <2>4 DEF f_parser_end
    <3>. QED BY <3>1
  <2>5. CASE luaD_callhook_end
    <3>. DEFINE m == [me EXCEPT !.allowhook = TRUE]
    <3>1. L' = [L EXCEPT ![running] = m]
      BY <2>5 DEF luaD_callhook_end, set
    <3>2. m.top = me.top /\ m.status = me.status
      BY <1>2 DEF States
    <3>. HIDE DEF m
    <3>. QED BY <3>1, <3>2
  <2>6. CASE GCTM_end
    <3>. DEFINE m == [me EXCEPT !.allowhook = top.allowhook]
    <3>1. L' = [L EXCEPT ![running] = m]
      BY <2>6 DEF GCTM_end, set
    <3>2. m.top = me.top /\ m.status = me.status
      BY <1>2 DEF States
    <3>. HIDE DEF m
    <3>. QED BY <3>1, <3>2
  <2>. QED BY <2>1, <2>2, <2>3, <2>4, <2>5, <2>6
<1>5. PICK m : L' = [L EXCEPT ![running] = m] /\ m.top = me.top /\ m.status = me.status
  BY <1>4
<1>. QED BY <1>1, <1>3, <1>5, PopRefines

\* A Lua function returns.
LEMMA ReturnRefines ==
  ASSUME AInv, IInv', OP_RETURN
  PROVE  Bodies(L', cstack', ctl') /\ Refines
<1>. DEFINE m == [me EXCEPT !.ci = SubSeq(@, 1, Len(@) - 1)]
            g == [top EXCEPT !.n = top.n - 1]
<1>1. ctl = "run" /\ top.k = "execute" /\ L' = [L EXCEPT ![running] = m]
  BY DEF OP_RETURN, run, set
<1>2. /\ me \in States /\ me = L[running] /\ IInv /\ L \in [Threads -> States] /\ running \in Threads
      /\ top \in Frames /\ top.th = running /\ me.top = "none"
  BY <1>1, StayFacts
<1>3. me.status = "0"
  BY <1>1, <1>2, CurrentReady
<1>4. m.top = me.top /\ m.status = me.status
  BY <1>2 DEF States
<1>. HIDE DEF m
<1>5. CASE top.n = 1
  <2>1. cstack' = popped
    BY <1>5 DEF OP_RETURN
  <2>. QED BY <1>1, <1>3, <1>4, <2>1, PopRefines
<1>6. CASE top.n # 1
  <2>1. top.n \in Nat \ {0} /\ g = Execute(running, top.n - 1)
    BY <1>1, <1>2, FrameFacts
  <2>2. top.n - 1 \in Nat \ {0}
    BY <1>6, <2>1
  <2>3. g \in Frames /\ g.k # "resume" /\ g.th = running
    BY <1>2, <2>1, <2>2, NewFrames DEF Execute
  <2>4. cstack' = [cstack EXCEPT ![Len(cstack)] = g]
    BY <1>6 DEF OP_RETURN, top
  <2>. HIDE DEF g
  <2>5. cstack' = Append(popped, g)
    BY <1>1, <1>2, <2>3, <2>4, ExceptTop
  <2>6. Moves(cstack, cstack', running)
    BY <1>1, <2>3, <2>5, SwapFacts
  <2>7. L'[running].top = "none" /\ \A t \in Threads \ {running} : Same(L'[t], L[t])
    BY <1>1, <1>2, <1>4 DEF Same
  <2>. QED BY <1>1, <2>6, <2>7, LocalStep
<1>. QED BY <1>5, <1>6

\* luaD_call by the topmost C function or by one that it has just called.
LEMMA CallRefines ==
  ASSUME AInv, IInv', ctl \in {"run", "errormsg"}, me.top = "none",
         NEW l \in States, l.top = me.top, l.status = "0", l.errorJmp = me.errorJmp, NEW cs,
         \/ cs = cstack
         \/ \E f \in Frames : f.k # "resume" /\ f.th = running /\ cs = Append(cstack, f),
         luaD_call(l, cs)
  PROVE  Bodies(L', cstack', ctl') /\ Refines
<1>. DEFINE m == [l EXCEPT !.nCcalls = @ + 1]
            g == Frame("call", running)
            ds == Append(cs, g)
            c == checkCcalls(l.nCcalls + 1)
<1>1. ctl # "exit" /\ IInv /\ running \in Threads
  BY StayFacts
<1>2. m \in States /\ m.top = me.top /\ m.status = "0" /\ m.errorJmp = me.errorJmp
  BY DEF States
<1>3. go(m, ds, c)
  BY DEF luaD_call
<1>4. g \in Frames /\ g.k # "resume" /\ g.th = running
  BY <1>1, NewFrames DEF Frame
<1>. HIDE DEF m, g, c
<1>5. Moves(cstack, ds, running) /\ Agree(ds, cstack, me.errorJmp)
  <2>1. CASE cs = cstack
    BY <1>1, <1>4, <2>1, PushFacts, AgreeFacts
  <2>2. ASSUME NEW f \in Frames, f.k # "resume", f.th = running, cs = Append(cstack, f)
        PROVE  Moves(cstack, ds, running) /\ Agree(ds, cstack, me.errorJmp)
    <3>1. Moves(cstack, Append(Append(cstack, f), g), running)
      BY <1>1, <1>4, <2>2, PushFacts
    <3>2. Agree(Append(Append(cstack, f), g), cstack, me.errorJmp)
      BY <1>1, <1>4, <2>2, AgreeFacts
    <3>. QED BY <2>2, <3>1, <3>2
  <2>. QED BY <2>1, <2>2
<1>. HIDE DEF ds
<1>. QED BY <1>1, <1>2, <1>3, <1>5, GoRefines

\* The calls that luaD_call and the metamethods make.
LEMMA CallsRefine ==
  ASSUME AInv, IInv', callTM \/ lua_call
  PROVE  Bodies(L', cstack', ctl') /\ Refines
<1>1. ctl = "run" /\ luaD_call(me, cstack)
  BY DEF callTM, lua_call, run
<1>2. me \in States /\ IInv /\ me.top = "none"
  BY <1>1, StayFacts
<1>3. me.status = "0"
  BY <1>1, <1>2, CurrentReady
<1>. QED BY <1>1, <1>2, <1>3, CallRefines

\* A finalizer.
LEMMA GctmRefines ==
  ASSUME AInv, IInv', GCTM
  PROVE  Bodies(L', cstack', ctl') /\ Refines
<1>. DEFINE l == [me EXCEPT !.allowhook = FALSE]
            f == [k |-> "gctm", th |-> running, allowhook |-> me.allowhook]
            cs == Append(cstack, f)
<1>1. ctl = "run" /\ luaD_call(l, cs)
  BY DEF GCTM
<1>2. me \in States /\ IInv /\ me.top = "none" /\ running \in Threads
  BY <1>1, StayFacts
<1>3. me.status = "0"
  BY <1>1, <1>2, CurrentReady
<1>4. l \in States /\ l.top = me.top /\ l.status = "0" /\ l.errorJmp = me.errorJmp
  BY <1>2, <1>3 DEF States
<1>5. f \in Frames /\ f.k # "resume" /\ f.th = running
  <2>1. me.allowhook \in BOOLEAN
    BY <1>2 DEF States
  <2>. QED BY <1>2, <2>1, NewFrames
<1>. HIDE DEF l, f
<1>. QED BY <1>1, <1>2, <1>4, <1>5, CallRefines

\* A message handler, which a coroutine that has not started does not have.
LEMMA ErrormsgRefines ==
  ASSUME AInv, IInv', luaG_errormsg
  PROVE  Bodies(L', cstack', ctl') /\ Refines
<1>1. ctl = "errormsg"
  BY DEF luaG_errormsg
<1>2. me \in States /\ IInv /\ running \in Threads /\ Moves(cstack, cstack, running)
  BY <1>1, StayFacts
<1>3. me.status = "0" /\ Agree(cstack, cstack, me.errorJmp)
  BY <1>1, <1>2, CurrentReady, AgreeFacts
<1>4. CASE me.errfunc # "function"
  BY <1>1, <1>2, <1>3, <1>4, ThrowRefines DEF luaG_errormsg, go
<1>5. CASE me.errfunc = "function"
  <2>. DEFINE f == Frame("handler", running)
  <2>1. luaD_call(me, Append(cstack, f))
    BY <1>5 DEF luaG_errormsg
  <2>2. f \in Frames /\ f.k # "resume" /\ f.th = running
    BY <1>2, NewFrames DEF Frame
  <2>3. top.k # "resume"
    <3>1. pcallsOf(cstack, running) # {}
      BY <1>1, <1>2, <1>5, CurrentReady DEF handlerOf
    <3>2. PICK i \in 1..Len(cstack) : cstack[i].th = running /\ cstack[i].k = "pcall"
      BY <3>1 DEF pcallsOf, framesOf
    <3>3. Stack(cstack) /\ Len(cstack) \in Nat \ {0} /\ cstack[Len(cstack)] = top /\ top.th = running
      BY <1>1, <1>2, Current
    <3>4. ASSUME top.k = "resume" PROVE FALSE
      <4>1. Len(cstack) \in 1..Len(cstack)
        BY <3>3
      <4>2. \A h \in 1..Len(cstack) - 1 : cstack[h].th # running
        BY <3>3, <3>4, <4>1, StackOrder
      <4>3. i # Len(cstack)
        BY <3>2, <3>3, <3>4
      <4>4. i \in 1..Len(cstack) - 1
        BY <3>3, <4>3
      <4>. QED BY <3>2, <4>2, <4>4
    <3>. QED BY <3>4
  <2>4. me.top = "none"
    BY <1>1, <2>3, StayFacts
  <2>. HIDE DEF f
  <2>. QED BY <1>1, <1>2, <1>3, <2>1, <2>2, <2>4, CallRefines
<1>. QED BY <1>4, <1>5

\* The frame of a protected call.
LEMMA PcallFrameFacts ==
  ASSUME AInv, ctl = "run", NEW ef \in Handlers
  PROVE  /\ pcallFrame(ef) \in Frames /\ pcallFrame(ef).k = "pcall" /\ pcallFrame(ef).th = running
         /\ protected(ef) \in States /\ protected(ef).top = me.top /\ protected(ef).status = me.status
         /\ protected(ef).errorJmp = Len(cstack) + 1 /\ protected(ef).nCcalls = me.nCcalls
<1>1. me \in States /\ running \in Threads /\ cstack \in Seq(Frames)
  BY StayFacts
<1>2. /\ me.nCcalls \in Nat /\ Len(me.ci) \in Nat /\ me.allowhook \in BOOLEAN /\ me.errfunc \in Handlers
      /\ me.errorJmp \in Nat /\ Len(cstack) + 1 \in Nat
  BY <1>1 DEF States
<1>3. pcallFrame(ef) \in Frames
  BY <1>1, <1>2, NewFrames DEF pcallFrame
<1>. QED BY <1>1, <1>2, <1>3 DEF pcallFrame, protected, States

\* lua_pcall, where the call may fail at once, in the frame just made.
LEMMA PcallRefines ==
  ASSUME AInv, IInv', NEW ef \in Handlers, lua_pcall(ef)
  PROVE  Bodies(L', cstack', ctl') /\ Refines
<1>. DEFINE p == pcallFrame(ef)
            q == protected(ef)
            m == [q EXCEPT !.nCcalls = @ + 1]
            g == Frame("call", running)
            a == Append(cstack, p)
            ds == Append(a, g)
            c == checkCcalls(q.nCcalls + 1)
<1>1. ctl = "run" /\ go(m, ds, c)
  BY DEF lua_pcall, luaD_call, run
<1>2. /\ me \in States /\ IInv /\ me.top = "none" /\ running \in Threads /\ L \in [Threads -> States]
      /\ cstack \in Seq(Frames) /\ Moves(cstack, cstack, running)
  BY <1>1, StayFacts
<1>3. /\ p \in Frames /\ p.k = "pcall" /\ p.th = running
      /\ q \in States /\ q.top = "none" /\ q.errorJmp = Len(cstack) + 1
  BY <1>1, <1>2, PcallFrameFacts
<1>. HIDE DEF p, q
<1>4. m \in States /\ m.top = "none" /\ m.errorJmp = Len(cstack) + 1
  BY <1>3 DEF States
<1>5. g \in Frames /\ g.k # "resume" /\ g.th = running
  BY <1>2, NewFrames DEF Frame
<1>. HIDE DEF m, g, c
<1>6. CASE c # "throw"
  <2>1. L' = [L EXCEPT ![running] = m] /\ cstack' = ds
    BY <1>1, <1>6 DEF go, set
  <2>2. Moves(cstack, ds, running)
    BY <1>1, <1>3, <1>5, PushFacts
  <2>3. L'[running].top = "none" /\ \A t \in Threads \ {running} : Same(L'[t], L[t])
    BY <1>2, <1>4, <2>1 DEF Same
  <2>. QED BY <1>1, <2>1, <2>2, <2>3, LocalStep
<1>7. CASE c = "throw"
  <2>. DEFINE n == Len(cstack) + 1
  <2>1. /\ a \in Seq(Frames) /\ Len(a) = n /\ a[n] = p /\ SubSeq(a, 1, Len(cstack)) = cstack /\ n \in Nat
    BY <1>2, <1>3, Appended
  <2>. HIDE DEF a
  <2>2. /\ ds \in Seq(Frames) /\ Len(ds) = n + 1 /\ SubSeq(ds, 1, n) = a
        /\ \A i \in 1..n : ds[i] = a[i]
    BY <1>5, <2>1, Appended
  <2>3. ds[n] = p
    <3>1. n \in 1..n
      BY <2>1
    <3>. QED BY <2>1, <2>2, <3>1
  <2>4. SubSeq(ds, 1, n - 1) = cstack
    <3>1. n \in 0..Len(ds) /\ n - 1 \in 0..n /\ n - 1 = Len(cstack)
      BY <1>2, <2>1, <2>2
    <3>2. SubSeq(SubSeq(ds, 1, n), 1, n - 1) = SubSeq(ds, 1, n - 1)
      BY <2>2, <3>1, PrefixOfPrefix
    <3>. QED BY <2>1, <2>2, <3>1, <3>2
  <2>. HIDE DEF ds
  <2>5. L' = [L EXCEPT ![running] = pcallCaught(m, p)] /\ cstack' = cstack
    BY <1>1, <1>3, <1>4, <1>7, <2>3, <2>4 DEF go, luaD_throw, set
  <2>6. pcallCaught(m, p).top = "none"
    BY <1>4, CaughtFacts
  <2>7. L'[running].top = "none" /\ \A t \in Threads \ {running} : Same(L'[t], L[t])
    BY <1>2, <2>5, <2>6 DEF Same
  <2>. QED BY <1>1, <1>2, <2>5, <2>7, LocalStep
<1>. QED BY <1>6, <1>7

\* The parser is called in a frame of its own.
LEMMA ParserRefines ==
  ASSUME AInv, IInv', luaD_protectedparser
  PROVE  Bodies(L', cstack', ctl') /\ Refines
<1>. DEFINE ef == me.errfunc
            p == pcallFrame(ef)
            q == protected(ef)
            g == Parser(running, 0)
<1>1. ctl = "run" /\ L' = [L EXCEPT ![running] = q] /\ cstack' = cstack \o <<p, g>>
  BY DEF luaD_protectedparser, run, set
<1>2. me \in States /\ me.top = "none" /\ running \in Threads /\ L \in [Threads -> States] /\ cstack \in Seq(Frames)
  BY <1>1, StayFacts
<1>3. ef \in Handlers
  BY <1>2 DEF States
<1>4. p \in Frames /\ p.k # "resume" /\ p.th = running /\ q.top = "none"
  BY <1>1, <1>2, <1>3, PcallFrameFacts
<1>5. g \in Frames /\ g.k # "resume" /\ g.th = running
  BY <1>2, NewFrames DEF Parser
<1>. HIDE DEF p, q, g
<1>6. cstack \o <<p, g>> = Append(Append(cstack, p), g)
  BY <1>2, <1>4, <1>5
<1>7. Moves(cstack, cstack', running)
  BY <1>1, <1>4, <1>5, <1>6, PushFacts
<1>8. L'[running].top = "none" /\ \A t \in Threads \ {running} : Same(L'[t], L[t])
  BY <1>1, <1>2, <1>4 DEF Same
<1>. QED BY <1>1, <1>7, <1>8, LocalStep

\* Levels of nesting in the parser.
LEMMA LevelsRefine ==
  ASSUME AInv, IInv', enterlevel \/ leavelevel
  PROVE  Bodies(L', cstack', ctl') /\ Refines
<1>1. ctl = "run" /\ top.k = "parser"
  BY DEF enterlevel, leavelevel, run
<1>2. /\ me \in States /\ IInv /\ me.top = "none" /\ running \in Threads /\ L \in [Threads -> States]
      /\ top \in Frames /\ top.th = running
  BY <1>1, StayFacts
<1>3. me.status = "0" /\ top.lev \in Nat /\ me.nCcalls \in Nat
  BY <1>1, <1>2, CurrentReady, FrameFacts DEF States
<1>4. ASSUME NEW n \in Nat
      PROVE  LET g == [top EXCEPT !.lev = n]
             IN  /\ [cstack EXCEPT ![Len(cstack)] = g] = Append(popped, g)
                 /\ Moves(cstack, Append(popped, g), running) /\ Agree(Append(popped, g), cstack, me.errorJmp)
  <2>. DEFINE g == [top EXCEPT !.lev = n]
  <2>1. g = Parser(running, n)
    BY <1>1, <1>2, FrameFacts
  <2>2. g \in Frames /\ g.k # "resume" /\ g.th = running
    BY <1>2, <2>1, NewFrames DEF Parser
  <2>. HIDE DEF g
  <2>3. [cstack EXCEPT ![Len(cstack)] = g] = Append(popped, g)
    BY <1>1, <1>2, <2>2, ExceptTop
  <2>4. Moves(cstack, Append(popped, g), running)
    BY <1>1, <2>2, SwapFacts
  <2>5. Agree(Append(popped, g), cstack, me.errorJmp)
    BY <1>1, <1>2, <2>2, AgreeFacts
  <2>. QED BY <2>3, <2>4, <2>5 DEF g
<1>5. CASE enterlevel
  <2>. DEFINE m == [me EXCEPT !.nCcalls = @ + 1]
              g == [top EXCEPT !.lev = top.lev + 1]
              c == IF me.nCcalls + 1 > LUAI_MAXCCALLS THEN "throw" ELSE "run"
  <2>1. go(m, [cstack EXCEPT ![Len(cstack)] = g], c)
    BY <1>5 DEF enterlevel, top
  <2>2. top.lev + 1 \in Nat
    BY <1>3
  <2>3. /\ [cstack EXCEPT ![Len(cstack)] = g] = Append(popped, g)
        /\ Moves(cstack, Append(popped, g), running) /\ Agree(Append(popped, g), cstack, me.errorJmp)
    BY <1>4, <2>2
  <2>4. m \in States /\ m.top = me.top /\ m.status = "0" /\ m.errorJmp = me.errorJmp
    <3>1. me \in States /\ me.status = "0"
      BY <1>2, <1>3
    <3>. QED BY ONLY <3>1 DEF States
  <2>. HIDE DEF m, g, c
  <2>. QED BY <1>1, <1>2, <2>1, <2>3, <2>4, GoRefines
<1>6. CASE leavelevel
  <2>. DEFINE m == [me EXCEPT !.nCcalls = @ - 1]
              g == [top EXCEPT !.lev = top.lev - 1]
  <2>1. L' = [L EXCEPT ![running] = m] /\ cstack' = [cstack EXCEPT ![Len(cstack)] = g] /\ top.lev > 0
    BY <1>6 DEF leavelevel, top, set
  <2>2. top.lev - 1 \in Nat
    BY <1>3, <2>1
  <2>3. cstack' = Append(popped, g) /\ Moves(cstack, Append(popped, g), running)
    BY <1>4, <2>1, <2>2
  <2>4. m.top = "none"
    BY <1>2 DEF States
  <2>. HIDE DEF m, g
  <2>5. L'[running].top = "none" /\ \A t \in Threads \ {running} : Same(L'[t], L[t])
    BY <1>2, <2>1, <2>4 DEF Same
  <2>. QED BY <1>1, <2>3, <2>5, LocalStep
<1>. QED BY <1>5, <1>6

\* A hook.
LEMMA HookRefines ==
  ASSUME AInv, IInv', luaD_callhook
  PROVE  Bodies(L', cstack', ctl') /\ Refines
<1>. DEFINE m == [me EXCEPT !.allowhook = FALSE]
            f == Frame("hook", running)
<1>1. ctl = "run" /\ L' = [L EXCEPT ![running] = m] /\ cstack' = Append(cstack, f)
  BY DEF luaD_callhook, run, set
<1>2. me \in States /\ me.top = "none" /\ running \in Threads /\ L \in [Threads -> States]
  BY <1>1, StayFacts
<1>3. f \in Frames /\ f.k # "resume" /\ f.th = running
  BY <1>2, NewFrames DEF Frame
<1>4. m.top = "none"
  BY <1>2 DEF States
<1>. HIDE DEF m, f
<1>5. Moves(cstack, cstack', running)
  BY <1>1, <1>3, PushFacts
<1>6. L'[running].top = "none" /\ \A t \in Threads \ {running} : Same(L'[t], L[t])
  BY <1>1, <1>2, <1>4 DEF Same
<1>. QED BY <1>1, <1>5, <1>6, LocalStep

\* luaD_precall enters the function, which takes the body off the stack.
LEMMA PrecallRefines ==
  ASSUME AInv, IInv', NEW f \in {"Lua", "C"}, luaD_precall(f)
  PROVE  Bodies(L', cstack', ctl') /\ Refines
<1>1. ctl = "precall"
  BY DEF luaD_precall
<1>2. /\ me \in States /\ running \in Threads /\ L \in [Threads -> States] /\ IInv
      /\ top \in Frames /\ top.th = running
  BY <1>1, StayFacts
<1>3. CASE inc_ci(me) # "run"
  BY <1>1, <1>3, GrowRefines DEF luaD_precall
<1>4. CASE inc_ci(me) = "run"
  <2>. DEFINE m == [growCI(me) EXCEPT !.ci = Append(@, f), !.top = "none"]
  <2>1. L' = [L EXCEPT ![running] = m] /\ cstack' = entered(f)
    BY <1>4 DEF luaD_precall, go, set
  <2>2. m.top = "none"
    BY <1>2 DEF States, growCI
  <2>. HIDE DEF m
  <2>3. L'[running].top = "none" /\ \A t \in Threads \ {running} : Same(L'[t], L[t])
    BY <1>2, <2>1, <2>2 DEF Same
  <2>4. Moves(cstack, cstack', running)
    <3>1. CASE f = "C"
      <4>. DEFINE g == Frame("cfun", running)
      <4>1. g \in Frames /\ g.k # "resume" /\ g.th = running
        BY <1>2, NewFrames DEF Frame
      <4>2. cstack' = Append(cstack, g)
        BY <2>1, <3>1 DEF entered
      <4>. HIDE DEF g
      <4>. QED BY <1>1, <4>1, <4>2, PushFacts
    <3>2. CASE f # "C" /\ top.k # "execute"
      <4>. DEFINE g == Execute(running, 1)
      <4>1. g \in Frames /\ g.k # "resume" /\ g.th = running
        BY <1>2, NewFrames DEF Execute
      <4>2. cstack' = Append(cstack, g)
        BY <2>1, <3>2 DEF entered
      <4>. HIDE DEF g
      <4>. QED BY <1>1, <4>1, <4>2, PushFacts
    <3>3. CASE f # "C" /\ top.k = "execute"
      <4>. DEFINE g == [top EXCEPT !.n = top.n + 1]
      <4>1. top.n \in Nat \ {0} /\ g = Execute(running, top.n + 1)
        BY <1>2, <3>3, FrameFacts
      <4>2. top.n + 1 \in Nat \ {0}
        BY <4>1
      <4>3. g \in Frames /\ g.k # "resume" /\ g.th = running
        BY <1>2, <4>1, <4>2, NewFrames DEF Execute
      <4>4. cstack' = [cstack EXCEPT ![Len(cstack)] = g]
        BY <2>1, <3>3 DEF entered, top
      <4>. HIDE DEF g
      <4>5. cstack' = Append(popped, g)
        BY <1>1, <1>2, <4>3, <4>4, ExceptTop
      <4>. QED BY <1>1, <3>3, <4>3, <4>5, SwapFacts
    <3>. QED BY <3>1, <3>2, <3>3
  <2>. QED BY <1>1, <2>3, <2>4, LocalStep
<1>. QED BY <1>3, <1>4

\* The collector shrinks an array.
LEMMA ShrinkRefines ==
  ASSUME AInv, IInv', NEW t \in Threads, checkstacksizes(t)
  PROVE  Bodies(L', cstack', ctl') /\ Refines
<1>1. ctl = "run" /\ cstack' = cstack /\ L' = [L EXCEPT ![t].size_ci = @ \div 2]
  BY DEF checkstacksizes
<1>2. /\ me.top = "none" /\ me = L[running] /\ L \in [Threads -> States] /\ running \in Threads
      /\ Moves(cstack, cstack, running)
  BY <1>1, StayFacts
<1>3. \A s \in Threads : Same(L'[s], L[s])
  BY <1>1, <1>2 DEF Same, States
<1>. QED BY <1>1, <1>2, <1>3, LocalStep DEF Same

(***************************************************************************)
(* Coroutines.                                                             *)
(***************************************************************************)

\* lua_yield and what follows it: the C functions above lua_resume are left.
LEMMA YieldRefines ==
  ASSUME AInv, IInv', lua_yield \/ yielding
  PROVE  Bodies(L', cstack', ctl') /\ Refines
<1>1. ctl \in {"run", "yielded"} /\ ctl # "exit"
  BY DEF lua_yield, yielding, run
<1>2. /\ me \in States /\ me.top = "none" /\ me = L[running] /\ L \in [Threads -> States] /\ running \in Threads
      /\ me.status # "none"
  <2>1. me.status \in {"0", "LUA_YIELD"}
    BY <1>1, TopExists DEF AInv, IInv, me, running, top
  <2>. QED BY <1>1, <2>1, StayFacts
<1>3. CASE lua_yield /\ ~mayyield(me)
  BY <1>1, <1>2, <1>3, ControlRefines DEF lua_yield
<1>4. CASE lua_yield /\ mayyield(me)
  <2>. DEFINE m == [me EXCEPT !.status = "LUA_YIELD", !.allowhook = IF top.k = "hook" THEN TRUE ELSE @]
  <2>1. L' = [L EXCEPT ![running] = m] /\ cstack' = popped /\ top.k # "resume"
    BY <1>4 DEF lua_yield, set, run
  <2>2. m.top = me.top /\ m.status # "none"
    BY <1>2 DEF States
  <2>. HIDE DEF m
  <2>. QED BY <1>1, <2>1, <2>2, PopRefines
<1>5. CASE yielding /\ top.k = "execute"
  <2>1. L' = [L EXCEPT ![running] = me] /\ cstack' = popped
    BY <1>2, <1>5 DEF yielding
  <2>. QED BY <1>1, <1>2, <1>5, <2>1, PopRefines
<1>6. CASE yielding /\ top.k # "execute"
  BY <1>1, <1>2, <1>6, ControlRefines DEF yielding
<1>. QED BY <1>3, <1>4, <1>5, <1>6

\* lua_resume gives control back: the coroutine has yielded or it is finished.
LEMMA ResumeEndRefines ==
  ASSUME AInv, IInv', lua_resume_end
  PROVE  Bodies(L', cstack', ctl') /\ Refines
<1>. DEFINE m == [me EXCEPT !.nCcalls = @ - 1, !.errorJmp = top.previous]
<1>1. ctl = "returned" /\ top.k = "resume" /\ cstack' = popped /\ L' = [L EXCEPT ![running] = m]
  BY DEF lua_resume_end, set
<1>2. /\ me \in States /\ me.top = "none" /\ me = L[running] /\ L \in [Threads -> States] /\ running \in Threads
      /\ IInv
  BY <1>1, StayFacts
<1>3. me.status \in {"0", "LUA_YIELD"}
  BY <1>1, TopExists DEF AInv, IInv, me, running, top
<1>4. me.status = "0" => me.ci = <<"base">>
  <2>1. /\ Account(me, cstack, running) /\ top \in Frames /\ popped \in Seq(Frames)
        /\ Placed(top, popped) /\ top.th = running
    BY <1>1, <1>2, Current
  <2>2. framesOf(popped, running) = {}
    BY <1>1, <2>1 DEF Placed
  <2>3. callinfos(popped, running) = <<"base">>
    BY <2>1, <2>2, NoFrames
  <2>4. callinfos(cstack, running) = <<"base">> \o infos(top)
    BY <1>1, <1>2, <2>3, Below
  <2>5. infos(top) = <<>>
    BY <1>1, <2>1, InfosFacts
  <2>6. callinfos(cstack, running) = <<"base">>
    BY <2>4, <2>5
  <2>. QED BY <2>1, <2>6 DEF Account
<1>5. m.top = me.top /\ m.status = me.status /\ m.ci = me.ci
  BY <1>2 DEF States
<1>. HIDE DEF m
<1>6. look(m) \in {"suspended", "dead"}
  <2>1. CASE me.status = "LUA_YIELD"
    BY <1>5, <2>1 DEF look
  <2>2. CASE me.status = "0"
    <3>1. Len(m.ci) = 1
      BY <1>4, <1>5, <2>2
    <3>. QED BY <1>2, <1>5, <2>2, <3>1 DEF look
  <2>. QED BY <1>3, <2>1, <2>2
<1>7. m.status # "none"
  BY <1>3, <1>5
<1>. QED BY <1>1, <1>2, <1>5, <1>6, <1>7, PopRefines

\* A step that changes only what a thread without frames may look like.
LEMMA IdleStep ==
  ASSUME AInv, IInv', ctl = "run", ctl' = "run", cstack' = cstack,
         NEW co \in Threads, framesOf(cstack, co) = {}, NEW m, L' = [L EXCEPT ![co] = m],
         m.top = "none" \/ m.status = "0", m.status # "none"
  PROVE  /\ Bodies(L', cstack', ctl') /\ chainOf' = chainOf
         /\ [t \in Threads |-> stateOf(t)]' =
              [[t \in Threads |-> stateOf(t)] EXCEPT ![co] = look(m)]
         /\ stateOf(co) = look(L[co]) /\ chainOf # <<>>
<1>1. /\ running \in Threads /\ L \in [Threads -> States] /\ cstack # <<>> /\ Stack(cstack)
      /\ \A t \in Threads \ {running} : L[t].top # "none" => framesOf(cstack, t) = {}
      /\ \A t \in Threads : L[t].top # "none" => L[t].status # "LUA_YIELD"
      /\ me = L[running] /\ me.top = "none" /\ L[Main].status # "none"
  BY OthersWait
<1>2. L'[co] = m /\ \A t \in Threads \ {co} : L'[t] = L[t]
  BY <1>1
<1>3. co # running
  <2>1. Len(cstack) \in 1..Len(cstack)
    BY <1>1, StackTop
  <2>. QED BY <2>1 DEF framesOf, running, top
<1>4. Bodies(L', cstack', ctl')
  <2>1. L'[Main].status # "none"
    BY <1>1, <1>2, LimitFacts
  <2>2. ASSUME NEW t \in Threads, L'[t].top # "none"
        PROVE  L'[t].status # "LUA_YIELD" /\ framesOf(cstack', t) = {}
    BY <1>1, <1>2, <2>2
  <2>. QED BY <2>1, <2>2 DEF Bodies
<1>5. chainOf' = chainOf /\ chainOf # <<>>
  <2>1. resumed(cstack) # <<>>
    BY <1>1, ResumedType
  <2>. QED BY <2>1 DEF chainOf
<1>. DEFINE old == [t \in Threads |-> seen(L, cstack, ctl, t)]
            new == [t \in Threads |-> seen(L', cstack', ctl', t)]
<1>6. old = [t \in Threads |-> stateOf(t)]
  BY SeenNow
<1>7. new = [t \in Threads |-> stateOf(t)]'
  BY <1>4, SeenNext DEF AInv
<1>8. new = [old EXCEPT ![co] = look(m)]
  <2>1. ASSUME NEW t \in Threads PROVE new[t] = [old EXCEPT ![co] = look(m)][t]
    BY <1>2, <1>3 DEF seen, running, top
  <2>. QED BY <2>1
<1>9. old[co] = look(L[co])
  BY <1>3 DEF seen, running, top
<1>10. stateOf(co) = [t \in Threads |-> stateOf(t)][co]
  OBVIOUS
<1>. HIDE DEF old, new
<1>. QED BY <1>4, <1>5, <1>6, <1>7, <1>8, <1>9, <1>10

\* A new coroutine has its body on its stack.
LEMMA CreateRefines ==
  ASSUME AInv, IInv', NEW co \in Threads, luaB_cocreate(co)
  PROVE  Bodies(L', cstack', ctl') /\ Refines
<1>. DEFINE m == newthread("function")
<1>1. /\ ctl = "run" /\ L[co].status = "none" /\ ctl' = "run" /\ cstack' = cstack
      /\ L' = [L EXCEPT ![co] = m] /\ IInv
  BY DEF luaB_cocreate, run, AInv
<1>2. framesOf(cstack, co) = {}
  BY <1>1, ThreadFacts
<1>3. m.status = "0" /\ look(m) = "initial" /\ look(L[co]) = "none"
  <2>1. m.status = "0" /\ m.ci = <<"base">> /\ m.top = "function"
    BY DEF newthread
  <2>. HIDE DEF m
  <2>2. Len(m.ci) = 1
    BY <2>1
  <2>. QED BY <1>1, <2>1, <2>2 DEF look
<1>. HIDE DEF m
<1>4. /\ Bodies(L', cstack', ctl') /\ chainOf' = chainOf
      /\ [t \in Threads |-> stateOf(t)]' = [[t \in Threads |-> stateOf(t)] EXCEPT ![co] = look(m)]
      /\ stateOf(co) = look(L[co]) /\ chainOf # <<>>
  BY <1>1, <1>2, <1>3, IdleStep
<1>5. Abstract!Create(co)
  BY <1>3, <1>4 DEF Abstract!Create
<1>. QED BY <1>4, <1>5 DEF Refines, Abstract!Next

\* A coroutine that cannot be resumed for lack of C stack is lost if it had not started.
LEMMA RefuseRefines ==
  ASSUME AInv, IInv', NEW co \in Threads, resume_error(co)
  PROVE  Bodies(L', cstack', ctl') /\ Refines
<1>. DEFINE m == [L[co] EXCEPT !.nCcalls = me.nCcalls, !.top = "none"]
<1>1. /\ ctl = "run" /\ costatus(running, co) = "suspended" /\ ctl' = "run" /\ cstack' = cstack /\ IInv
  BY DEF resume_error, run, AInv
<1>2. L \in [Threads -> States]
  BY <1>1, StayFacts
<1>3. L' = [L EXCEPT ![co] = m]
  BY <1>2 DEF resume_error
<1>4. /\ co # running /\ framesOf(cstack, co) = {} /\ L[co].status \in {"0", "LUA_YIELD"}
      /\ L[co].status = "0" => L[co].top = "function" /\ L[co].ci = <<"base">>
  BY <1>1, Suspended
<1>5. m.top = "none" /\ m.status = L[co].status /\ m.ci = L[co].ci
  BY <1>2 DEF States
<1>. HIDE DEF m
<1>6. /\ Bodies(L', cstack', ctl') /\ chainOf' = chainOf
      /\ [t \in Threads |-> stateOf(t)]' = [[t \in Threads |-> stateOf(t)] EXCEPT ![co] = look(m)]
      /\ stateOf(co) = look(L[co]) /\ chainOf # <<>>
  BY <1>1, <1>3, <1>4, <1>5, IdleStep
<1>7. CASE L[co].status = "0"
  <2>1. Len(L[co].ci) = 1
    BY <1>4, <1>7
  <2>2. look(m) = "dead" /\ look(L[co]) = "initial"
    BY <1>4, <1>5, <1>7, <2>1 DEF look
  <2>3. Abstract!Refuse(co)
    BY <1>6, <2>2 DEF Abstract!Refuse
  <2>. QED BY <1>6, <2>3 DEF Refines, Abstract!Next
<1>8. CASE L[co].status = "LUA_YIELD"
  <2>1. look(m) = look(L[co])
    BY <1>5, <1>8 DEF look
  <2>2. [t \in Threads |-> stateOf(t)]' = [t \in Threads |-> stateOf(t)]
    BY <1>6, <2>1
  <2>. QED BY <1>6, <2>2 DEF Refines
<1>. QED BY <1>4, <1>7, <1>8

\* lua_resume: the coroutine runs, and its resumer is normal.
LEMMA ResumeRefines ==
  ASSUME AInv, IInv', NEW co \in Threads, lua_resume(co)
  PROVE  Bodies(L', cstack', ctl') /\ Refines
<1>. DEFINE m == started(co)
            f == resumeFrame(co)
            a == Append(cstack, f)
            r == running
<1>1. /\ ctl = "run" /\ costatus(running, co) = "suspended" /\ L' = [L EXCEPT ![co] = m] /\ IInv
      /\ L[co].status = "0" => cstack' = a /\ ctl' = "precall"
      /\ L[co].status # "0" => cstack' = cstack \o <<f, Execute(co, Len(m.ci) - 1)>> /\ ctl' = "run"
  BY DEF lua_resume, run, AInv
<1>2. /\ me.top = "none" /\ me = L[r] /\ L \in [Threads -> States] /\ r \in Threads /\ me \in States
      /\ cstack \in Seq(Frames) /\ cstack # <<>>
  BY <1>1, StayFacts
<1>3. /\ co # r /\ framesOf(cstack, co) = {} /\ L[co].status \in {"0", "LUA_YIELD"}
      /\ L[co].status = "0" => L[co].top = "function" /\ L[co].ci = <<"base">>
  BY <1>1, Suspended
<1>4. m.top = L[co].top /\ m.status = "0"
  BY <1>2 DEF started, States
<1>5. f \in Frames /\ f.k = "resume" /\ f.th = co
  <2>1. L[co].errorJmp \in Nat
    BY <1>2 DEF States
  <2>. QED BY <2>1, NewFrames DEF resumeFrame
<1>6. me.status = "0"
  BY <1>1, CurrentReady
<1>7. Stack(cstack) /\ Stack(cstack') /\ L' \in [Threads -> States]
  BY <1>1, Current DEF IInv, Good, Accounts
<1>. HIDE DEF m, f
<1>8. /\ a \in Seq(Frames) /\ a # <<>> /\ a[Len(a)] = f /\ resumed(a) = Append(resumed(cstack), co)
      /\ \A t \in Threads \ {co} : framesOf(a, t) = framesOf(cstack, t)
  <2>1. a \in Seq(Frames) /\ Len(a) = Len(cstack) + 1 /\ a[Len(cstack) + 1] = f /\ Len(cstack) \in Nat
        /\ \A i \in 1..Len(cstack) : a[i] = cstack[i]
    BY <1>2, <1>5, Appended
  <2>2. resumed(a) = Append(resumed(cstack), co)
    BY <1>2, <1>5, ResumedAppend
  <2>. HIDE DEF a
  <2>3. ASSUME NEW t \in Threads \ {co} PROVE framesOf(a, t) = framesOf(cstack, t)
    <3>1. \A i \in 1..Len(a) : a[i].th = t => i \in 1..Len(cstack)
      BY <1>5, <2>1
    <3>2. \A i \in 1..Len(cstack) : i \in 1..Len(a)
      BY <2>1
    <3>. QED BY <2>1, <3>1, <3>2 DEF framesOf
  <2>. QED BY <2>1, <2>2, <2>3
<1>. HIDE DEF a
<1>9. Moves(a, cstack', co)
  <2>1. CASE L[co].status = "0"
    BY <1>1, <1>5, <1>8, <2>1, MoveNot
  <2>2. CASE L[co].status # "0"
    <3>. DEFINE g == Execute(co, Len(m.ci) - 1)
    <3>1. cstack' = Append(a, g)
      BY <1>1, <1>2, <2>2 DEF a
    <3>2. g.k # "resume" /\ g.th = co
      BY DEF Execute
    <3>. HIDE DEF g
    <3>3. cstack' # <<>> /\ cstack'[Len(cstack')] = g
      BY <1>8, <3>1
    <3>4. g \in Frames
      BY <1>7, <3>3, StackTop
    <3>. QED BY <1>8, <3>1, <3>2, <3>4, MovePush
  <2>. QED BY <2>1, <2>2
<1>10. /\ cstack' # <<>> /\ cstack'[Len(cstack')].th = co /\ ctl' # "exit"
       /\ resumed(cstack') = Append(resumed(cstack), co)
       /\ \A t \in Threads \ {co} : framesOf(cstack', t) = framesOf(cstack, t)
  BY <1>1, <1>3, <1>8, <1>9 DEF Moves
<1>11. L'[co] = m /\ \A t \in Threads \ {co} : L'[t] = L[t]
  BY <1>2, <1>1
<1>12. Bodies(L', cstack', ctl')
  <2>1. L'[Main].status # "none"
    BY <1>4, <1>11, LimitFacts, OthersWait, <1>1
  <2>2. \A t \in Threads : L[t].top # "none" => L[t].status # "LUA_YIELD" /\ (t # r => framesOf(cstack, t) = {})
    BY <1>1, OthersWait
  <2>3. ASSUME NEW t \in Threads, t # co, L'[t].top # "none"
        PROVE  L'[t].status # "LUA_YIELD" /\ framesOf(cstack', t) = {}
    BY <1>2, <1>10, <1>11, <2>2, <2>3
  <2>4. ASSUME L'[co].top # "none"
        PROVE  /\ L'[co].status # "LUA_YIELD" /\ ctl' \in {"precall", "errormsg"}
               /\ cstack'[Len(cstack')].k = "resume" /\ cstack'[Len(cstack')].th = co
    <3>1. L[co].status = "0"
      BY <1>3, <1>4, <1>11, <2>2, <2>4
    <3>. QED BY <1>1, <1>4, <1>5, <1>8, <1>11, <3>1
  <2>. QED BY <2>1, <2>3, <2>4 DEF Bodies
<1>13. Len(me.ci) > 1
  <2>1. framesOf(cstack', r) # {}
    <3>1. Len(cstack) \in 1..Len(cstack)
      BY <1>2
    <3>2. framesOf(cstack, r) # {}
      BY <3>1 DEF framesOf, running, top
    <3>. QED BY <1>2, <1>3, <1>10, <3>2
  <2>2. Len(callinfos(cstack', r)) > 1
    BY <1>2, <1>3, <1>7, <1>10, <2>1, Waiting
  <2>3. L'[r] = me /\ Account(L'[r], cstack', r)
    BY <1>2, <1>3, <1>11 DEF IInv, Good, Accounts
  <2>. QED BY <1>6, <2>2, <2>3 DEF Account
<1>14. look(me) = "normal"
  BY <1>6, <1>13 DEF look
<1>15. look(L[co]) \in {"initial", "suspended"}
  <2>1. CASE L[co].status = "0"
    <3>1. Len(L[co].ci) = 1
      BY <1>3, <2>1
    <3>. QED BY <1>3, <2>1, <3>1 DEF look
  <2>2. CASE L[co].status = "LUA_YIELD"
    BY <2>2 DEF look
  <2>. QED BY <1>3, <2>1, <2>2
<1>. DEFINE old == [t \in Threads |-> seen(L, cstack, ctl, t)]
            new == [t \in Threads |-> seen(L', cstack', ctl', t)]
<1>16. old = [t \in Threads |-> stateOf(t)]
  BY SeenNow
<1>17. new = [t \in Threads |-> stateOf(t)]'
  BY <1>12, SeenNext DEF AInv
<1>18. new = [old EXCEPT ![co] = "running", ![r] = "normal"]
  <2>1. ASSUME NEW t \in Threads PROVE new[t] = [old EXCEPT ![co] = "running", ![r] = "normal"][t]
    BY <1>1, <1>2, <1>3, <1>10, <1>11, <1>14 DEF seen, running, top
  <2>. QED BY <2>1
<1>19. old[co] \in {"initial", "suspended"}
  BY <1>1, <1>3, <1>15 DEF seen, running, top
<1>20. chainOf = resumed(cstack) /\ chainOf' = Append(chainOf, co) /\ chainOf # <<>> /\ chainOf[Len(chainOf)] = r
  <2>1. /\ resumed(cstack) # <<>>
        /\ resumed(cstack)[Len(resumed(cstack))] = cstack[Len(cstack)].th
    BY <1>2, <1>7, ResumedType
  <2>. QED BY <1>1, <1>10, <2>1 DEF chainOf, running, top
<1>21. [t \in Threads |-> stateOf(t)][co] = stateOf(co)
  OBVIOUS
<1>. HIDE DEF old, new, r
<1>22. Abstract!Resume(co)
  BY <1>16, <1>17, <1>18, <1>19, <1>20, <1>21 DEF Abstract!Resume, Abstract!current
<1>. QED BY <1>12, <1>22 DEF Refines, Abstract!Next

\* At first the main thread runs, no other thread exists, and no body waits.
LEMMA InitRefines ==
  ASSUME Init
  PROVE  Abstract!Init /\ Bodies(L, cstack, ctl)
<1>1. /\ cstack \in Seq(Frames) /\ Len(cstack) = 2 /\ cstack[2].k = "call" /\ cstack[1].k = "pcall"
      /\ cstack[2].th = Main
  BY FirstStack DEF Stack
<1>2. IInv /\ Main \in Threads /\ L \in [Threads -> States] /\ ctl = "precall"
  BY InitGood, LimitFacts DEF Init, IInv, Good, Accounts
<1>. DEFINE m == [newthread("none") EXCEPT !.nCcalls = 1, !.errorJmp = 1]
<1>3. m.status = "0" /\ m.top = "none" /\ NoThread.status = "none" /\ NoThread.top = "none"
  BY DEF newthread, NoThread
<1>4. L = [t \in Threads |-> IF t = Main THEN m ELSE NoThread]
  BY DEF Init
<1>. HIDE DEF m
<1>5. L[Main] = m /\ \A t \in Threads \ {Main} : L[t] = NoThread
  BY <1>2, <1>4
<1>6. Bodies(L, cstack, ctl)
  BY <1>3, <1>5 DEF Bodies
<1>7. [t \in Threads |-> stateOf(t)] = [t \in Threads |-> seen(L, cstack, ctl, t)]
  BY <1>2, <1>6, SeenNow DEF AInv
<1>8. [t \in Threads |-> seen(L, cstack, ctl, t)] = [t \in Threads |-> IF t = Main THEN "running" ELSE "none"]
  <2>1. ASSUME NEW t \in Threads PROVE seen(L, cstack, ctl, t) = IF t = Main THEN "running" ELSE "none"
    <3>1. CASE t = Main
      BY <1>1, <1>2, <3>1 DEF seen
    <3>2. CASE t # Main
      BY <1>1, <1>2, <1>3, <1>5, <3>2 DEF seen, look
    <3>. QED BY <3>1, <3>2
  <2>. QED BY <2>1
<1>9. chainOf = <<Main>>
  <2>1. /\ resumedTo(cstack)[0] = <<Main>> /\ resumedTo(cstack)[1] = resumedTo(cstack)[0]
        /\ resumedTo(cstack)[2] = resumedTo(cstack)[1] /\ resumed(cstack) = resumedTo(cstack)[2]
    <3>1. 1 \in 1..2 /\ 2 \in 1..2 /\ 1 - 1 = 0 /\ 2 - 1 = 1
      OBVIOUS
    <3>2. cstack[1].k # "resume" /\ cstack[2].k # "resume"
      BY <1>1
    <3>3. \A i \in 1..2 : cstack[i].k # "resume" => resumedTo(cstack)[i] = resumedTo(cstack)[i - 1]
      BY <1>1, ResumedFacts
    <3>4. resumedTo(cstack)[0] = <<Main>> /\ resumed(cstack) = resumedTo(cstack)[2]
      BY <1>1, ResumedFacts
    <3>. QED BY <3>1, <3>2, <3>3, <3>4
  <2>. QED BY <1>2, <2>1 DEF chainOf
<1>. QED BY <1>6, <1>7, <1>8, <1>9 DEF Abstract!Init

\* Nothing changes: a stutter of the abstract specification.
LEMMA StutterRefines ==
  ASSUME AInv, UNCHANGED vars
  PROVE  Bodies(L', cstack', ctl') /\ Refines
<1>1. L' = L /\ cstack' = cstack /\ ctl' = ctl
  BY DEF vars
<1>2. Bodies(L', cstack', ctl') /\ IInv'
  BY <1>1 DEF AInv, IInv
<1>3. [t \in Threads |-> stateOf(t)]' = [t \in Threads |-> stateOf(t)]
  <2>1. [t \in Threads |-> stateOf(t)] = [t \in Threads |-> seen(L, cstack, ctl, t)]
    BY SeenNow
  <2>2. [t \in Threads |-> stateOf(t)]' = [t \in Threads |-> seen(L', cstack', ctl', t)]
    BY <1>2, SeenNext DEF AInv
  <2>. QED BY <1>1, <2>1, <2>2
<1>4. chainOf' = chainOf
  BY <1>1 DEF chainOf
<1>. QED BY <1>2, <1>3, <1>4 DEF Refines

\* Every step keeps the bodies where they are due, and is one of the abstract
\* specification or none.
LEMMA NextRefines ==
  ASSUME AInv, [Next]_vars
  PROVE  AInv' /\ Refines
<1>. DEFINE G == Bodies(L', cstack', ctl') /\ Refines
<1>1. IInv'
  BY NextGood DEF AInv
<1>2. CASE UNCHANGED vars \/ ended
  <2>1. UNCHANGED vars
    BY <1>2 DEF ended
  <2>. QED BY <1>1, <2>1, StutterRefines DEF AInv
<1>3. CASE Instructions
  <2>1. OP_CALL => G
    BY <1>1, PlainRefine
  <2>2. OP_TAILCALL => G
    BY <1>1, TailcallRefines
  <2>3. OP_RETURN => G
    BY <1>1, ReturnRefines
  <2>4. callTM => G
    BY <1>1, CallsRefine
  <2>. QED BY <1>1, <1>3, <2>1, <2>2, <2>3, <2>4 DEF Instructions, AInv
<1>4. CASE Calls
  <2>1. ASSUME NEW f \in {"Lua", "C"}, luaD_precall(f) PROVE G
    BY <1>1, <2>1, PrecallRefines
  <2>2. tryfuncTM => G
    BY <1>1, PlainRefine
  <2>3. luaD_call_end \/ luaD_poscall => G
    BY <1>1, PopsRefine
  <2>4. lua_call => G
    BY <1>1, CallsRefine
  <2>. QED BY <1>1, <1>4, <2>1, <2>2, <2>3, <2>4 DEF Calls, AInv
<1>5. CASE Protected
  <2>1. ASSUME NEW ef \in Handlers, lua_pcall(ef) PROVE G
    BY <1>1, <2>1, PcallRefines
  <2>2. luaD_pcall_end \/ f_parser_end => G
    BY <1>1, PopsRefine
  <2>3. luaD_protectedparser => G
    BY <1>1, ParserRefines
  <2>4. enterlevel \/ leavelevel => G
    BY <1>1, LevelsRefine
  <2>5. luaX_lexerror => G
    BY <1>1, ThrowsRefine
  <2>. QED BY <1>1, <1>5, <2>1, <2>2, <2>3, <2>4, <2>5 DEF Protected, AInv
<1>6. CASE Raises
  <2>1. luaG_runerror => G
    BY <1>1, PlainRefine
  <2>2. luaM_realloc_fails \/ luaG_errormsg_end => G
    BY <1>1, ThrowsRefine
  <2>3. luaG_errormsg => G
    BY <1>1, ErrormsgRefines
  <2>. QED BY <1>1, <1>6, <2>1, <2>2, <2>3 DEF Raises, AInv
<1>7. CASE Interruptions
  <2>1. luaD_callhook => G
    BY <1>1, HookRefines
  <2>2. luaD_callhook_end \/ GCTM_end => G
    BY <1>1, PopsRefine
  <2>3. GCTM => G
    BY <1>1, GctmRefines
  <2>4. ASSUME NEW t \in Threads, checkstacksizes(t) PROVE G
    BY <1>1, <2>4, ShrinkRefines
  <2>. QED BY <1>1, <1>7, <2>1, <2>2, <2>3, <2>4 DEF Interruptions, AInv
<1>8. CASE Coroutines
  <2>1. ASSUME NEW co \in Threads, luaB_cocreate(co) PROVE G
    BY <1>1, <2>1, CreateRefines
  <2>2. ASSUME NEW co \in Threads, lua_resume(co) PROVE G
    BY <1>1, <2>2, ResumeRefines
  <2>3. ASSUME NEW co \in Threads, resume_error(co) PROVE G
    BY <1>1, <2>3, RefuseRefines
  <2>4. lua_resume_end => G
    BY <1>1, ResumeEndRefines
  <2>5. lua_yield \/ yielding => G
    BY <1>1, YieldRefines
  <2>. QED BY <1>1, <1>8, <2>1, <2>2, <2>3, <2>4, <2>5 DEF Coroutines, AInv
<1>. QED BY <1>2, <1>3, <1>4, <1>5, <1>6, <1>7, <1>8 DEF Next

\* The body of a coroutine is on its stack only until lua_resume has called it,
\* and the main thread always exists.
THEOREM BodiesWait == Spec => []AInv
<1>1. Init => AInv
  BY InitGood, InitRefines DEF AInv
<1>2. AInv /\ [Next]_vars => AInv'
  BY NextRefines
<1>. QED BY <1>1, <1>2, PTL DEF Spec

\* For any number of threads and any limits, what costatus reports and the
\* threads that lua_resume has stacked behave as the abstract coroutines: one
\* runs, resumed by a normal one, down to the main thread; only a suspended one
\* is resumed; a yield, an end or an error gives control back to the resumer;
\* nothing brings a dead one back.
THEOREM CoroutinesRefined == Spec => CoroutineSpec
<1>1. Init => Abstract!Init
  BY InitRefines
<1>2. AInv /\ [Next]_vars => [Abstract!Next]_<<[t \in Threads |-> stateOf(t)], chainOf>>
  BY NextRefines DEF Refines
<1>. QED BY <1>1, <1>2, BodiesWait, PTL DEF Spec, CoroutineSpec, Abstract!Spec
=============================================================================
