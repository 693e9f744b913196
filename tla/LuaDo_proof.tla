---------------------------- MODULE LuaDo_proof ----------------------------
(***************************************************************************)
(* Proofs about calls, errors and coroutines, for any number of threads,   *)
(* any limits and any depth of the C stack.  What a thread's record must   *)
(* hold is a function of the C stack; every action adds frames, takes one  *)
(* off, exchanges the top one or cuts the stack at a protected call.       *)
(***************************************************************************)
EXTENDS LuaDo, LuaInduction, SequenceTheorems

(***************************************************************************)
(* Frames, and stacks of them.                                             *)
(***************************************************************************)
Kinds == Codes \cup {"call", "handler", "gctm", "resume", "pcall"}

Frames ==
  [k : {"execute"}, th : Threads, n : Nat \ {0}]
    \cup [k : {"parser"}, th : Threads, lev : Nat]
    \cup [k : {"call", "handler", "cfun", "hook"}, th : Threads]
    \cup [k : {"gctm"}, th : Threads, allowhook : BOOLEAN]
    \cup [k : {"resume"}, th : Threads, previous : Nat]
    \cup [k : {"pcall"}, th : Threads, ef : Handlers, nCcalls : Nat, ci : Nat,
          allowhook : BOOLEAN, errfunc : Handlers, previous : Nat]

\* A frame is one of the C functions, with what that function keeps.
LEMMA FrameFacts ==
  ASSUME NEW f \in Frames
  PROVE  /\ f.th \in Threads /\ f.k \in Kinds
         /\ weight(f) \in Nat
         /\ f.k = "execute" => f.n \in Nat \ {0} /\ \A m : [f EXCEPT !.n = m] = Execute(f.th, m)
         /\ f.k = "parser" => f.lev \in Nat /\ \A m : [f EXCEPT !.lev = m] = Parser(f.th, m)
         /\ f.k = "pcall" => /\ f.nCcalls \in Nat /\ f.ci \in Nat /\ f.allowhook \in BOOLEAN
                             /\ f.errfunc \in Handlers /\ f.previous \in Nat /\ f.ef \in Handlers
         /\ f.k = "gctm" => f.allowhook \in BOOLEAN
         /\ f.k = "resume" => f.previous \in Nat
<1>1. CASE f \in [k : {"execute"}, th : Threads, n : Nat \ {0}]
  BY <1>1 DEF weight, Kinds, Codes, Execute
<1>2. CASE f \in [k : {"parser"}, th : Threads, lev : Nat]
  BY <1>2 DEF weight, Kinds, Codes, Parser
<1>3. CASE f \in [k : {"call", "handler", "cfun", "hook"}, th : Threads]
  BY <1>3 DEF weight, Kinds, Codes
<1>4. CASE f \in [k : {"gctm"}, th : Threads, allowhook : BOOLEAN]
  BY <1>4 DEF weight, Kinds, Codes
<1>5. CASE f \in [k : {"resume"}, th : Threads, previous : Nat]
  BY <1>5 DEF weight, Kinds, Codes
<1>6. CASE f \in [k : {"pcall"}, th : Threads, ef : Handlers, nCcalls : Nat, ci : Nat,
                  allowhook : BOOLEAN, errfunc : Handlers, previous : Nat]
  BY <1>6 DEF weight, Kinds, Codes
<1>. QED BY <1>1, <1>2, <1>3, <1>4, <1>5, <1>6 DEF Frames

\* The frames the model pushes.
LEMMA NewFrames ==
  ASSUME NEW t \in Threads
  PROVE  /\ \A m \in Nat \ {0} : Execute(t, m) \in Frames
         /\ \A m \in Nat : Parser(t, m) \in Frames
         /\ \A x \in {"call", "handler", "cfun", "hook"} : Frame(x, t) \in Frames
         /\ \A b \in BOOLEAN : [k |-> "gctm", th |-> t, allowhook |-> b] \in Frames
         /\ \A p \in Nat : [k |-> "resume", th |-> t, previous |-> p] \in Frames
         /\ \A e \in Handlers, m \in Nat, c \in Nat, b \in BOOLEAN, h \in Handlers, p \in Nat :
              [k |-> "pcall", th |-> t, ef |-> e, nCcalls |-> m, ci |-> c,
               allowhook |-> b, errfunc |-> h, previous |-> p] \in Frames
BY DEF Frames, Execute, Parser, Frame

\* The CallInfos of a frame.
LEMMA InfosFacts ==
  ASSUME NEW f \in Frames
  PROVE  /\ infos(f) \in Seq({"base", "Lua", "C"})
         /\ f.k = "execute" => infos(f) = [i \in 1..f.n |-> "Lua"] /\ Len(infos(f)) = f.n
         /\ f.k = "cfun" => infos(f) = <<"C">>
         /\ f.k \notin {"execute", "cfun"} => infos(f) = <<>>
<1>1. CASE f.k = "execute"
  <2>1. f.n \in Nat
    BY <1>1, FrameFacts
  <2>2. infos(f) = [i \in 1..f.n |-> "Lua"]
    BY <1>1 DEF infos
  <2>. QED BY <1>1, <2>1, <2>2
<1>2. CASE f.k = "cfun"
  BY <1>2 DEF infos
<1>3. CASE f.k \notin {"execute", "cfun"}
  BY <1>3 DEF infos
<1>. QED BY <1>1, <1>2, <1>3

\* What Append gives, element by element.
LEMMA Appended ==
  ASSUME NEW S, NEW cs \in Seq(S), NEW f \in S
  PROVE  /\ Append(cs, f) \in Seq(S) /\ Len(Append(cs, f)) = Len(cs) + 1
         /\ Append(cs, f)[Len(cs) + 1] = f
         /\ \A i \in 1..Len(cs) : Append(cs, f)[i] = cs[i]
         /\ SubSeq(Append(cs, f), 1, Len(cs)) = cs
<1>1. /\ Append(cs, f) \in Seq(S) /\ Len(Append(cs, f)) = Len(cs) + 1
      /\ Append(cs, f)[Len(cs) + 1] = f
      /\ \A i \in 1..Len(cs) : Append(cs, f)[i] = cs[i]
  OBVIOUS
<1>2. SubSeq(Append(cs, f), 1, Len(cs)) = cs
  OBVIOUS
<1>. QED BY <1>1, <1>2

\* What the first m elements of a sequence are.
LEMMA Prefix ==
  ASSUME NEW S, NEW cs \in Seq(S), NEW m \in 0..Len(cs)
  PROVE  /\ SubSeq(cs, 1, m) \in Seq(S) /\ Len(SubSeq(cs, 1, m)) = m
         /\ \A i \in 1..m : SubSeq(cs, 1, m)[i] = cs[i]
OBVIOUS

\* A prefix of a prefix is a prefix.
LEMMA PrefixOfPrefix ==
  ASSUME NEW S, NEW cs \in Seq(S), NEW m \in 0..Len(cs), NEW i \in 0..m
  PROVE  SubSeq(SubSeq(cs, 1, m), 1, i) = SubSeq(cs, 1, i)
<1>. DEFINE q == SubSeq(cs, 1, m)
            a == SubSeq(q, 1, i)
            b == SubSeq(cs, 1, i)
<1>1. q \in Seq(S) /\ Len(q) = m /\ \A j \in 1..m : q[j] = cs[j]
  BY Prefix
<1>2. i \in 0..Len(cs) /\ i \in 0..Len(q) /\ i \in Nat /\ m \in Nat
  BY <1>1
<1>. HIDE DEF q
<1>3. a \in Seq(S) /\ Len(a) = i /\ \A j \in 1..i : a[j] = q[j]
  BY <1>1, <1>2, Prefix
<1>4. b \in Seq(S) /\ Len(b) = i /\ \A j \in 1..i : b[j] = cs[j]
  BY <1>2, Prefix
<1>5. \A j \in 1..i : a[j] = b[j]
  BY <1>1, <1>2, <1>3, <1>4
<1>. HIDE DEF a, b
<1>6. a = b
  BY <1>3, <1>4, <1>5, SeqEqual
<1>. QED BY <1>6 DEF a, b, q

\* A stack is its lower part and its top.
LEMMA Unappended ==
  ASSUME NEW S, NEW cs \in Seq(S), cs # <<>>
  PROVE  /\ SubSeq(cs, 1, Len(cs) - 1) \in Seq(S) /\ cs[Len(cs)] \in S
         /\ Len(SubSeq(cs, 1, Len(cs) - 1)) = Len(cs) - 1
         /\ cs = Append(SubSeq(cs, 1, Len(cs) - 1), cs[Len(cs)])
<1>. DEFINE p == SubSeq(cs, 1, Len(cs) - 1)
            f == cs[Len(cs)]
<1>1. Len(cs) \in Nat \ {0} /\ f \in S
  OBVIOUS
<1>2. p \in Seq(S) /\ Len(p) = Len(cs) - 1 /\ \A i \in 1..Len(cs) - 1 : p[i] = cs[i]
  <2>1. Len(cs) - 1 \in 0..Len(cs)
    BY <1>1
  <2>. QED BY <2>1, Prefix
<1>. HIDE DEF p
<1>3. Append(p, f) \in Seq(S) /\ Len(Append(p, f)) = Len(cs)
  BY <1>1, <1>2
<1>4. ASSUME NEW i \in 1..Len(cs) PROVE Append(p, f)[i] = cs[i]
  BY <1>1, <1>2
<1>5. Append(p, f) = cs
  BY <1>3, <1>4, SeqEqual
<1>. QED BY <1>1, <1>2, <1>5 DEF p

(***************************************************************************)
(* The recursive functions on stacks.                                      *)
(***************************************************************************)

\* Ccalls is what its equation says.
LEMMA CcallsFacts ==
  ASSUME NEW cs \in Seq(Frames)
  PROVE  /\ Ccalls(cs) \in [0..Len(cs) -> Nat]
         /\ Ccalls(cs)[0] = 0
         /\ \A i \in 1..Len(cs) : Ccalls(cs)[i] = Ccalls(cs)[i - 1] + weight(cs[i])
<1>. DEFINE P(n) == n = [i \in 0..Len(cs) |-> IF i = 0 THEN 0 ELSE n[i - 1] + weight(cs[i])]
            g == [i \in 1..Len(cs) |-> [v \in Nat |-> v + weight(cs[i])]]
<1>1. \A i \in 1..Len(cs) : weight(cs[i]) \in Nat
  BY FrameFacts
<1>2. g \in [1..Len(cs) -> [Nat -> Nat]] /\ Len(cs) \in Nat
  BY <1>1
<1>3. PICK c \in [0..Len(cs) -> Nat] : c[0] = 0 /\ \A i \in 1..Len(cs) : c[i] = g[i][c[i - 1]]
  <2>1. 0 \in Nat
    OBVIOUS
  <2>. HIDE DEF g
  <2>2. \E c \in [0..Len(cs) -> Nat] : IsRecursion(c, 0, Len(cs), g)
    BY <1>2, <2>1, Recursion
  <2>. QED BY <2>2 DEF IsRecursion
<1>4. P(c)
  <2>1. ASSUME NEW i \in 0..Len(cs) PROVE c[i] = IF i = 0 THEN 0 ELSE c[i - 1] + weight(cs[i])
    <3>1. CASE i = 0
      BY <1>3, <3>1
    <3>2. CASE i # 0
      <4>1. i \in 1..Len(cs) /\ i - 1 \in 0..Len(cs)
        BY <1>2, <3>2
      <4>2. c[i - 1] \in Nat
        BY <4>1
      <4>. QED BY <1>3, <3>2, <4>1, <4>2
    <3>. QED BY <3>1, <3>2
  <2>. QED BY <2>1
<1>5. P(Ccalls(cs))
  <2>1. Ccalls(cs) = CHOOSE n : P(n)
    BY DEF Ccalls
  <2>. HIDE DEF P
  <2>. QED BY <1>4, <2>1
<1>6. DOMAIN Ccalls(cs) = 0..Len(cs) /\ Ccalls(cs) = [i \in 0..Len(cs) |-> Ccalls(cs)[i]]
  BY <1>5
<1>7. Ccalls(cs)[0] = 0 /\ \A i \in 1..Len(cs) : Ccalls(cs)[i] = Ccalls(cs)[i - 1] + weight(cs[i])
  BY <1>2, <1>5
<1>8. \A i \in 0..Len(cs) : Ccalls(cs)[i] \in Nat
  <2>. DEFINE T == {i \in 0..Len(cs) : Ccalls(cs)[i] \in Nat}
  <2>1. 0 \in T
    BY <1>2, <1>7
  <2>2. ASSUME NEW i \in 0..Len(cs) - 1, i \in T PROVE i + 1 \in T
    <3>1. i + 1 \in 1..Len(cs) /\ i + 1 - 1 = i
      BY <1>2
    <3>. QED BY <1>1, <1>7, <2>2, <3>1
  <2>3. 0..Len(cs) \subseteq T
    <3>. HIDE DEF T
    <3>. QED BY <1>2, <2>1, <2>2, BoundedInduction
  <2>. QED BY <2>3
<1>. QED BY <1>6, <1>7, <1>8

\* The C calls of a whole stack, and those below the last frame of a thread.
Total(cs) == Ccalls(cs)[Len(cs)]
Count(cs, t) == Ccalls(cs)[greatest(framesOf(cs, t))]

\* The C calls of a C stack are counted frame by frame, from below.
LEMMA TotalFacts ==
  /\ Total(<<>>) = 0
  /\ \A cs \in Seq(Frames) : Total(cs) \in Nat
  /\ \A cs \in Seq(Frames), f \in Frames :
       /\ Total(Append(cs, f)) = Total(cs) + weight(f)
       /\ \A i \in 0..Len(cs) : Ccalls(Append(cs, f))[i] = Ccalls(cs)[i]
<1>1. Total(<<>>) = 0
  <2>1. <<>> \in Seq(Frames) /\ Len(<<>>) = 0
    OBVIOUS
  <2>. QED BY <2>1, CcallsFacts DEF Total
<1>2. ASSUME NEW cs \in Seq(Frames) PROVE Total(cs) \in Nat
  <2>1. Len(cs) \in 0..Len(cs)
    OBVIOUS
  <2>. QED BY <2>1, CcallsFacts DEF Total
<1>3. ASSUME NEW cs \in Seq(Frames), NEW f \in Frames
      PROVE  /\ Total(Append(cs, f)) = Total(cs) + weight(f)
             /\ \A i \in 0..Len(cs) : Ccalls(Append(cs, f))[i] = Ccalls(cs)[i]
  <2>. DEFINE ds == Append(cs, f)
  <2>1. /\ ds \in Seq(Frames) /\ Len(ds) = Len(cs) + 1 /\ ds[Len(cs) + 1] = f
        /\ \A i \in 1..Len(cs) : ds[i] = cs[i]
    BY Appended
  <2>. HIDE DEF ds
  <2>2. Len(cs) \in Nat
    OBVIOUS
  <2>3. ASSUME NEW i \in 1..Len(cs) PROVE Ccalls(ds)[i] = Ccalls(ds)[i - 1] + weight(cs[i])
    <3>1. i \in 1..Len(ds) /\ ds[i] = cs[i]
      BY <2>1, <2>2
    <3>. QED BY <2>1, <3>1, CcallsFacts
  <2>4. \A i \in 1..Len(cs) : Ccalls(cs)[i] = Ccalls(cs)[i - 1] + weight(cs[i])
    BY CcallsFacts
  <2>5. Ccalls(ds)[0] = 0 /\ Ccalls(cs)[0] = 0
    BY <2>1, CcallsFacts
  <2>6. \A i \in 0..Len(cs) : Ccalls(ds)[i] = Ccalls(cs)[i]
    <3>1. \A i \in 1..Len(cs) : Ccalls(ds)[i - 1] = Ccalls(cs)[i - 1] => Ccalls(ds)[i] = Ccalls(cs)[i]
      BY <2>3, <2>4
    <3>2. Ccalls(ds)[0] = Ccalls(cs)[0]
      BY <2>5
    <3>. QED BY <2>2, <3>1, <3>2, SameRecursion, ZenonT(60)
  <2>7. Ccalls(ds)[Len(cs) + 1] = Ccalls(ds)[Len(cs)] + weight(f)
    <3>1. Len(cs) + 1 \in 1..Len(ds) /\ Len(cs) + 1 - 1 = Len(cs)
      BY <2>1, <2>2
    <3>. QED BY <2>1, <3>1, CcallsFacts
  <2>8. Ccalls(ds)[Len(cs)] = Ccalls(cs)[Len(cs)]
    BY <2>2, <2>6
  <2>. QED BY <2>1, <2>6, <2>7, <2>8 DEF Total, ds
<1>. QED BY <1>1, <1>2, <1>3

\* The CallInfos of thread t that the lowest frames account for.
infosTo(cs, t) ==
  CHOOSE c : c = [i \in 0..Len(cs) |->
                    IF i = 0 THEN <<"base">> ELSE IF cs[i].th # t THEN c[i - 1]
                    ELSE c[i - 1] \o infos(cs[i])]

Infos == {"base", "Lua", "C"}

\* callinfos is computed frame by frame, from below.
LEMMA CallinfosFacts ==
  ASSUME NEW cs \in Seq(Frames), NEW t
  PROVE  /\ callinfos(cs, t) = infosTo(cs, t)[Len(cs)]
         /\ infosTo(cs, t)[0] = <<"base">>
         /\ \A i \in 1..Len(cs) :
              infosTo(cs, t)[i] = IF cs[i].th # t THEN infosTo(cs, t)[i - 1]
                                  ELSE infosTo(cs, t)[i - 1] \o infos(cs[i])
<1>. DEFINE V == Seq(Infos)
            P(c) == c = [i \in 0..Len(cs) |->
                           IF i = 0 THEN <<"base">> ELSE IF cs[i].th # t THEN c[i - 1]
                           ELSE c[i - 1] \o infos(cs[i])]
            G(i) == [v \in V |-> IF cs[i].th # t THEN v ELSE v \o infos(cs[i])]
            g == [i \in 1..Len(cs) |-> G(i)]
<1>1. callinfos(cs, t) = infosTo(cs, t)[Len(cs)]
  BY DEF callinfos, infosTo
<1>2. \A i \in 1..Len(cs) : infos(cs[i]) \in V
  BY InfosFacts DEF Infos
<1>3. g \in [1..Len(cs) -> [V -> V]] /\ Len(cs) \in Nat /\ <<"base">> \in V
  <2>1. ASSUME NEW i \in 1..Len(cs) PROVE G(i) \in [V -> V]
    <3>1. ASSUME NEW v \in V PROVE v \o infos(cs[i]) \in V
      <4>1. infos(cs[i]) \in V
        BY <1>2
      <4>. QED BY <4>1
    <3>. HIDE DEF V
    <3>. QED BY <3>1
  <2>2. <<"base">> \in V
    BY DEF Infos
  <2>. HIDE DEF V, G
  <2>. QED BY <2>1, <2>2
<1>4. PICK c \in [0..Len(cs) -> V] : IsRecursion(c, <<"base">>, Len(cs), g)
  <2>. HIDE DEF g, V
  <2>. QED BY <1>3, Recursion
<1>5. P(c)
  <2>1. ASSUME NEW i \in 0..Len(cs)
        PROVE  c[i] = IF i = 0 THEN <<"base">> ELSE IF cs[i].th # t THEN c[i - 1]
                      ELSE c[i - 1] \o infos(cs[i])
    <3>1. CASE i = 0
      BY <1>4, <3>1 DEF IsRecursion
    <3>2. CASE i # 0
      <4>1. i \in 1..Len(cs) /\ i - 1 \in 0..Len(cs)
        BY <1>3, <3>2
      <4>2. c[i - 1] \in V /\ c[i] = g[i][c[i - 1]]
        BY <1>4, <4>1 DEF IsRecursion
      <4>3. g[i] = G(i)
        BY <4>1
      <4>. HIDE DEF g, V
      <4>. QED BY <3>2, <4>2, <4>3
    <3>. QED BY <3>1, <3>2
  <2>. HIDE DEF V
  <2>. QED BY <2>1
<1>6. P(infosTo(cs, t))
  <2>1. infosTo(cs, t) = CHOOSE c2 : P(c2)
    BY DEF infosTo
  <2>. HIDE DEF P
  <2>. QED BY <1>5, <2>1
<1>. HIDE DEF g, V
<1>7. infosTo(cs, t)[0] = <<"base">>
  BY <1>3, <1>6
<1>8. ASSUME NEW i \in 1..Len(cs)
      PROVE  infosTo(cs, t)[i] = IF cs[i].th # t THEN infosTo(cs, t)[i - 1]
                                 ELSE infosTo(cs, t)[i - 1] \o infos(cs[i])
  <2>. DEFINE c2 == infosTo(cs, t)
  <2>1. i \in 0..Len(cs) /\ i # 0
    BY <1>3
  <2>2. c2 = [j \in 0..Len(cs) |->
                IF j = 0 THEN <<"base">> ELSE IF cs[j].th # t THEN c2[j - 1]
                ELSE c2[j - 1] \o infos(cs[j])]
    BY <1>6
  <2>. HIDE DEF c2
  <2>3. c2[i] = IF i = 0 THEN <<"base">> ELSE IF cs[i].th # t THEN c2[i - 1]
                ELSE c2[i - 1] \o infos(cs[i])
    BY <2>1, <2>2
  <2>. QED BY <2>1, <2>3 DEF c2
<1>. QED BY <1>1, <1>7, <1>8

\* A frame adds its CallInfos to those of its thread.
LEMMA CallinfosAppend ==
  /\ \A t : callinfos(<<>>, t) = <<"base">>
  /\ \A cs \in Seq(Frames), f \in Frames : \A t :
       callinfos(Append(cs, f), t) =
         IF f.th # t THEN callinfos(cs, t) ELSE callinfos(cs, t) \o infos(f)
<1>1. ASSUME NEW t PROVE callinfos(<<>>, t) = <<"base">>
  <2>1. <<>> \in Seq(Frames) /\ Len(<<>>) = 0
    OBVIOUS
  <2>. QED BY <2>1, CallinfosFacts, ZenonT(30)
<1>2. ASSUME NEW cs \in Seq(Frames), NEW f \in Frames, NEW t
      PROVE  callinfos(Append(cs, f), t) =
               IF f.th # t THEN callinfos(cs, t) ELSE callinfos(cs, t) \o infos(f)
  <2>. DEFINE ds == Append(cs, f)
              c == infosTo(cs, t)
              d == infosTo(ds, t)
  <2>1. /\ ds \in Seq(Frames) /\ Len(ds) = Len(cs) + 1 /\ ds[Len(cs) + 1] = f
        /\ \A i \in 1..Len(cs) : ds[i] = cs[i]
    BY Appended
  <2>. HIDE DEF ds
  <2>2. Len(cs) \in Nat
    OBVIOUS
  <2>3. ASSUME NEW i \in 1..Len(cs)
        PROVE  d[i] = IF cs[i].th # t THEN d[i - 1] ELSE d[i - 1] \o infos(cs[i])
    <3>1. i \in 1..Len(ds) /\ ds[i] = cs[i]
      BY <2>1, <2>2
    <3>. QED BY <2>1, <3>1, CallinfosFacts
  <2>4. \A i \in 1..Len(cs) : c[i] = IF cs[i].th # t THEN c[i - 1] ELSE c[i - 1] \o infos(cs[i])
    BY CallinfosFacts
  <2>5. d[0] = c[0]
    BY <2>1, CallinfosFacts
  <2>6. callinfos(cs, t) = c[Len(cs)] /\ callinfos(ds, t) = d[Len(cs) + 1]
    BY <2>1, CallinfosFacts
  <2>7. d[Len(cs) + 1] = IF f.th # t THEN d[Len(cs)] ELSE d[Len(cs)] \o infos(f)
    <3>1. Len(cs) + 1 \in 1..Len(ds) /\ Len(cs) + 1 - 1 = Len(cs)
      BY <2>1, <2>2
    <3>. QED BY <2>1, <3>1, CallinfosFacts
  <2>. HIDE DEF c, d
  <2>8. \A i \in 0..Len(cs) : d[i] = c[i]
    <3>1. \A i \in 1..Len(cs) : d[i - 1] = c[i - 1] => d[i] = c[i]
      BY <2>3, <2>4
    <3>. QED BY <2>2, <2>5, <3>1, SameRecursion, ZenonT(60)
  <2>9. d[Len(cs)] = c[Len(cs)]
    BY <2>2, <2>8
  <2>. QED BY <2>6, <2>7, <2>9 DEF ds
<1>. QED BY <1>1, <1>2

\* A property of the empty stack that a frame more does not lose is one of the
\* lower parts of every stack; from there it can be taken up to the whole.
LEMMA TopPart ==
  ASSUME NEW cs \in Seq(Frames), NEW m \in 1..Len(cs)
  PROVE  /\ SubSeq(cs, 1, m) = Append(SubSeq(cs, 1, m - 1), cs[m])
         /\ SubSeq(cs, 1, m - 1) \in Seq(Frames) /\ cs[m] \in Frames
         /\ SubSeq(cs, 1, Len(cs)) = cs /\ SubSeq(cs, 1, 0) = <<>>
<1>. DEFINE p == SubSeq(cs, 1, m - 1)
            q == SubSeq(cs, 1, m)
<1>1. m - 1 \in 0..Len(cs) /\ m \in 0..Len(cs) /\ m \in Nat /\ cs[m] \in Frames /\ Len(cs) \in Nat
  OBVIOUS
<1>2. p \in Seq(Frames) /\ Len(p) = m - 1 /\ \A i \in 1..m - 1 : p[i] = cs[i]
  BY <1>1, Prefix
<1>3. q \in Seq(Frames) /\ Len(q) = m /\ \A i \in 1..m : q[i] = cs[i]
  BY <1>1, Prefix
<1>4. SubSeq(cs, 1, Len(cs)) = cs /\ SubSeq(cs, 1, 0) = <<>>
  OBVIOUS
<1>. HIDE DEF p, q
<1>5. Append(p, cs[m]) \in Seq(Frames) /\ Len(Append(p, cs[m])) = Len(q)
  BY <1>1, <1>2, <1>3
<1>6. ASSUME NEW i \in 1..Len(q) PROVE Append(p, cs[m])[i] = q[i]
  BY <1>1, <1>2, <1>3
<1>7. q = Append(p, cs[m])
  BY <1>3, <1>5, <1>6, SeqEqual
<1>. QED BY <1>1, <1>2, <1>4, <1>7 DEF p, q

\* The C calls only grow up the stack.
LEMMA TotalGrows ==
  ASSUME NEW cs \in Seq(Frames), NEW m \in 0..Len(cs)
  PROVE  /\ Total(SubSeq(cs, 1, m)) <= Total(cs)
         /\ Total(SubSeq(cs, 1, m)) \in Nat
<1>. DEFINE T(j) == Total(SubSeq(cs, 1, j))
            S == {k \in Nat : m + k <= Len(cs) => T(m) <= T(m + k)}
<1>1. m \in Nat /\ Len(cs) \in Nat /\ SubSeq(cs, 1, Len(cs)) = cs
  OBVIOUS
<1>2. \A j \in 0..Len(cs) : T(j) \in Nat
  BY Prefix, TotalFacts
<1>3. 0 \in S
  <2>1. T(m) \in Nat
    BY <1>2
  <2>. HIDE DEF T
  <2>. QED BY <1>1, <2>1
<1>4. ASSUME NEW k \in Nat, k \in S PROVE k + 1 \in S
  <2>. SUFFICES ASSUME m + (k + 1) <= Len(cs) PROVE T(m) <= T(m + (k + 1))
    OBVIOUS
  <2>1. m + (k + 1) \in 1..Len(cs) /\ m + (k + 1) - 1 = m + k /\ m + k <= Len(cs) /\ m + k \in 0..Len(cs)
    BY <1>1
  <2>2. /\ SubSeq(cs, 1, m + (k + 1)) = Append(SubSeq(cs, 1, m + k), cs[m + (k + 1)])
        /\ SubSeq(cs, 1, m + k) \in Seq(Frames) /\ cs[m + (k + 1)] \in Frames
    BY <2>1, TopPart
  <2>3. T(m + (k + 1)) = T(m + k) + weight(cs[m + (k + 1)])
    <3>. DEFINE q == SubSeq(cs, 1, m + k)
                f == cs[m + (k + 1)]
    <3>1. q \in Seq(Frames) /\ f \in Frames /\ SubSeq(cs, 1, m + (k + 1)) = Append(q, f)
      BY <2>2
    <3>. HIDE DEF q, f
    <3>2. Total(Append(q, f)) = Total(q) + weight(f)
      BY ONLY <3>1, TotalFacts
    <3>. QED BY <3>1, <3>2 DEF q, f
  <2>4. weight(cs[m + (k + 1)]) \in Nat
    BY <2>2, FrameFacts
  <2>5. T(m) \in Nat /\ T(m + k) \in Nat
    BY <1>2, <2>1
  <2>6. T(m) <= T(m + k)
    BY <1>4, <2>1
  <2>. HIDE DEF T
  <2>. QED BY <2>3, <2>4, <2>5, <2>6
<1>5. Nat \subseteq S
  <2>. HIDE DEF S
  <2>. QED BY <1>3, <1>4, SetInduction
<1>6. Len(cs) - m \in Nat /\ m + (Len(cs) - m) = Len(cs)
  BY <1>1
<1>7. T(m) <= T(m + (Len(cs) - m))
  BY <1>1, <1>5, <1>6
<1>. QED BY <1>1, <1>2, <1>6, <1>7

\* Every stack gives a thread its base CallInfo, and others above it.
LEMMA CallinfosType ==
  ASSUME NEW cs \in Seq(Frames), NEW t
  PROVE  callinfos(cs, t) \in Seq(Infos) /\ Len(callinfos(cs, t)) >= 1 /\ callinfos(cs, t)[1] = "base"
<1>. DEFINE C(j) == callinfos(SubSeq(cs, 1, j), t)
            Good(c) == c \in Seq(Infos) /\ Len(c) >= 1 /\ c[1] = "base"
            S == {k \in Nat : k <= Len(cs) => Good(C(k))}
<1>1. Len(cs) \in Nat /\ SubSeq(cs, 1, Len(cs)) = cs /\ SubSeq(cs, 1, 0) = <<>>
  OBVIOUS
<1>2. 0 \in S
  <2>1. C(0) = <<"base">>
    BY <1>1, CallinfosAppend
  <2>2. Good(<<"base">>)
    BY DEF Infos
  <2>. HIDE DEF C, Good
  <2>. QED BY <2>1, <2>2
<1>3. ASSUME NEW k \in Nat, k \in S PROVE k + 1 \in S
  <2>. SUFFICES ASSUME k + 1 <= Len(cs) PROVE Good(C(k + 1))
    OBVIOUS
  <2>1. k + 1 \in 1..Len(cs) /\ k + 1 - 1 = k /\ k <= Len(cs)
    BY <1>1
  <2>2. /\ SubSeq(cs, 1, k + 1) = Append(SubSeq(cs, 1, k), cs[k + 1])
        /\ SubSeq(cs, 1, k) \in Seq(Frames) /\ cs[k + 1] \in Frames
    BY <2>1, TopPart
  <2>3. C(k + 1) = IF cs[k + 1].th # t THEN C(k) ELSE C(k) \o infos(cs[k + 1])
    <3>. DEFINE p == SubSeq(cs, 1, k)
                f == cs[k + 1]
    <3>1. p \in Seq(Frames) /\ f \in Frames /\ C(k + 1) = callinfos(Append(p, f), t) /\ C(k) = callinfos(p, t)
      BY <2>2
    <3>. HIDE DEF p, C
    <3>2. callinfos(Append(p, f), t) = IF f.th # t THEN callinfos(p, t) ELSE callinfos(p, t) \o infos(f)
      BY <3>1, CallinfosAppend, ZenonT(60)
    <3>. QED BY <3>1, <3>2
  <2>4. infos(cs[k + 1]) \in Seq(Infos)
    BY <2>2, InfosFacts DEF Infos
  <2>5. Good(C(k))
    BY <1>3, <2>1
  <2>. HIDE DEF C
  <2>6. ASSUME NEW a \in Seq(Infos), NEW b \in Seq(Infos), Good(a) PROVE Good(a \o b)
    BY <2>6
  <2>7. Good(C(k) \o infos(cs[k + 1]))
    BY <2>4, <2>5, <2>6
  <2>. HIDE DEF Good
  <2>. QED BY <2>3, <2>5, <2>7
<1>4. Nat \subseteq S
  <2>. HIDE DEF S
  <2>. QED BY <1>2, <1>3, SetInduction
<1>5. Good(C(Len(cs)))
  BY <1>1, <1>4
<1>. QED BY <1>1, <1>5

\* What a lower part of the stack accounts for comes first: this is what an
\* error caught there keeps.
LEMMA CallinfosPrefix ==
  ASSUME NEW cs \in Seq(Frames), NEW t, NEW m \in 0..Len(cs)
  PROVE  LET p == callinfos(SubSeq(cs, 1, m), t)
         IN  p \in Seq(Infos) /\ Len(p) \in 1..Len(callinfos(cs, t)) /\ SubSeq(callinfos(cs, t), 1, Len(p)) = p
<1>. DEFINE C(j) == callinfos(SubSeq(cs, 1, j), t)
            Pre(a, b) == Len(a) <= Len(b) /\ \A i \in 1..Len(a) : b[i] = a[i]
            S == {k \in Nat : m + k <= Len(cs) => Pre(C(m), C(m + k))}
<1>1. m \in Nat /\ Len(cs) \in Nat /\ SubSeq(cs, 1, Len(cs)) = cs
  OBVIOUS
<1>2. \A j \in 0..Len(cs) : C(j) \in Seq(Infos) /\ Len(C(j)) >= 1 /\ Len(C(j)) \in Nat
  <2>1. \A j \in 0..Len(cs) : C(j) \in Seq(Infos) /\ Len(C(j)) >= 1
    BY Prefix, CallinfosType
  <2>. HIDE DEF C
  <2>. QED BY <2>1
<1>. HIDE DEF C
<1>3. 0 \in S
  BY <1>1, <1>2
<1>4. ASSUME NEW k \in Nat, k \in S PROVE k + 1 \in S
  <2>. SUFFICES ASSUME m + (k + 1) <= Len(cs) PROVE Pre(C(m), C(m + (k + 1)))
    OBVIOUS
  <2>1. m + (k + 1) \in 1..Len(cs) /\ m + (k + 1) - 1 = m + k /\ m + k <= Len(cs) /\ m + k \in 0..Len(cs)
    BY <1>1
  <2>2. /\ SubSeq(cs, 1, m + (k + 1)) = Append(SubSeq(cs, 1, m + k), cs[m + (k + 1)])
        /\ SubSeq(cs, 1, m + k) \in Seq(Frames) /\ cs[m + (k + 1)] \in Frames
    BY <2>1, TopPart
  <2>3. C(m + (k + 1)) = IF cs[m + (k + 1)].th # t THEN C(m + k) ELSE C(m + k) \o infos(cs[m + (k + 1)])
    <3>. DEFINE p == SubSeq(cs, 1, m + k)
                f == cs[m + (k + 1)]
    <3>1. p \in Seq(Frames) /\ f \in Frames /\ C(m + (k + 1)) = callinfos(Append(p, f), t) /\ C(m + k) = callinfos(p, t)
      BY <2>2 DEF C
    <3>. HIDE DEF p
    <3>2. callinfos(Append(p, f), t) = IF f.th # t THEN callinfos(p, t) ELSE callinfos(p, t) \o infos(f)
      BY <3>1, CallinfosAppend, ZenonT(60)
    <3>. QED BY <3>1, <3>2
  <2>4. infos(cs[m + (k + 1)]) \in Seq(Infos)
    BY <2>2, InfosFacts DEF Infos
  <2>5. Pre(C(m), C(m + k))
    BY <1>4, <2>1
  <2>6. ASSUME NEW a \in Seq(Infos), NEW b \in Seq(Infos), NEW c \in Seq(Infos), Pre(a, b) PROVE Pre(a, b \o c)
    <3>1. Len(a) \in Nat /\ Len(b) \in Nat /\ Len(b \o c) = Len(b) + Len(c) /\ Len(c) \in Nat
      OBVIOUS
    <3>2. \A i \in 1..Len(b) : (b \o c)[i] = b[i]
      OBVIOUS
    <3>. QED BY <2>6, <3>1, <3>2
  <2>7. C(m) \in Seq(Infos) /\ C(m + k) \in Seq(Infos)
    BY <1>2, <2>1
  <2>8. Pre(C(m), C(m + k) \o infos(cs[m + (k + 1)]))
    BY <2>4, <2>5, <2>6, <2>7
  <2>. HIDE DEF Pre
  <2>. QED BY <2>3, <2>5, <2>8
<1>5. Nat \subseteq S
  <2>. HIDE DEF S
  <2>. QED BY <1>3, <1>4, SetInduction
<1>6. Len(cs) - m \in Nat /\ m + (Len(cs) - m) = Len(cs)
  BY <1>1
<1>7. Pre(C(m), C(Len(cs)))
  BY <1>1, <1>5, <1>6
<1>8. C(m) \in Seq(Infos) /\ C(Len(cs)) \in Seq(Infos) /\ Len(C(m)) >= 1 /\ Len(C(m)) \in Nat /\ Len(C(Len(cs))) \in Nat
  BY <1>1, <1>2
<1>9. SubSeq(C(Len(cs)), 1, Len(C(m))) = C(m)
  <2>. DEFINE q == C(Len(cs))
              p == C(m)
              r == SubSeq(q, 1, Len(p))
  <2>1. p \in Seq(Infos) /\ q \in Seq(Infos) /\ Len(p) \in 0..Len(q) /\ \A i \in 1..Len(p) : q[i] = p[i]
    BY <1>7, <1>8
  <2>. HIDE DEF p, q
  <2>2. r \in Seq(Infos) /\ Len(r) = Len(p) /\ \A i \in 1..Len(p) : r[i] = q[i]
    BY <2>1, Prefix
  <2>3. r = p
    <3>. HIDE DEF r
    <3>. QED BY <2>1, <2>2, SeqEqual
  <2>. QED BY <2>3 DEF p, q, r
<1>10. Len(C(m)) \in 1..Len(C(Len(cs)))
  BY <1>7, <1>8
<1>11. C(Len(cs)) = callinfos(cs, t) /\ C(m) = callinfos(SubSeq(cs, 1, m), t)
  BY <1>1 DEF C
<1>. QED BY <1>8, <1>9, <1>10, <1>11

(***************************************************************************)
(* What a stack says of a thread.                                          *)
(***************************************************************************)

\* greatest finds the greatest of a bounded set.
LEMMA GreatestFacts ==
  ASSUME NEW n \in Nat, NEW X, X \subseteq 1..n
  PROVE  /\ X = {} => greatest(X) = 0
         /\ X # {} => greatest(X) \in X /\ \A j \in X : j <= greatest(X)
         /\ \A x \in X : (\A j \in X : j <= x) => greatest(X) = x
<1>1. X = {} => greatest(X) = 0
  BY DEF greatest
<1>2. ASSUME X # {} PROVE greatest(X) \in X /\ \A j \in X : j <= greatest(X)
  <2>. DEFINE Y == {n - j : j \in X}
  <2>1. Y \subseteq Nat /\ Y # {}
    <3>1. \A j \in X : n - j \in Nat
      OBVIOUS
    <3>2. PICK j \in X : TRUE
      BY <1>2
    <3>. QED BY <3>1, <3>2
  <2>2. PICK y \in Y : \A z \in Y : ~(z < y)
    <3>. HIDE DEF Y
    <3>. QED BY <2>1, Least
  <2>3. PICK x \in X : y = n - x
    BY <2>2
  <2>4. \A j \in X : j <= x
    BY <2>2, <2>3
  <2>. QED BY <1>2, <2>4 DEF greatest
<1>3. ASSUME NEW x \in X, \A j \in X : j <= x PROVE greatest(X) = x
  <2>1. greatest(X) \in X /\ x <= greatest(X) /\ greatest(X) <= x
    <3>1. X # {}
      BY <1>3
    <3>. QED BY <1>2, <1>3, <3>1
  <2>2. greatest(X) \in Nat /\ x \in Nat
    <3>1. \A j \in X : j \in Nat
      OBVIOUS
    <3>. QED BY <2>1, <3>1
  <2>. QED BY <2>1, <2>2
<1>. QED BY <1>1, <1>2, <1>3

\* The positions of a thread lie on the C stack, and its pcalls are protected calls.
LEMMA FramesBounded ==
  ASSUME NEW cs, NEW t
  PROVE  /\ framesOf(cs, t) \subseteq 1..Len(cs)
         /\ protectedOf(cs, t) \subseteq 1..Len(cs)
         /\ pcallsOf(cs, t) \subseteq 1..Len(cs)
         /\ pcallsOf(cs, t) \subseteq protectedOf(cs, t)
BY DEF framesOf, protectedOf, pcallsOf

\* Two stacks say the same of a thread.
SameOf(cs, ds, t) ==
  /\ framesOf(ds, t) = framesOf(cs, t)
  /\ protectedOf(ds, t) = protectedOf(cs, t)
  /\ hooksOn(ds, t) <=> hooksOn(cs, t)
  /\ handlerOf(ds, t) = handlerOf(cs, t)
  /\ callinfos(ds, t) = callinfos(cs, t)
  /\ Count(ds, t) = Count(cs, t)

\* A frame of another thread changes nothing.
LEMMA Foreign ==
  ASSUME NEW cs \in Seq(Frames), NEW f \in Frames, NEW t, f.th # t
  PROVE  SameOf(cs, Append(cs, f), t)
<1>. DEFINE ds == Append(cs, f)
<1>1. /\ ds \in Seq(Frames) /\ Len(ds) = Len(cs) + 1 /\ ds[Len(cs) + 1] = f /\ Len(cs) \in Nat
      /\ \A i \in 1..Len(cs) : ds[i] = cs[i]
  BY Appended
<1>2. \A i \in 0..Len(cs) : Ccalls(ds)[i] = Ccalls(cs)[i]
  BY TotalFacts
<1>3. callinfos(ds, t) = callinfos(cs, t)
  BY CallinfosAppend
<1>. HIDE DEF ds
<1>4. framesOf(ds, t) = framesOf(cs, t)
  BY <1>1 DEF framesOf
<1>5. \A i \in framesOf(cs, t) : ds[i] = cs[i]
  BY <1>1 DEF framesOf
<1>6. protectedOf(ds, t) = protectedOf(cs, t) /\ pcallsOf(ds, t) = pcallsOf(cs, t)
  BY <1>4, <1>5 DEF protectedOf, pcallsOf
<1>7. hooksOn(ds, t) <=> hooksOn(cs, t)
  BY <1>4, <1>5 DEF hooksOn
<1>8. handlerOf(ds, t) = handlerOf(cs, t)
  <2>1. CASE pcallsOf(cs, t) = {}
    BY <1>6, <2>1 DEF handlerOf
  <2>2. CASE pcallsOf(cs, t) # {}
    <3>1. greatest(pcallsOf(cs, t)) \in framesOf(cs, t)
      BY <1>1, <2>2, FramesBounded, GreatestFacts DEF pcallsOf
    <3>. QED BY <1>5, <1>6, <2>2, <3>1 DEF handlerOf
  <2>. QED BY <2>1, <2>2
<1>9. Count(ds, t) = Count(cs, t)
  <2>1. greatest(framesOf(cs, t)) \in 0..Len(cs)
    BY <1>1, FramesBounded, GreatestFacts
  <2>. QED BY <1>2, <1>4, <2>1 DEF Count
<1>. QED BY <1>3, <1>4, <1>6, <1>7, <1>8, <1>9 DEF ds, SameOf

\* A frame of the thread itself is its last.
LEMMA Own ==
  ASSUME NEW cs \in Seq(Frames), NEW f \in Frames, NEW t, f.th = t
  PROVE  LET ds == Append(cs, f)
         IN  /\ framesOf(ds, t) = framesOf(cs, t) \cup {Len(cs) + 1}
             /\ greatest(protectedOf(ds, t)) =
                  IF f.k \in {"pcall", "resume"} THEN Len(cs) + 1 ELSE greatest(protectedOf(cs, t))
             /\ hooksOn(ds, t) <=> hooksOn(cs, t) /\ f.k \notin {"hook", "gctm"}
             /\ handlerOf(ds, t) = IF f.k = "pcall" THEN f.ef ELSE handlerOf(cs, t)
             /\ callinfos(ds, t) = callinfos(cs, t) \o infos(f)
             /\ Count(ds, t) = Total(ds)
<1>. DEFINE ds == Append(cs, f)
<1>1. /\ ds \in Seq(Frames) /\ Len(ds) = Len(cs) + 1 /\ ds[Len(cs) + 1] = f /\ Len(cs) \in Nat
      /\ \A i \in 1..Len(cs) : ds[i] = cs[i]
  BY Appended
<1>2. callinfos(ds, t) = callinfos(cs, t) \o infos(f)
  BY CallinfosAppend
<1>. HIDE DEF ds
<1>3. framesOf(ds, t) = framesOf(cs, t) \cup {Len(cs) + 1}
  BY <1>1 DEF framesOf
<1>4. \A i \in framesOf(cs, t) : ds[i] = cs[i] /\ i <= Len(cs) /\ i \in Nat
  BY <1>1 DEF framesOf
<1>5. greatest(protectedOf(ds, t)) =
        IF f.k \in {"pcall", "resume"} THEN Len(cs) + 1 ELSE greatest(protectedOf(cs, t))
  <2>1. CASE f.k \in {"pcall", "resume"}
    <3>1. protectedOf(ds, t) = protectedOf(cs, t) \cup {Len(cs) + 1}
      BY <1>1, <1>3, <1>4, <2>1 DEF protectedOf
    <3>2. \A j \in protectedOf(ds, t) : j <= Len(cs) + 1
      BY <1>1, <3>1, FramesBounded
    <3>3. protectedOf(ds, t) \subseteq 1..Len(ds) /\ Len(ds) \in Nat
      BY <1>1, FramesBounded
    <3>. HIDE DEF protectedOf
    <3>. QED BY <2>1, <3>1, <3>2, <3>3, GreatestFacts
  <2>2. CASE f.k \notin {"pcall", "resume"}
    <3>1. protectedOf(ds, t) = protectedOf(cs, t)
      BY <1>1, <1>3, <1>4, <2>2 DEF protectedOf
    <3>. QED BY <2>2, <3>1
  <2>. QED BY <2>1, <2>2
<1>6. hooksOn(ds, t) <=> hooksOn(cs, t) /\ f.k \notin {"hook", "gctm"}
  BY <1>1, <1>3, <1>4 DEF hooksOn
<1>7. handlerOf(ds, t) = IF f.k = "pcall" THEN f.ef ELSE handlerOf(cs, t)
  <2>1. CASE f.k = "pcall"
    <3>1. pcallsOf(ds, t) = pcallsOf(cs, t) \cup {Len(cs) + 1}
      BY <1>1, <1>3, <1>4, <2>1 DEF pcallsOf
    <3>2. \A j \in pcallsOf(ds, t) : j <= Len(cs) + 1
      BY <1>1, <3>1, FramesBounded
    <3>3. pcallsOf(ds, t) \subseteq 1..Len(ds) /\ Len(ds) \in Nat
      BY <1>1, FramesBounded
    <3>4. greatest(pcallsOf(ds, t)) = Len(cs) + 1
      BY <3>1, <3>2, <3>3, GreatestFacts
    <3>. QED BY <1>1, <2>1, <3>1, <3>4 DEF handlerOf
  <2>2. CASE f.k # "pcall"
    <3>1. pcallsOf(ds, t) = pcallsOf(cs, t)
      BY <1>1, <1>3, <1>4, <2>2 DEF pcallsOf
    <3>2. CASE pcallsOf(cs, t) = {}
      BY <2>2, <3>1, <3>2 DEF handlerOf
    <3>3. CASE pcallsOf(cs, t) # {}
      <4>1. greatest(pcallsOf(cs, t)) \in framesOf(cs, t)
        BY <1>1, <3>3, FramesBounded, GreatestFacts DEF pcallsOf
      <4>. QED BY <1>4, <2>2, <3>1, <3>3, <4>1 DEF handlerOf
    <3>. QED BY <3>2, <3>3
  <2>. QED BY <2>1, <2>2
<1>8. Count(ds, t) = Total(ds)
  <2>1. \A j \in framesOf(ds, t) : j <= Len(cs) + 1
    BY <1>1, <1>3, <1>4
  <2>2. framesOf(ds, t) \subseteq 1..Len(ds) /\ Len(ds) \in Nat /\ Len(cs) + 1 \in framesOf(ds, t)
    BY <1>1, <1>3, FramesBounded
  <2>3. greatest(framesOf(ds, t)) = Len(cs) + 1
    BY <2>1, <2>2, GreatestFacts
  <2>. QED BY <1>1, <2>3 DEF Count, Total
<1>. QED BY <1>2, <1>3, <1>5, <1>6, <1>7, <1>8 DEF ds

\* Cutting off frames of other threads changes nothing.
LEMMA CutForeign ==
  ASSUME NEW cs \in Seq(Frames), NEW t, NEW m \in 0..Len(cs),
         \A i \in m + 1..Len(cs) : cs[i].th # t
  PROVE  SameOf(cs, SubSeq(cs, 1, m), t)
<1>. DEFINE S == {k \in Nat : m + k <= Len(cs) => SameOf(SubSeq(cs, 1, m + k), SubSeq(cs, 1, m), t)}
<1>1. m \in Nat /\ Len(cs) \in Nat /\ SubSeq(cs, 1, Len(cs)) = cs
  OBVIOUS
<1>2. 0 \in S
  <2>1. m + 0 = m
    BY <1>1
  <2>2. SameOf(SubSeq(cs, 1, m), SubSeq(cs, 1, m), t)
    BY DEF SameOf
  <2>. QED BY <2>1, <2>2
<1>3. ASSUME NEW k \in Nat, k \in S PROVE k + 1 \in S
  <2>. SUFFICES ASSUME m + (k + 1) <= Len(cs)
                PROVE  SameOf(SubSeq(cs, 1, m + (k + 1)), SubSeq(cs, 1, m), t)
    OBVIOUS
  <2>. DEFINE p == SubSeq(cs, 1, m + k)
              f == cs[m + (k + 1)]
  <2>1. /\ m + (k + 1) \in 1..Len(cs) /\ m + (k + 1) - 1 = m + k /\ m + k <= Len(cs)
        /\ m + (k + 1) \in m + 1..Len(cs)
    BY <1>1
  <2>2. p \in Seq(Frames) /\ f \in Frames /\ SubSeq(cs, 1, m + (k + 1)) = Append(p, f) /\ f.th # t
    BY <2>1, TopPart
  <2>3. SameOf(p, SubSeq(cs, 1, m), t)
    BY <1>3, <2>1
  <2>. HIDE DEF p, f
  <2>4. SameOf(p, Append(p, f), t)
    BY <2>2, Foreign
  <2>5. SameOf(Append(p, f), SubSeq(cs, 1, m), t)
    BY <2>3, <2>4 DEF SameOf
  <2>. QED BY <2>2, <2>5
<1>4. Nat \subseteq S
  <2>. HIDE DEF S
  <2>. QED BY <1>2, <1>3, SetInduction
<1>5. Len(cs) - m \in Nat /\ m + (Len(cs) - m) = Len(cs)
  BY <1>1
<1>6. Len(cs) - m \in S
  BY <1>4, <1>5
<1>7. SameOf(SubSeq(cs, 1, m + (Len(cs) - m)), SubSeq(cs, 1, m), t)
  BY <1>1, <1>5, <1>6
<1>. QED BY <1>1, <1>5, <1>7

\* A thread without frames.
LEMMA NoFrames ==
  ASSUME NEW cs \in Seq(Frames), NEW t, framesOf(cs, t) = {}
  PROVE  /\ callinfos(cs, t) = <<"base">> /\ hooksOn(cs, t)
         /\ handlerOf(cs, t) = "none" /\ greatest(protectedOf(cs, t)) = 0
<1>1. \A i \in 1..Len(cs) : cs[i].th # t
  BY DEF framesOf
<1>2. SubSeq(cs, 1, 0) = <<>> /\ 0 \in 0..Len(cs) /\ 0 + 1 = 1
  OBVIOUS
<1>3. SameOf(cs, <<>>, t)
  BY <1>1, <1>2, CutForeign
<1>4. callinfos(cs, t) = <<"base">>
  BY <1>3, CallinfosAppend DEF SameOf
<1>5. hooksOn(cs, t) /\ handlerOf(cs, t) = "none" /\ greatest(protectedOf(cs, t)) = 0
  BY DEF hooksOn, handlerOf, protectedOf, pcallsOf, greatest
<1>. QED BY <1>4, <1>5

(***************************************************************************)
(* The invariant.  Stack: the order in which C functions call each other,  *)
(* and what each keeps for its return or for an error, which is what the   *)
(* stack below it says.                                                    *)
(***************************************************************************)
below ==
  [x \in Kinds |->
     CASE x = "execute" -> {"call", "resume"}
       [] x = "cfun" -> {"call", "execute"}
       [] x = "hook" -> {"execute"}
       [] x = "parser" -> {"pcall"}
       [] x \in {"pcall", "resume"} -> {"cfun"}
       [] x = "gctm" -> Codes
       [] x = "handler" -> Codes \cup {"call", "resume"}
       [] x = "call" -> Codes \cup {"pcall", "gctm", "handler"}]

\* Frame f on the stack p.
Placed(f, p) ==
  /\ p = <<>> => f.k = "pcall" /\ f.th = Main
  /\ Len(p) = 1 => f.k = "call"
  /\ p # <<>> => p[Len(p)].k \in below[f.k] /\ (f.k # "resume" => f.th = p[Len(p)].th)
  /\ f.k = "resume" => framesOf(p, f.th) = {}

Saved(f, p) ==
  /\ f.k = "pcall" => /\ f.nCcalls = Total(p)
                      /\ f.nCcalls < LUAI_MAXCCALLS + EXTRACCALLS
                      /\ f.ci = Len(callinfos(p, f.th))
                      /\ f.allowhook <=> hooksOn(p, f.th)
                      /\ f.errfunc = handlerOf(p, f.th)
                      /\ f.previous = greatest(protectedOf(p, f.th))
  /\ f.k = "resume" => f.previous = 0
  /\ f.k = "gctm" => (f.allowhook <=> hooksOn(p, f.th))
  /\ f.k = "hook" => hooksOn(p, f.th)

Stack(cs) ==
  /\ cs \in Seq(Frames)
  /\ \A i \in 1..Len(cs) : Placed(cs[i], SubSeq(cs, 1, i - 1)) /\ Saved(cs[i], SubSeq(cs, 1, i - 1))

\* The record of a thread is what the stack says of it.
States ==
  [status : {"none", "0", "LUA_YIELD", "error"}, ci : Seq(Infos), size_ci : Nat \ {0},
   nCcalls : Nat, baseCcalls : 0..LUAI_MAXCCALLS, allowhook : BOOLEAN, errfunc : Handlers,
   errorJmp : Nat, top : {"none", "function"}]

\* A base, Lua functions, and perhaps the C function that yielded.
Yielded(s) ==
  /\ Len(s) > 1 /\ s[1] = "base" /\ s[2] = "Lua" /\ s[Len(s)] \in {"Lua", "C"}
  /\ \A i \in 2..Len(s) - 1 : s[i] = "Lua"

Account(l, cs, t) ==
  /\ framesOf(cs, t) # {} => l.nCcalls = Count(cs, t)
  /\ l.status = "0" => l.ci = callinfos(cs, t)
  /\ l.status = "LUA_YIELD" => Yielded(l.ci)
  /\ l.status # "error" => (l.allowhook <=> hooksOn(cs, t))
  /\ l.errorJmp = greatest(protectedOf(cs, t))
  /\ l.errfunc = handlerOf(cs, t)
  /\ Len(l.ci) <= l.size_ci

Accounts(T, cs) ==
  /\ T \in [Threads -> States]
  /\ \A t \in Threads : Account(T[t], cs, t)

\* A coroutine may yield while no C call is above the frame that resumed it; the
\* main thread may not.
Bases(T, cs) ==
  /\ T[Main].baseCcalls = 0
  /\ \A i \in 1..Len(cs) : cs[i].k = "resume" => T[cs[i].th].baseCcalls = Total(SubSeq(cs, 1, i))

Limits(T) == \A t \in Threads : T[t].nCcalls < LUAI_MAXCCALLS + EXTRACCALLS

\* A thread that has frames runs, except while it yields.
Active(T, cs, c) ==
  \A t \in Threads :
    framesOf(cs, t) # {} /\ T[t].status # "0" =>
      /\ t = cs[Len(cs)].th /\ T[t].status = "LUA_YIELD"
      /\ c = "yielded" \/ (c = "returned" /\ cs[Len(cs)].k = "resume")

Control(T, cs, c) ==
  /\ c \in {"run", "precall", "returned", "errormsg", "yielded", "exit"}
  /\ c = "exit" <=> cs = <<>>
  /\ cs # <<>> =>
       LET f == cs[Len(cs)] IN
       /\ c = "run" => f.k \in Codes
       /\ c = "returned" => f.k \notin Codes
       /\ c = "precall" => /\ f.k \in {"execute", "call", "resume"}
                           /\ f.k = "resume" => T[f.th].top = "function"
       /\ c = "errormsg" => f.k \in Codes \cup {"call", "resume"}
       /\ c = "yielded" => /\ f.k = "execute" /\ T[f.th].status = "LUA_YIELD"
                           /\ Len(cs) > 1 /\ cs[Len(cs) - 1].k = "resume"

Good(T, cs, c) ==
  Stack(cs) /\ Accounts(T, cs) /\ Bases(T, cs) /\ Limits(T) /\ Active(T, cs, c) /\ Control(T, cs, c)

IInv == Good(L, cstack, ctl)

(***************************************************************************)
(* Stacks grow and shrink.                                                 *)
(***************************************************************************)
LEMMA StackPrefix ==
  ASSUME NEW cs, Stack(cs), NEW m \in 0..Len(cs)
  PROVE  Stack(SubSeq(cs, 1, m))
<1>. DEFINE q == SubSeq(cs, 1, m)
<1>1. cs \in Seq(Frames) /\ m \in Nat
  BY DEF Stack
<1>2. q \in Seq(Frames) /\ Len(q) = m /\ \A i \in 1..m : q[i] = cs[i]
  BY <1>1, Prefix
<1>3. \A i \in 1..m : SubSeq(q, 1, i - 1) = SubSeq(cs, 1, i - 1)
  BY <1>1, PrefixOfPrefix
<1>4. \A i \in 1..m : Placed(cs[i], SubSeq(cs, 1, i - 1)) /\ Saved(cs[i], SubSeq(cs, 1, i - 1))
  BY <1>1 DEF Stack
<1>. HIDE DEF q
<1>5. Stack(q)
  BY <1>2, <1>3, <1>4 DEF Stack
<1>. QED BY <1>5 DEF q

\* A frame in its place, with the right saved values, can be put on top of a C stack.
LEMMA StackAppend ==
  ASSUME NEW cs, Stack(cs), NEW f \in Frames, Placed(f, cs), Saved(f, cs)
  PROVE  Stack(Append(cs, f))
<1>. DEFINE ds == Append(cs, f)
<1>1. cs \in Seq(Frames) /\ Len(cs) \in Nat
  BY DEF Stack
<1>2. /\ ds \in Seq(Frames) /\ Len(ds) = Len(cs) + 1 /\ ds[Len(cs) + 1] = f
      /\ \A i \in 1..Len(cs) : ds[i] = cs[i]
  BY <1>1, Appended
<1>3. ASSUME NEW i \in 1..Len(cs) + 1 PROVE SubSeq(ds, 1, i - 1) = SubSeq(cs, 1, i - 1)
  <2>1. i - 1 \in 0..Len(cs) /\ Len(cs) \in 0..Len(ds) /\ SubSeq(ds, 1, Len(cs)) = cs
    BY <1>1, <1>2, Appended
  <2>. HIDE DEF ds
  <2>. QED BY <1>2, <2>1, PrefixOfPrefix
<1>4. SubSeq(cs, 1, Len(cs)) = cs
  BY <1>1
<1>. HIDE DEF ds
<1>5. ASSUME NEW i \in 1..Len(ds) PROVE Placed(ds[i], SubSeq(ds, 1, i - 1)) /\ Saved(ds[i], SubSeq(ds, 1, i - 1))
  <2>1. CASE i = Len(cs) + 1
    <3>1. SubSeq(ds, 1, i - 1) = cs /\ ds[i] = f
      BY <1>1, <1>2, <1>3, <1>4, <2>1
    <3>. QED BY <3>1
  <2>2. CASE i \in 1..Len(cs)
    <3>1. SubSeq(ds, 1, i - 1) = SubSeq(cs, 1, i - 1) /\ ds[i] = cs[i]
      BY <1>1, <1>2, <1>3, <2>2
    <3>. QED BY <2>2, <3>1 DEF Stack
  <2>. QED BY <1>1, <1>2, <2>1, <2>2
<1>6. Stack(ds)
  BY <1>2, <1>5 DEF Stack
<1>. QED BY <1>6 DEF ds

\* A stack that is not empty is its top on a stack.
LEMMA StackTop ==
  ASSUME NEW cs, Stack(cs), cs # <<>>
  PROVE  LET p == SubSeq(cs, 1, Len(cs) - 1)
             f == cs[Len(cs)]
         IN  /\ cs \in Seq(Frames) /\ p \in Seq(Frames) /\ f \in Frames
             /\ Len(cs) \in Nat \ {0} /\ Len(p) = Len(cs) - 1
             /\ cs = Append(p, f) /\ Stack(p) /\ Placed(f, p) /\ Saved(f, p)
             /\ f.th \in Threads /\ f.k \in Kinds
             /\ \A i \in 1..Len(cs) - 1 : p[i] = cs[i]
<1>1. cs \in Seq(Frames)
  BY DEF Stack
<1>2. Len(cs) \in Nat \ {0} /\ Len(cs) \in 1..Len(cs) /\ Len(cs) - 1 \in 0..Len(cs)
  BY <1>1
<1>3. /\ SubSeq(cs, 1, Len(cs) - 1) \in Seq(Frames) /\ cs[Len(cs)] \in Frames
      /\ Len(SubSeq(cs, 1, Len(cs) - 1)) = Len(cs) - 1
      /\ cs = Append(SubSeq(cs, 1, Len(cs) - 1), cs[Len(cs)])
  BY <1>1, Unappended
<1>4. \A i \in 1..Len(cs) - 1 : SubSeq(cs, 1, Len(cs) - 1)[i] = cs[i]
  BY <1>1, <1>2, Prefix
<1>5. Stack(SubSeq(cs, 1, Len(cs) - 1))
  BY <1>2, StackPrefix
<1>6. Placed(cs[Len(cs)], SubSeq(cs, 1, Len(cs) - 1)) /\ Saved(cs[Len(cs)], SubSeq(cs, 1, Len(cs) - 1))
  BY <1>2 DEF Stack
<1>7. cs[Len(cs)].th \in Threads /\ cs[Len(cs)].k \in Kinds
  BY <1>3, FrameFacts
<1>. QED BY <1>1, <1>2, <1>3, <1>4, <1>5, <1>6, <1>7

\* The order of the frames, by position.
LEMMA StackOrder ==
  ASSUME NEW cs, Stack(cs), NEW i \in 1..Len(cs)
  PROVE  /\ cs[i] \in Frames /\ cs[i].th \in Threads /\ cs[i].k \in Kinds
         /\ i = 1 => cs[i].k = "pcall" /\ cs[i].th = Main
         /\ i = 2 => cs[i].k = "call"
         /\ i > 1 => cs[i - 1].k \in below[cs[i].k] /\ (cs[i].k # "resume" => cs[i].th = cs[i - 1].th)
         /\ cs[i].k = "resume" => i > 1 /\ \A j \in 1..i - 1 : cs[j].th # cs[i].th
<1>. DEFINE p == SubSeq(cs, 1, i - 1)
<1>1. cs \in Seq(Frames) /\ i \in Nat /\ i - 1 \in 0..Len(cs) /\ Len(cs) \in Nat
  BY DEF Stack
<1>2. Placed(cs[i], p)
  BY DEF Stack
<1>3. p \in Seq(Frames) /\ Len(p) = i - 1 /\ \A j \in 1..i - 1 : p[j] = cs[j]
  BY <1>1, Prefix
<1>4. cs[i] \in Frames
  BY <1>1
<1>5. cs[i].th \in Threads /\ cs[i].k \in Kinds
  BY <1>4, FrameFacts
<1>. HIDE DEF p
<1>6. p = <<>> <=> i = 1
  BY <1>1, <1>3
<1>7. i > 1 => p[Len(p)] = cs[i - 1]
  BY <1>1, <1>3
<1>8. cs[i].k = "resume" => \A j \in 1..i - 1 : cs[j].th # cs[i].th
  BY <1>2, <1>3 DEF Placed, framesOf
<1>. QED BY <1>1, <1>2, <1>3, <1>4, <1>5, <1>6, <1>7, <1>8 DEF Placed

\* The frames of the running thread are the top of the stack, from the frame
\* that resumed it (or, of the main thread, the lowest) on.
Segment(cs, k, s) ==
  /\ \A i \in s..k : cs[i].th = cs[k].th
  /\ \A i \in 1..s - 1 : cs[i].th # cs[k].th
  /\ \A i \in s + 1..k : cs[i].k # "resume"
  /\ cs[s].k = "resume" \/ (s = 1 /\ cs[1].k = "pcall" /\ cs[1].th = Main)

\* Every frame lies in a run of frames of one thread that starts with a resume or the base.
LEMMA Segments ==
  ASSUME NEW cs, Stack(cs), NEW k \in 1..Len(cs)
  PROVE  \E s \in 1..k : Segment(cs, k, s)
<1>. DEFINE S == {j \in Nat : j + 1 <= Len(cs) => \E s \in 1..j + 1 : Segment(cs, j + 1, s)}
<1>1. Len(cs) \in Nat
  BY DEF Stack
<1>2. 0 \in S
  <2>. SUFFICES ASSUME 1 <= Len(cs) PROVE Segment(cs, 1, 1)
    OBVIOUS
  <2>1. cs[1].k = "pcall" /\ cs[1].th = Main
    BY <1>1, StackOrder
  <2>. QED BY <2>1 DEF Segment
<1>3. ASSUME NEW j \in Nat, j \in S PROVE j + 1 \in S
  <2>. SUFFICES ASSUME j + 1 + 1 <= Len(cs) PROVE \E s \in 1..j + 1 + 1 : Segment(cs, j + 1 + 1, s)
    OBVIOUS
  <2>. DEFINE m == j + 1
              n == j + 1 + 1
  <2>1. m \in 1..Len(cs) /\ n \in 1..Len(cs) /\ n - 1 = m /\ m <= Len(cs) /\ n > 1
    BY <1>1
  <2>2. PICK s \in 1..m : Segment(cs, m, s)
    BY <1>3, <2>1
  <2>3. /\ cs[n].k # "resume" => cs[n].th = cs[m].th
        /\ cs[n].k = "resume" => \A i \in 1..m : cs[i].th # cs[n].th
    BY <2>1, StackOrder
  <2>4. CASE cs[n].k = "resume"
    <3>1. Segment(cs, n, n)
      BY <2>1, <2>3, <2>4 DEF Segment
    <3>. QED BY <2>1, <3>1
  <2>5. CASE cs[n].k # "resume"
    <3>1. cs[n].th = cs[m].th
      BY <2>3, <2>5
    <3>2. \A i \in s..n : cs[i].th = cs[n].th
      BY <2>1, <2>2, <3>1 DEF Segment
    <3>3. \A i \in s + 1..n : cs[i].k # "resume"
      BY <2>1, <2>2, <2>5 DEF Segment
    <3>4. Segment(cs, n, s)
      BY <2>1, <2>2, <3>1, <3>2, <3>3 DEF Segment
    <3>. QED BY <2>1, <3>4
  <2>. QED BY <2>4, <2>5
<1>4. Nat \subseteq S
  <2>. HIDE DEF S
  <2>. QED BY <1>2, <1>3, SetInduction
<1>5. k - 1 \in S /\ k - 1 + 1 = k /\ k \in Nat /\ k <= Len(cs)
  BY <1>1, <1>4
<1>. QED BY <1>5

\* What stays the same when only frames of thread r come and go, and none of
\* them is a resume.
Alike(cs, ds, r) ==
  /\ \A t \in Threads \ {r} : SameOf(cs, ds, t)
  /\ \A i \in 1..Len(ds) :
       ds[i].k = "resume" =>
         i \in 1..Len(cs) /\ cs[i] = ds[i] /\ Total(SubSeq(ds, 1, i)) = Total(SubSeq(cs, 1, i))

\* A frame that resumes nothing makes a difference for its own thread only.
LEMMA AlikePush ==
  ASSUME NEW cs \in Seq(Frames), NEW f \in Frames, f.k # "resume"
  PROVE  Alike(cs, Append(cs, f), f.th)
<1>. DEFINE ds == Append(cs, f)
<1>1. /\ ds \in Seq(Frames) /\ Len(ds) = Len(cs) + 1 /\ ds[Len(cs) + 1] = f /\ Len(cs) \in Nat
      /\ \A i \in 1..Len(cs) : ds[i] = cs[i]
      /\ SubSeq(ds, 1, Len(cs)) = cs
  BY Appended
<1>2. \A t \in Threads \ {f.th} : SameOf(cs, ds, t)
  BY Foreign
<1>. HIDE DEF ds
<1>3. ASSUME NEW i \in 1..Len(ds), ds[i].k = "resume"
      PROVE  i \in 1..Len(cs) /\ cs[i] = ds[i] /\ Total(SubSeq(ds, 1, i)) = Total(SubSeq(cs, 1, i))
  <2>1. i \in 1..Len(cs)
    BY <1>1, <1>3
  <2>2. SubSeq(ds, 1, i) = SubSeq(cs, 1, i)
    <3>1. Len(cs) \in 0..Len(ds) /\ i \in 0..Len(cs)
      BY <1>1, <2>1
    <3>. QED BY <1>1, <3>1, PrefixOfPrefix
  <2>. QED BY <1>1, <2>1, <2>2
<1>4. Alike(cs, ds, f.th)
  BY <1>2, <1>3 DEF Alike
<1>. QED BY <1>4 DEF ds

\* Cutting frames of one thread makes a difference for that thread only.
LEMMA AlikeCut ==
  ASSUME NEW cs \in Seq(Frames), NEW m \in 0..Len(cs), NEW r, \A i \in m + 1..Len(cs) : cs[i].th = r
  PROVE  Alike(cs, SubSeq(cs, 1, m), r)
<1>. DEFINE q == SubSeq(cs, 1, m)
<1>1. q \in Seq(Frames) /\ Len(q) = m /\ m \in Nat /\ Len(cs) \in Nat /\ \A i \in 1..m : q[i] = cs[i]
  BY Prefix
<1>2. \A t \in Threads \ {r} : SameOf(cs, q, t)
  BY CutForeign
<1>3. \A i \in 1..m : SubSeq(q, 1, i) = SubSeq(cs, 1, i)
  BY PrefixOfPrefix
<1>. HIDE DEF q
<1>4. \A i \in 1..Len(q) : i \in 1..Len(cs) /\ cs[i] = q[i] /\ SubSeq(q, 1, i) = SubSeq(cs, 1, i)
  BY <1>1, <1>3
<1>5. Alike(cs, q, r)
  BY <1>2, <1>4 DEF Alike
<1>. QED BY <1>5 DEF q

\* Two changes that concern one thread only are one such change.
LEMMA AlikeTrans ==
  ASSUME NEW a, NEW b, NEW c, NEW r, Alike(a, b, r), Alike(b, c, r)
  PROVE  Alike(a, c, r)
<1>1. \A t \in Threads \ {r} : SameOf(a, c, t)
  BY DEF Alike, SameOf
<1>2. ASSUME NEW i \in 1..Len(c), c[i].k = "resume"
      PROVE  i \in 1..Len(a) /\ a[i] = c[i] /\ Total(SubSeq(c, 1, i)) = Total(SubSeq(a, 1, i))
  <2>1. i \in 1..Len(b) /\ b[i] = c[i] /\ Total(SubSeq(c, 1, i)) = Total(SubSeq(b, 1, i))
    BY <1>2 DEF Alike
  <2>. QED BY <1>2, <2>1 DEF Alike
<1>. QED BY <1>1, <1>2 DEF Alike

\* Only the record of r changes with such a change of the stack.
LEMMA Change ==
  ASSUME NEW T, NEW cs, Accounts(T, cs), Bases(T, cs), NEW ds, Stack(ds), NEW r \in Threads,
         Alike(cs, ds, r), NEW l \in States, Account(l, ds, r), l.baseCcalls = T[r].baseCcalls
  PROVE  Accounts([T EXCEPT ![r] = l], ds) /\ Bases([T EXCEPT ![r] = l], ds)
<1>. DEFINE U == [T EXCEPT ![r] = l]
<1>1. T \in [Threads -> States] /\ Main \in Threads
  BY ConstantsAssumption DEF Accounts
<1>2. U \in [Threads -> States] /\ U[r] = l /\ \A t \in Threads \ {r} : U[t] = T[t]
  BY <1>1
<1>3. \A t \in Threads : U[t].baseCcalls = T[t].baseCcalls
  BY <1>2
<1>. HIDE DEF U
<1>4. ASSUME NEW t \in Threads \ {r} PROVE Account(U[t], ds, t)
  <2>1. Account(T[t], cs, t) /\ SameOf(cs, ds, t) /\ U[t] = T[t]
    BY <1>2 DEF Accounts, Alike
  <2>. QED BY <2>1 DEF Account, SameOf
<1>5. Accounts(U, ds)
  BY <1>2, <1>4 DEF Accounts
<1>6. Bases(U, ds)
  <2>1. ASSUME NEW i \in 1..Len(ds), ds[i].k = "resume" PROVE U[ds[i].th].baseCcalls = Total(SubSeq(ds, 1, i))
    <3>1. i \in 1..Len(cs) /\ cs[i] = ds[i] /\ Total(SubSeq(ds, 1, i)) = Total(SubSeq(cs, 1, i))
      BY <2>1 DEF Alike
    <3>2. T[cs[i].th].baseCcalls = Total(SubSeq(cs, 1, i))
      BY <2>1, <3>1 DEF Bases
    <3>3. ds[i].th \in Threads
      BY StackOrder
    <3>. QED BY <1>3, <3>1, <3>2, <3>3
  <2>2. U[Main].baseCcalls = 0
    BY <1>1, <1>3 DEF Bases
  <2>. QED BY <2>1, <2>2 DEF Bases
<1>. QED BY <1>5, <1>6 DEF U

\* The threads and the stack agree, and every thread that has frames runs.
Ready(T, cs) ==
  /\ Stack(cs) /\ Accounts(T, cs) /\ Bases(T, cs)
  /\ \A t \in Threads : framesOf(cs, t) # {} => T[t].status = "0"

\* When the C stack changes for one thread only, only its record has to be accounted for again.
LEMMA ReadyChange ==
  ASSUME NEW T, NEW cs, Ready(T, cs), NEW ds, Stack(ds), NEW r \in Threads, Alike(cs, ds, r),
         NEW l \in States, Account(l, ds, r), l.baseCcalls = T[r].baseCcalls,
         framesOf(ds, r) # {} => l.status = "0"
  PROVE  Ready([T EXCEPT ![r] = l], ds)
<1>. DEFINE U == [T EXCEPT ![r] = l]
<1>1. T \in [Threads -> States] /\ Accounts(T, cs) /\ Bases(T, cs)
  BY DEF Ready, Accounts
<1>2. Accounts(U, ds) /\ Bases(U, ds)
  BY <1>1, Change
<1>3. U[r] = l /\ \A t \in Threads \ {r} : U[t] = T[t]
  BY <1>1
<1>. HIDE DEF U
<1>4. \A t \in Threads : framesOf(ds, t) # {} => U[t].status = "0"
  <2>1. \A t \in Threads \ {r} : framesOf(ds, t) = framesOf(cs, t)
    BY DEF Alike, SameOf
  <2>. QED BY <1>3, <2>1 DEF Ready
<1>5. Ready(U, ds)
  BY <1>2, <1>4 DEF Ready
<1>. QED BY <1>5 DEF U

\* The C calls of the thread on top.
LEMMA CountTop ==
  ASSUME NEW cs, Stack(cs), NEW t, framesOf(cs, t) # {}, cs[Len(cs)].th = t
  PROVE  Count(cs, t) = Total(cs)
<1>1. cs \in Seq(Frames)
  BY DEF Stack
<1>2. cs # <<>>
  BY <1>1 DEF framesOf
<1>. DEFINE p == SubSeq(cs, 1, Len(cs) - 1)
            f == cs[Len(cs)]
<1>3. p \in Seq(Frames) /\ f \in Frames /\ cs = Append(p, f)
  BY <1>2, StackTop
<1>. HIDE DEF p, f
<1>4. f.th = t
  BY DEF f
<1>. QED BY <1>3, <1>4, Own

\* The thread on top has frames.
LEMMA TopFrames ==
  ASSUME NEW cs, Stack(cs), cs # <<>>
  PROVE  framesOf(cs, cs[Len(cs)].th) # {}
<1>1. cs \in Seq(Frames) /\ Len(cs) \in 1..Len(cs)
  BY StackTop
<1>. QED BY <1>1 DEF framesOf

\* The C function with the last longjmp buffer of the thread on top: it has
\* one, and all that is above it is of this thread.
LEMMA LastBuffer ==
  ASSUME NEW cs, Stack(cs), cs # <<>>,
         NEW r, r = cs[Len(cs)].th, NEW j, j = greatest(protectedOf(cs, r))
  PROVE  /\ j \in 1..Len(cs) /\ cs[j].th = r /\ cs[j].k \in {"pcall", "resume"}
         /\ \A i \in j..Len(cs) : cs[i].th = r
         /\ \A i \in j + 1..Len(cs) : cs[i].k \notin {"pcall", "resume"}
         /\ \A i \in 1..Len(cs) : cs[i].k \in {"pcall", "resume"} => i <= j
<1>1. cs \in Seq(Frames) /\ Len(cs) \in Nat \ {0} /\ Len(cs) \in 1..Len(cs)
  BY StackTop
<1>2. PICK s \in 1..Len(cs) : Segment(cs, Len(cs), s)
  BY <1>1, Segments
<1>3. s \in protectedOf(cs, r)
  BY <1>1, <1>2 DEF Segment, protectedOf, framesOf
<1>4. j \in protectedOf(cs, r) /\ \A i \in protectedOf(cs, r) : i <= j
  BY <1>1, <1>3, FramesBounded, GreatestFacts
<1>5. j \in 1..Len(cs) /\ cs[j].th = r /\ cs[j].k \in {"pcall", "resume"}
  BY <1>4 DEF protectedOf, framesOf
<1>6. s <= j
  BY <1>3, <1>4
<1>7. \A i \in j..Len(cs) : cs[i].th = r
  BY <1>1, <1>2, <1>5, <1>6 DEF Segment
<1>8. ASSUME NEW i \in 1..Len(cs), cs[i].k \in {"pcall", "resume"} PROVE i <= j
  <2>1. CASE cs[i].th = r
    <3>1. i \in protectedOf(cs, r)
      BY <1>8, <2>1 DEF protectedOf, framesOf
    <3>. QED BY <1>4, <3>1
  <2>2. CASE cs[i].th # r
    BY <1>1, <1>5, <1>7, <2>2
  <2>. QED BY <2>1, <2>2
<1>9. \A i \in j + 1..Len(cs) : cs[i].k \notin {"pcall", "resume"}
  BY <1>1, <1>5, <1>8
<1>. QED BY <1>5, <1>7, <1>8, <1>9

(***************************************************************************)
(* Errors.                                                                 *)
(***************************************************************************)
LEMMA LimitFacts ==
  /\ Main \in Threads
  /\ LUAI_MAXCCALLS \in Nat \ {0} /\ EXTRACCALLS \in Nat \ {0}
  /\ LUAI_MAXCALLS \in Nat \ {0} /\ BASIC_CI_SIZE \in Nat \ {0}
BY ConstantsAssumption

\* What luaD_pcall and luaD_rawrunprotected restore of a thread when they catch an error.
LEMMA PcallCaughtFacts ==
  ASSUME NEW l \in States, NEW f \in Frames, f.k = "pcall", f.ci \in 0..Len(l.ci), Len(l.ci) <= l.size_ci
  PROVE  LET m == pcallCaught(l, f)
         IN  /\ m \in States /\ m.status = l.status /\ m.baseCcalls = l.baseCcalls
             /\ m.ci = SubSeq(l.ci, 1, f.ci) /\ m.nCcalls = f.nCcalls
             /\ m.allowhook = f.allowhook /\ m.errfunc = f.errfunc /\ m.errorJmp = f.previous
             /\ Len(m.ci) <= m.size_ci
<1>. DEFINE x == [l EXCEPT !.nCcalls = f.nCcalls, !.ci = SubSeq(@, 1, f.ci), !.allowhook = f.allowhook,
                           !.errfunc = f.errfunc, !.errorJmp = f.previous]
<1>1. /\ f.nCcalls \in Nat /\ f.ci \in Nat /\ f.allowhook \in BOOLEAN
      /\ f.errfunc \in Handlers /\ f.previous \in Nat
  BY FrameFacts
<1>2. l.ci \in Seq(Infos) /\ l.size_ci \in Nat \ {0} /\ Len(l.ci) \in Nat
  BY DEF States
<1>3. SubSeq(l.ci, 1, f.ci) \in Seq(Infos) /\ Len(SubSeq(l.ci, 1, f.ci)) = f.ci /\ f.ci <= Len(l.ci)
  BY <1>1, <1>2, Prefix
<1>4. x \in States
  BY <1>1, <1>3 DEF States
<1>5. /\ x.status = l.status /\ x.baseCcalls = l.baseCcalls
      /\ x.ci = SubSeq(l.ci, 1, f.ci) /\ x.nCcalls = f.nCcalls /\ x.size_ci = l.size_ci
      /\ x.allowhook = f.allowhook /\ x.errfunc = f.errfunc /\ x.errorJmp = f.previous
  BY DEF States
<1>6. Len(x.ci) <= x.size_ci /\ Len(x.ci) \in Nat
  BY <1>1, <1>2, <1>3, <1>5
<1>7. pcallCaught(l, f) = restore_stack_limit(x)
  BY DEF pcallCaught
<1>. HIDE DEF x
<1>8. CASE restore_stack_limit(x) = x
  BY <1>4, <1>5, <1>6, <1>7, <1>8
<1>9. CASE restore_stack_limit(x) = [x EXCEPT !.size_ci = LUAI_MAXCALLS] /\ Len(x.ci) < LUAI_MAXCALLS
  <2>. DEFINE y == [x EXCEPT !.size_ci = LUAI_MAXCALLS]
  <2>1. y \in States
    BY <1>4, LimitFacts DEF States
  <2>2. /\ y.status = x.status /\ y.baseCcalls = x.baseCcalls
        /\ y.ci = x.ci /\ y.nCcalls = x.nCcalls /\ y.size_ci = LUAI_MAXCALLS
        /\ y.allowhook = x.allowhook /\ y.errfunc = x.errfunc /\ y.errorJmp = x.errorJmp
    BY <1>4 DEF States
  <2>3. Len(y.ci) <= y.size_ci
    BY <1>6, <1>9, <2>2, LimitFacts
  <2>. HIDE DEF y
  <2>4. pcallCaught(l, f) = y
    BY <1>7, <1>9 DEF y
  <2>. QED BY <1>5, <2>1, <2>2, <2>3, <2>4
<1>. QED BY <1>8, <1>9 DEF restore_stack_limit

\* What lua_resume leaves of a coroutine that an error ended.
LEMMA ResumeCaughtFacts ==
  ASSUME NEW l \in States, NEW f \in Frames, f.k = "resume", l.nCcalls > 0
  PROVE  LET m == resumeCaught(l, f)
         IN  /\ m \in States /\ m.status = "error" /\ m.baseCcalls = l.baseCcalls
             /\ m.ci = l.ci /\ m.nCcalls = l.nCcalls - 1 /\ m.size_ci = l.size_ci
             /\ m.errfunc = l.errfunc /\ m.errorJmp = f.previous
<1>1. f.previous \in Nat /\ l.nCcalls - 1 \in Nat
  BY FrameFacts DEF States
<1>2. resumeCaught(l, f) = [l EXCEPT !.status = "error", !.nCcalls = l.nCcalls - 1, !.errorJmp = f.previous]
  BY DEF resumeCaught
<1>. QED BY <1>1, <1>2 DEF States

LIMIT == LUAI_MAXCCALLS + EXTRACCALLS

\* An error leaves a good state: what the protected call kept is what the stack
\* below it says.
LEMMA Throw ==
  ASSUME NEW T, NEW cs, Ready(T, cs), cs # <<>>, NEW r, r = cs[Len(cs)].th,
         T[r].nCcalls <= LIMIT, \A t \in Threads \ {r} : T[t].nCcalls < LIMIT,
         NEW j, j = T[r].errorJmp,
         NEW l, l = IF cs[j].k = "pcall" THEN pcallCaught(T[r], cs[j]) ELSE resumeCaught(T[r], cs[j]),
         NEW p, p = SubSeq(cs, 1, j - 1)
  PROVE  j # 0 /\ Good([T EXCEPT ![r] = l], p, back(p))
<1>. DEFINE f == cs[j]
            n == Len(cs)
            o == T[r]
            U == [T EXCEPT ![r] = l]
<1>1. Stack(cs) /\ T \in [Threads -> States] /\ r \in Threads /\ T[r] \in States
  BY StackTop DEF Ready, Accounts
<1>2. cs \in Seq(Frames) /\ n \in Nat \ {0}
  BY <1>1, StackTop
<1>3. Account(T[r], cs, r) /\ T[r].status = "0"
  BY <1>1, TopFrames DEF Ready, Accounts
<1>4. j = greatest(protectedOf(cs, r))
  BY <1>3 DEF Account
<1>5. /\ j \in 1..n /\ f.th = r /\ f.k \in {"pcall", "resume"}
      /\ \A i \in j..n : cs[i].th = r
      /\ \A i \in 1..n : cs[i].k \in {"pcall", "resume"} => i <= j
  BY <1>1, <1>4, LastBuffer
<1>6. /\ j - 1 \in 0..n /\ j - 1 + 1 = j /\ j \in Nat
      /\ p \in Seq(Frames) /\ Len(p) = j - 1 /\ f \in Frames
      /\ SubSeq(cs, 1, j) = Append(p, f)
      /\ \A i \in 1..j - 1 : p[i] = cs[i]
  <2>1. j - 1 \in 0..n /\ j - 1 + 1 = j /\ j \in Nat
    BY <1>2, <1>5
  <2>2. p \in Seq(Frames) /\ Len(p) = j - 1 /\ \A i \in 1..j - 1 : p[i] = cs[i]
    BY <1>2, <2>1, Prefix
  <2>3. f \in Frames /\ SubSeq(cs, 1, j) = Append(p, f)
    BY <1>2, <1>5, TopPart, ZenonT(60)
  <2>. QED BY <2>1, <2>2, <2>3
<1>7. Placed(f, p) /\ Saved(f, p) /\ Stack(p)
  BY <1>1, <1>5, <1>6, StackPrefix DEF Stack
<1>8. Alike(cs, p, r)
  <2>1. \A i \in j - 1 + 1..Len(cs) : cs[i].th = r
    BY <1>5, <1>6
  <2>. QED BY <1>2, <1>6, <2>1, AlikeCut
<1>9. T[r].nCcalls = Total(cs) /\ Total(p) + weight(f) <= Total(cs) /\ Total(p) \in Nat /\ Total(cs) \in Nat
  <2>1. T[r].nCcalls = Total(cs)
    BY <1>1, <1>3, TopFrames, CountTop DEF Account
  <2>2. j \in 0..Len(cs)
    BY <1>5
  <2>3. Total(Append(p, f)) = Total(p) + weight(f) /\ Total(p) \in Nat /\ Total(cs) \in Nat
    BY <1>2, <1>6, TotalFacts
  <2>4. Total(SubSeq(cs, 1, j)) <= Total(cs)
    BY <1>2, <2>2, TotalGrows
  <2>. QED BY <1>6, <2>1, <2>3, <2>4
<1>10. /\ o \in States /\ Account(o, cs, r) /\ o.status = "0" /\ o.nCcalls <= LIMIT
       /\ l = IF f.k = "pcall" THEN pcallCaught(o, f) ELSE resumeCaught(o, f)
  BY <1>1, <1>3
<1>. HIDE DEF f, n, o
<1>11. /\ l \in States /\ l.baseCcalls = o.baseCcalls /\ Account(l, p, r) /\ l.nCcalls < LIMIT
       /\ framesOf(p, r) # {} => l.status = "0"
  <2>1. CASE f.k = "pcall"
    <3>1. /\ f.nCcalls = Total(p) /\ f.nCcalls < LIMIT /\ f.ci = Len(callinfos(p, r))
          /\ f.allowhook <=> hooksOn(p, r)
          /\ f.errfunc = handlerOf(p, r) /\ f.previous = greatest(protectedOf(p, r))
      BY <1>5, <1>7, <2>1 DEF Saved, LIMIT
    <3>2. o.ci = callinfos(cs, r) /\ Len(o.ci) <= o.size_ci
      BY <1>10 DEF Account
    <3>3. Len(callinfos(p, r)) \in 1..Len(callinfos(cs, r)) /\ SubSeq(callinfos(cs, r), 1, f.ci) = callinfos(p, r)
      <4>1. j - 1 \in 0..Len(cs)
        BY <1>6 DEF n
      <4>. QED BY <1>2, <3>1, <4>1, CallinfosPrefix
    <3>4. f.ci \in 0..Len(o.ci)
      <4>1. f.ci \in 1..Len(o.ci)
        BY ONLY <3>1, <3>2, <3>3
      <4>. QED BY <4>1
    <3>5. l = pcallCaught(o, f)
      BY <1>10, <2>1
    <3>6. /\ l \in States /\ l.status = o.status /\ l.baseCcalls = o.baseCcalls
          /\ l.ci = SubSeq(o.ci, 1, f.ci) /\ l.nCcalls = f.nCcalls
          /\ l.allowhook = f.allowhook /\ l.errfunc = f.errfunc /\ l.errorJmp = f.previous
          /\ Len(l.ci) <= l.size_ci
      <4>1. o \in States /\ f \in Frames /\ f.k = "pcall" /\ f.ci \in 0..Len(o.ci) /\ Len(o.ci) <= o.size_ci
        BY <1>6, <1>10, <2>1, <3>2, <3>4
      <4>. HIDE DEF pcallCaught
      <4>. QED BY ONLY <4>1, <3>5, PcallCaughtFacts
    <3>7. framesOf(p, r) # {} => l.nCcalls = Count(p, r)
      <4>. SUFFICES ASSUME framesOf(p, r) # {} PROVE Count(p, r) = Total(p)
        BY <3>1, <3>6
      <4>1. p # <<>>
        <5>1. p = <<>> => Len(p) = 0
          OBVIOUS
        <5>2. Len(p) = 0 => framesOf(p, r) = {}
          BY ONLY DEF framesOf
        <5>. QED BY <5>1, <5>2
      <4>2. p[Len(p)].th = r
        BY <1>5, <1>7, <2>1, <4>1 DEF Placed
      <4>. QED BY <1>7, <4>2, CountTop
    <3>8. Account(l, p, r)
      BY <1>10, <3>1, <3>2, <3>3, <3>6, <3>7 DEF Account
    <3>. QED BY <1>10, <3>1, <3>6, <3>8
  <2>2. CASE f.k = "resume"
    <3>1. framesOf(p, r) = {} /\ f.previous = 0
      BY <1>5, <1>7, <2>2 DEF Placed, Saved
    <3>2. weight(f) = 1 /\ o.nCcalls > 0 /\ o.nCcalls \in Nat
      BY <1>9, <2>2 DEF weight, o
    <3>3. l = resumeCaught(o, f)
      BY <1>10, <2>2
    <3>4. /\ l \in States /\ l.status = "error" /\ l.baseCcalls = o.baseCcalls
          /\ l.ci = o.ci /\ l.nCcalls = o.nCcalls - 1 /\ l.size_ci = o.size_ci
          /\ l.errfunc = o.errfunc /\ l.errorJmp = f.previous
      <4>1. o \in States /\ f \in Frames /\ f.k = "resume" /\ o.nCcalls > 0
        BY <1>6, <1>10, <2>2, <3>2
      <4>. QED BY ONLY <4>1, <3>3, ResumeCaughtFacts
    <3>5. pcallsOf(cs, r) = {}
      <4>. SUFFICES ASSUME NEW i \in pcallsOf(cs, r) PROVE FALSE
        OBVIOUS
      <4>1. i \in 1..n /\ cs[i].k = "pcall" /\ cs[i].th = r
        BY DEF pcallsOf, framesOf, n
      <4>2. i <= j /\ i # j
        BY <1>5, <2>2, <4>1 DEF f
      <4>3. i \in 1..j - 1
        <5>1. i \in 1..n /\ j \in Nat /\ n \in Nat
          BY <1>2, <1>6, <4>1
        <5>. QED BY ONLY <4>2, <5>1
      <4>4. i \in framesOf(p, r)
        BY <1>6, <4>1, <4>3 DEF framesOf
      <4>. QED BY <3>1, <4>4
    <3>6. l.errfunc = "none"
      BY <1>10, <3>4, <3>5 DEF Account, handlerOf
    <3>7. Account(l, p, r)
      <4>1. handlerOf(p, r) = "none" /\ greatest(protectedOf(p, r)) = 0
        <5>1. p \in Seq(Frames) /\ r \in Threads /\ framesOf(p, r) = {}
          BY <1>1, <1>6, <3>1
        <5>. QED BY ONLY <5>1, NoFrames
      <4>. QED BY <1>10, <3>1, <3>4, <3>6, <4>1 DEF Account
    <3>8. l.nCcalls < LIMIT
      <4>1. LIMIT \in Nat
        BY LimitFacts DEF LIMIT
      <4>2. o.nCcalls <= LIMIT /\ l.nCcalls = o.nCcalls - 1 /\ o.nCcalls \in Nat
        BY <1>10, <3>2, <3>4
      <4>. QED BY ONLY <4>1, <4>2
    <3>. QED BY <3>1, <3>4, <3>7, <3>8
  <2>. QED BY <1>5, <2>1, <2>2
<1>12. Ready(U, p)
  BY <1>1, <1>7, <1>8, <1>11, ReadyChange DEF o
<1>13. Limits(U)
  BY <1>1, <1>11 DEF Limits, LIMIT
<1>. HIDE DEF U
<1>14. Control(U, p, back(p))
  <2>1. CASE p = <<>>
    BY <2>1 DEF Control, back
  <2>2. CASE p # <<>>
    <3>1. p[Len(p)].k \in below[f.k]
      BY <1>7, <2>2 DEF Placed
    <3>2. p[Len(p)].k = "cfun"
      BY <1>5, <3>1 DEF below, Kinds, Codes
    <3>3. back(p) = "run"
      BY <2>2, <3>2 DEF back, Codes
    <3>. QED BY <2>2, <3>2, <3>3 DEF Control, Codes
  <2>. QED BY <2>1, <2>2
<1>15. Active(U, p, back(p))
  BY <1>12 DEF Ready, Active
<1>16. Good(U, p, back(p))
  BY <1>12, <1>13, <1>14, <1>15 DEF Good, Ready
<1>17. Good([T EXCEPT ![r] = l], p, back(p))
  BY ONLY <1>16 DEF U
<1>18. j # 0
  BY <1>2, <1>5
<1>. QED BY <1>17, <1>18

(***************************************************************************)
(* The running thread.                                                     *)
(***************************************************************************)
LEMMA Current ==
  ASSUME IInv, ctl # "exit"
  PROVE  /\ Stack(cstack) /\ cstack # <<>> /\ cstack \in Seq(Frames) /\ Len(cstack) \in Nat \ {0}
         /\ top \in Frames /\ top.k \in Kinds /\ running \in Threads /\ top.th = running
         /\ cstack[Len(cstack)] = top /\ cstack[Len(cstack)].th = running
         /\ popped \in Seq(Frames) /\ Stack(popped) /\ Len(popped) = Len(cstack) - 1
         /\ cstack = Append(popped, top) /\ Placed(top, popped) /\ Saved(top, popped)
         /\ L \in [Threads -> States] /\ me = L[running] /\ me \in States
         /\ Account(me, cstack, running) /\ framesOf(cstack, running) # {}
         /\ me.nCcalls = Total(cstack) /\ me.nCcalls < LIMIT /\ Limits(L)
<1>1. Stack(cstack) /\ cstack # <<>>
  BY DEF IInv, Good, Control
<1>2. L \in [Threads -> States] /\ Limits(L) /\ \A t \in Threads : Account(L[t], cstack, t)
  BY DEF IInv, Good, Accounts
<1>3. /\ cstack \in Seq(Frames) /\ Len(cstack) \in Nat \ {0}
      /\ top \in Frames /\ top.k \in Kinds /\ top.th \in Threads
      /\ popped \in Seq(Frames) /\ Stack(popped) /\ Len(popped) = Len(cstack) - 1
      /\ cstack = Append(popped, top) /\ Placed(top, popped) /\ Saved(top, popped)
  BY <1>1, StackTop DEF top, popped
<1>4. running = top.th /\ me = L[running] /\ cstack[Len(cstack)] = top
  BY DEF running, me, top
<1>5. framesOf(cstack, running) # {}
  BY <1>1, <1>4, TopFrames
<1>6. Account(me, cstack, running) /\ me \in States /\ me.nCcalls < LIMIT
  BY <1>2, <1>3, <1>4 DEF Limits, LIMIT
<1>7. me.nCcalls = Total(cstack)
  BY <1>1, <1>4, <1>5, <1>6, CountTop DEF Account
<1>. QED BY <1>1, <1>2, <1>3, <1>4, <1>5, <1>6, <1>7

\* Outside a yield everything agrees.
LEMMA CurrentReady ==
  ASSUME IInv, ctl \in {"run", "precall", "errormsg"} \/ (ctl = "returned" /\ top.k # "resume")
  PROVE  /\ Ready(L, cstack) /\ me.status = "0" /\ me.ci = callinfos(cstack, running)
         /\ me.allowhook <=> hooksOn(cstack, running)
         /\ me.errorJmp = greatest(protectedOf(cstack, running))
         /\ me.errfunc = handlerOf(cstack, running)
         /\ Len(me.ci) <= me.size_ci
<1>1. ctl # "exit"
  OBVIOUS
<1>2. \A t \in Threads : framesOf(cstack, t) # {} => L[t].status = "0"
  BY DEF IInv, Good, Active, top
<1>3. Ready(L, cstack)
  BY <1>2 DEF IInv, Good, Ready
<1>4. me.status = "0" /\ Account(me, cstack, running)
  BY <1>1, <1>2, Current
<1>. QED BY <1>3, <1>4 DEF Account

\* A step that ends with everything in agreement.
LEMMA Arrive ==
  ASSUME Ready(L', cstack'), Limits(L'), Control(L', cstack', ctl')
  PROVE  IInv'
<1>1. Active(L', cstack', ctl')
  BY DEF Ready, Active
<1>2. Good(L', cstack', ctl')
  BY <1>1 DEF Good, Ready
<1>. QED BY <1>2 DEF IInv

\* go, with an error or without.
LEMMA Go ==
  ASSUME L \in [Threads -> States], Limits(L), running \in Threads,
         NEW l, NEW cs, NEW c, NEW T, T = [L EXCEPT ![running] = l], go(l, cs, c),
         Ready(T, cs), cs # <<>>, cs[Len(cs)].th = running, l.nCcalls <= LIMIT,
         c # "throw" => l.nCcalls < LIMIT /\ Control(T, cs, c)
  PROVE  IInv'
<1>1. T[running] = l /\ \A t \in Threads \ {running} : T[t] = L[t]
  OBVIOUS
<1>2. \A t \in Threads \ {running} : T[t].nCcalls < LIMIT
  BY <1>1 DEF Limits, LIMIT
<1>3. CASE c = "throw"
  <2>. DEFINE j == T[running].errorJmp
              x == IF cs[j].k = "pcall" THEN pcallCaught(T[running], cs[j]) ELSE resumeCaught(T[running], cs[j])
              p == SubSeq(cs, 1, j - 1)
  <2>1. L' = [L EXCEPT ![running] = x] /\ cstack' = p /\ ctl' = back(p)
    BY <1>1, <1>3 DEF go, luaD_throw, set
  <2>2. Good([T EXCEPT ![running] = x], p, back(p))
    <3>1. T[running].nCcalls <= LIMIT
      BY <1>1
    <3>. HIDE DEF x, p
    <3>2. j = T[running].errorJmp
      OBVIOUS
    <3>3. x = IF cs[j].k = "pcall" THEN pcallCaught(T[running], cs[j]) ELSE resumeCaught(T[running], cs[j])
      BY DEF x
    <3>4. p = SubSeq(cs, 1, j - 1)
      BY DEF p
    <3>. HIDE DEF j
    <3>. QED BY <1>2, <3>1, <3>2, <3>3, <3>4, Throw
  <2>3. L' = [T EXCEPT ![running] = x]
    <3>. HIDE DEF x
    <3>. QED BY <2>1
  <2>. HIDE DEF x, p
  <2>. QED BY <2>1, <2>2, <2>3 DEF IInv
<1>4. CASE c # "throw"
  <2>1. L' = T /\ cstack' = cs /\ ctl' = c
    BY <1>4 DEF go, set
  <2>2. Limits(T)
    BY <1>1, <1>2, <1>4 DEF Limits, LIMIT
  <2>. QED BY <1>4, <2>1, <2>2, Arrive
<1>. QED BY <1>3, <1>4

\* The record l of a thread becomes m with frame f at position n + 1.
Pushed(m, l, f, n) ==
  /\ m.status = l.status /\ m.baseCcalls = l.baseCcalls
  /\ m.ci = l.ci \o infos(f) /\ Len(m.ci) <= m.size_ci
  /\ m.nCcalls = l.nCcalls + weight(f)
  /\ m.allowhook <=> l.allowhook /\ f.k \notin {"hook", "gctm"}
  /\ m.errorJmp = IF f.k = "pcall" THEN n + 1 ELSE l.errorJmp
  /\ m.errfunc = IF f.k = "pcall" THEN f.ef ELSE l.errfunc

\* The running thread pushes a frame.
LEMMA PushAny ==
  ASSUME NEW T, NEW cs, Ready(T, cs), cs # <<>>, NEW r, r = cs[Len(cs)].th,
         NEW f \in Frames, f.th = r, f.k # "resume",
         cs[Len(cs)].k \in below[f.k], Len(cs) = 1 => f.k = "call", Saved(f, cs),
         NEW m \in States, NEW l, l = T[r],
         Pushed(m, l, f, Len(cs))
  PROVE  /\ Ready([T EXCEPT ![r] = m], Append(cs, f)) /\ Append(cs, f) # <<>>
         /\ Append(cs, f)[Len(Append(cs, f))] = f /\ Append(cs, f) \in Seq(Frames)
         /\ Len(Append(cs, f)) = Len(cs) + 1
<1>. DEFINE ds == Append(cs, f)
<1>1. Stack(cs) /\ cs \in Seq(Frames) /\ r \in Threads /\ framesOf(cs, r) # {}
  BY StackTop, TopFrames DEF Ready
<1>2. l.status = "0" /\ Account(l, cs, r)
  BY <1>1 DEF Ready, Accounts
<1>3. /\ ds \in Seq(Frames) /\ Len(ds) = Len(cs) + 1 /\ ds[Len(cs) + 1] = f /\ Len(cs) \in Nat
  BY <1>1, Appended
<1>4. Placed(f, cs)
  BY DEF Placed
<1>5. Stack(ds)
  BY <1>1, <1>4, StackAppend
<1>6. Alike(cs, ds, r)
  BY <1>1, AlikePush
<1>7. /\ greatest(protectedOf(ds, r)) = IF f.k = "pcall" THEN Len(cs) + 1 ELSE l.errorJmp
      /\ hooksOn(ds, r) <=> l.allowhook /\ f.k \notin {"hook", "gctm"}
      /\ handlerOf(ds, r) = IF f.k = "pcall" THEN f.ef ELSE l.errfunc
      /\ callinfos(ds, r) = callinfos(cs, r) \o infos(f)
      /\ Count(ds, r) = Total(cs) + weight(f)
  <2>1. /\ greatest(protectedOf(ds, r)) =
             IF f.k \in {"pcall", "resume"} THEN Len(cs) + 1 ELSE greatest(protectedOf(cs, r))
        /\ hooksOn(ds, r) <=> hooksOn(cs, r) /\ f.k \notin {"hook", "gctm"}
        /\ handlerOf(ds, r) = IF f.k = "pcall" THEN f.ef ELSE handlerOf(cs, r)
        /\ callinfos(ds, r) = callinfos(cs, r) \o infos(f)
        /\ Count(ds, r) = Total(ds)
    BY <1>1, Own
  <2>2. Total(ds) = Total(cs) + weight(f)
    BY <1>1, TotalFacts
  <2>3. /\ l.allowhook <=> hooksOn(cs, r)
        /\ l.errorJmp = greatest(protectedOf(cs, r))
        /\ l.errfunc = handlerOf(cs, r)
    BY <1>2 DEF Account
  <2>. HIDE DEF ds
  <2>. QED BY <2>1, <2>2, <2>3
<1>8. l.nCcalls = Total(cs)
  BY <1>1, <1>2, CountTop DEF Account
<1>9. callinfos(ds, r) = m.ci
  BY <1>2, <1>7 DEF Account, Pushed
<1>. HIDE DEF ds
<1>10. Account(m, ds, r)
  BY <1>2, <1>7, <1>8, <1>9 DEF Account, Pushed
<1>11. Ready([T EXCEPT ![r] = m], ds)
  <2>1. m.baseCcalls = T[r].baseCcalls /\ m.status = "0"
    BY <1>2 DEF Pushed
  <2>. QED BY <1>1, <1>5, <1>6, <1>10, <2>1, ReadyChange
<1>. QED BY <1>3, <1>11 DEF ds

\* One that is no function call's: no CallInfo is added.
Noted(m, l, f, n) ==
  /\ m.status = l.status /\ m.ci = l.ci /\ m.size_ci = l.size_ci /\ m.baseCcalls = l.baseCcalls
  /\ m.nCcalls = l.nCcalls + weight(f)
  /\ m.allowhook <=> l.allowhook /\ f.k \notin {"hook", "gctm"}
  /\ m.errorJmp = IF f.k = "pcall" THEN n + 1 ELSE l.errorJmp
  /\ m.errfunc = IF f.k = "pcall" THEN f.ef ELSE l.errfunc

\* A C function called by the topmost one, whose effect on the record is noted there.
LEMMA Push ==
  ASSUME NEW T, NEW cs, Ready(T, cs), cs # <<>>, NEW r, r = cs[Len(cs)].th,
         NEW f \in Frames, f.th = r, f.k \in {"call", "handler", "pcall", "gctm", "hook", "parser"},
         cs[Len(cs)].k \in below[f.k], Len(cs) = 1 => f.k = "call", Saved(f, cs),
         NEW m \in States, NEW l, l = T[r], Noted(m, l, f, Len(cs))
  PROVE  /\ Ready([T EXCEPT ![r] = m], Append(cs, f)) /\ Append(cs, f) # <<>>
         /\ Append(cs, f)[Len(Append(cs, f))] = f /\ Append(cs, f) \in Seq(Frames)
         /\ Len(Append(cs, f)) = Len(cs) + 1
<1>1. l.ci \in Seq(Infos) /\ Len(l.ci) <= l.size_ci
  <2>1. r \in Threads
    BY StackTop DEF Ready
  <2>2. Account(l, cs, r) /\ l \in States
    BY <2>1 DEF Ready, Accounts
  <2>. QED BY <2>2 DEF Account, States
<1>2. infos(f) = <<>>
  BY InfosFacts
<1>3. l.ci \o infos(f) = l.ci
  BY <1>1, <1>2
<1>4. m.ci = l.ci \o infos(f) /\ Len(m.ci) <= m.size_ci /\ f.k # "resume"
  BY <1>1, <1>3 DEF Noted
<1>5. Pushed(m, l, f, Len(cs))
  BY <1>4 DEF Pushed, Noted
<1>. QED BY <1>4, <1>5, PushAny

\* Control goes back to the C function below.
LEMMA BackControl ==
  ASSUME NEW T, NEW p
  PROVE  Control(T, p, back(p))
<1>1. CASE p = <<>>
  BY <1>1 DEF Control, back
<1>2. CASE p # <<>> /\ p[Len(p)].k \in Codes
  BY <1>2 DEF Control, back
<1>3. CASE p # <<>> /\ p[Len(p)].k \notin Codes
  BY <1>3 DEF Control, back
<1>. QED BY <1>1, <1>2, <1>3

\* The running thread takes its top frame off.
LEMMA PopStep ==
  ASSUME IInv, ctl = "run" \/ ctl = "returned", top.k # "resume",
         NEW m \in States, m.status = "0", m.baseCcalls = me.baseCcalls,
         m.nCcalls = Total(popped), m.ci = callinfos(popped, running), Len(m.ci) <= m.size_ci,
         m.allowhook <=> hooksOn(popped, running),
         m.errorJmp = greatest(protectedOf(popped, running)),
         m.errfunc = handlerOf(popped, running),
         L' = [L EXCEPT ![running] = m], cstack' = popped, ctl' = back(popped)
  PROVE  IInv'
<1>1. ctl # "exit"
  OBVIOUS
<1>2. /\ Stack(cstack) /\ cstack # <<>> /\ cstack \in Seq(Frames) /\ Len(cstack) \in Nat \ {0}
      /\ top \in Frames /\ running \in Threads /\ top.th = running
      /\ cstack[Len(cstack)] = top
      /\ popped \in Seq(Frames) /\ Stack(popped)
      /\ cstack = Append(popped, top) /\ Placed(top, popped)
      /\ L \in [Threads -> States] /\ me = L[running] /\ me \in States
      /\ me.nCcalls = Total(cstack) /\ me.nCcalls < LIMIT /\ Limits(L)
  BY <1>1, Current
<1>3. Ready(L, cstack)
  BY CurrentReady
<1>4. Alike(cstack, popped, running)
  <2>1. Len(cstack) - 1 \in 0..Len(cstack) /\ \A i \in Len(cstack) - 1 + 1..Len(cstack) : cstack[i].th = running
    BY <1>2
  <2>. QED BY <1>2, <2>1, AlikeCut DEF popped
<1>5. framesOf(popped, running) # {} => m.nCcalls = Count(popped, running)
  <2>. SUFFICES ASSUME framesOf(popped, running) # {} PROVE Count(popped, running) = Total(popped)
    OBVIOUS
  <2>1. popped # <<>>
    BY <1>2 DEF framesOf
  <2>2. popped[Len(popped)].th = running
    BY <1>2, <2>1 DEF Placed
  <2>. QED BY <1>2, <2>2, CountTop
<1>6. Account(m, popped, running)
  BY <1>5 DEF Account
<1>7. Ready(L', cstack')
  BY <1>2, <1>3, <1>4, <1>6, ReadyChange
<1>8. Limits(L')
  <2>1. Total(cstack) = Total(popped) + weight(top) /\ Total(popped) \in Nat /\ weight(top) \in Nat
    BY <1>2, TotalFacts, FrameFacts
  <2>2. LIMIT \in Nat
    BY LimitFacts DEF LIMIT
  <2>3. m.nCcalls < LIMIT
    BY <1>2, <2>1, <2>2
  <2>. QED BY <1>2, <2>3 DEF Limits, LIMIT
<1>9. Control(L', cstack', ctl')
  BY BackControl
<1>. QED BY <1>7, <1>8, <1>9, Arrive

\* What the stack below the top says of the running thread.
LEMMA Below ==
  ASSUME IInv, ctl # "exit"
  PROVE  /\ callinfos(cstack, running) = callinfos(popped, running) \o infos(top)
         /\ callinfos(popped, running) \in Seq(Infos)
         /\ Total(cstack) = Total(popped) + weight(top) /\ Total(popped) \in Nat
         /\ top.k \notin {"hook", "gctm"} => (hooksOn(cstack, running) <=> hooksOn(popped, running))
         /\ top.k \notin {"pcall", "resume"} =>
              /\ greatest(protectedOf(cstack, running)) = greatest(protectedOf(popped, running))
              /\ handlerOf(cstack, running) = handlerOf(popped, running)
<1>1. /\ top \in Frames /\ top.th = running /\ popped \in Seq(Frames) /\ cstack = Append(popped, top)
  BY Current
<1>2. /\ greatest(protectedOf(cstack, running)) =
           IF top.k \in {"pcall", "resume"} THEN Len(popped) + 1 ELSE greatest(protectedOf(popped, running))
      /\ hooksOn(cstack, running) <=> hooksOn(popped, running) /\ top.k \notin {"hook", "gctm"}
      /\ handlerOf(cstack, running) = IF top.k = "pcall" THEN top.ef ELSE handlerOf(popped, running)
      /\ callinfos(cstack, running) = callinfos(popped, running) \o infos(top)
  BY <1>1, Own
<1>3. callinfos(popped, running) \in Seq(Infos)
  BY <1>1, CallinfosType
<1>4. Total(cstack) = Total(popped) + weight(top) /\ Total(popped) \in Nat
  BY <1>1, TotalFacts
<1>. QED BY <1>2, <1>3, <1>4


\* What the record of the running thread says when its topmost C function is about to return.
LEMMA PopFacts ==
  ASSUME IInv, ctl = "run" \/ ctl = "returned", top.k # "resume"
  PROVE  /\ me \in States /\ top \in Frames /\ me.status = "0" /\ Len(me.ci) <= me.size_ci
         /\ me.nCcalls = Total(popped) + weight(top) /\ Total(popped) \in Nat
         /\ me.ci = callinfos(popped, running) \o infos(top) /\ callinfos(popped, running) \in Seq(Infos)
         /\ infos(top) = <<>> => me.ci = callinfos(popped, running)
         /\ top.k \notin {"hook", "gctm"} => (me.allowhook <=> hooksOn(popped, running))
         /\ top.k # "pcall" => /\ me.errorJmp = greatest(protectedOf(popped, running))
                               /\ me.errfunc = handlerOf(popped, running)
<1>1. ctl # "exit"
  OBVIOUS
<1>2. me \in States /\ top \in Frames /\ me.nCcalls = Total(cstack)
  BY <1>1, Current
<1>3. /\ me.status = "0" /\ me.ci = callinfos(cstack, running)
      /\ me.allowhook <=> hooksOn(cstack, running)
      /\ me.errorJmp = greatest(protectedOf(cstack, running))
      /\ me.errfunc = handlerOf(cstack, running)
      /\ Len(me.ci) <= me.size_ci
  BY CurrentReady
<1>4. /\ callinfos(cstack, running) = callinfos(popped, running) \o infos(top)
      /\ callinfos(popped, running) \in Seq(Infos)
      /\ Total(cstack) = Total(popped) + weight(top) /\ Total(popped) \in Nat
      /\ top.k \notin {"hook", "gctm"} => (hooksOn(cstack, running) <=> hooksOn(popped, running))
      /\ top.k \notin {"pcall", "resume"} =>
              /\ greatest(protectedOf(cstack, running)) = greatest(protectedOf(popped, running))
              /\ handlerOf(cstack, running) = handlerOf(popped, running)
  BY <1>1, Below
<1>5. infos(top) = <<>> => callinfos(popped, running) \o infos(top) = callinfos(popped, running)
  BY <1>4
<1>. QED BY <1>2, <1>3, <1>4, <1>5

\* luaD_call gives its C call back when it returns.
LEMMA CallEndStep ==
  ASSUME IInv, luaD_call_end
  PROVE  IInv'
<1>. DEFINE m == [me EXCEPT !.nCcalls = @ - 1]
<1>1. ctl = "returned" /\ top.k = "call" /\ L' = [L EXCEPT ![running] = m] /\ cstack' = popped /\ ctl' = back(popped)
  BY DEF luaD_call_end, set
<1>2. /\ me \in States /\ top \in Frames /\ me.status = "0" /\ Len(me.ci) <= me.size_ci
      /\ me.nCcalls = Total(popped) + weight(top) /\ Total(popped) \in Nat
      /\ infos(top) = <<>> => me.ci = callinfos(popped, running)
      /\ me.allowhook <=> hooksOn(popped, running)
      /\ me.errorJmp = greatest(protectedOf(popped, running)) /\ me.errfunc = handlerOf(popped, running)
  BY <1>1, PopFacts
<1>3. weight(top) = 1 /\ infos(top) = <<>>
  BY <1>1, <1>2, InfosFacts DEF weight
<1>4. m \in States /\ m = [me EXCEPT !.nCcalls = Total(popped)]
  BY <1>2, <1>3 DEF States
<1>5. /\ m.status = me.status /\ m.baseCcalls = me.baseCcalls /\ m.nCcalls = Total(popped) /\ m.ci = me.ci
      /\ m.size_ci = me.size_ci /\ m.allowhook = me.allowhook /\ m.errorJmp = me.errorJmp /\ m.errfunc = me.errfunc
  BY <1>2, <1>4 DEF States
<1>. HIDE DEF m
<1>. QED BY <1>1, <1>2, <1>3, <1>4, <1>5, PopStep

\* The parser returns to luaD_protectedparser.
LEMMA ParserEndStep ==
  ASSUME IInv, f_parser_end
  PROVE  IInv'
<1>1. ctl = "run" /\ top.k = "parser" /\ top.lev = 0 /\ L' = L /\ cstack' = popped /\ ctl' = back(popped)
  BY DEF f_parser_end, run
<1>2. /\ me \in States /\ top \in Frames /\ me.status = "0" /\ Len(me.ci) <= me.size_ci
      /\ me.nCcalls = Total(popped) + weight(top) /\ Total(popped) \in Nat
      /\ infos(top) = <<>> => me.ci = callinfos(popped, running)
      /\ me.allowhook <=> hooksOn(popped, running)
      /\ me.errorJmp = greatest(protectedOf(popped, running)) /\ me.errfunc = handlerOf(popped, running)
  BY <1>1, PopFacts
<1>3. weight(top) = 0 /\ infos(top) = <<>>
  BY <1>1, <1>2, InfosFacts DEF weight
<1>4. L \in [Threads -> States] /\ running \in Threads /\ me = L[running]
  BY <1>1, Current
<1>5. L' = [L EXCEPT ![running] = me]
  BY <1>1, <1>4
<1>6. me.nCcalls = Total(popped) /\ me.ci = callinfos(popped, running)
  BY <1>2, <1>3
<1>. QED BY <1>1, <1>2, <1>5, <1>6, PopStep

\* luaD_pcall returns without an error: it restores the handler and the longjmp chain.
LEMMA PcallEndStep ==
  ASSUME IInv, luaD_pcall_end
  PROVE  IInv'
<1>. DEFINE m == [me EXCEPT !.errfunc = top.errfunc, !.errorJmp = top.previous]
<1>1. ctl = "returned" /\ top.k = "pcall" /\ L' = [L EXCEPT ![running] = m] /\ cstack' = popped /\ ctl' = back(popped)
  BY DEF luaD_pcall_end, set
<1>2. /\ me \in States /\ top \in Frames /\ me.status = "0" /\ Len(me.ci) <= me.size_ci
      /\ me.nCcalls = Total(popped) + weight(top) /\ Total(popped) \in Nat
      /\ infos(top) = <<>> => me.ci = callinfos(popped, running)
      /\ me.allowhook <=> hooksOn(popped, running)
  BY <1>1, PopFacts
<1>3. weight(top) = 0 /\ infos(top) = <<>> /\ top.errfunc \in Handlers /\ top.previous \in Nat
  BY <1>1, <1>2, InfosFacts, FrameFacts DEF weight
<1>4. top.errfunc = handlerOf(popped, running) /\ top.previous = greatest(protectedOf(popped, running))
  <2>1. Saved(top, popped) /\ top.th = running
    BY <1>1, Current
  <2>. QED BY <1>1, <2>1 DEF Saved
<1>5. m \in States
  BY <1>2, <1>3 DEF States
<1>6. /\ m.status = me.status /\ m.baseCcalls = me.baseCcalls /\ m.nCcalls = me.nCcalls /\ m.ci = me.ci
      /\ m.size_ci = me.size_ci /\ m.allowhook = me.allowhook
      /\ m.errorJmp = top.previous /\ m.errfunc = top.errfunc
  BY <1>2 DEF States
<1>. HIDE DEF m
<1>7. /\ m.status = "0" /\ m.nCcalls = Total(popped) /\ m.ci = callinfos(popped, running)
      /\ Len(m.ci) <= m.size_ci /\ (m.allowhook <=> hooksOn(popped, running))
      /\ m.errorJmp = greatest(protectedOf(popped, running)) /\ m.errfunc = handlerOf(popped, running)
  BY <1>2, <1>3, <1>4, <1>6
<1>. QED BY <1>1, <1>5, <1>6, <1>7, PopStep

\* luaD_callhook turns hooks on again.
LEMMA HookEndStep ==
  ASSUME IInv, luaD_callhook_end
  PROVE  IInv'
<1>. DEFINE m == [me EXCEPT !.allowhook = TRUE]
<1>1. ctl = "run" /\ top.k = "hook" /\ L' = [L EXCEPT ![running] = m] /\ cstack' = popped /\ ctl' = ctl
  BY DEF luaD_callhook_end, set, run
<1>2. /\ me \in States /\ top \in Frames /\ me.status = "0" /\ Len(me.ci) <= me.size_ci
      /\ me.nCcalls = Total(popped) + weight(top) /\ Total(popped) \in Nat
      /\ infos(top) = <<>> => me.ci = callinfos(popped, running)
      /\ me.errorJmp = greatest(protectedOf(popped, running)) /\ me.errfunc = handlerOf(popped, running)
  BY <1>1, PopFacts
<1>3. weight(top) = 0 /\ infos(top) = <<>>
  BY <1>1, <1>2, InfosFacts DEF weight
<1>4. /\ Saved(top, popped) /\ Placed(top, popped) /\ top.th = running
      /\ Stack(popped) /\ popped \in Seq(Frames)
  BY <1>1, Current
<1>5. hooksOn(popped, running)
  BY <1>1, <1>4 DEF Saved
<1>6. ctl' = back(popped)
  <2>1. popped # <<>>
    BY <1>1, <1>4 DEF Placed
  <2>2. popped[Len(popped)].k = "execute"
    BY <1>1, <1>4, <2>1 DEF Placed, below, Kinds, Codes
  <2>. QED BY <1>1, <2>1, <2>2 DEF back, Codes
<1>7. m \in States
  BY <1>2 DEF States
<1>8. /\ m.status = me.status /\ m.baseCcalls = me.baseCcalls /\ m.nCcalls = me.nCcalls /\ m.ci = me.ci
      /\ m.size_ci = me.size_ci /\ m.allowhook = TRUE /\ m.errorJmp = me.errorJmp /\ m.errfunc = me.errfunc
  BY <1>2 DEF States
<1>. HIDE DEF m
<1>9. /\ m.status = "0" /\ m.nCcalls = Total(popped) /\ m.ci = callinfos(popped, running)
      /\ Len(m.ci) <= m.size_ci /\ (m.allowhook <=> hooksOn(popped, running))
      /\ m.errorJmp = greatest(protectedOf(popped, running)) /\ m.errfunc = handlerOf(popped, running)
  BY <1>2, <1>3, <1>5, <1>8
<1>. QED BY <1>1, <1>6, <1>7, <1>8, <1>9, PopStep

\* GCTM restores the hook flag it had saved.
LEMMA GctmEndStep ==
  ASSUME IInv, GCTM_end
  PROVE  IInv'
<1>. DEFINE m == [me EXCEPT !.allowhook = top.allowhook]
<1>1. ctl = "returned" /\ top.k = "gctm" /\ L' = [L EXCEPT ![running] = m] /\ cstack' = popped /\ ctl' = back(popped)
  BY DEF GCTM_end, set
<1>2. /\ me \in States /\ top \in Frames /\ me.status = "0" /\ Len(me.ci) <= me.size_ci
      /\ me.nCcalls = Total(popped) + weight(top) /\ Total(popped) \in Nat
      /\ infos(top) = <<>> => me.ci = callinfos(popped, running)
      /\ me.errorJmp = greatest(protectedOf(popped, running)) /\ me.errfunc = handlerOf(popped, running)
  BY <1>1, PopFacts
<1>3. weight(top) = 0 /\ infos(top) = <<>> /\ top.allowhook \in BOOLEAN
  BY <1>1, <1>2, InfosFacts, FrameFacts DEF weight
<1>4. top.allowhook <=> hooksOn(popped, running)
  <2>1. Saved(top, popped) /\ top.th = running
    BY <1>1, Current
  <2>. QED BY <1>1, <2>1 DEF Saved
<1>5. m \in States
  BY <1>2, <1>3 DEF States
<1>6. /\ m.status = me.status /\ m.baseCcalls = me.baseCcalls /\ m.nCcalls = me.nCcalls /\ m.ci = me.ci
      /\ m.size_ci = me.size_ci /\ m.allowhook = top.allowhook /\ m.errorJmp = me.errorJmp /\ m.errfunc = me.errfunc
  BY <1>2 DEF States
<1>. HIDE DEF m
<1>7. /\ m.status = "0" /\ m.nCcalls = Total(popped) /\ m.ci = callinfos(popped, running)
      /\ Len(m.ci) <= m.size_ci /\ (m.allowhook <=> hooksOn(popped, running))
      /\ m.errorJmp = greatest(protectedOf(popped, running)) /\ m.errfunc = handlerOf(popped, running)
  BY <1>2, <1>3, <1>4, <1>6
<1>. QED BY <1>1, <1>5, <1>6, <1>7, PopStep

(***************************************************************************)
(* Sequences of CallInfos.                                                 *)
(***************************************************************************)
Luas(n) == [i \in 1..n |-> "Lua"]

\* A run of n CallInfos of Lua functions.
LEMMA LuasFacts ==
  ASSUME NEW n \in Nat
  PROVE  /\ Luas(n) \in Seq(Infos) /\ Len(Luas(n)) = n /\ \A i \in 1..n : Luas(n)[i] = "Lua"
         /\ n = 0 => Luas(n) = <<>>
<1>1. Luas(n) \in Seq(Infos) /\ Len(Luas(n)) = n /\ \A i \in 1..n : Luas(n)[i] = "Lua"
  BY DEF Luas, Infos
<1>. QED BY <1>1

\* One more CallInfo after n others makes n + 1.
LEMMA AddLua ==
  ASSUME NEW a \in Seq(Infos), NEW n \in Nat
  PROVE  Append(a \o Luas(n), "Lua") = a \o Luas(n + 1)
<1>. DEFINE x == Append(a \o Luas(n), "Lua")
            y == a \o Luas(n + 1)
            b == Luas(n)
            c == Luas(n + 1)
<1>1. b \in Seq(Infos) /\ Len(b) = n /\ \A i \in 1..n : b[i] = "Lua"
  BY LuasFacts
<1>2. c \in Seq(Infos) /\ Len(c) = n + 1 /\ \A i \in 1..n + 1 : c[i] = "Lua"
  BY LuasFacts
<1>. HIDE DEF b, c
<1>3. "Lua" \in Infos /\ Len(a) \in Nat
  BY DEF Infos
<1>4. a \o b \in Seq(Infos) /\ Len(a \o b) = Len(a) + n /\ a \o c \in Seq(Infos) /\ Len(a \o c) = Len(a) + (n + 1)
  BY <1>1, <1>2
<1>5. Append(a \o b, "Lua") \in Seq(Infos) /\ Len(Append(a \o b, "Lua")) = Len(a) + (n + 1)
  BY <1>3, <1>4
<1>6. ASSUME NEW i \in 1..Len(a) + (n + 1) PROVE Append(a \o b, "Lua")[i] = (a \o c)[i]
  <2>1. CASE i \in 1..Len(a)
    <3>1. (a \o b)[i] = a[i] /\ (a \o c)[i] = a[i] /\ i \in 1..Len(a \o b)
      BY <1>1, <1>2, <1>3, <1>4, <2>1
    <3>. QED BY <1>4, <3>1
  <2>2. CASE i \in Len(a) + 1..Len(a) + n
    <3>1. i - Len(a) \in 1..n /\ i - Len(a) \in 1..n + 1 /\ i \in 1..Len(a \o b)
      BY <1>3, <1>4, <2>2
    <3>2. (a \o b)[i] = b[i - Len(a)] /\ (a \o c)[i] = c[i - Len(a)]
      BY <1>1, <1>2, <1>3, <2>2
    <3>. QED BY <1>1, <1>2, <1>4, <3>1, <3>2
  <2>3. CASE i = Len(a) + (n + 1)
    <3>1. (a \o c)[i] = c[n + 1] /\ n + 1 \in 1..n + 1
      BY <1>2, <1>3, <2>3
    <3>2. Append(a \o b, "Lua")[i] = "Lua"
      BY <1>3, <1>4, <2>3
    <3>. QED BY <1>2, <3>1, <3>2
  <2>4. i \in 1..Len(a) \/ i \in Len(a) + 1..Len(a) + n \/ i = Len(a) + (n + 1)
    BY <1>3
  <2>. QED BY <2>1, <2>2, <2>3, <2>4
<1>7. Append(a \o b, "Lua") = a \o c
  BY <1>4, <1>5, <1>6, SeqEqual
<1>. QED BY <1>7 DEF b, c

\* Dropping the last CallInfo undoes its addition.
LEMMA DropLast ==
  ASSUME NEW a \in Seq(Infos), NEW x \in Infos
  PROVE  SubSeq(Append(a, x), 1, Len(Append(a, x)) - 1) = a
<1>1. Len(Append(a, x)) = Len(a) + 1 /\ Len(a) \in Nat /\ SubSeq(Append(a, x), 1, Len(a)) = a
  BY Appended
<1>. QED BY <1>1

\* The CallInfos of a luaV_execute that runs one Lua function more.
LEMMA ExecuteInfos ==
  ASSUME NEW a \in Seq(Infos), NEW t \in Threads, NEW n \in Nat
  PROVE  /\ a \o infos(Execute(t, n + 1)) = Append(a \o Luas(n), "Lua")
         /\ n > 0 => a \o infos(Execute(t, n)) = a \o Luas(n)
         /\ a \o Luas(0) = a
         /\ a \o infos(Frame("cfun", t)) = Append(a, "C")
<1>1. infos(Execute(t, n + 1)) = Luas(n + 1) /\ infos(Execute(t, n)) = Luas(n)
  BY DEF infos, Execute, Luas
<1>2. infos(Frame("cfun", t)) = <<"C">>
  BY DEF infos, Frame
<1>3. Luas(0) = <<>> /\ a \o <<>> = a
  BY LuasFacts
<1>4. a \o <<"C">> = Append(a, "C")
  BY DEF Infos
<1>. QED BY <1>1, <1>2, <1>3, <1>4, AddLua

(***************************************************************************)
(* Returns, and frames whose count changes.                                *)
(***************************************************************************)
LEMMA Swap ==
  ASSUME IInv, ctl \in {"run", "precall"}, NEW g \in Frames, g.th = running, g.k = top.k,
         top.k \in {"execute", "parser"},
         NEW m \in States, m.status = "0", m.baseCcalls = me.baseCcalls,
         m.nCcalls = Total(popped) + weight(g), m.ci = callinfos(popped, running) \o infos(g),
         Len(m.ci) <= m.size_ci, m.allowhook = me.allowhook,
         m.errorJmp = me.errorJmp, m.errfunc = me.errfunc
  PROVE  LET cs == Append(popped, g)
         IN  /\ Ready([L EXCEPT ![running] = m], cs) /\ cs # <<>> /\ cs[Len(cs)] = g
             /\ Len(cs) = Len(cstack)
<1>. DEFINE cs == Append(popped, g)
            r == running
<1>1. ctl # "exit"
  OBVIOUS
<1>2. /\ Stack(cstack) /\ cstack # <<>> /\ cstack \in Seq(Frames) /\ Len(cstack) \in Nat \ {0}
      /\ top \in Frames /\ r \in Threads /\ top.th = r
      /\ cstack[Len(cstack)] = top
      /\ popped \in Seq(Frames) /\ Stack(popped) /\ Len(popped) = Len(cstack) - 1
      /\ cstack = Append(popped, top) /\ Placed(top, popped)
      /\ L \in [Threads -> States] /\ me = L[r] /\ me \in States
  BY <1>1, Current
<1>3. /\ Ready(L, cstack) /\ (me.allowhook <=> hooksOn(cstack, r))
      /\ me.errorJmp = greatest(protectedOf(cstack, r)) /\ me.errfunc = handlerOf(cstack, r)
  BY CurrentReady
<1>4. Placed(g, popped) /\ Saved(g, popped)
  <2>1. Placed(g, popped)
    BY <1>2 DEF Placed
  <2>2. Saved(g, popped)
    BY DEF Saved
  <2>. QED BY <2>1, <2>2
<1>5. Stack(cs)
  BY <1>2, <1>4, StackAppend
<1>6. cs \in Seq(Frames) /\ Len(cs) = Len(popped) + 1 /\ cs[Len(popped) + 1] = g
  BY <1>2, Appended
<1>7. Alike(cstack, popped, r)
  <2>1. Len(cstack) - 1 \in 0..Len(cstack) /\ \A i \in Len(cstack) - 1 + 1..Len(cstack) : cstack[i].th = r
    BY <1>2
  <2>. QED BY <1>2, <2>1, AlikeCut DEF popped
<1>8. Alike(popped, cs, r)
  BY <1>2, AlikePush
<1>9. Alike(cstack, cs, r)
  BY <1>7, <1>8, AlikeTrans
<1>10. /\ greatest(protectedOf(cs, r)) = greatest(protectedOf(popped, r))
       /\ hooksOn(cs, r) <=> hooksOn(popped, r)
       /\ handlerOf(cs, r) = handlerOf(popped, r)
       /\ callinfos(cs, r) = callinfos(popped, r) \o infos(g)
       /\ Count(cs, r) = Total(cs)
  BY <1>2, Own
<1>11. Total(cs) = Total(popped) + weight(g)
  BY <1>2, TotalFacts
<1>12. /\ greatest(protectedOf(cstack, r)) = greatest(protectedOf(popped, r))
       /\ hooksOn(cstack, r) <=> hooksOn(popped, r)
       /\ handlerOf(cstack, r) = handlerOf(popped, r)
  BY <1>1, Below
<1>. HIDE DEF cs
<1>13. Account(m, cs, r)
  BY <1>3, <1>10, <1>11, <1>12 DEF Account
<1>14. Ready([L EXCEPT ![r] = m], cs)
  BY <1>2, <1>3, <1>5, <1>9, <1>13, ReadyChange
<1>15. Len(cs) = Len(cstack) /\ cs # <<>> /\ cs[Len(cs)] = g
  BY <1>2, <1>6
<1>. QED BY <1>14, <1>15 DEF cs

\* A frame exchanged on top is that frame on the rest.
LEMMA ExceptTop ==
  ASSUME IInv, ctl # "exit", NEW g \in Frames
  PROVE  [cstack EXCEPT ![Len(cstack)] = g] = Append(popped, g)
<1>. DEFINE x == [cstack EXCEPT ![Len(cstack)] = g]
            y == Append(popped, g)
<1>1. /\ cstack \in Seq(Frames) /\ Len(cstack) \in Nat \ {0} /\ popped \in Seq(Frames)
      /\ Len(popped) = Len(cstack) - 1 /\ cstack # <<>> /\ Stack(cstack)
  BY Current
<1>2. \A i \in 1..Len(cstack) - 1 : popped[i] = cstack[i]
  BY <1>1, StackTop DEF popped
<1>3. x \in Seq(Frames) /\ Len(x) = Len(cstack) /\ x[Len(cstack)] = g /\ \A i \in 1..Len(cstack) - 1 : x[i] = cstack[i]
  BY <1>1
<1>4. y \in Seq(Frames) /\ Len(y) = Len(popped) + 1 /\ y[Len(popped) + 1] = g /\ \A i \in 1..Len(popped) : y[i] = popped[i]
  BY <1>1, Appended
<1>. HIDE DEF x, y
<1>5. Len(y) = Len(cstack) /\ \A i \in 1..Len(cstack) : x[i] = y[i]
  <2>1. Len(y) = Len(cstack)
    BY <1>1, <1>4
  <2>2. ASSUME NEW i \in 1..Len(cstack) PROVE x[i] = y[i]
    <3>1. CASE i = Len(cstack)
      BY <1>1, <1>3, <1>4, <3>1
    <3>2. CASE i \in 1..Len(cstack) - 1
      BY <1>1, <1>2, <1>3, <1>4, <3>2
    <3>. QED BY <1>1, <3>1, <3>2
  <2>. QED BY <2>1, <2>2
<1>6. x = y
  BY <1>3, <1>4, <1>5, SeqEqual
<1>. QED BY <1>6 DEF x, y

\* A function returns: its CallInfo is the last.
LEMMA ReturnRecord ==
  ASSUME NEW a \in Seq(Infos), NEW x \in Infos, NEW l \in States, l.ci = Append(a, x), Len(l.ci) <= l.size_ci
  PROVE  LET m == [l EXCEPT !.ci = SubSeq(@, 1, Len(@) - 1)]
         IN  /\ m \in States /\ m.ci = a /\ Len(m.ci) <= m.size_ci
             /\ m.status = l.status /\ m.baseCcalls = l.baseCcalls /\ m.nCcalls = l.nCcalls
             /\ m.allowhook = l.allowhook /\ m.errorJmp = l.errorJmp /\ m.errfunc = l.errfunc
<1>. DEFINE m == [l EXCEPT !.ci = SubSeq(@, 1, Len(@) - 1)]
<1>1. SubSeq(l.ci, 1, Len(l.ci) - 1) = a
  BY DropLast
<1>2. m = [l EXCEPT !.ci = a]
  BY <1>1
<1>3. Len(a) \in Nat /\ Len(l.ci) = Len(a) + 1 /\ l.size_ci \in Nat
  BY DEF States
<1>. HIDE DEF m
<1>4. /\ m \in States /\ m.ci = a /\ m.size_ci = l.size_ci
      /\ m.status = l.status /\ m.baseCcalls = l.baseCcalls /\ m.nCcalls = l.nCcalls
      /\ m.allowhook = l.allowhook /\ m.errorJmp = l.errorJmp /\ m.errfunc = l.errfunc
  BY <1>2 DEF States
<1>5. Len(m.ci) <= m.size_ci
  BY <1>3, <1>4
<1>. QED BY <1>4, <1>5 DEF m

\* A C function returns and its CallInfo goes.
LEMMA PoscallStep ==
  ASSUME IInv, luaD_poscall
  PROVE  IInv'
<1>. DEFINE m == [me EXCEPT !.ci = SubSeq(@, 1, Len(@) - 1)]
            a == callinfos(popped, running)
<1>1. ctl = "run" /\ top.k = "cfun" /\ L' = [L EXCEPT ![running] = m] /\ cstack' = popped /\ ctl' = back(popped)
  BY DEF luaD_poscall, set, run
<1>2. /\ me \in States /\ top \in Frames /\ me.status = "0" /\ Len(me.ci) <= me.size_ci
      /\ me.nCcalls = Total(popped) + weight(top) /\ Total(popped) \in Nat
      /\ me.ci = a \o infos(top) /\ a \in Seq(Infos)
      /\ me.allowhook <=> hooksOn(popped, running)
      /\ me.errorJmp = greatest(protectedOf(popped, running)) /\ me.errfunc = handlerOf(popped, running)
  BY <1>1, PopFacts
<1>3. weight(top) = 0 /\ infos(top) = <<"C">> /\ "C" \in Infos
  BY <1>1, <1>2, InfosFacts DEF weight, Infos
<1>. HIDE DEF a
<1>4. me.ci = Append(a, "C")
  BY <1>2, <1>3
<1>5. /\ m \in States /\ m.ci = a /\ Len(m.ci) <= m.size_ci
      /\ m.status = me.status /\ m.baseCcalls = me.baseCcalls /\ m.nCcalls = me.nCcalls
      /\ m.allowhook = me.allowhook /\ m.errorJmp = me.errorJmp /\ m.errfunc = me.errfunc
  BY <1>2, <1>3, <1>4, ReturnRecord
<1>. HIDE DEF m
<1>6. /\ m.status = "0" /\ m.nCcalls = Total(popped) /\ m.ci = callinfos(popped, running)
      /\ m.allowhook <=> hooksOn(popped, running)
      /\ m.errorJmp = greatest(protectedOf(popped, running)) /\ m.errfunc = handlerOf(popped, running)
  BY <1>2, <1>3, <1>5 DEF a
<1>. QED BY <1>1, <1>5, <1>6, PopStep

\* A Lua function returns, within one luaV_execute or out of it.
LEMMA ReturnStep ==
  ASSUME IInv, OP_RETURN
  PROVE  IInv'
<1>. DEFINE m == [me EXCEPT !.ci = SubSeq(@, 1, Len(@) - 1)]
            a == callinfos(popped, running)
            n == top.n
<1>1. ctl = "run" /\ top.k = "execute" /\ L' = [L EXCEPT ![running] = m]
  BY DEF OP_RETURN, set, run
<1>2. /\ me \in States /\ top \in Frames /\ me.status = "0" /\ Len(me.ci) <= me.size_ci
      /\ me.nCcalls = Total(popped) + weight(top) /\ Total(popped) \in Nat
      /\ me.ci = a \o infos(top) /\ a \in Seq(Infos)
      /\ me.allowhook <=> hooksOn(popped, running)
      /\ me.errorJmp = greatest(protectedOf(popped, running)) /\ me.errfunc = handlerOf(popped, running)
  BY <1>1, PopFacts
<1>3. running \in Threads /\ top.th = running /\ Limits(L) /\ L \in [Threads -> States] /\ me = L[running]
  BY <1>1, Current
<1>4. /\ n \in Nat \ {0} /\ weight(top) = 0 /\ infos(top) = Luas(n) /\ n - 1 \in Nat /\ "Lua" \in Infos
      /\ [top EXCEPT !.n = n - 1] = Execute(running, n - 1)
  <2>1. n \in Nat \ {0} /\ [top EXCEPT !.n = n - 1] = Execute(running, n - 1)
    BY <1>1, <1>2, <1>3, FrameFacts
  <2>. QED BY <1>1, <1>2, <2>1, InfosFacts DEF weight, Luas, Infos
<1>. HIDE DEF a
<1>5. me.ci = Append(a \o Luas(n - 1), "Lua") /\ a \o Luas(n - 1) \in Seq(Infos)
  <2>1. Append(a \o Luas(n - 1), "Lua") = a \o Luas(n - 1 + 1) /\ n - 1 + 1 = n
    <3>1. n - 1 + 1 = n /\ n - 1 \in Nat
      BY <1>4
    <3>. HIDE DEF n
    <3>. QED BY <1>2, <3>1, AddLua
  <2>2. Luas(n - 1) \in Seq(Infos)
    BY <1>4, LuasFacts
  <2>3. a \o Luas(n - 1) \in Seq(Infos)
    BY <1>2, <2>2
  <2>. QED BY <1>2, <1>4, <2>1, <2>3
<1>6. /\ m \in States /\ m.ci = a \o Luas(n - 1) /\ Len(m.ci) <= m.size_ci
      /\ m.status = me.status /\ m.baseCcalls = me.baseCcalls /\ m.nCcalls = me.nCcalls
      /\ m.allowhook = me.allowhook /\ m.errorJmp = me.errorJmp /\ m.errfunc = me.errfunc
  BY <1>2, <1>4, <1>5, ReturnRecord, ZenonT(30)
<1>. HIDE DEF m
<1>7. CASE n = 1
  <2>1. cstack' = popped /\ ctl' = back(popped)
    BY <1>7 DEF OP_RETURN
  <2>2. a \o Luas(n - 1) = a
    BY <1>2, <1>3, <1>4, <1>7, ExecuteInfos
  <2>3. /\ m.status = "0" /\ m.nCcalls = Total(popped) /\ m.ci = callinfos(popped, running)
        /\ m.allowhook <=> hooksOn(popped, running)
        /\ m.errorJmp = greatest(protectedOf(popped, running)) /\ m.errfunc = handlerOf(popped, running)
    BY <1>2, <1>4, <1>6, <2>2 DEF a
  <2>. QED BY <1>1, <1>6, <2>1, <2>3, PopStep
<1>8. CASE n # 1
  <2>. DEFINE g == Execute(running, n - 1)
  <2>1. n - 1 \in Nat \ {0}
    BY <1>4, <1>8
  <2>2. g \in Frames /\ g.th = running /\ g.k = "execute" /\ weight(g) = 0
    BY <1>3, <2>1, NewFrames DEF Execute, weight
  <2>3. a \o infos(g) = a \o Luas(n - 1)
    <3>1. n - 1 \in Nat /\ n - 1 > 0
      BY <1>4, <1>8
    <3>. HIDE DEF n
    <3>. QED BY <1>2, <1>3, <3>1, ExecuteInfos
  <2>4. cstack' = [cstack EXCEPT ![Len(cstack)] = g] /\ ctl' = "run"
    <3>1. cstack' = [cstack EXCEPT ![Len(cstack)].n = @ - 1] /\ ctl' = ctl
      BY <1>8 DEF OP_RETURN
    <3>2. [cstack EXCEPT ![Len(cstack)].n = @ - 1] = [cstack EXCEPT ![Len(cstack)] = [top EXCEPT !.n = n - 1]]
      BY DEF top
    <3>. QED BY <1>1, <1>4, <3>1, <3>2
  <2>. HIDE DEF g
  <2>5. cstack' = Append(popped, g)
    BY <1>1, <2>2, <2>4, ExceptTop
  <2>6. /\ m.status = "0" /\ m.nCcalls = Total(popped) + weight(g) /\ m.ci = callinfos(popped, running) \o infos(g)
    BY <1>2, <1>4, <1>6, <2>2, <2>3 DEF a
  <2>7. Ready(L', cstack') /\ cstack' # <<>> /\ cstack'[Len(cstack')] = g
    BY <1>1, <1>6, <2>2, <2>5, <2>6, Swap
  <2>8. Control(L', cstack', ctl')
    BY <2>2, <2>4, <2>7 DEF Control, Codes
  <2>9. Limits(L')
    BY <1>1, <1>3, <1>6 DEF Limits
  <2>. QED BY <2>7, <2>8, <2>9, Arrive
<1>. QED BY <1>7, <1>8

(***************************************************************************)
(* Steps that leave the stack alone, or throw.                             *)
(***************************************************************************)
LEMMA RecordReady ==
  ASSUME NEW T, NEW cs, Ready(T, cs), NEW r \in Threads, NEW m \in States,
         Account(m, cs, r), m.status = "0" \/ framesOf(cs, r) = {}, m.baseCcalls = T[r].baseCcalls
  PROVE  Ready([T EXCEPT ![r] = m], cs)
<1>1. Alike(cs, cs, r)
  BY DEF Alike, SameOf
<1>2. Stack(cs)
  BY DEF Ready
<1>. QED BY <1>1, <1>2, ReadyChange

\* Steps that change only what the topmost C function is doing.
LEMMA ControlStep ==
  ASSUME IInv, ctl \in {"run", "precall", "errormsg"}, UNCHANGED <<L, cstack>>, Control(L, cstack, ctl')
  PROVE  IInv'
<1>1. Ready(L, cstack) /\ Limits(L)
  BY CurrentReady DEF IInv, Good
<1>2. Ready(L', cstack') /\ Limits(L') /\ Control(L', cstack', ctl')
  BY <1>1
<1>. QED BY <1>2, Arrive

\* Where an error can be raised.
LEMMA ErrormsgControl ==
  ASSUME IInv, ctl \in {"run", "precall"}
  PROVE  Control(L, cstack, "errormsg")
<1>1. cstack # <<>> /\ cstack[Len(cstack)].k \in Codes \cup {"call", "resume"}
  BY DEF IInv, Good, Control, Codes
<1>. QED BY <1>1 DEF Control

\* Raising an error leaves records and C stack as they are.
LEMMA ThrowStep ==
  ASSUME IInv, ctl \in {"run", "precall", "errormsg"} \/ (ctl = "returned" /\ top.k # "resume"),
         go(me, cstack, "throw")
  PROVE  IInv'
<1>1. ctl # "exit"
  OBVIOUS
<1>2. /\ cstack # <<>> /\ cstack[Len(cstack)].th = running /\ running \in Threads
      /\ L \in [Threads -> States] /\ me = L[running] /\ me.nCcalls < LIMIT /\ Limits(L) /\ me \in States
  BY <1>1, Current
<1>3. Ready(L, cstack)
  BY CurrentReady
<1>4. L = [L EXCEPT ![running] = me]
  BY <1>2
<1>5. me.nCcalls <= LIMIT
  <2>1. me.nCcalls \in Nat /\ LIMIT \in Nat
    BY <1>2, LimitFacts DEF States, LIMIT
  <2>. QED BY <1>2, <2>1
<1>. QED BY <1>2, <1>3, <1>4, <1>5, Go

\* The actions of that kind.
LEMMA PlainSteps ==
  ASSUME IInv, OP_CALL \/ tryfuncTM \/ luaG_runerror \/ luaM_realloc_fails \/ luaX_lexerror \/ luaG_errormsg_end
  PROVE  IInv'
<1>1. CASE OP_CALL
  <2>1. ctl = "run" /\ top.k = "execute" /\ ctl' = "precall" /\ UNCHANGED <<L, cstack>>
    BY <1>1 DEF OP_CALL, run
  <2>2. cstack # <<>>
    BY <2>1, Current
  <2>3. Control(L, cstack, "precall")
    BY <2>1, <2>2 DEF Control, top
  <2>. QED BY <2>1, <2>3, ControlStep
<1>2. CASE tryfuncTM \/ luaG_runerror
  <2>1. ctl \in {"run", "precall"} /\ ctl' = "errormsg" /\ UNCHANGED <<L, cstack>>
    BY <1>2 DEF tryfuncTM, luaG_runerror
  <2>. QED BY <2>1, ErrormsgControl, ControlStep
<1>3. CASE luaM_realloc_fails \/ luaX_lexerror \/ luaG_errormsg_end
  <2>1. go(me, cstack, "throw")
    BY <1>3 DEF luaM_realloc_fails, luaX_lexerror, luaG_errormsg_end
  <2>2. ctl \in {"run", "precall"} \/ (ctl = "returned" /\ top.k = "handler")
    BY <1>3 DEF luaM_realloc_fails, luaX_lexerror, luaG_errormsg_end, run
  <2>. QED BY <2>1, <2>2, ThrowStep
<1>. QED BY <1>1, <1>2, <1>3

(***************************************************************************)
(* CallInfo arrays.                                                        *)
(***************************************************************************)
LEMMA GrowFacts ==
  ASSUME NEW l \in States, Len(l.ci) <= l.size_ci
  PROVE  LET m == growCI(l)
         IN  /\ m \in States /\ m.ci = l.ci /\ Len(m.ci) <= m.size_ci
             /\ inc_ci(l) = "run" => Len(l.ci) + 1 <= m.size_ci
             /\ inc_ci(l) \in {"run", "throw", "errormsg"}
             /\ m.status = l.status /\ m.baseCcalls = l.baseCcalls /\ m.nCcalls = l.nCcalls
             /\ m.allowhook = l.allowhook /\ m.errorJmp = l.errorJmp /\ m.errfunc = l.errfunc
<1>1. l.size_ci \in Nat \ {0} /\ Len(l.ci) \in Nat
  BY DEF States
<1>2. CASE roomCI(l) \/ l.size_ci > LUAI_MAXCALLS
  <2>1. growCI(l) = l
    BY <1>2 DEF growCI
  <2>2. inc_ci(l) = "run" => Len(l.ci) < l.size_ci
    BY <1>2 DEF inc_ci, roomCI
  <2>3. inc_ci(l) \in {"run", "throw", "errormsg"}
    BY DEF inc_ci
  <2>4. Len(l.ci) < l.size_ci => Len(l.ci) + 1 <= l.size_ci
    BY <1>1
  <2>. QED BY <2>1, <2>2, <2>3, <2>4
<1>3. CASE ~(roomCI(l) \/ l.size_ci > LUAI_MAXCALLS)
  <2>1. growCI(l) = [l EXCEPT !.size_ci = 2 * l.size_ci]
    BY <1>3 DEF growCI
  <2>2. 2 * l.size_ci \in Nat \ {0} /\ Len(l.ci) + 1 <= 2 * l.size_ci /\ Len(l.ci) <= 2 * l.size_ci
    BY <1>1
  <2>3. inc_ci(l) \in {"run", "throw", "errormsg"}
    BY DEF inc_ci
  <2>. DEFINE m == growCI(l)
  <2>4. /\ m \in States /\ m.ci = l.ci /\ m.size_ci = 2 * l.size_ci
        /\ m.status = l.status /\ m.baseCcalls = l.baseCcalls /\ m.nCcalls = l.nCcalls
        /\ m.allowhook = l.allowhook /\ m.errorJmp = l.errorJmp /\ m.errfunc = l.errfunc
    BY <2>1, <2>2 DEF States
  <2>. HIDE DEF m
  <2>5. Len(m.ci) <= m.size_ci /\ Len(l.ci) + 1 <= m.size_ci
    BY <2>2, <2>4
  <2>. QED BY <2>3, <2>4, <2>5 DEF m
<1>. QED BY <1>2, <1>3

\* No CallInfo is taken in the end: a tail call, or a limit.
LEMMA GrowStep ==
  ASSUME IInv, ctl \in {"run", "precall"}, go(growCI(me), cstack, inc_ci(me)),
         inc_ci(me) = "run" => top.k \in Codes
  PROVE  IInv'
<1>. DEFINE m == growCI(me)
            T == [L EXCEPT ![running] = m]
<1>1. /\ cstack # <<>> /\ cstack[Len(cstack)] = top /\ top.th = running /\ running \in Threads
      /\ L \in [Threads -> States] /\ me = L[running] /\ me.nCcalls < LIMIT /\ Limits(L) /\ me \in States
      /\ Account(me, cstack, running)
  BY Current
<1>2. Ready(L, cstack) /\ me.status = "0" /\ Len(me.ci) <= me.size_ci
  BY CurrentReady
<1>3. /\ m \in States /\ m.ci = me.ci /\ Len(m.ci) <= m.size_ci
      /\ inc_ci(me) \in {"run", "throw", "errormsg"}
      /\ m.status = me.status /\ m.baseCcalls = me.baseCcalls /\ m.nCcalls = me.nCcalls
      /\ m.allowhook = me.allowhook /\ m.errorJmp = me.errorJmp /\ m.errfunc = me.errfunc
  BY <1>1, <1>2, GrowFacts
<1>4. go(m, cstack, inc_ci(me))
  OBVIOUS
<1>. HIDE DEF m
<1>5. Account(m, cstack, running)
  BY <1>1, <1>3 DEF Account
<1>6. Ready(T, cstack)
  <2>1. m \in States /\ m.status = "0" /\ m.baseCcalls = L[running].baseCcalls
    BY <1>1, <1>2, <1>3
  <2>2. running \in Threads /\ Ready(L, cstack)
    BY <1>1, <1>2
  <2>. HIDE DEF T
  <2>3. Ready([L EXCEPT ![running] = m], cstack)
    BY ONLY <1>5, <2>1, <2>2, RecordReady
  <2>. QED BY <2>3 DEF T
<1>7. m.nCcalls < LIMIT /\ m.nCcalls <= LIMIT
  <2>1. m.nCcalls \in Nat /\ LIMIT \in Nat
    BY <1>3, LimitFacts DEF States, LIMIT
  <2>. QED BY <1>1, <1>3, <2>1
<1>8. inc_ci(me) # "throw" => Control(T, cstack, inc_ci(me))
  <2>1. CASE inc_ci(me) = "run"
    BY <1>1, <2>1 DEF Control
  <2>2. CASE inc_ci(me) = "errormsg"
    <3>1. Control(L, cstack, "errormsg")
      BY ErrormsgControl
    <3>. QED BY <2>2, <3>1 DEF Control
  <2>. QED BY <1>3, <2>1, <2>2
<1>. DEFINE c == inc_ci(me)
<1>9. go(m, cstack, c) /\ (c # "throw" => m.nCcalls < LIMIT /\ Control(T, cstack, c)) /\ T = [L EXCEPT ![running] = m]
  BY <1>4, <1>7, <1>8
<1>10. cstack[Len(cstack)].th = running
  BY <1>1
<1>. HIDE DEF c, T
<1>. QED BY <1>1, <1>6, <1>7, <1>9, <1>10, Go

\* A tail call replaces the CallInfo of its caller.
LEMMA TailcallStep ==
  ASSUME IInv, OP_TAILCALL
  PROVE  IInv'
<1>1. ctl = "run" /\ top.k = "execute" /\ go(growCI(me), cstack, inc_ci(me))
  BY DEF OP_TAILCALL, run
<1>2. top.k \in Codes
  BY <1>1 DEF Codes
<1>. QED BY <1>1, <1>2, GrowStep

(***************************************************************************)
(* Calls.                                                                  *)
(***************************************************************************)

\* luaD_call, by a C function that may call, with the threads and the stack in
\* agreement: it stays within the limits or throws.
LEMMA CallStep ==
  ASSUME L \in [Threads -> States], Limits(L), running \in Threads,
         NEW l \in States, NEW cs, NEW T, T = [L EXCEPT ![running] = l],
         Ready(T, cs), cs # <<>>, cs[Len(cs)].th = running, cs[Len(cs)].k \in below["call"],
         l.status = "0", l.nCcalls < LIMIT, luaD_call(l, cs)
  PROVE  IInv'
<1>. DEFINE m == [l EXCEPT !.nCcalls = @ + 1]
            f == Frame("call", running)
            c == checkCcalls(l.nCcalls + 1)
            ds == Append(cs, f)
            U == [L EXCEPT ![running] = m]
<1>1. go(m, ds, c)
  BY DEF luaD_call
<1>2. l.nCcalls \in Nat /\ LIMIT \in Nat /\ LUAI_MAXCCALLS < LIMIT
  <2>1. l.nCcalls \in Nat
    BY DEF States
  <2>2. LIMIT \in Nat /\ LUAI_MAXCCALLS < LIMIT
    BY ONLY LimitFacts DEF LIMIT
  <2>. QED BY <2>1, <2>2
<1>3. /\ m \in States /\ m.nCcalls = l.nCcalls + 1 /\ m.status = l.status /\ m.ci = l.ci
      /\ m.size_ci = l.size_ci /\ m.baseCcalls = l.baseCcalls /\ m.allowhook = l.allowhook
      /\ m.errorJmp = l.errorJmp /\ m.errfunc = l.errfunc
  <2>1. l.nCcalls + 1 \in Nat /\ l \in States
    BY <1>2
  <2>. QED BY ONLY <2>1 DEF States, m
<1>4. f \in Frames /\ f.th = running /\ f.k = "call" /\ weight(f) = 1
  BY NewFrames DEF Frame, weight
<1>5. Saved(f, cs)
  BY <1>4 DEF Saved
<1>6. T[running] = l
  OBVIOUS
<1>. HIDE DEF m, f
<1>7. /\ Ready([T EXCEPT ![running] = m], ds) /\ ds # <<>> /\ ds[Len(ds)] = f
  <2>1. f.k \in {"call", "handler", "pcall", "gctm", "hook", "parser"} /\ cs[Len(cs)].k \in below[f.k]
    BY <1>4
  <2>2. Len(cs) = 1 => f.k = "call"
    BY <1>4
  <2>3. Noted(m, l, f, Len(cs))
    BY <1>3, <1>4 DEF Noted
  <2>4. running = cs[Len(cs)].th /\ l = T[running] /\ Ready(T, cs) /\ cs # <<>>
    BY <1>6
  <2>5. m \in States /\ f \in Frames /\ f.th = running
    BY <1>3, <1>4
  <2>6. /\ Ready([T EXCEPT ![running] = m], Append(cs, f)) /\ Append(cs, f) # <<>>
        /\ Append(cs, f)[Len(Append(cs, f))] = f
    BY ONLY <1>5, <2>1, <2>2, <2>3, <2>4, <2>5, Push
  <2>. QED BY <2>6 DEF ds
<1>8. [T EXCEPT ![running] = m] = U
  OBVIOUS
<1>9. Ready(U, ds)
  BY <1>7, <1>8
<1>10. m.nCcalls <= LIMIT /\ c \in {"errormsg", "throw", "precall"} /\ (c # "throw" => m.nCcalls < LIMIT)
  <2>1. l.nCcalls + 1 \in Nat /\ l.nCcalls + 1 <= LIMIT
    BY <1>2
  <2>2. c # "throw" => l.nCcalls + 1 < LIMIT
    BY <1>2, <2>1 DEF checkCcalls, LIMIT
  <2>. QED BY <1>3, <2>1, <2>2 DEF checkCcalls
<1>. HIDE DEF c, ds
<1>11. c # "throw" => Control(U, ds, c)
  <2>1. ds[Len(ds)].k = "call"
    BY <1>4, <1>7
  <2>. HIDE DEF U
  <2>. QED BY <1>7, <1>10, <2>1 DEF Control
<1>12. ds[Len(ds)].th = running
  BY <1>4, <1>7
<1>13. c # "throw" => m.nCcalls < LIMIT /\ Control(U, ds, c)
  BY <1>10, <1>11
<1>14. U = [L EXCEPT ![running] = m] /\ L \in [Threads -> States] /\ Limits(L) /\ running \in Threads
  OBVIOUS
<1>15. m.nCcalls <= LIMIT /\ ds # <<>>
  BY <1>7, <1>10
<1>. HIDE DEF U
<1>. QED BY ONLY <1>1, <1>9, <1>12, <1>13, <1>14, <1>15, Go

\* Metamethods, and calls from C functions, hooks and the parser's reader.
LEMMA PlainCallStep ==
  ASSUME IInv, callTM \/ lua_call
  PROVE  IInv'
<1>1. ctl = "run" /\ luaD_call(me, cstack)
  BY DEF callTM, lua_call, run
<1>2. top.k \in {"execute", "cfun", "hook", "parser"}
  BY DEF callTM, lua_call, run
<1>3. /\ cstack # <<>> /\ cstack[Len(cstack)] = top /\ cstack[Len(cstack)].th = running /\ running \in Threads
      /\ L \in [Threads -> States] /\ me = L[running] /\ me.nCcalls < LIMIT /\ Limits(L) /\ me \in States
  BY <1>1, Current
<1>4. Ready(L, cstack) /\ me.status = "0"
  BY <1>1, CurrentReady
<1>5. L = [L EXCEPT ![running] = me]
  BY <1>3
<1>6. cstack[Len(cstack)].k \in below["call"]
  BY <1>2, <1>3 DEF below, Codes, Kinds
<1>. QED BY <1>1, <1>3, <1>4, <1>5, <1>6, CallStep

\* Only a pcall is lowest on the stack.
LEMMA Deep ==
  ASSUME IInv, ctl # "exit", top.k # "pcall"
  PROVE  Len(cstack) # 1 /\ Len(cstack) > 1
<1>1. Stack(cstack) /\ Len(cstack) \in Nat \ {0}
  BY Current
<1>2. 1 \in 1..Len(cstack)
  BY <1>1
<1>3. cstack[1].k = "pcall"
  BY <1>1, <1>2, StackOrder
<1>4. Len(cstack) # 1
  BY <1>3 DEF top
<1>5. \A n \in Nat \ {0} : n # 1 => n > 1
  OBVIOUS
<1>. QED BY <1>1, <1>4, <1>5

\* luaD_pcall keeps what the stack says, and becomes the last buffer.
LEMMA PushPcall ==
  ASSUME IInv, ctl = "run", top.k = "cfun", NEW ef \in Handlers,
         NEW f, f = pcallFrame(ef), NEW m, m = protected(ef)
  PROVE  /\ Ready([L EXCEPT ![running] = m], Append(cstack, f))
         /\ Append(cstack, f) # <<>> /\ Append(cstack, f)[Len(Append(cstack, f))] = f
         /\ Len(Append(cstack, f)) = Len(cstack) + 1
         /\ f.k = "pcall" /\ f.th = running /\ m \in States /\ m.status = "0" /\ m.nCcalls = me.nCcalls
<1>1. /\ cstack # <<>> /\ cstack[Len(cstack)] = top /\ running = cstack[Len(cstack)].th /\ running \in Threads
      /\ me = L[running] /\ me.nCcalls < LIMIT /\ me \in States /\ me.nCcalls = Total(cstack)
      /\ Len(cstack) \in Nat \ {0}
  BY Current
<1>2. /\ Ready(L, cstack) /\ me.status = "0" /\ me.ci = callinfos(cstack, running)
      /\ me.allowhook <=> hooksOn(cstack, running)
      /\ me.errorJmp = greatest(protectedOf(cstack, running))
      /\ me.errfunc = handlerOf(cstack, running)
  BY CurrentReady
<1>3. Len(cstack) # 1
  BY Deep
<1>4. /\ me.nCcalls \in Nat /\ Len(me.ci) \in Nat /\ me.allowhook \in BOOLEAN /\ me.errfunc \in Handlers
      /\ me.errorJmp \in Nat
  BY <1>1 DEF States
<1>5. /\ f = [k |-> "pcall", th |-> running, ef |-> ef, nCcalls |-> me.nCcalls, ci |-> Len(me.ci),
              allowhook |-> me.allowhook, errfunc |-> me.errfunc, previous |-> me.errorJmp]
  BY DEF pcallFrame
<1>6. f \in Frames
  BY <1>1, <1>4, <1>5, NewFrames
<1>7. /\ f.k = "pcall" /\ f.th = running /\ f.ef = ef /\ f.nCcalls = me.nCcalls /\ f.ci = Len(me.ci)
      /\ f.allowhook = me.allowhook /\ f.errfunc = me.errfunc /\ f.previous = me.errorJmp
      /\ weight(f) = 0
  BY <1>5 DEF weight
<1>8. Saved(f, cstack)
  BY <1>1, <1>2, <1>7 DEF Saved, LIMIT
<1>9. /\ m \in States /\ m.status = me.status /\ m.ci = me.ci /\ m.size_ci = me.size_ci
      /\ m.baseCcalls = me.baseCcalls /\ m.nCcalls = me.nCcalls /\ m.allowhook = me.allowhook
      /\ m.errfunc = ef /\ m.errorJmp = Len(cstack) + 1
  <2>1. m = [me EXCEPT !.errfunc = ef, !.errorJmp = Len(cstack) + 1]
    BY DEF protected
  <2>2. Len(cstack) + 1 \in Nat
    BY <1>1
  <2>. QED BY ONLY <1>1, <2>1, <2>2, ef \in Handlers DEF States
<1>10. Noted(m, me, f, Len(cstack))
  <2>1. m.nCcalls = me.nCcalls + weight(f)
    BY <1>4, <1>7, <1>9
  <2>. QED BY <1>7, <1>9, <2>1 DEF Noted
<1>11. cstack[Len(cstack)].k \in below[f.k]
  BY <1>1, <1>7 DEF below, Kinds
<1>12. f.k \in {"call", "handler", "pcall", "gctm", "hook", "parser"} /\ (Len(cstack) = 1 => f.k = "call")
  BY <1>3, <1>7
<1>13. Ready(L, cstack) /\ cstack # <<>> /\ running = cstack[Len(cstack)].th /\ f.th = running /\ me = L[running] /\ m \in States
  BY <1>1, <1>2, <1>7, <1>9
<1>14. /\ Ready([L EXCEPT ![running] = m], Append(cstack, f))
       /\ Append(cstack, f) # <<>> /\ Append(cstack, f)[Len(Append(cstack, f))] = f
       /\ Len(Append(cstack, f)) = Len(cstack) + 1
  BY ONLY <1>6, <1>8, <1>10, <1>11, <1>12, <1>13, Push
<1>. QED BY <1>2, <1>7, <1>9, <1>14

\* lua_pcall saves what it will restore and becomes the last longjmp buffer.
LEMMA PcallStep ==
  ASSUME IInv, NEW ef \in Handlers, lua_pcall(ef)
  PROVE  IInv'
<1>. DEFINE f == pcallFrame(ef)
            m == protected(ef)
            cs == Append(cstack, f)
            T == [L EXCEPT ![running] = m]
<1>1. ctl = "run" /\ top.k = "cfun" /\ luaD_call(m, cs)
  BY DEF lua_pcall, run
<1>2. L \in [Threads -> States] /\ Limits(L) /\ running \in Threads /\ me.nCcalls < LIMIT
  BY <1>1, Current
<1>. HIDE DEF f, m
<1>3. /\ Ready(T, cs) /\ cs # <<>> /\ cs[Len(cs)] = f
      /\ f.k = "pcall" /\ f.th = running /\ m \in States /\ m.status = "0" /\ m.nCcalls = me.nCcalls
  BY <1>1, PushPcall DEF f, m
<1>. HIDE DEF cs
<1>4. cs[Len(cs)].th = running /\ cs[Len(cs)].k \in below["call"] /\ m.nCcalls < LIMIT
  BY <1>2, <1>3 DEF below, Kinds
<1>5. T = [L EXCEPT ![running] = m]
  OBVIOUS
<1>. HIDE DEF T
<1>. QED BY ONLY <1>1, <1>2, <1>3, <1>4, <1>5, CallStep

\* luaD_protectedparser does the same, and calls the parser.
LEMMA ParserStep ==
  ASSUME IInv, luaD_protectedparser
  PROVE  IInv'
<1>. DEFINE ef == me.errfunc
            f == pcallFrame(ef)
            m == protected(ef)
            cs == Append(cstack, f)
            T == [L EXCEPT ![running] = m]
            g == Parser(running, 0)
            ds == Append(cs, g)
<1>1. ctl = "run" /\ top.k = "cfun" /\ L' = T /\ cstack' = cstack \o <<f, g>> /\ ctl' = "run"
  BY DEF luaD_protectedparser, run, set
<1>2. /\ L \in [Threads -> States] /\ Limits(L) /\ running \in Threads /\ me.nCcalls < LIMIT /\ me \in States
      /\ cstack \in Seq(Frames)
  BY <1>1, Current
<1>3. ef \in Handlers
  BY <1>2 DEF States
<1>. HIDE DEF f, m, ef
<1>4. /\ Ready(T, cs) /\ cs # <<>> /\ cs[Len(cs)] = f /\ Len(cs) = Len(cstack) + 1
      /\ f.k = "pcall" /\ f.th = running /\ m \in States /\ m.status = "0" /\ m.nCcalls = me.nCcalls
  BY <1>1, <1>3, PushPcall DEF f, m
<1>5. g \in Frames /\ g.th = running /\ g.k = "parser" /\ g.lev = 0 /\ weight(g) = 0
  BY <1>2, NewFrames DEF Parser, weight
<1>. HIDE DEF g
<1>6. Saved(g, cs)
  BY <1>5 DEF Saved
<1>7. Noted(m, m, g, Len(cs))
  <2>1. m.nCcalls \in Nat
    BY <1>4 DEF States
  <2>2. m.nCcalls = m.nCcalls + weight(g)
    BY <1>5, <2>1
  <2>. QED BY <1>5, <2>2 DEF Noted
<1>8. Len(cs) = 1 => g.k = "call"
  <2>1. Len(cstack) \in Nat \ {0}
    BY <1>1, Current
  <2>. QED BY <1>4, <2>1
<1>9. cs[Len(cs)].k \in below[g.k] /\ running = cs[Len(cs)].th
      /\ g.k \in {"call", "handler", "pcall", "gctm", "hook", "parser"}
  BY <1>4, <1>5 DEF below, Kinds, Codes
<1>10. m = T[running]
  BY <1>2
<1>. HIDE DEF cs
<1>11. /\ Ready([T EXCEPT ![running] = m], ds) /\ ds # <<>> /\ ds[Len(ds)] = g
  <2>1. Ready(T, cs) /\ cs # <<>> /\ m \in States /\ g \in Frames /\ g.th = running
    BY <1>4, <1>5
  <2>. HIDE DEF T
  <2>2. /\ Ready([T EXCEPT ![running] = m], Append(cs, g)) /\ Append(cs, g) # <<>>
        /\ Append(cs, g)[Len(Append(cs, g))] = g
    BY ONLY <1>6, <1>7, <1>8, <1>9, <1>10, <2>1, Push
  <2>. QED BY <2>2
<1>12. [T EXCEPT ![running] = m] = T
  BY <1>2
<1>13. cstack' = ds
  <2>1. f \in Frames /\ g \in Frames
    <3>1. cs \in Seq(Frames)
      BY <1>4 DEF Ready, Stack
    <3>2. Len(cs) \in 1..Len(cs)
      BY <1>4, <3>1
    <3>. QED BY <1>4, <1>5, <3>1, <3>2
  <2>2. cstack \o <<f, g>> = Append(Append(cstack, f), g)
    BY <1>2, <2>1
  <2>. QED BY <1>1, <2>2 DEF cs
<1>14. Limits(T)
  BY <1>2, <1>4 DEF Limits, LIMIT
<1>. HIDE DEF ds
<1>15. Control(T, ds, "run")
  BY <1>5, <1>11 DEF Control, Codes
<1>. HIDE DEF T
<1>16. Ready(L', cstack') /\ Limits(L') /\ Control(L', cstack', ctl')
  BY <1>1, <1>11, <1>12, <1>13, <1>14, <1>15
<1>. QED BY <1>16, Arrive

\* The running thread pushes a frame that is no function call's.
LEMMA PushMine ==
  ASSUME IInv, ctl \in {"run", "errormsg"}, NEW f \in Frames, f.th = running,
         f.k \in {"call", "handler", "pcall", "gctm", "hook", "parser"},
         top.k # "pcall", top.k \in below[f.k], Saved(f, cstack),
         NEW m \in States, Noted(m, me, f, Len(cstack))
  PROVE  LET cs == Append(cstack, f)
         IN  /\ Ready([L EXCEPT ![running] = m], cs) /\ cs # <<>> /\ cs[Len(cs)] = f
             /\ m.status = "0"
<1>. DEFINE cs == Append(cstack, f)
<1>1. /\ cstack # <<>> /\ cstack[Len(cstack)] = top /\ running = cstack[Len(cstack)].th /\ me = L[running]
  BY Current
<1>2. Ready(L, cstack) /\ me.status = "0"
  BY CurrentReady
<1>3. Len(cstack) # 1
  BY Deep
<1>4. cstack[Len(cstack)].k \in below[f.k] /\ (Len(cstack) = 1 => f.k = "call")
  BY <1>1, <1>3
<1>5. /\ Ready([L EXCEPT ![running] = m], Append(cstack, f))
      /\ Append(cstack, f) # <<>> /\ Append(cstack, f)[Len(Append(cstack, f))] = f
  BY <1>1, <1>2, <1>4, Push
<1>6. m.status = "0"
  BY <1>2 DEF Noted
<1>. QED BY <1>5, <1>6

\* ... and calls from there.
LEMMA PushCall ==
  ASSUME IInv, ctl \in {"run", "errormsg"}, NEW f \in Frames, f.th = running, f.k \in {"handler", "gctm"},
         top.k # "pcall", top.k \in below[f.k], Saved(f, cstack),
         NEW m \in States, Noted(m, me, f, Len(cstack)), luaD_call(m, Append(cstack, f))
  PROVE  IInv'
<1>. DEFINE cs == Append(cstack, f)
            T == [L EXCEPT ![running] = m]
<1>1. /\ L \in [Threads -> States] /\ Limits(L) /\ running \in Threads /\ me.nCcalls < LIMIT /\ me \in States
  BY Current
<1>2. Ready(T, cs) /\ cs # <<>> /\ cs[Len(cs)] = f /\ m.status = "0"
  BY PushMine
<1>3. weight(f) = 0 /\ f.k \in below["call"]
  BY DEF weight, below, Kinds
<1>4. m.nCcalls < LIMIT
  <2>1. me.nCcalls \in Nat
    BY <1>1 DEF States
  <2>2. m.nCcalls = me.nCcalls + weight(f)
    BY DEF Noted
  <2>3. m.nCcalls = me.nCcalls
    BY <1>3, <2>1, <2>2
  <2>. QED BY <1>1, <2>3
<1>. HIDE DEF cs
<1>5. cs[Len(cs)].th = running /\ cs[Len(cs)].k \in below["call"]
  BY <1>2, <1>3
<1>6. T = [L EXCEPT ![running] = m] /\ luaD_call(m, cs) /\ m \in States
  BY DEF cs
<1>. HIDE DEF T
<1>. QED BY ONLY <1>1, <1>2, <1>4, <1>5, <1>6, CallStep

\* luaG_errormsg calls the message handler, or goes on to the error.
LEMMA ErrormsgStep ==
  ASSUME IInv, luaG_errormsg
  PROVE  IInv'
<1>1. ctl = "errormsg"
  BY DEF luaG_errormsg
<1>2. CASE me.errfunc = "function"
  <2>. DEFINE f == Frame("handler", running)
  <2>1. luaD_call(me, Append(cstack, f))
    BY <1>2 DEF luaG_errormsg
  <2>2. running \in Threads /\ me \in States /\ cstack # <<>> /\ top = cstack[Len(cstack)]
    BY <1>1, Current
  <2>3. f \in Frames /\ f.th = running /\ f.k = "handler" /\ weight(f) = 0
    BY <2>2, NewFrames DEF Frame, weight
  <2>. HIDE DEF f
  <2>4. Saved(f, cstack)
    BY <2>3 DEF Saved
  <2>5. top.k \in Codes \cup {"call", "resume"}
    BY <1>1, <2>2 DEF IInv, Good, Control
  <2>6. top.k # "pcall" /\ top.k \in below[f.k]
    BY <2>3, <2>5 DEF below, Kinds, Codes
  <2>7. Noted(me, me, f, Len(cstack))
    <3>1. me.nCcalls \in Nat
      BY <2>2 DEF States
    <3>2. me.nCcalls = me.nCcalls + weight(f)
      BY <2>3, <3>1
    <3>. QED BY <2>3, <3>2 DEF Noted
  <2>8. f.k \in {"handler", "gctm"} /\ ctl \in {"run", "errormsg"}
    BY <1>1, <2>3
  <2>. QED BY <2>1, <2>2, <2>3, <2>4, <2>6, <2>7, <2>8, PushCall
<1>3. CASE me.errfunc # "function"
  <2>1. go(me, cstack, "throw")
    BY <1>3 DEF luaG_errormsg
  <2>. QED BY <1>1, <2>1, ThrowStep
<1>. QED BY <1>2, <1>3

\* Hooks are switched off in the record, and a frame says so.
LEMMA HooksOff ==
  ASSUME NEW l \in States, NEW f \in Frames, f.k \in {"hook", "gctm"}, NEW n
  PROVE  LET m == [l EXCEPT !.allowhook = FALSE]
         IN  m \in States /\ Noted(m, l, f, n)
<1>. DEFINE m == [l EXCEPT !.allowhook = FALSE]
<1>1. /\ m \in States /\ m.status = l.status /\ m.ci = l.ci /\ m.size_ci = l.size_ci
      /\ m.baseCcalls = l.baseCcalls /\ m.nCcalls = l.nCcalls /\ m.allowhook = FALSE
      /\ m.errfunc = l.errfunc /\ m.errorJmp = l.errorJmp
  BY DEF States
<1>2. l.nCcalls \in Nat /\ weight(f) = 0
  BY DEF States, weight
<1>. HIDE DEF m
<1>3. m.nCcalls = l.nCcalls + weight(f)
  BY <1>1, <1>2
<1>4. Noted(m, l, f, n)
  BY <1>1, <1>3 DEF Noted
<1>. QED BY <1>1, <1>4 DEF m

\* GCTM turns hooks off and calls a finalizer.
LEMMA GctmStep ==
  ASSUME IInv, GCTM
  PROVE  IInv'
<1>. DEFINE f == [k |-> "gctm", th |-> running, allowhook |-> me.allowhook]
            m == [me EXCEPT !.allowhook = FALSE]
<1>1. ctl = "run" /\ luaD_call(m, Append(cstack, f))
  BY DEF GCTM
<1>2. running \in Threads /\ me \in States /\ cstack # <<>> /\ top = cstack[Len(cstack)]
  BY <1>1, Current
<1>3. me.allowhook <=> hooksOn(cstack, running)
  BY <1>1, CurrentReady
<1>4. f \in Frames /\ f.th = running /\ f.k = "gctm" /\ f.allowhook = me.allowhook
  <2>1. me.allowhook \in BOOLEAN
    BY <1>2 DEF States
  <2>. QED BY <1>2, <2>1, NewFrames
<1>. HIDE DEF f
<1>5. Saved(f, cstack)
  BY <1>3, <1>4 DEF Saved
<1>6. top.k \in Codes
  BY <1>1, <1>2 DEF IInv, Good, Control
<1>7. top.k # "pcall" /\ top.k \in below[f.k]
  BY <1>4, <1>6 DEF below, Kinds, Codes
<1>8. m \in States /\ Noted(m, me, f, Len(cstack))
  BY <1>2, <1>4, HooksOff
<1>9. f.k \in {"handler", "gctm"} /\ ctl \in {"run", "errormsg"}
  BY <1>1, <1>4
<1>. HIDE DEF m
<1>. QED BY <1>1, <1>4, <1>5, <1>7, <1>8, <1>9, PushCall

\* luaD_callhook turns hooks off and calls the hook.
LEMMA HookStep ==
  ASSUME IInv, luaD_callhook
  PROVE  IInv'
<1>. DEFINE f == Frame("hook", running)
            m == [me EXCEPT !.allowhook = FALSE]
            T == [L EXCEPT ![running] = m]
            cs == Append(cstack, f)
<1>1. ctl = "run" /\ top.k = "execute" /\ me.allowhook /\ L' = T /\ cstack' = cs /\ ctl' = "run"
  BY DEF luaD_callhook, run, set
<1>2. /\ running \in Threads /\ me \in States /\ L \in [Threads -> States] /\ Limits(L) /\ me.nCcalls < LIMIT
  BY <1>1, Current
<1>3. hooksOn(cstack, running)
  BY <1>1, CurrentReady
<1>4. f \in Frames /\ f.th = running /\ f.k = "hook"
  BY <1>2, NewFrames DEF Frame
<1>. HIDE DEF f
<1>5. Saved(f, cstack)
  BY <1>3, <1>4 DEF Saved
<1>6. top.k # "pcall" /\ top.k \in below[f.k]
  BY <1>1, <1>4 DEF below, Kinds, Codes
<1>7. m \in States /\ Noted(m, me, f, Len(cstack))
  BY <1>2, <1>4, HooksOff
<1>8. m.nCcalls = me.nCcalls
  OBVIOUS
<1>9. f.k \in {"call", "handler", "pcall", "gctm", "hook", "parser"} /\ ctl \in {"run", "errormsg"}
  BY <1>1, <1>4
<1>. HIDE DEF m
<1>10. Ready(T, cs) /\ cs # <<>> /\ cs[Len(cs)] = f
  BY <1>4, <1>5, <1>6, <1>7, <1>9, PushMine
<1>11. Limits(T)
  BY <1>2, <1>8 DEF Limits, LIMIT
<1>. HIDE DEF T, cs
<1>12. Control(T, cs, "run")
  BY <1>4, <1>10 DEF Control, Codes
<1>13. Ready(L', cstack') /\ Limits(L') /\ Control(L', cstack', ctl')
  BY <1>1, <1>10, <1>11, <1>12
<1>. QED BY <1>13, Arrive

(***************************************************************************)
(* The parser's levels.                                                    *)
(***************************************************************************)
LEMMA LevelRecord ==
  ASSUME IInv, ctl = "run", top.k = "parser", NEW v \in Nat, NEW x, x = me.nCcalls + (v - top.lev), x \in Nat
  PROVE  LET m == [me EXCEPT !.nCcalls = x]
             cs == [cstack EXCEPT ![Len(cstack)] = [top EXCEPT !.lev = v]]
         IN  /\ Ready([L EXCEPT ![running] = m], cs) /\ cs # <<>>
             /\ cs[Len(cs)].th = running /\ cs[Len(cs)].k = "parser"
             /\ m \in States /\ m.nCcalls = x
<1>. DEFINE m == [me EXCEPT !.nCcalls = x]
            g == Parser(running, v)
            cs == Append(popped, g)
<1>1. running \in Threads /\ top.th = running /\ top \in Frames
  BY Current
<1>2. /\ me \in States /\ me.status = "0" /\ Len(me.ci) <= me.size_ci
      /\ me.nCcalls = Total(popped) + weight(top) /\ Total(popped) \in Nat
      /\ me.ci = callinfos(popped, running) \o infos(top) /\ callinfos(popped, running) \in Seq(Infos)
      /\ infos(top) = <<>> => me.ci = callinfos(popped, running)
  BY PopFacts
<1>3. top.lev \in Nat /\ weight(top) = top.lev /\ [top EXCEPT !.lev = v] = g /\ infos(top) = <<>>
  BY <1>1, FrameFacts, InfosFacts DEF weight
<1>4. g \in Frames /\ g.th = running /\ g.k = "parser" /\ weight(g) = v
  BY <1>1, NewFrames DEF Parser, weight
<1>. HIDE DEF g
<1>5. infos(g) = <<>>
  BY <1>4, InfosFacts
<1>6. x = Total(popped) + weight(g)
  BY <1>2, <1>3, <1>4
<1>7. /\ m \in States /\ m.nCcalls = x /\ m.status = me.status /\ m.ci = me.ci /\ m.size_ci = me.size_ci
      /\ m.baseCcalls = me.baseCcalls /\ m.allowhook = me.allowhook
      /\ m.errorJmp = me.errorJmp /\ m.errfunc = me.errfunc
  <2>1. x \in Nat /\ me \in States
    BY <1>2
  <2>. QED BY ONLY <2>1 DEF States, m
<1>. HIDE DEF m
<1>8. m.ci = callinfos(popped, running) \o infos(g)
  BY <1>2, <1>3, <1>5, <1>7
<1>9. Ready([L EXCEPT ![running] = m], cs) /\ cs # <<>> /\ cs[Len(cs)] = g
  <2>1. /\ g \in Frames /\ g.th = running /\ g.k = top.k /\ top.k \in {"execute", "parser"}
        /\ m \in States /\ m.status = "0" /\ m.baseCcalls = me.baseCcalls
        /\ m.nCcalls = Total(popped) + weight(g) /\ Len(m.ci) <= m.size_ci /\ m.allowhook = me.allowhook
        /\ m.errorJmp = me.errorJmp /\ m.errfunc = me.errfunc
    BY <1>2, <1>4, <1>6, <1>7
  <2>. QED BY <1>8, <2>1, Swap
<1>10. [cstack EXCEPT ![Len(cstack)] = [top EXCEPT !.lev = v]] = cs
  BY <1>3, <1>4, ExceptTop
<1>. QED BY <1>4, <1>7, <1>9, <1>10 DEF m

\* The parser counts its levels of nesting as C calls.
LEMMA LevelSteps ==
  ASSUME IInv, enterlevel \/ leavelevel
  PROVE  IInv'
<1>1. ctl = "run" /\ top.k = "parser"
  BY DEF enterlevel, leavelevel, run
<1>2. /\ running \in Threads /\ me \in States /\ L \in [Threads -> States] /\ Limits(L) /\ me.nCcalls < LIMIT
      /\ top \in Frames
  BY <1>1, Current
<1>3. top.lev \in Nat /\ me.nCcalls \in Nat /\ LIMIT \in Nat /\ LUAI_MAXCCALLS \in Nat /\ LUAI_MAXCCALLS < LIMIT
  <2>1. top.lev \in Nat
    BY <1>1, <1>2, FrameFacts
  <2>2. me.nCcalls \in Nat
    BY <1>2 DEF States
  <2>3. LIMIT \in Nat /\ LUAI_MAXCCALLS \in Nat /\ LUAI_MAXCCALLS < LIMIT
    BY ONLY LimitFacts DEF LIMIT
  <2>. QED BY <2>1, <2>2, <2>3
<1>4. CASE enterlevel
  <2>. DEFINE x == me.nCcalls + 1
              v == top.lev + 1
              m == [me EXCEPT !.nCcalls = x]
              cs == [cstack EXCEPT ![Len(cstack)] = [top EXCEPT !.lev = v]]
              T == [L EXCEPT ![running] = m]
              c == IF me.nCcalls + 1 > LUAI_MAXCCALLS THEN "throw" ELSE "run"
  <2>1. go(m, cs, c)
    <3>1. [cstack EXCEPT ![Len(cstack)].lev = @ + 1] = cs
      BY DEF top
    <3>2. [me EXCEPT !.nCcalls = @ + 1] = m
      OBVIOUS
    <3>. QED BY <1>4, <3>1, <3>2 DEF enterlevel
  <2>2. v \in Nat /\ x = me.nCcalls + (v - top.lev) /\ x \in Nat
    BY <1>3
  <2>3. x <= LIMIT /\ (c # "throw" => x < LIMIT)
    BY <1>2, <1>3
  <2>. HIDE DEF x, v
  <2>4. /\ Ready(T, cs) /\ cs # <<>> /\ cs[Len(cs)].th = running /\ cs[Len(cs)].k = "parser"
        /\ m \in States /\ m.nCcalls = x
    BY <1>1, <2>2, LevelRecord
  <2>5. c \in {"throw", "run"}
    OBVIOUS
  <2>6. T = [L EXCEPT ![running] = m]
    OBVIOUS
  <2>. HIDE DEF m, cs, T, c
  <2>7. c # "throw" => Control(T, cs, c)
    BY <2>4, <2>5 DEF Control, Codes
  <2>8. m.nCcalls <= LIMIT /\ (c # "throw" => m.nCcalls < LIMIT /\ Control(T, cs, c))
    BY <2>3, <2>4, <2>7
  <2>. QED BY ONLY <1>2, <2>1, <2>4, <2>6, <2>8, Go
<1>5. CASE leavelevel
  <2>. DEFINE x == me.nCcalls - 1
              v == top.lev - 1
              m == [me EXCEPT !.nCcalls = x]
              cs == [cstack EXCEPT ![Len(cstack)] = [top EXCEPT !.lev = v]]
              T == [L EXCEPT ![running] = m]
  <2>1. L' = T /\ cstack' = cs /\ ctl' = "run" /\ top.lev > 0
    <3>1. [cstack EXCEPT ![Len(cstack)].lev = @ - 1] = cs
      BY DEF top
    <3>2. [me EXCEPT !.nCcalls = @ - 1] = m
      OBVIOUS
    <3>. QED BY <1>1, <1>5, <3>1, <3>2 DEF leavelevel, set
  <2>2. v \in Nat /\ x = me.nCcalls + (v - top.lev) /\ x \in Nat /\ x < LIMIT
    <3>1. me.nCcalls = Total(popped) + weight(top) /\ Total(popped) \in Nat
      BY <1>1, PopFacts
    <3>2. weight(top) = top.lev
      BY <1>1 DEF weight
    <3>3. me.nCcalls >= top.lev /\ top.lev >= 1
      BY <1>3, <2>1, <3>1, <3>2
    <3>4. v \in Nat /\ x \in Nat /\ x < LIMIT
      BY <1>2, <1>3, <3>3
    <3>5. x = me.nCcalls + (v - top.lev)
      BY <1>3
    <3>. QED BY <3>4, <3>5
  <2>. HIDE DEF x, v
  <2>4. /\ Ready(T, cs) /\ cs # <<>> /\ cs[Len(cs)].th = running /\ cs[Len(cs)].k = "parser"
        /\ m \in States /\ m.nCcalls = x
    BY <1>1, <2>2, LevelRecord
  <2>5. Limits(T)
    BY <1>2, <2>2, <2>4 DEF Limits, LIMIT
  <2>. HIDE DEF m, cs, T
  <2>6. Control(T, cs, "run")
    BY <2>4 DEF Control, Codes
  <2>7. Ready(L', cstack') /\ Limits(L') /\ Control(L', cstack', ctl')
    BY <2>1, <2>4, <2>5, <2>6
  <2>. QED BY <2>7, Arrive
<1>. QED BY <1>4, <1>5

(***************************************************************************)
(* luaD_precall.                                                           *)
(***************************************************************************)

\* The record with one CallInfo more.
enteredRecord(l, f) == [growCI(l) EXCEPT !.ci = Append(@, f), !.top = "none"]

\* inc_ci with room gives the thread one more CallInfo, in an array large enough.
LEMMA EnterRecord ==
  ASSUME NEW l \in States, Len(l.ci) <= l.size_ci, inc_ci(l) = "run", NEW f \in {"Lua", "C"},
         NEW m, m = enteredRecord(l, f)
  PROVE  /\ m \in States /\ m.ci = Append(l.ci, f) /\ Len(m.ci) <= m.size_ci
         /\ m.status = l.status /\ m.baseCcalls = l.baseCcalls /\ m.nCcalls = l.nCcalls
         /\ m.allowhook = l.allowhook /\ m.errorJmp = l.errorJmp /\ m.errfunc = l.errfunc
<1>. DEFINE g == growCI(l)
<1>1. /\ g \in States /\ g.ci = l.ci /\ Len(l.ci) + 1 <= g.size_ci
      /\ g.status = l.status /\ g.baseCcalls = l.baseCcalls /\ g.nCcalls = l.nCcalls
      /\ g.allowhook = l.allowhook /\ g.errorJmp = l.errorJmp /\ g.errfunc = l.errfunc
  BY GrowFacts
<1>. HIDE DEF g
<1>2. l.ci \in Seq(Infos) /\ f \in Infos
  BY DEF States, Infos
<1>3. Append(l.ci, f) \in Seq(Infos) /\ Len(Append(l.ci, f)) = Len(l.ci) + 1
  BY <1>2
<1>4. m = [g EXCEPT !.ci = Append(l.ci, f), !.top = "none"]
  BY <1>1 DEF g, enteredRecord
<1>5. /\ m \in States /\ m.ci = Append(l.ci, f) /\ m.size_ci = g.size_ci
      /\ m.status = g.status /\ m.baseCcalls = g.baseCcalls /\ m.nCcalls = g.nCcalls
      /\ m.allowhook = g.allowhook /\ m.errorJmp = g.errorJmp /\ m.errfunc = g.errfunc
  BY ONLY <1>1, <1>3, <1>4 DEF States
<1>6. Len(m.ci) <= m.size_ci
  BY <1>1, <1>3, <1>5
<1>. QED BY <1>1, <1>5, <1>6

\* A function that is entered has a frame of its own, or is counted by the
\* luaV_execute that calls it.
LEMMA Entered ==
  ASSUME IInv, ctl = "precall", NEW f \in {"Lua", "C"}, f \in callees,
         NEW m \in States, m.ci = Append(me.ci, f), Len(m.ci) <= m.size_ci,
         m.status = me.status, m.baseCcalls = me.baseCcalls, m.nCcalls = me.nCcalls,
         m.allowhook = me.allowhook, m.errorJmp = me.errorJmp, m.errfunc = me.errfunc
  PROVE  LET cs == entered(f)
         IN  Ready([L EXCEPT ![running] = m], cs) /\ cs # <<>> /\ cs[Len(cs)].k \in Codes
<1>1. /\ cstack # <<>> /\ cstack[Len(cstack)] = top /\ running = cstack[Len(cstack)].th /\ running \in Threads
      /\ me = L[running] /\ me \in States /\ top.th = running /\ top \in Frames /\ Stack(cstack)
      /\ Len(cstack) \in Nat \ {0}
  BY Current
<1>2. Ready(L, cstack) /\ me.status = "0" /\ Len(me.ci) <= me.size_ci
  BY CurrentReady
<1>3. top.k \in {"execute", "call", "resume"} /\ (top.k = "resume" => me.top = "function")
  BY <1>1 DEF IInv, Good, Control
<1>4. Len(cstack) # 1
  BY <1>3, Deep
<1>5. me.ci \in Seq(Infos) /\ me.nCcalls \in Nat
  BY <1>1 DEF States
<1>6. ASSUME NEW g \in Frames, g.th = running, g.k \in {"cfun", "execute"}, top.k \in below[g.k],
             m.ci = me.ci \o infos(g)
      PROVE  LET cs == Append(cstack, g)
             IN  Ready([L EXCEPT ![running] = m], cs) /\ cs # <<>> /\ cs[Len(cs)].k \in Codes
  <2>1. weight(g) = 0 /\ g.k # "resume" /\ g.k # "pcall" /\ g.k \notin {"hook", "gctm"} /\ g.k \in Codes
    BY <1>6 DEF weight, Codes
  <2>2. Saved(g, cstack)
    BY <1>6 DEF Saved
  <2>3. m.nCcalls = me.nCcalls + weight(g)
    BY <1>5, <2>1
  <2>4. Pushed(m, me, g, Len(cstack))
    BY <1>6, <2>1, <2>3 DEF Pushed
  <2>5. cstack[Len(cstack)].k \in below[g.k] /\ (Len(cstack) = 1 => g.k = "call")
    BY <1>1, <1>4, <1>6
  <2>6. g.k # "resume" /\ g \in Frames /\ g.th = running
    BY <1>6, <2>1
  <2>7. Ready([L EXCEPT ![running] = m], Append(cstack, g)) /\ Append(cstack, g) # <<>>
        /\ Append(cstack, g)[Len(Append(cstack, g))] = g
    BY <1>1, <1>2, <2>2, <2>4, <2>5, <2>6, PushAny
  <2>. QED BY <2>1, <2>7
<1>7. CASE f = "C"
  <2>. DEFINE g == Frame("cfun", running)
  <2>1. g \in Frames /\ g.th = running /\ g.k = "cfun"
    BY <1>1, NewFrames DEF Frame
  <2>2. m.ci = me.ci \o infos(g)
    BY <1>1, <1>5, <1>7, ExecuteInfos
  <2>3. top.k # "resume"
    <3>1. CASE Len(cstack) = 2
      <4>1. 2 \in 1..Len(cstack)
        BY <3>1
      <4>2. cstack[2].k = "call"
        BY <1>1, <4>1, StackOrder
      <4>. QED BY <1>1, <3>1, <4>2
    <3>2. CASE Len(cstack) # 2
      BY <1>3, <1>7, <3>2 DEF callees
    <3>. QED BY <3>1, <3>2
  <2>4. top.k \in below[g.k]
    BY <1>3, <2>1, <2>3 DEF below, Kinds, Codes
  <2>5. entered(f) = Append(cstack, g)
    BY <1>7 DEF entered
  <2>. HIDE DEF g
  <2>. QED BY <1>6, <2>1, <2>2, <2>4, <2>5
<1>8. CASE f = "Lua" /\ top.k # "execute"
  <2>. DEFINE g == Execute(running, 1)
  <2>1. g \in Frames /\ g.th = running /\ g.k = "execute"
    BY <1>1, NewFrames DEF Execute
  <2>2. m.ci = me.ci \o infos(g)
    <3>1. 0 \in Nat /\ 0 + 1 = 1
      OBVIOUS
    <3>2. me.ci \o infos(Execute(running, 0 + 1)) = Append(me.ci \o Luas(0), "Lua") /\ me.ci \o Luas(0) = me.ci
      BY <1>1, <1>5, <3>1, ExecuteInfos
    <3>. QED BY <1>8, <3>1, <3>2
  <2>4. top.k \in below[g.k]
    BY <1>3, <1>8, <2>1 DEF below, Kinds, Codes
  <2>5. entered(f) = Append(cstack, g)
    BY <1>8 DEF entered
  <2>. HIDE DEF g
  <2>. QED BY <1>6, <2>1, <2>2, <2>4, <2>5
<1>9. CASE f = "Lua" /\ top.k = "execute"
  <2>. DEFINE n == top.n
              a == callinfos(popped, running)
              g == Execute(running, n + 1)
  <2>1. n \in Nat \ {0} /\ [top EXCEPT !.n = n + 1] = g
    <3>1. n \in Nat \ {0} /\ \A i : [top EXCEPT !.n = i] = Execute(top.th, i)
      BY <1>1, <1>9, FrameFacts
    <3>2. [top EXCEPT !.n = n + 1] = Execute(top.th, n + 1)
      BY <3>1
    <3>. QED BY <1>1, <3>1, <3>2
  <2>2. infos(top) = Luas(n) /\ weight(top) = 0
    BY <1>1, <1>9, InfosFacts DEF Luas, weight
  <2>3. /\ callinfos(cstack, running) = a \o infos(top) /\ a \in Seq(Infos)
        /\ Total(cstack) = Total(popped) + weight(top) /\ Total(popped) \in Nat
    BY Below
  <2>4. me.ci = a \o Luas(n) /\ me.nCcalls = Total(popped)
    <3>1. me.ci = callinfos(cstack, running) /\ me.nCcalls = Total(cstack)
      BY Current, CurrentReady
    <3>. QED BY <2>2, <2>3, <3>1
  <2>5. g \in Frames /\ g.th = running /\ g.k = top.k /\ weight(g) = 0
    BY <1>1, <1>9, <2>1, NewFrames DEF Execute, weight
  <2>6. m.ci = a \o infos(g)
    <3>1. a \o infos(g) = Append(a \o Luas(n), "Lua")
      <4>1. n \in Nat
        BY <2>1
      <4>. HIDE DEF n, a
      <4>2. running \in Threads
        BY <1>1
      <4>. QED BY ONLY <2>3, <4>1, <4>2, ExecuteInfos
    <3>. QED BY <1>9, <2>4, <3>1
  <2>7. entered(f) = [cstack EXCEPT ![Len(cstack)] = g]
    <3>1. entered(f) = [cstack EXCEPT ![Len(cstack)].n = @ + 1]
      BY <1>9 DEF entered
    <3>2. [cstack EXCEPT ![Len(cstack)].n = @ + 1] = [cstack EXCEPT ![Len(cstack)] = [top EXCEPT !.n = n + 1]]
      BY DEF top
    <3>. QED BY <2>1, <3>1, <3>2
  <2>8. m.nCcalls = Total(popped) + weight(g) /\ m.status = "0"
    BY <1>2, <2>3, <2>4, <2>5
  <2>. HIDE DEF g
  <2>9. entered(f) = Append(popped, g)
    BY <2>5, <2>7, ExceptTop
  <2>10. Ready([L EXCEPT ![running] = m], Append(popped, g)) /\ Append(popped, g) # <<>>
         /\ Append(popped, g)[Len(Append(popped, g))] = g
    <3>1. ctl \in {"run", "precall"} /\ top.k \in {"execute", "parser"}
      BY <1>9
    <3>. QED BY <2>5, <2>6, <2>8, <3>1, Swap
  <2>. QED BY <1>9, <2>5, <2>9, <2>10 DEF Codes
<1>. QED BY <1>7, <1>8, <1>9

\* luaD_precall enters a Lua or a C function.
LEMMA PrecallStep ==
  ASSUME IInv, NEW f \in {"Lua", "C"}, luaD_precall(f)
  PROVE  IInv'
<1>1. ctl = "precall" /\ f \in callees
  BY DEF luaD_precall
<1>2. CASE inc_ci(me) # "run"
  <2>1. go(growCI(me), cstack, inc_ci(me))
    BY <1>2 DEF luaD_precall
  <2>. QED BY <1>1, <1>2, <2>1, GrowStep
<1>3. CASE inc_ci(me) = "run"
  <2>. DEFINE m == [growCI(me) EXCEPT !.ci = Append(@, f), !.top = "none"]
              T == [L EXCEPT ![running] = m]
              cs == entered(f)
  <2>1. L' = T /\ cstack' = cs /\ ctl' = "run"
    BY <1>3 DEF luaD_precall, go, set
  <2>2. /\ running \in Threads /\ me \in States /\ L \in [Threads -> States] /\ Limits(L) /\ me.nCcalls < LIMIT
    BY <1>1, Current
  <2>3. Len(me.ci) <= me.size_ci
    BY <1>1, CurrentReady
  <2>4. /\ m \in States /\ m.ci = Append(me.ci, f) /\ Len(m.ci) <= m.size_ci
        /\ m.status = me.status /\ m.baseCcalls = me.baseCcalls /\ m.nCcalls = me.nCcalls
        /\ m.allowhook = me.allowhook /\ m.errorJmp = me.errorJmp /\ m.errfunc = me.errfunc
    <3>1. me \in States /\ inc_ci(me) = "run" /\ f \in {"Lua", "C"}
      BY <1>3, <2>2
    <3>2. m = enteredRecord(me, f)
      BY DEF enteredRecord
    <3>. HIDE DEF m
    <3>. QED BY ONLY <2>3, <3>1, <3>2, EnterRecord
  <2>. HIDE DEF m
  <2>5. Ready(T, cs) /\ cs # <<>> /\ cs[Len(cs)].k \in Codes
    BY <1>1, <2>4, Entered
  <2>6. Limits(T)
    BY <2>2, <2>4 DEF Limits, LIMIT
  <2>. HIDE DEF T, cs
  <2>7. Control(T, cs, "run")
    BY <2>5 DEF Control, Codes
  <2>8. Ready(L', cstack') /\ Limits(L') /\ Control(L', cstack', ctl')
    BY <2>1, <2>5, <2>6, <2>7
  <2>. QED BY <2>8, Arrive
<1>. QED BY <1>2, <1>3

(***************************************************************************)
(* The record of one thread changes, and nothing else.                     *)
(***************************************************************************)
LEMMA RecordStep ==
  ASSUME IInv, ctl = "run", NEW t \in Threads, NEW m \in States, Account(m, cstack, t),
         m.status = "0" \/ framesOf(cstack, t) = {}, m.baseCcalls = L[t].baseCcalls, m.nCcalls < LIMIT,
         L' = [L EXCEPT ![t] = m], cstack' = cstack, ctl' = "run"
  PROVE  IInv'
<1>1. L \in [Threads -> States] /\ Limits(L)
  BY Current
<1>2. Ready(L, cstack)
  BY CurrentReady
<1>3. Ready(L', cstack')
  BY <1>2, RecordReady
<1>4. Limits(L')
  BY <1>1 DEF Limits, LIMIT
<1>5. Control(L', cstack', ctl')
  BY DEF IInv, Good, Control
<1>. QED BY <1>3, <1>4, <1>5, Arrive

\* A thread's own facts, while something runs.
LEMMA ThreadFacts ==
  ASSUME IInv, ctl = "run", NEW t \in Threads
  PROVE  /\ L[t] \in States /\ Account(L[t], cstack, t) /\ L[t].nCcalls < LIMIT
         /\ L[t].status = "0" \/ framesOf(cstack, t) = {}
         /\ L[t].size_ci \in Nat \ {0} /\ Len(L[t].ci) \in Nat /\ Len(L[t].ci) <= L[t].size_ci
<1>1. L \in [Threads -> States] /\ Limits(L)
  BY Current
<1>2. Ready(L, cstack)
  BY CurrentReady
<1>3. L[t] \in States /\ Account(L[t], cstack, t) /\ L[t].nCcalls < LIMIT
  BY <1>1, <1>2 DEF Ready, Accounts, Limits, LIMIT
<1>4. L[t].status = "0" \/ framesOf(cstack, t) = {}
  BY <1>2 DEF Ready
<1>. QED BY <1>3, <1>4 DEF States, Account

\* A halved array still has a place for every CallInfo in use.
LEMMA Halved ==
  ASSUME NEW s \in Nat, NEW n \in Nat, NEW b \in Nat \ {0}, 4 * (n - 1) < s, 2 * b < s
  PROVE  s \div 2 \in Nat \ {0} /\ n <= s \div 2
<1>. DEFINE q == s \div 2
<1>1. q \in Nat /\ 2 * q <= s /\ s <= 2 * q + 1
  OBVIOUS
<1>2. s >= 3
  OBVIOUS
<1>. HIDE DEF q
<1>3. q >= 1
  BY <1>1, <1>2
<1>4. n <= q
  BY <1>1, <1>3
<1>. QED BY <1>1, <1>3, <1>4 DEF q

\* checkstacksizes shrinks the CallInfo array of any thread, never below what it holds.
LEMMA ShrinkStep ==
  ASSUME IInv, NEW t \in Threads, checkstacksizes(t)
  PROVE  IInv'
<1>. DEFINE s == L[t].size_ci
            m == [L[t] EXCEPT !.size_ci = s \div 2]
<1>1. /\ ctl = "run" /\ ctl' = "run" /\ cstack' = cstack
      /\ 4 * (Len(L[t].ci) - 1) < s /\ 2 * BASIC_CI_SIZE < s
      /\ L' = [L EXCEPT ![t] = m]
  BY DEF checkstacksizes
<1>2. /\ L[t] \in States /\ Account(L[t], cstack, t) /\ L[t].nCcalls < LIMIT
      /\ L[t].status = "0" \/ framesOf(cstack, t) = {}
      /\ s \in Nat \ {0} /\ Len(L[t].ci) \in Nat
  BY <1>1, ThreadFacts
<1>3. s \div 2 \in Nat \ {0} /\ Len(L[t].ci) <= s \div 2
  <2>1. BASIC_CI_SIZE \in Nat \ {0} /\ s \in Nat
    BY <1>2, LimitFacts
  <2>. HIDE DEF s
  <2>. QED BY <1>1, <1>2, <2>1, Halved
<1>. HIDE DEF s
<1>4. /\ m \in States /\ m.size_ci = s \div 2 /\ m.status = L[t].status /\ m.ci = L[t].ci
      /\ m.nCcalls = L[t].nCcalls /\ m.baseCcalls = L[t].baseCcalls /\ m.allowhook = L[t].allowhook
      /\ m.errorJmp = L[t].errorJmp /\ m.errfunc = L[t].errfunc
  BY ONLY <1>2, <1>3 DEF States, m
<1>. HIDE DEF m
<1>5. Account(m, cstack, t)
  BY <1>2, <1>3, <1>4 DEF Account
<1>6. m.status = "0" \/ framesOf(cstack, t) = {}
  BY <1>2, <1>4
<1>7. m.baseCcalls = L[t].baseCcalls /\ m.nCcalls < LIMIT /\ m \in States
  BY <1>2, <1>4
<1>. QED BY <1>1, <1>5, <1>6, <1>7, RecordStep

(***************************************************************************)
(* Coroutines.                                                             *)
(***************************************************************************)

\* A thread without frames gets a record.
LEMMA IdleRecord ==
  ASSUME NEW T, NEW cs, Ready(T, cs), NEW r \in Threads, framesOf(cs, r) = {},
         NEW m \in States, Account(m, cs, r), r = Main => m.baseCcalls = 0
  PROVE  Ready([T EXCEPT ![r] = m], cs)
<1>. DEFINE U == [T EXCEPT ![r] = m]
<1>1. T \in [Threads -> States] /\ Accounts(T, cs) /\ Bases(T, cs) /\ Stack(cs) /\ Main \in Threads
  BY ConstantsAssumption DEF Ready, Accounts
<1>2. U \in [Threads -> States] /\ U[r] = m /\ \A t \in Threads \ {r} : U[t] = T[t]
  BY <1>1
<1>. HIDE DEF U
<1>3. Accounts(U, cs)
  BY <1>1, <1>2 DEF Accounts
<1>4. Bases(U, cs)
  <2>1. \A i \in 1..Len(cs) : cs[i].th \in Threads /\ cs[i].th # r
    BY <1>1, StackOrder DEF framesOf
  <2>. QED BY <1>1, <1>2, <2>1 DEF Bases
<1>5. \A t \in Threads : framesOf(cs, t) # {} => U[t].status = "0"
  BY <1>2 DEF Ready
<1>. QED BY <1>1, <1>3, <1>4, <1>5 DEF Ready, U

\* A new thread starts without frames and with one CallInfo.
LEMMA CreateStep ==
  ASSUME IInv, NEW co \in Threads, luaB_cocreate(co)
  PROVE  IInv'
<1>. DEFINE m == newthread("function")
<1>1. /\ ctl = "run" /\ L[co].status = "none" /\ ctl' = "run" /\ cstack' = cstack
      /\ L' = [L EXCEPT ![co] = m]
  BY DEF luaB_cocreate, run
<1>2. framesOf(cstack, co) = {}
  BY <1>1, ThreadFacts
<1>3. /\ callinfos(cstack, co) = <<"base">> /\ hooksOn(cstack, co)
      /\ handlerOf(cstack, co) = "none" /\ greatest(protectedOf(cstack, co)) = 0
  <2>1. cstack \in Seq(Frames)
    BY <1>1, Current
  <2>. QED BY <1>2, <2>1, NoFrames
<1>4. /\ m.status = "0" /\ m.ci = <<"base">> /\ m.size_ci = BASIC_CI_SIZE /\ m.nCcalls = 0
      /\ m.baseCcalls = 0 /\ m.allowhook = TRUE /\ m.errfunc = "none" /\ m.errorJmp = 0 /\ m.top = "function"
      /\ m \in States
  <2>1. <<"base">> \in Seq(Infos) /\ 0 \in 0..LUAI_MAXCCALLS /\ BASIC_CI_SIZE \in Nat \ {0}
    BY LimitFacts DEF Infos
  <2>. QED BY <2>1 DEF newthread, States, Handlers
<1>. HIDE DEF m
<1>5. Account(m, cstack, co)
  <2>1. Len(<<"base">>) = 1 /\ BASIC_CI_SIZE \in Nat \ {0}
    BY LimitFacts
  <2>2. Len(m.ci) <= m.size_ci
    BY <1>4, <2>1
  <2>. QED BY <1>2, <1>3, <1>4, <2>2 DEF Account
<1>6. Ready(L, cstack) /\ L \in [Threads -> States] /\ Limits(L)
  BY <1>1, Current, CurrentReady
<1>7. Ready(L', cstack')
  BY <1>1, <1>2, <1>4, <1>5, <1>6, IdleRecord
<1>8. Limits(L')
  <2>1. 0 < LUAI_MAXCCALLS + EXTRACCALLS
    BY LimitFacts
  <2>. QED BY <1>1, <1>4, <1>6, <2>1 DEF Limits
<1>9. Control(L', cstack', ctl')
  BY <1>1 DEF IInv, Good, Control
<1>. QED BY <1>7, <1>8, <1>9, Arrive

\* A thread that has frames and does not run waits in the C function that
\* resumed another: it has a CallInfo for that function.
LEMMA Waiting ==
  ASSUME NEW cs, Stack(cs), NEW t \in Threads, framesOf(cs, t) # {}, cs[Len(cs)].th # t
  PROVE  Len(callinfos(cs, t)) > 1
<1>. DEFINE g == greatest(framesOf(cs, t))
            p == SubSeq(cs, 1, g - 1)
            q == SubSeq(cs, 1, g)
<1>1. cs \in Seq(Frames) /\ Len(cs) \in Nat
  BY DEF Stack
<1>2. framesOf(cs, t) \subseteq 1..Len(cs)
  BY FramesBounded
<1>3. g \in framesOf(cs, t) /\ \A j \in framesOf(cs, t) : j <= g
  BY <1>1, <1>2, GreatestFacts
<1>4. g \in 1..Len(cs) /\ cs[g].th = t
  BY <1>3 DEF framesOf
<1>. HIDE DEF g
<1>5. g # Len(cs) /\ g + 1 \in 1..Len(cs) /\ g + 1 - 1 = g /\ g + 1 > 1
  BY <1>1, <1>4
<1>6. cs[g + 1].th # t
  <2>1. g + 1 \notin framesOf(cs, t)
    BY <1>1, <1>3, <1>4
  <2>. QED BY <1>5, <2>1 DEF framesOf
<1>7. cs[g].k = "cfun"
  <2>1. cs[g].k \in below[cs[g + 1].k] /\ (cs[g + 1].k # "resume" => cs[g + 1].th = cs[g].th)
    <3>. DEFINE j == g + 1
    <3>1. j \in 1..Len(cs) /\ j - 1 = g /\ j > 1
      BY <1>1, <1>4, <1>5
    <3>. HIDE DEF j
    <3>2. cs[j - 1].k \in below[cs[j].k] /\ (cs[j].k # "resume" => cs[j].th = cs[j - 1].th)
      BY <3>1, StackOrder
    <3>. QED BY <3>1, <3>2 DEF j
  <2>2. cs[g + 1].k = "resume"
    BY <1>4, <1>6, <2>1
  <2>. QED BY <2>1, <2>2 DEF below, Kinds
<1>8. q = Append(p, cs[g]) /\ p \in Seq(Frames) /\ cs[g] \in Frames
  BY <1>1, <1>4, TopPart
<1>9. callinfos(q, t) = callinfos(p, t) \o infos(cs[g])
  <2>. HIDE DEF q, p
  <2>. QED BY <1>4, <1>8, CallinfosAppend
<1>10. infos(cs[g]) = <<"C">>
  BY <1>7, <1>8, InfosFacts
<1>11. callinfos(p, t) \in Seq(Infos) /\ Len(callinfos(p, t)) >= 1
  <2>. HIDE DEF p
  <2>. QED BY <1>8, CallinfosType
<1>12. Len(callinfos(q, t)) > 1
  <2>1. "C" \in Infos
    BY DEF Infos
  <2>. HIDE DEF p, q
  <2>2. Len(callinfos(q, t)) = Len(callinfos(p, t)) + 1
    BY <1>9, <1>10, <1>11, <2>1
  <2>. QED BY <1>11, <2>2
<1>13. Len(callinfos(q, t)) \in 1..Len(callinfos(cs, t))
  <2>1. g \in 0..Len(cs)
    BY <1>4
  <2>. QED BY <1>1, <2>1, CallinfosPrefix
<1>14. Len(callinfos(cs, t)) \in Nat
  BY <1>1, CallinfosType
<1>. HIDE DEF q
<1>. QED BY <1>12, <1>13, <1>14

\* What costatus calls suspended has no frames: it can be resumed.
LEMMA Suspended ==
  ASSUME IInv, ctl = "run", NEW co \in Threads, costatus(running, co) = "suspended"
  PROVE  /\ co # running /\ framesOf(cstack, co) = {}
         /\ L[co].status \in {"0", "LUA_YIELD"}
         /\ L[co].status = "0" => L[co].top = "function" /\ L[co].ci = <<"base">>
         /\ L[co].status = "LUA_YIELD" => Yielded(L[co].ci)
         /\ L[co].errorJmp = 0 /\ L[co].errfunc = "none" /\ L[co].allowhook = TRUE
<1>1. co # running
  BY DEF costatus
<1>2. L[co].status = "LUA_YIELD" \/ (L[co].status = "0" /\ ~(Len(L[co].ci) > 1) /\ L[co].top # "none")
  BY <1>1 DEF costatus
<1>3. /\ L[co] \in States /\ Account(L[co], cstack, co)
      /\ L[co].status = "0" \/ framesOf(cstack, co) = {}
  BY ThreadFacts
<1>4. Stack(cstack) /\ cstack[Len(cstack)].th = running /\ cstack \in Seq(Frames)
  BY Current
<1>5. framesOf(cstack, co) = {}
  <2>1. SUFFICES ASSUME framesOf(cstack, co) # {} PROVE FALSE
    OBVIOUS
  <2>2. L[co].status = "0" /\ L[co].ci = callinfos(cstack, co)
    BY <1>3, <2>1 DEF Account
  <2>3. Len(callinfos(cstack, co)) > 1
    BY <1>1, <1>4, <2>1, Waiting
  <2>. QED BY <1>2, <2>2, <2>3
<1>6. /\ callinfos(cstack, co) = <<"base">> /\ hooksOn(cstack, co)
      /\ handlerOf(cstack, co) = "none" /\ greatest(protectedOf(cstack, co)) = 0
  BY <1>4, <1>5, NoFrames
<1>7. L[co].top \in {"none", "function"} /\ L[co].allowhook \in BOOLEAN
  BY <1>3 DEF States
<1>. QED BY <1>1, <1>2, <1>3, <1>5, <1>6, <1>7 DEF Account

\* A resume that is refused leaves the coroutine as it was, its C-call count included.
LEMMA ResumeErrorStep ==
  ASSUME IInv, NEW co \in Threads, resume_error(co)
  PROVE  IInv'
<1>. DEFINE m == [L[co] EXCEPT !.nCcalls = me.nCcalls, !.top = "none"]
<1>1. /\ ctl = "run" /\ costatus(running, co) = "suspended" /\ ctl' = "run" /\ cstack' = cstack
  BY DEF resume_error, run
<1>2. L \in [Threads -> States] /\ me \in States /\ me.nCcalls < LIMIT
  BY <1>1, Current
<1>3. L' = [L EXCEPT ![co] = m]
  BY DEF resume_error
<1>4. framesOf(cstack, co) = {}
  BY <1>1, Suspended
<1>5. L[co] \in States /\ Account(L[co], cstack, co) /\ me.nCcalls \in Nat
  BY <1>1, <1>2, ThreadFacts DEF States
<1>6. /\ m \in States /\ m.nCcalls = me.nCcalls /\ m.status = L[co].status /\ m.ci = L[co].ci
      /\ m.size_ci = L[co].size_ci /\ m.baseCcalls = L[co].baseCcalls /\ m.allowhook = L[co].allowhook
      /\ m.errorJmp = L[co].errorJmp /\ m.errfunc = L[co].errfunc
  BY ONLY <1>5 DEF States, m
<1>. HIDE DEF m
<1>7. Account(m, cstack, co)
  BY <1>4, <1>5, <1>6 DEF Account
<1>8. m.baseCcalls = L[co].baseCcalls /\ m.nCcalls < LIMIT /\ m \in States
  BY <1>2, <1>6
<1>. QED BY <1>1, <1>3, <1>4, <1>7, <1>8, RecordStep

\* lua_resume puts the first frame of a coroutine on the stack.
LEMMA ResumeReady ==
  ASSUME NEW T, NEW cs, Ready(T, cs), Len(cs) > 1, cs[Len(cs)].k = "cfun",
         NEW co \in Threads, framesOf(cs, co) = {},
         NEW f, f = [k |-> "resume", th |-> co, previous |-> 0],
         NEW m \in States, m.status = "0", m.ci = <<"base">>, Len(m.ci) <= m.size_ci,
         m.nCcalls = Total(cs) + 1, m.baseCcalls = Total(cs) + 1, m.allowhook = TRUE,
         m.errfunc = "none", m.errorJmp = Len(cs) + 1
  PROVE  Ready([T EXCEPT ![co] = m], Append(cs, f))
<1>. DEFINE U == [T EXCEPT ![co] = m]
            ds == Append(cs, f)
<1>1. T \in [Threads -> States] /\ Accounts(T, cs) /\ Bases(T, cs) /\ Stack(cs) /\ Main \in Threads
  BY ConstantsAssumption DEF Ready, Accounts
<1>2. cs \in Seq(Frames) /\ Len(cs) \in Nat /\ cs # <<>>
  BY <1>1 DEF Stack
<1>3. f \in Frames /\ f.k = "resume" /\ f.th = co /\ f.previous = 0 /\ weight(f) = 1
  <2>1. 0 \in Nat
    OBVIOUS
  <2>. QED BY <2>1, NewFrames DEF weight
<1>4. infos(f) = <<>>
  BY <1>3, InfosFacts
<1>5. Stack(ds)
  <2>1. cs[Len(cs)].k \in below[f.k]
    BY <1>3 DEF below, Kinds
  <2>2. Placed(f, cs)
    BY <1>2, <1>3, <2>1 DEF Placed
  <2>3. Saved(f, cs)
    BY <1>3 DEF Saved
  <2>. QED BY <1>1, <1>3, <2>2, <2>3, StackAppend
<1>6. /\ ds \in Seq(Frames) /\ Len(ds) = Len(cs) + 1 /\ ds[Len(cs) + 1] = f
      /\ \A i \in 1..Len(cs) : ds[i] = cs[i]
      /\ SubSeq(ds, 1, Len(cs)) = cs
  BY <1>2, <1>3, Appended
<1>7. U \in [Threads -> States] /\ U[co] = m /\ \A t \in Threads \ {co} : U[t] = T[t]
  BY <1>1
<1>8. Total(ds) = Total(cs) + 1
  BY <1>2, <1>3, TotalFacts
<1>9. \A t \in Threads \ {co} : SameOf(cs, ds, t)
  BY <1>2, <1>3, Foreign
<1>10. Account(m, ds, co)
  <2>1. /\ framesOf(ds, co) = framesOf(cs, co) \cup {Len(cs) + 1}
        /\ greatest(protectedOf(ds, co)) =
             IF f.k \in {"pcall", "resume"} THEN Len(cs) + 1 ELSE greatest(protectedOf(cs, co))
        /\ hooksOn(ds, co) <=> hooksOn(cs, co) /\ f.k \notin {"hook", "gctm"}
        /\ handlerOf(ds, co) = IF f.k = "pcall" THEN f.ef ELSE handlerOf(cs, co)
        /\ callinfos(ds, co) = callinfos(cs, co) \o infos(f)
        /\ Count(ds, co) = Total(ds)
    BY <1>2, <1>3, Own
  <2>2. /\ callinfos(cs, co) = <<"base">> /\ hooksOn(cs, co) /\ handlerOf(cs, co) = "none"
    BY <1>2, NoFrames
  <2>. HIDE DEF ds
  <2>3. <<"base">> \o <<>> = <<"base">>
    OBVIOUS
  <2>4. /\ greatest(protectedOf(ds, co)) = Len(cs) + 1 /\ hooksOn(ds, co) /\ handlerOf(ds, co) = "none"
        /\ callinfos(ds, co) = <<"base">>
    BY <1>3, <1>4, <2>1, <2>2, <2>3
  <2>. QED BY <1>8, <2>1, <2>4 DEF Account
<1>. HIDE DEF U, ds
<1>11. Accounts(U, ds)
  <2>1. ASSUME NEW t \in Threads \ {co} PROVE Account(U[t], ds, t)
    <3>1. Account(T[t], cs, t) /\ SameOf(cs, ds, t) /\ U[t] = T[t]
      BY <1>1, <1>7, <1>9 DEF Accounts
    <3>. QED BY <3>1 DEF Account, SameOf
  <2>. QED BY <1>7, <1>10, <2>1 DEF Accounts
<1>12. Bases(U, ds)
  <2>1. co # Main
    <3>1. 1 \in 1..Len(cs)
      BY <1>2
    <3>2. cs[1].th = Main
      BY <1>1, <3>1, StackOrder
    <3>. QED BY <3>1, <3>2 DEF framesOf
  <2>2. ASSUME NEW i \in 1..Len(ds), ds[i].k = "resume" PROVE U[ds[i].th].baseCcalls = Total(SubSeq(ds, 1, i))
    <3>1. CASE i = Len(ds)
      <4>1. SubSeq(ds, 1, Len(ds)) = ds
        BY <1>6
      <4>2. ds[i] = f /\ SubSeq(ds, 1, i) = ds
        BY <1>6, <3>1, <4>1
      <4>. QED BY <1>3, <1>7, <1>8, <4>2
    <3>2. CASE i # Len(ds)
      <4>1. i \in 1..Len(cs)
        BY <1>2, <1>6, <3>2
      <4>2. cs[i].k = "resume" /\ cs[i].th # co /\ cs[i].th \in Threads /\ ds[i] = cs[i]
        BY <1>1, <1>6, <2>2, <4>1, StackOrder DEF framesOf
      <4>3. SubSeq(ds, 1, i) = SubSeq(cs, 1, i)
        <5>1. Len(cs) \in 0..Len(ds) /\ i \in 0..Len(cs)
          BY <1>2, <1>6, <4>1
        <5>. QED BY <1>6, <5>1, PrefixOfPrefix
      <4>4. T[cs[i].th].baseCcalls = Total(SubSeq(cs, 1, i))
        BY <1>1, <4>1, <4>2 DEF Bases
      <4>5. U[cs[i].th] = T[cs[i].th]
        BY <1>7, <4>2
      <4>. QED BY ONLY <4>2, <4>3, <4>4, <4>5
    <3>. QED BY <3>1, <3>2
  <2>3. U[Main].baseCcalls = 0
    BY <1>1, <1>7, <2>1 DEF Bases
  <2>. QED BY <2>2, <2>3 DEF Bases
<1>13. \A t \in Threads : framesOf(ds, t) # {} => U[t].status = "0"
  <2>1. \A t \in Threads \ {co} : framesOf(ds, t) = framesOf(cs, t)
    BY <1>9 DEF SameOf
  <2>. QED BY <1>7, <2>1 DEF Ready
<1>14. Ready(U, ds)
  BY <1>5, <1>11, <1>12, <1>13 DEF Ready
<1>. QED BY <1>14 DEF U, ds

\* The CallInfos of a coroutine that has yielded, without the C function that
\* yielded, are those of one luaV_execute.
LEMMA YieldedInfos ==
  ASSUME NEW s \in Seq(Infos), Yielded(s),
         NEW r, r = IF s[Len(s)] = "C" THEN SubSeq(s, 1, Len(s) - 1) ELSE s
  PROVE  /\ r \in Seq(Infos) /\ Len(r) > 1 /\ Len(r) <= Len(s) /\ Len(r) - 1 \in Nat \ {0}
         /\ r = <<"base">> \o Luas(Len(r) - 1)
<1>1. /\ Len(s) \in Nat /\ Len(s) > 1 /\ s[1] = "base" /\ s[2] = "Lua" /\ s[Len(s)] \in {"Lua", "C"}
      /\ \A i \in 2..Len(s) - 1 : s[i] = "Lua"
  BY DEF Yielded
<1>2. r \in Seq(Infos) /\ Len(r) \in Nat /\ Len(r) > 1 /\ Len(r) <= Len(s) /\ \A i \in 1..Len(r) : r[i] = s[i]
  <2>1. CASE s[Len(s)] = "C"
    <3>1. Len(s) # 2 /\ Len(s) \in Nat /\ Len(s) > 1
      BY <1>1, <2>1
    <3>2. Len(s) - 1 \in 0..Len(s) /\ Len(s) - 1 > 1
      <4>1. \A n \in Nat : n # 2 /\ n > 1 => n - 1 \in 0..n /\ n - 1 > 1
        OBVIOUS
      <4>. QED BY ONLY <3>1, <4>1
    <3>. QED BY <1>1, <2>1, <3>2, Prefix
  <2>2. CASE s[Len(s)] # "C"
    BY <1>1, <2>2
  <2>. QED BY <2>1, <2>2
<1>3. \A i \in 2..Len(r) : r[i] = "Lua"
  <2>1. CASE s[Len(s)] = "C"
    <3>1. Len(r) = Len(s) - 1
      <4>1. Len(s) - 1 \in 0..Len(s)
        BY <1>1
      <4>. QED BY <2>1, <4>1, Prefix
    <3>. QED BY <1>1, <1>2, <3>1
  <2>2. CASE s[Len(s)] # "C"
    <3>1. r = s /\ s[Len(s)] = "Lua"
      BY <1>1, <2>2
    <3>. QED BY <1>1, <3>1
  <2>. QED BY <2>1, <2>2
<1>. DEFINE n == Len(r) - 1
            q == <<"base">> \o Luas(n)
<1>4. n \in Nat \ {0} /\ n + 1 = Len(r)
  BY <1>2
<1>. HIDE DEF n
<1>5. Luas(n) \in Seq(Infos) /\ Len(Luas(n)) = n /\ \A i \in 1..n : Luas(n)[i] = "Lua"
  BY <1>4, LuasFacts
<1>6. q \in Seq(Infos) /\ Len(q) = Len(r)
  <2>1. <<"base">> \in Seq(Infos) /\ Len(<<"base">>) = 1
    BY DEF Infos
  <2>. QED BY <1>4, <1>5, <2>1
<1>7. ASSUME NEW i \in 1..Len(r) PROVE q[i] = r[i]
  <2>1. CASE i = 1
    <3>1. r[1] = "base"
      BY <1>1, <1>2
    <3>2. q[1] = "base"
      BY <1>5
    <3>. QED BY <2>1, <3>1, <3>2
  <2>2. CASE i # 1
    <3>1. i \in 2..Len(r) /\ i - 1 \in 1..n
      BY <1>2, <1>4, <2>2
    <3>2. q[i] = Luas(n)[i - 1]
      BY <1>4, <1>5, <3>1
    <3>. QED BY <1>3, <1>5, <3>1, <3>2
  <2>. QED BY <2>1, <2>2
<1>8. q = r
  <2>. HIDE DEF q
  <2>. QED BY <1>2, <1>6, <1>7, SeqEqual
<1>. QED BY <1>2, <1>4, <1>8 DEF n

\* lua_resume puts a coroutine on the C stack and counts on from its resumer.
LEMMA ResumeStep ==
  ASSUME IInv, NEW co \in Threads, lua_resume(co)
  PROVE  IInv'
<1>. DEFINE l == L[co]
            n == me.nCcalls + 1
            r == IF l.status = "LUA_YIELD" /\ l.ci[Len(l.ci)] = "C"
                   THEN SubSeq(l.ci, 1, Len(l.ci) - 1) ELSE l.ci
            m == started(co)
            f == resumeFrame(co)
            T == [L EXCEPT ![co] = m]
            ds == Append(cstack, f)
<1>1. /\ ctl = "run" /\ top.k = "cfun" /\ costatus(running, co) = "suspended"
      /\ me.nCcalls < LUAI_MAXCCALLS /\ L' = T
      /\ l.status = "0" => cstack' = ds /\ ctl' = "precall"
      /\ l.status # "0" => cstack' = cstack \o <<f, Execute(co, Len(m.ci) - 1)>> /\ ctl' = "run"
  BY DEF lua_resume, run
<1>2. /\ cstack # <<>> /\ cstack[Len(cstack)] = top /\ me \in States /\ L \in [Threads -> States] /\ Limits(L)
      /\ cstack \in Seq(Frames) /\ Len(cstack) \in Nat \ {0} /\ me.nCcalls = Total(cstack)
  BY <1>1, Current
<1>3. Ready(L, cstack) /\ Len(cstack) > 1
  BY <1>1, CurrentReady, Deep
<1>4. /\ framesOf(cstack, co) = {} /\ l.status \in {"0", "LUA_YIELD"}
      /\ l.status = "0" => l.top = "function" /\ l.ci = <<"base">>
      /\ l.status = "LUA_YIELD" => Yielded(l.ci)
      /\ l.errorJmp = 0 /\ l.errfunc = "none" /\ l.allowhook = TRUE
  BY <1>1, Suspended
<1>5. l \in States /\ Len(l.ci) <= l.size_ci /\ l.ci \in Seq(Infos) /\ l.size_ci \in Nat /\ Len(l.ci) \in Nat
  BY <1>1, ThreadFacts DEF States
<1>6. f = [k |-> "resume", th |-> co, previous |-> 0]
  BY <1>4 DEF resumeFrame
<1>7. n \in 0..LUAI_MAXCCALLS /\ n \in Nat /\ n < LIMIT /\ n = Total(cstack) + 1 /\ Len(cstack) + 1 \in Nat
  <2>1. LUAI_MAXCCALLS \in Nat /\ LIMIT \in Nat /\ LUAI_MAXCCALLS < LIMIT
    BY ONLY LimitFacts DEF LIMIT
  <2>2. me.nCcalls \in Nat
    BY <1>2 DEF States
  <2>. QED BY <1>1, <1>2, <2>1, <2>2
<1>8. m = [l EXCEPT !.status = "0", !.ci = r, !.nCcalls = n, !.baseCcalls = n, !.errorJmp = Len(cstack) + 1]
  BY DEF started
<1>. DEFINE Fields(x, c) ==
       /\ x \in States /\ x.status = "0" /\ x.ci = c /\ x.nCcalls = Total(cstack) + 1
       /\ x.baseCcalls = Total(cstack) + 1 /\ x.errorJmp = Len(cstack) + 1 /\ x.size_ci = l.size_ci
       /\ x.allowhook = TRUE /\ x.errfunc = "none" /\ x.top = l.top
<1>9. r \in Seq(Infos) => Fields(m, r)
  <2>. HIDE DEF l, n, m, r
  <2>1. SUFFICES ASSUME r \in Seq(Infos) PROVE Fields(m, r)
    OBVIOUS
  <2>2. /\ m \in States /\ m.status = "0" /\ m.ci = r /\ m.nCcalls = n
        /\ m.baseCcalls = n /\ m.errorJmp = Len(cstack) + 1 /\ m.size_ci = l.size_ci
        /\ m.allowhook = l.allowhook /\ m.errfunc = l.errfunc /\ m.top = l.top
    BY ONLY <1>5, <1>7, <1>8, <2>1 DEF States
  <2>. QED BY <1>4, <1>7, <2>2
<1>. HIDE DEF m, f
<1>10. (Limits(T) /\ T[co] = m) \/ r \notin Seq(Infos)
  <2>1. ASSUME r \in Seq(Infos) PROVE Limits(T)
    <3>1. m.nCcalls < LIMIT
      BY <1>7, <1>9, <2>1
    <3>. QED BY <1>2, <3>1 DEF Limits, LIMIT
  <2>. QED BY <1>2, <2>1
<1>11. CASE l.status = "0"
  <2>1. r = <<"base">> /\ r \in Seq(Infos)
    BY <1>4, <1>5, <1>11
  <2>. HIDE DEF r, l
  <2>2. Fields(m, <<"base">>) /\ Limits(T) /\ T[co] = m
    BY <1>9, <1>10, <2>1
  <2>3. Len(m.ci) <= m.size_ci
    BY <1>4, <1>5, <1>11, <2>2
  <2>4. Ready(T, ds)
    BY <1>1, <1>2, <1>3, <1>4, <1>6, <2>2, <2>3, ResumeReady
  <2>5. ds # <<>> /\ ds[Len(ds)] = f
    <3>1. f \in Frames
      <4>1. 0 \in Nat
        OBVIOUS
      <4>. QED BY <1>6, <4>1, NewFrames
    <3>. QED BY <1>2, <3>1, Appended
  <2>. HIDE DEF T, ds
  <2>6. Control(T, ds, "precall")
    BY <1>4, <1>6, <1>11, <2>2, <2>5 DEF Control
  <2>7. Ready(L', cstack') /\ Limits(L') /\ Control(L', cstack', ctl')
    BY <1>1, <1>11, <2>2, <2>4, <2>6
  <2>. QED BY <2>7, Arrive
<1>12. CASE l.status = "LUA_YIELD"
  <2>. DEFINE v == Len(r) - 1
              g == Execute(co, v)
              b == [m EXCEPT !.ci = <<"base">>]
              S == [L EXCEPT ![co] = b]
              es == Append(ds, g)
  <2>1. r = IF l.ci[Len(l.ci)] = "C" THEN SubSeq(l.ci, 1, Len(l.ci) - 1) ELSE l.ci
    BY <1>12
  <2>2. /\ r \in Seq(Infos) /\ Len(r) > 1 /\ Len(r) <= Len(l.ci) /\ v \in Nat \ {0}
        /\ r = <<"base">> \o Luas(v)
    <3>1. Yielded(l.ci)
      BY <1>4, <1>12
    <3>. HIDE DEF r, l
    <3>. QED BY <1>5, <2>1, <3>1, YieldedInfos
  <2>. HIDE DEF r, l
  <2>3. Fields(m, r) /\ Limits(T) /\ T[co] = m
    BY <1>9, <1>10, <2>2
  <2>4. Fields(b, <<"base">>) /\ Len(b.ci) <= b.size_ci /\ Len(m.ci) <= m.size_ci /\ Len(r) \in Nat
    <3>1. <<"base">> \in Seq(Infos) /\ Len(<<"base">>) = 1 /\ Len(r) \in Nat
      BY <2>2 DEF Infos
    <3>2. /\ b \in States /\ b.status = m.status /\ b.ci = <<"base">> /\ b.nCcalls = m.nCcalls
          /\ b.baseCcalls = m.baseCcalls /\ b.errorJmp = m.errorJmp /\ b.size_ci = m.size_ci
          /\ b.allowhook = m.allowhook /\ b.errfunc = m.errfunc /\ b.top = m.top
      <4>1. m \in States
        BY <2>3
      <4>. QED BY ONLY <3>1, <4>1 DEF States, b
    <3>3. 1 <= l.size_ci /\ Len(r) <= l.size_ci
      BY <1>5, <2>2, <3>1
    <3>. HIDE DEF b
    <3>. QED BY <2>3, <3>1, <3>2, <3>3
  <2>. HIDE DEF b
  <2>5. Ready(S, ds)
    BY <1>1, <1>2, <1>3, <1>4, <1>6, <2>4, ResumeReady
  <2>6. ds # <<>> /\ ds[Len(ds)] = f /\ ds \in Seq(Frames) /\ Len(ds) = Len(cstack) + 1 /\ f \in Frames
    <3>1. f \in Frames
      <4>1. 0 \in Nat
        OBVIOUS
      <4>. QED BY <1>6, <4>1, NewFrames
    <3>. QED BY <1>2, <3>1, Appended
  <2>7. g \in Frames /\ g.th = co /\ g.k = "execute" /\ weight(g) = 0 /\ infos(g) = Luas(v)
    <3>1. g \in Frames /\ g.th = co /\ g.k = "execute" /\ g.n = v
      BY <2>2, NewFrames DEF Execute
    <3>. QED BY <3>1, InfosFacts DEF weight, Luas
  <2>8. S[co] = b /\ [S EXCEPT ![co] = m] = T
    BY <1>2
  <2>. HIDE DEF v, g, S
  <2>9. Pushed(m, b, g, Len(ds))
    <3>1. m.nCcalls \in Nat /\ m.nCcalls = b.nCcalls
      BY <2>3, <2>4 DEF States
    <3>2. m.nCcalls = b.nCcalls + weight(g)
      BY <2>7, <3>1
    <3>. QED BY <2>2, <2>3, <2>4, <2>7, <3>2 DEF Pushed
  <2>10. /\ co = ds[Len(ds)].th /\ ds[Len(ds)].k \in below[g.k] /\ (Len(ds) = 1 => g.k = "call")
         /\ g.k # "resume"
    <3>1. Len(ds) # 1
      BY <1>2, <2>6
    <3>2. f.th = co /\ f.k = "resume"
      BY <1>6
    <3>. HIDE DEF ds
    <3>. QED BY <2>6, <2>7, <3>1, <3>2 DEF below, Kinds, Codes
  <2>11. Saved(g, ds)
    BY <2>7 DEF Saved
  <2>12. Ready(S, ds) /\ ds # <<>> /\ g \in Frames /\ g.th = co /\ m \in States /\ b = S[co]
    BY <2>3, <2>5, <2>6, <2>7, <2>8
  <2>. HIDE DEF ds
  <2>13. Ready([S EXCEPT ![co] = m], es) /\ es # <<>> /\ es[Len(es)] = g
    BY ONLY <2>9, <2>10, <2>11, <2>12, PushAny
  <2>14. cstack' = es
    <3>1. cstack' = cstack \o <<f, Execute(co, Len(m.ci) - 1)>>
      BY <1>1, <1>12
    <3>2. Execute(co, Len(m.ci) - 1) = g
      BY <2>3 DEF g, v
    <3>3. cstack \o <<f, g>> = Append(Append(cstack, f), g)
      BY <1>2, <2>6, <2>7
    <3>. QED BY <3>1, <3>2, <3>3 DEF ds
  <2>. HIDE DEF T, es
  <2>15. Control(T, es, "run")
    BY <2>7, <2>13 DEF Control, Codes
  <2>16. Ready(L', cstack') /\ Limits(L') /\ Control(L', cstack', ctl')
    BY <1>1, <1>12, <2>3, <2>8, <2>13, <2>14, <2>15
  <2>. QED BY <2>16, Arrive
<1>. QED BY <1>4, <1>11, <1>12

\* The stack without its top, for the other threads.
LEMMA CutTop ==
  ASSUME IInv, ctl # "exit"
  PROVE  /\ Alike(cstack, popped, running) /\ Accounts(L, cstack) /\ Bases(L, cstack)
         /\ \A t \in Threads \ {running} : framesOf(popped, t) # {} => L[t].status = "0"
<1>1. cstack \in Seq(Frames) /\ Len(cstack) \in Nat \ {0} /\ cstack[Len(cstack)].th = running
  BY Current
<1>2. Accounts(L, cstack) /\ Bases(L, cstack) /\ Active(L, cstack, ctl)
  BY DEF IInv, Good
<1>3. Alike(cstack, popped, running)
  <2>1. Len(cstack) - 1 \in 0..Len(cstack) /\ \A i \in Len(cstack) - 1 + 1..Len(cstack) : cstack[i].th = running
    BY <1>1
  <2>. QED BY <1>1, <2>1, AlikeCut DEF popped
<1>4. ASSUME NEW t \in Threads \ {running}, framesOf(popped, t) # {} PROVE L[t].status = "0"
  <2>1. framesOf(cstack, t) # {}
    BY <1>3, <1>4 DEF Alike, SameOf
  <2>. QED BY <1>1, <1>2, <2>1 DEF Active
<1>. QED BY <1>2, <1>3, <1>4

\* lua_resume returns to the resumer when the body of the coroutine has ended or yielded.
LEMMA ResumeEndStep ==
  ASSUME IInv, lua_resume_end
  PROVE  IInv'
<1>. DEFINE m == [me EXCEPT !.nCcalls = @ - 1, !.errorJmp = top.previous]
<1>1. /\ ctl = "returned" /\ top.k = "resume" /\ L' = [L EXCEPT ![running] = m]
      /\ cstack' = popped /\ ctl' = back(popped)
  BY DEF lua_resume_end, set
<1>2. /\ running \in Threads /\ me \in States /\ L \in [Threads -> States] /\ Limits(L) /\ me.nCcalls < LIMIT
      /\ top \in Frames /\ popped \in Seq(Frames) /\ Stack(popped) /\ Placed(top, popped) /\ Saved(top, popped)
      /\ me.nCcalls = Total(cstack) /\ Account(me, cstack, running) /\ framesOf(cstack, running) # {}
      /\ top.th = running
  BY <1>1, Current
<1>3. framesOf(popped, running) = {} /\ top.previous = 0 /\ weight(top) = 1
  BY <1>1, <1>2 DEF Placed, Saved, weight
<1>4. /\ callinfos(popped, running) = <<"base">> /\ hooksOn(popped, running)
      /\ handlerOf(popped, running) = "none" /\ greatest(protectedOf(popped, running)) = 0
  BY <1>2, <1>3, NoFrames
<1>5. /\ callinfos(cstack, running) = callinfos(popped, running) \o infos(top)
      /\ Total(cstack) = Total(popped) + weight(top) /\ Total(popped) \in Nat
      /\ hooksOn(cstack, running) <=> hooksOn(popped, running)
  BY <1>1, Below
<1>6. infos(top) = <<>> /\ callinfos(cstack, running) = <<"base">>
  <2>1. infos(top) = <<>>
    BY <1>1, <1>2, InfosFacts
  <2>2. <<"base">> \o <<>> = <<"base">>
    OBVIOUS
  <2>. QED BY <1>4, <1>5, <2>1, <2>2
<1>7. handlerOf(cstack, running) = "none"
  <2>1. handlerOf(Append(popped, top), running) = IF top.k = "pcall" THEN top.ef ELSE handlerOf(popped, running)
    BY <1>2, Own
  <2>2. cstack = Append(popped, top)
    BY <1>1, Current
  <2>. QED BY <1>1, <1>4, <2>1, <2>2
<1>8. /\ m \in States /\ m.nCcalls = Total(popped) /\ m.errorJmp = 0 /\ m.status = me.status /\ m.ci = me.ci
      /\ m.size_ci = me.size_ci /\ m.baseCcalls = me.baseCcalls /\ m.allowhook = me.allowhook
      /\ m.errfunc = me.errfunc
  <2>1. me.nCcalls - 1 = Total(popped) /\ Total(popped) \in Nat /\ me.nCcalls - 1 \in Nat /\ 0 \in Nat
    BY <1>2, <1>3, <1>5
  <2>2. m = [me EXCEPT !.nCcalls = Total(popped), !.errorJmp = 0]
    BY <1>3, <2>1
  <2>3. me \in States
    BY <1>2
  <2>. HIDE DEF m
  <2>. QED BY ONLY <2>1, <2>2, <2>3 DEF States
<1>. HIDE DEF m
<1>9. Account(m, popped, running)
  BY <1>2, <1>3, <1>4, <1>5, <1>6, <1>7, <1>8 DEF Account
<1>10. /\ Alike(cstack, popped, running) /\ Accounts(L, cstack) /\ Bases(L, cstack)
       /\ \A t \in Threads \ {running} : framesOf(popped, t) # {} => L[t].status = "0"
  BY <1>1, CutTop
<1>11. Accounts(L', popped) /\ Bases(L', popped)
  <2>1. m.baseCcalls = L[running].baseCcalls /\ m \in States
    BY <1>8 DEF me
  <2>. QED BY <1>1, <1>2, <1>9, <1>10, <2>1, Change
<1>12. \A t \in Threads : framesOf(popped, t) # {} => L'[t].status = "0"
  BY <1>1, <1>2, <1>3, <1>10
<1>13. Ready(L', cstack')
  BY <1>1, <1>2, <1>11, <1>12 DEF Ready
<1>14. Limits(L')
  <2>1. m.nCcalls < LIMIT
    <3>1. LIMIT \in Nat
      BY LimitFacts DEF LIMIT
    <3>. QED BY <1>2, <1>3, <1>5, <1>8, <3>1
  <2>. QED BY <1>1, <1>2, <2>1 DEF Limits, LIMIT
<1>15. Control(L', cstack', ctl')
  BY <1>1, BackControl
<1>. QED BY <1>13, <1>14, <1>15, Arrive

\* The frame below on the stack.
LEMMA Under ==
  ASSUME NEW cs, Stack(cs), NEW k \in 2..Len(cs)
  PROVE  cs[k - 1].k \in below[cs[k].k] /\ k - 1 \in 1..Len(cs)
<1>1. Len(cs) \in Nat
  BY DEF Stack
<1>2. k \in 1..Len(cs) /\ k > 1 /\ k - 1 \in 1..Len(cs)
  BY <1>1
<1>. QED BY <1>2, StackOrder

\* A frame between counts for the C calls above.
LEMMA CallBetween ==
  ASSUME NEW cs, Stack(cs), NEW s \in 1..Len(cs), NEW i \in s + 1..Len(cs), cs[i].k = "call"
  PROVE  Total(SubSeq(cs, 1, s)) < Total(cs)
<1>1. cs \in Seq(Frames) /\ Len(cs) \in Nat
  BY DEF Stack
<1>. DEFINE p == SubSeq(cs, 1, i - 1)
            q == SubSeq(cs, 1, i)
<1>2. i \in 1..Len(cs) /\ i - 1 \in 0..Len(cs) /\ i \in 0..Len(cs) /\ s \in 0..i - 1 /\ i - 1 \in Nat
  BY <1>1
<1>3. q = Append(p, cs[i]) /\ p \in Seq(Frames) /\ cs[i] \in Frames
  BY <1>1, <1>2, TopPart
<1>4. Len(p) = i - 1 /\ SubSeq(p, 1, s) = SubSeq(cs, 1, s)
  BY <1>1, <1>2, Prefix, PrefixOfPrefix
<1>5. Total(q) <= Total(cs) /\ Total(q) \in Nat
  BY <1>1, <1>2, TotalGrows
<1>. HIDE DEF p, q
<1>6. Total(SubSeq(p, 1, s)) <= Total(p) /\ Total(SubSeq(p, 1, s)) \in Nat /\ Total(p) \in Nat
  BY <1>2, <1>3, <1>4, TotalGrows, TotalFacts
<1>7. Total(q) = Total(p) + 1
  BY <1>3, TotalFacts DEF weight
<1>8. Total(cs) \in Nat
  BY <1>1, TotalFacts
<1>9. \A a \in Nat, b \in Nat, c \in Nat, d \in Nat : a <= b /\ c = b + 1 /\ c <= d => a < d
  OBVIOUS
<1>10. Total(SubSeq(cs, 1, s)) \in Nat /\ Total(SubSeq(cs, 1, s)) <= Total(p)
  BY <1>4, <1>6
<1>. QED BY ONLY <1>5, <1>6, <1>7, <1>8, <1>9, <1>10

\* Where a yield is allowed: the coroutine has a resume, one luaV_execute on it
\* and the C function or the hook that yields, and nothing else.  The main
\* thread, whose pmain is a C call, never may.
LEMMA YieldShape ==
  ASSUME IInv, ctl = "run", top.k \in {"cfun", "hook"}, mayyield(me)
  PROVE  /\ Len(cstack) > 2 /\ cstack[Len(cstack) - 1].k = "execute" /\ cstack[Len(cstack) - 2].k = "resume"
         /\ cstack[Len(cstack) - 1].th = running /\ cstack[Len(cstack) - 2].th = running
<1>. DEFINE z == Len(cstack)
<1>1. /\ Stack(cstack) /\ cstack \in Seq(Frames) /\ z \in Nat \ {0} /\ running \in Threads
      /\ cstack[z] = top /\ cstack[z].th = running /\ me = L[running] /\ me.nCcalls = Total(cstack)
  BY Current
<1>2. Bases(L, cstack) /\ me.nCcalls <= me.baseCcalls /\ Total(cstack) \in Nat
  BY <1>1, TotalFacts DEF IInv, Good, mayyield
<1>3. z > 1
  BY Deep
<1>. HIDE DEF z
<1>4. PICK s \in 1..z : Segment(cstack, z, s)
  <2>1. z \in 1..Len(cstack)
    BY <1>1 DEF z
  <2>. QED BY <1>1, <2>1, Segments
<1>5. /\ \A i \in s..z : cstack[i].th = running
      /\ \A i \in s + 1..z : cstack[i].k # "resume"
      /\ cstack[s].k = "resume" \/ (s = 1 /\ cstack[1].th = Main)
  BY <1>1, <1>4 DEF Segment
<1>6. s \in Nat /\ s <= z /\ s \in 1..Len(cstack)
  BY <1>1, <1>4 DEF z
<1>7. cstack[s].k = "resume"
  <2>1. SUFFICES ASSUME s = 1, cstack[1].th = Main PROVE FALSE
    BY <1>5
  <2>2. running = Main
    BY <1>1, <1>5, <2>1
  <2>3. Total(cstack) <= 0
    BY <1>1, <1>2, <2>2 DEF Bases
  <2>4. 2 \in s + 1..Len(cstack) /\ 2 \in 1..Len(cstack)
    BY <1>1, <1>3, <2>1 DEF z
  <2>5. cstack[2].k = "call"
    BY <1>1, <2>4, StackOrder
  <2>6. Total(SubSeq(cstack, 1, s)) < Total(cstack)
    BY <1>1, <1>6, <2>4, <2>5, CallBetween
  <2>7. Total(SubSeq(cstack, 1, s)) \in Nat
    <3>1. s \in 0..Len(cstack)
      BY <1>6
    <3>. QED BY <1>1, <3>1, TotalGrows
  <2>. QED BY <1>2, <2>3, <2>6, <2>7
<1>8. \A i \in s + 1..z : cstack[i].k # "call"
  <2>1. SUFFICES ASSUME NEW i \in s + 1..z, cstack[i].k = "call" PROVE FALSE
    OBVIOUS
  <2>2. i \in s + 1..Len(cstack)
    BY DEF z
  <2>3. Total(SubSeq(cstack, 1, s)) < Total(cstack)
    BY <1>1, <1>6, <2>1, <2>2, CallBetween
  <2>4. cstack[s].th = running
    BY <1>5, <1>6
  <2>5. me.baseCcalls = Total(SubSeq(cstack, 1, s))
    BY <1>1, <1>2, <1>6, <1>7, <2>4 DEF Bases
  <2>6. Total(SubSeq(cstack, 1, s)) \in Nat
    <3>1. s \in 0..Len(cstack)
      BY <1>6
    <3>. QED BY <1>1, <3>1, TotalGrows
  <2>. QED BY <1>1, <1>2, <2>3, <2>5, <2>6
<1>9. \A k \in 2..z : cstack[k - 1].k \in below[cstack[k].k]
  BY <1>1, Under DEF z
<1>10. cstack[z].k \in {"cfun", "hook"}
  BY <1>1
<1>11. s # z
  BY <1>7, <1>10
<1>12. cstack[z - 1].k \in {"call", "execute"}
  <2>1. z \in 2..z
    BY <1>1, <1>3
  <2>. QED BY <1>9, <1>10, <2>1 DEF below, Kinds, Codes
<1>13. z - 1 \in s + 1..z
  <2>1. z - 1 # s
    BY <1>7, <1>12
  <2>. QED BY <1>1, <1>6, <1>11, <2>1
<1>14. cstack[z - 1].k = "execute"
  BY <1>8, <1>12, <1>13
<1>15. cstack[z - 2].k \in {"call", "resume"}
  <2>1. z - 1 \in 2..z /\ z - 1 - 1 = z - 2
    BY <1>1, <1>6, <1>13
  <2>2. cstack[z - 1 - 1].k \in below[cstack[z - 1].k]
    BY <1>9, <2>1
  <2>. QED BY <1>14, <2>1, <2>2 DEF below, Kinds, Codes
<1>16. z - 2 = s
  <2>1. SUFFICES ASSUME z - 2 # s PROVE FALSE
    OBVIOUS
  <2>2. z - 2 \in s + 1..z
    BY <1>1, <1>6, <1>13, <2>1
  <2>. QED BY <1>5, <1>8, <1>15, <2>2
<1>17. z > 2 /\ z - 1 \in s..z /\ z - 2 \in s..z
  BY <1>1, <1>6, <1>16
<1>. QED BY <1>5, <1>7, <1>14, <1>16, <1>17 DEF z

\* What is left of the CallInfos at a yield.
LEMMA YieldInfos ==
  ASSUME NEW n \in Nat \ {0}, NEW x \in {<<>>, <<"C">>}
  PROVE  Yielded((<<"base">> \o Luas(n)) \o x)
<1>. DEFINE a == <<"base">> \o Luas(n)
            s == a \o x
<1>1. Luas(n) \in Seq(Infos) /\ Len(Luas(n)) = n /\ \A i \in 1..n : Luas(n)[i] = "Lua"
  BY LuasFacts
<1>2. <<"base">> \in Seq(Infos) /\ Len(<<"base">>) = 1 /\ <<"base">>[1] = "base" /\ "C" \in Infos
  BY DEF Infos
<1>3. a \in Seq(Infos) /\ Len(a) = n + 1 /\ a[1] = "base" /\ \A i \in 2..n + 1 : a[i] = "Lua"
  <2>1. a \in Seq(Infos) /\ Len(a) = n + 1 /\ a[1] = "base"
    BY <1>1, <1>2
  <2>2. ASSUME NEW i \in 2..n + 1 PROVE a[i] = "Lua"
    <3>1. i - 1 \in 1..n
      OBVIOUS
    <3>2. a[i] = Luas(n)[i - 1]
      BY <1>1
    <3>. QED BY <1>1, <3>1, <3>2
  <2>. QED BY <2>1, <2>2
<1>. HIDE DEF a
<1>4. CASE x = <<>>
  <2>1. s = a
    BY <1>3, <1>4
  <2>2. /\ n + 1 > 1 /\ 2 \in 2..n + 1 /\ n + 1 \in 2..n + 1 /\ n + 1 - 1 = n
        /\ \A i \in 2..n : i \in 2..n + 1
    OBVIOUS
  <2>. QED BY <1>3, <2>1, <2>2 DEF Yielded, a
<1>5. CASE x = <<"C">>
  <2>1. s = Append(a, "C")
    BY <1>2, <1>3, <1>5
  <2>2. /\ Len(s) = n + 2 /\ s[n + 2] = "C" /\ \A i \in 1..n + 1 : s[i] = a[i]
    <3>1. n + 1 + 1 = n + 2
      OBVIOUS
    <3>. HIDE DEF s
    <3>. QED BY <1>2, <1>3, <2>1, <3>1, Appended
  <2>3. /\ n + 2 > 1 /\ 2 \in 2..n + 1 /\ n + 2 - 1 = n + 1 /\ 1 \in 1..n + 1
        /\ \A i \in 2..n + 1 : i \in 1..n + 1
    OBVIOUS
  <2>. HIDE DEF s
  <2>4. Yielded(s)
    BY <1>3, <2>2, <2>3 DEF Yielded
  <2>. QED BY <2>4 DEF s, a
<1>. QED BY <1>4, <1>5

\* A coroutine that yields leaves the Lua functions that one luaV_execute runs,
\* and the C function that called lua_yield, to be taken up again.
LEMMA YieldRecord ==
  ASSUME IInv, ctl = "run", top.k \in {"cfun", "hook"}, mayyield(me)
  PROVE  Yielded(me.ci)
<1>. DEFINE z == Len(cstack)
            e == popped[z - 1]
            u == SubSeq(cstack, 1, z - 2)
            w == SubSeq(cstack, 1, z - 3)
            f == cstack[z - 2]
<1>1. /\ Stack(cstack) /\ cstack \in Seq(Frames) /\ z \in Nat \ {0} /\ running \in Threads /\ top.th = running
      /\ Stack(popped) /\ popped \in Seq(Frames) /\ Len(popped) = z - 1 /\ top \in Frames
      /\ cstack = Append(popped, top) /\ popped = SubSeq(cstack, 1, z - 1)
  BY Current DEF popped
<1>2. z > 2 /\ cstack[z - 1].k = "execute" /\ f.k = "resume" /\ cstack[z - 1].th = running /\ f.th = running
  BY YieldShape
<1>3. me.ci = callinfos(cstack, running)
  BY CurrentReady
<1>4. callinfos(cstack, running) = callinfos(popped, running) \o infos(top)
  BY Below
<1>. HIDE DEF z
<1>5. z - 1 \in 1..Len(cstack) /\ z - 2 \in 1..Len(cstack) /\ z - 1 - 1 = z - 2 /\ z - 2 - 1 = z - 3
  BY <1>1, <1>2 DEF z
<1>6. popped = Append(u, cstack[z - 1]) /\ u \in Seq(Frames) /\ cstack[z - 1] \in Frames
  <2>. DEFINE i == z - 1
  <2>1. i \in 1..Len(cstack) /\ i - 1 = z - 2
    BY <1>5
  <2>. HIDE DEF i
  <2>2. /\ SubSeq(cstack, 1, i) = Append(SubSeq(cstack, 1, i - 1), cstack[i])
        /\ SubSeq(cstack, 1, i - 1) \in Seq(Frames) /\ cstack[i] \in Frames
    BY <1>1, <2>1, TopPart
  <2>. QED BY <1>1, <2>1, <2>2 DEF i
<1>7. u = Append(w, f) /\ w \in Seq(Frames) /\ f \in Frames
  <2>. DEFINE i == z - 2
  <2>1. i \in 1..Len(cstack) /\ i - 1 = z - 3
    BY <1>5
  <2>. HIDE DEF i
  <2>2. /\ SubSeq(cstack, 1, i) = Append(SubSeq(cstack, 1, i - 1), cstack[i])
        /\ SubSeq(cstack, 1, i - 1) \in Seq(Frames) /\ cstack[i] \in Frames
    BY <1>1, <2>1, TopPart
  <2>. QED BY <2>1, <2>2 DEF i
<1>8. framesOf(w, running) = {}
  <2>. DEFINE i == z - 2
  <2>1. i \in 1..Len(cstack) /\ i - 1 = z - 3
    BY <1>5
  <2>. HIDE DEF i
  <2>2. Placed(cstack[i], SubSeq(cstack, 1, i - 1))
    BY <1>1, <2>1 DEF Stack
  <2>3. Placed(f, w)
    BY <2>1, <2>2 DEF i
  <2>. HIDE DEF w, f
  <2>. QED BY <1>2, <2>3 DEF Placed
<1>. DEFINE g == cstack[z - 1]
<1>. HIDE DEF w, u, f, g
<1>9. callinfos(u, running) = <<"base">>
  <2>1. callinfos(w, running) = <<"base">>
    BY <1>7, <1>8, NoFrames
  <2>2. infos(f) = <<>>
    BY <1>2, <1>7, InfosFacts
  <2>3. callinfos(u, running) = callinfos(w, running) \o infos(f)
    BY <1>2, <1>7, CallinfosAppend
  <2>4. <<"base">> \o <<>> = <<"base">>
    OBVIOUS
  <2>. QED BY <2>1, <2>2, <2>3, <2>4
<1>10. callinfos(popped, running) = <<"base">> \o infos(g)
  <2>1. g \in Frames /\ g.th = running /\ popped = Append(u, g)
    BY <1>2, <1>6 DEF g
  <2>. QED BY <1>6, <1>9, <2>1, CallinfosAppend
<1>11. g.n \in Nat \ {0} /\ infos(g) = Luas(g.n)
  <2>1. g \in Frames /\ g.k = "execute"
    BY <1>2, <1>6 DEF g
  <2>. QED BY <2>1, FrameFacts, InfosFacts DEF Luas
<1>12. infos(top) \in {<<>>, <<"C">>}
  <2>1. top.k = "cfun" => infos(top) = <<"C">>
    BY <1>1, InfosFacts
  <2>2. top.k = "hook" => infos(top) = <<>>
    BY <1>1, InfosFacts
  <2>. QED BY <2>1, <2>2
<1>. QED BY <1>3, <1>4, <1>10, <1>11, <1>12, YieldInfos

\* lua_yield marks the running coroutine as suspended.
LEMMA YieldStep ==
  ASSUME IInv, lua_yield
  PROVE  IInv'
<1>1. ctl = "run" /\ top.k \in {"cfun", "hook"}
  BY DEF lua_yield, run
<1>2. CASE ~mayyield(me)
  <2>1. ctl' = "errormsg" /\ UNCHANGED <<L, cstack>>
    BY <1>2 DEF lua_yield
  <2>. QED BY <1>1, <2>1, ErrormsgControl, ControlStep
<1>3. CASE mayyield(me)
  <2>. DEFINE b == IF top.k = "hook" THEN TRUE ELSE me.allowhook
              m == [me EXCEPT !.status = "LUA_YIELD", !.allowhook = b]
              z == Len(cstack)
  <2>1. L' = [L EXCEPT ![running] = m] /\ cstack' = popped /\ ctl' = "yielded"
    BY <1>3 DEF lua_yield, set
  <2>2. /\ running \in Threads /\ me \in States /\ L \in [Threads -> States] /\ Limits(L) /\ me.nCcalls < LIMIT
        /\ Stack(popped) /\ popped \in Seq(Frames) /\ Len(popped) = z - 1 /\ Saved(top, popped)
        /\ z \in Nat \ {0} /\ cstack = Append(popped, top) /\ top.th = running /\ me = L[running] /\ cstack \in Seq(Frames)
    BY <1>1, Current
  <2>3. Yielded(me.ci)
    BY <1>1, <1>3, YieldRecord
  <2>4. z > 2 /\ cstack[z - 1].k = "execute" /\ cstack[z - 2].k = "resume" /\ cstack[z - 1].th = running
    BY <1>1, <1>3, YieldShape
  <2>5. /\ me.nCcalls = Total(popped) + weight(top) /\ Total(popped) \in Nat /\ Len(me.ci) <= me.size_ci
        /\ top.k \notin {"hook", "gctm"} => (me.allowhook <=> hooksOn(popped, running))
        /\ me.errorJmp = greatest(protectedOf(popped, running)) /\ me.errfunc = handlerOf(popped, running)
    BY <1>1, PopFacts
  <2>6. weight(top) = 0 /\ (top.k = "hook" => hooksOn(popped, running))
    BY <1>1, <2>2 DEF weight, Saved
  <2>7. /\ m \in States /\ m.status = "LUA_YIELD" /\ m.allowhook = b /\ m.ci = me.ci /\ m.size_ci = me.size_ci
        /\ m.nCcalls = me.nCcalls /\ m.baseCcalls = me.baseCcalls /\ m.errorJmp = me.errorJmp /\ m.errfunc = me.errfunc
    <3>1. b \in BOOLEAN /\ me \in States
      BY <2>2 DEF States
    <3>. HIDE DEF b
    <3>. QED BY ONLY <3>1 DEF States, m
  <2>8. b <=> hooksOn(popped, running)
    BY <1>1, <2>5, <2>6
  <2>. HIDE DEF m, b
  <2>9. /\ z - 1 \in 1..z - 1 /\ z - 2 \in 1..z - 1 /\ z - 1 - 1 = z - 2 /\ z - 1 > 1
        /\ popped[z - 1] = cstack[z - 1] /\ popped[z - 2] = cstack[z - 2] /\ popped # <<>>
    <3>1. z - 1 \in 1..z - 1 /\ z - 2 \in 1..z - 1 /\ z - 1 - 1 = z - 2 /\ z - 1 > 1 /\ z - 1 \in 0..Len(cstack)
      BY <2>2, <2>4
    <3>2. \A i \in 1..z - 1 : popped[i] = cstack[i]
      BY <2>2, <3>1, Prefix DEF popped
    <3>. QED BY <2>2, <3>1, <3>2
  <2>. HIDE DEF z
  <2>10. popped[Len(popped)].k = "execute" /\ popped[Len(popped)].th = running
         /\ Len(popped) > 1 /\ popped[Len(popped) - 1].k = "resume"
    BY <2>2, <2>4, <2>9
  <2>11. Count(popped, running) = Total(popped) /\ framesOf(popped, running) # {}
    <3>1. framesOf(popped, running) # {}
      BY <2>2, <2>9, <2>10, TopFrames
    <3>. QED BY <2>2, <2>10, <3>1, CountTop
  <2>12. Account(m, popped, running)
    <3>1. m.nCcalls = Total(popped)
      BY <2>5, <2>6, <2>7
    <3>. QED BY <2>3, <2>5, <2>7, <2>8, <2>11, <3>1 DEF Account
  <2>13. /\ Alike(cstack, popped, running) /\ Accounts(L, cstack) /\ Bases(L, cstack)
         /\ \A t \in Threads \ {running} : framesOf(popped, t) # {} => L[t].status = "0"
    BY <1>1, CutTop
  <2>14. Accounts(L', popped) /\ Bases(L', popped)
    <3>1. m.baseCcalls = L[running].baseCcalls /\ m \in States
      BY <2>2, <2>7
    <3>. QED BY <2>1, <2>2, <2>12, <2>13, <3>1, Change
  <2>15. L'[running] = m /\ \A t \in Threads \ {running} : L'[t] = L[t]
    BY <2>1, <2>2
  <2>16. Active(L', popped, "yielded")
    BY <2>7, <2>10, <2>13, <2>15 DEF Active
  <2>17. Control(L', popped, "yielded")
    BY <2>7, <2>9, <2>10, <2>15 DEF Control
  <2>18. Limits(L')
    <3>1. m.nCcalls < LIMIT
      BY <2>2, <2>7
    <3>. QED BY <2>2, <2>15, <3>1 DEF Limits, LIMIT
  <2>. QED BY <2>1, <2>2, <2>14, <2>16, <2>17, <2>18 DEF IInv, Good
<1>. QED BY <1>2, <1>3

\* A yield leaves the C functions of the coroutine one by one, down to its lua_resume.
LEMMA YieldingStep ==
  ASSUME IInv, yielding
  PROVE  IInv'
<1>. DEFINE z == Len(cstack)
<1>1. ctl = "yielded" /\ ctl' = "returned" /\ L' = L /\ cstack' = IF top.k = "execute" THEN popped ELSE cstack
  BY DEF yielding
<1>2. /\ running \in Threads /\ me \in States /\ L \in [Threads -> States] /\ Limits(L)
      /\ Stack(popped) /\ popped \in Seq(Frames) /\ Len(popped) = z - 1 /\ Placed(top, popped)
      /\ z \in Nat \ {0} /\ top.th = running /\ me = L[running] /\ cstack \in Seq(Frames)
      /\ cstack # <<>> /\ cstack[z] = top /\ Account(me, cstack, running) /\ me.nCcalls = Total(cstack)
  BY <1>1, Current
<1>3. top.k = "execute" /\ me.status = "LUA_YIELD" /\ z > 1 /\ cstack[z - 1].k = "resume"
  BY <1>1, <1>2 DEF IInv, Good, Control
<1>4. popped[Len(popped)] = cstack[z - 1] /\ popped # <<>>
  <2>1. z - 1 \in 1..z - 1 /\ z - 1 \in 0..Len(cstack) /\ z - 1 > 0
    BY <1>2, <1>3
  <2>2. \A i \in 1..z - 1 : popped[i] = cstack[i]
    BY <1>2, <2>1, Prefix DEF popped
  <2>. QED BY <1>2, <2>1, <2>2
<1>. HIDE DEF z
<1>5. popped[Len(popped)].k = "resume" /\ popped[Len(popped)].th = running
  BY <1>2, <1>3, <1>4 DEF Placed
<1>6. Count(popped, running) = Total(popped)
  <2>1. framesOf(popped, running) # {}
    BY <1>2, <1>4, <1>5, TopFrames
  <2>. QED BY <1>2, <1>5, <2>1, CountTop
<1>7. /\ Total(cstack) = Total(popped) + weight(top) /\ Total(popped) \in Nat
      /\ hooksOn(cstack, running) <=> hooksOn(popped, running)
      /\ greatest(protectedOf(cstack, running)) = greatest(protectedOf(popped, running))
      /\ handlerOf(cstack, running) = handlerOf(popped, running)
  BY <1>1, <1>3, Below
<1>8. me.nCcalls = Total(popped)
  <2>1. weight(top) = 0
    BY <1>3 DEF weight
  <2>. QED BY <1>2, <1>7, <2>1
<1>9. Account(me, popped, running)
  BY <1>2, <1>3, <1>6, <1>7, <1>8 DEF Account
<1>10. /\ Alike(cstack, popped, running) /\ Accounts(L, cstack) /\ Bases(L, cstack)
       /\ \A t \in Threads \ {running} : framesOf(popped, t) # {} => L[t].status = "0"
  BY <1>1, CutTop
<1>11. L = [L EXCEPT ![running] = me]
  BY <1>2
<1>12. Accounts(L, popped) /\ Bases(L, popped)
  BY <1>2, <1>9, <1>10, <1>11, Change
<1>13. Active(L, popped, "returned")
  BY <1>2, <1>3, <1>5, <1>10 DEF Active
<1>14. Control(L, popped, "returned")
  BY <1>4, <1>5 DEF Control, Codes
<1>15. cstack' = popped
  BY <1>1, <1>3
<1>. QED BY <1>1, <1>2, <1>12, <1>13, <1>14, <1>15 DEF IInv, Good

(***************************************************************************)
(* The theorem.                                                            *)
(***************************************************************************)

\* The stack with which lua.c calls pmain.
LEMMA FirstStack ==
  ASSUME Init
  PROVE  /\ Stack(cstack) /\ Len(cstack) = 2 /\ cstack[2].k = "call" /\ cstack[1].k = "pcall"
         /\ cstack[1].th = Main /\ cstack[2].th = Main
         /\ Total(cstack) = 1 /\ \A t \in Threads \ {Main} : framesOf(cstack, t) = {}
         /\ framesOf(cstack, Main) # {} /\ hooksOn(cstack, Main) /\ handlerOf(cstack, Main) = "none"
         /\ greatest(protectedOf(cstack, Main)) = 1 /\ callinfos(cstack, Main) = <<"base">>
<1>. DEFINE f == [k |-> "pcall", th |-> Main, ef |-> "none", nCcalls |-> 0, ci |-> 1,
                  allowhook |-> TRUE, errfunc |-> "none", previous |-> 0]
            g == Frame("call", Main)
            e == SubSeq(<<f>>, 1, 0)
            p == Append(e, f)
            q == Append(p, g)
<1>1. Main \in Threads
  BY ConstantsAssumption
<1>2. /\ f \in Frames /\ f.k = "pcall" /\ f.th = Main /\ f.ef = "none" /\ f.nCcalls = 0 /\ f.ci = 1
      /\ f.allowhook = TRUE /\ f.errfunc = "none" /\ f.previous = 0 /\ weight(f) = 0
  <2>1. "none" \in Handlers /\ 0 \in Nat /\ 1 \in Nat
    BY DEF Handlers
  <2>. QED BY <1>1, <2>1, NewFrames DEF weight
<1>3. g \in Frames /\ g.k = "call" /\ g.th = Main /\ weight(g) = 1
  BY <1>1, NewFrames DEF Frame, weight
<1>4. cstack = <<f, g>>
  BY DEF Init
<1>. HIDE DEF f, g
<1>5. e = <<>> /\ e \in Seq(Frames) /\ Len(e) = 0
  <2>1. <<f>> \in Seq(Frames) /\ 0 \in 0..Len(<<f>>)
    BY <1>2
  <2>. QED BY <2>1, Prefix
<1>. HIDE DEF e
<1>6. p = <<f>> /\ p \in Seq(Frames) /\ Len(p) = 1 /\ p[1] = f /\ p # <<>>
  BY <1>2, <1>5
<1>. HIDE DEF p
<1>7. q = <<f, g>> /\ q \in Seq(Frames) /\ Len(q) = 2 /\ q[1] = f /\ q[2] = g
  <2>1. q \in Seq(Frames) /\ Len(q) = Len(p) + 1 /\ q[Len(p) + 1] = g /\ \A i \in 1..Len(p) : q[i] = p[i]
    BY <1>3, <1>6, Appended
  <2>. HIDE DEF q
  <2>2. Len(q) = 2 /\ q[1] = f /\ q[2] = g
    BY <1>6, <2>1
  <2>3. <<f, g>> \in Seq(Frames) /\ Len(<<f, g>>) = 2 /\ <<f, g>>[1] = f /\ <<f, g>>[2] = g
    BY <1>2, <1>3
  <2>. DEFINE v == <<f, g>>
  <2>. HIDE DEF v
  <2>4. v \in Seq(Frames) /\ Len(v) = 2 /\ v[1] = f /\ v[2] = g
    BY <2>3 DEF v
  <2>5. \A i \in 1..2 : q[i] = v[i]
    BY <2>2, <2>4
  <2>6. q = v
    BY <2>1, <2>2, <2>4, <2>5, SeqEqual
  <2>. QED BY <2>1, <2>2, <2>6 DEF v
<1>. HIDE DEF q
<1>8. framesOf(e, Main) = {}
  BY <1>5 DEF framesOf
<1>9. /\ callinfos(e, Main) = <<"base">> /\ hooksOn(e, Main)
      /\ handlerOf(e, Main) = "none" /\ greatest(protectedOf(e, Main)) = 0
  BY <1>5, <1>8, NoFrames
<1>10. Total(e) = 0 /\ Total(p) = 0 /\ Total(q) = 1
  <2>1. Total(e) = 0
    BY <1>5, TotalFacts
  <2>2. Total(p) = Total(e) + 0
    BY <1>2, <1>5, TotalFacts DEF p
  <2>3. Total(q) = Total(p) + 1
    BY <1>3, <1>6, TotalFacts DEF q
  <2>. QED BY <2>1, <2>2, <2>3
<1>11. Stack(e)
  BY <1>5 DEF Stack
<1>12. Stack(p)
  <2>1. Placed(f, e)
    BY <1>2, <1>5 DEF Placed
  <2>2. Saved(f, e)
    <3>1. 0 < LUAI_MAXCCALLS + EXTRACCALLS
      BY LimitFacts
    <3>2. Len(<<"base">>) = 1
      OBVIOUS
    <3>. QED BY <1>2, <1>9, <1>10, <3>1, <3>2 DEF Saved
  <2>. QED BY <1>2, <1>11, <2>1, <2>2, StackAppend DEF p
<1>13. Stack(q)
  <2>1. "pcall" \in below["call"]
    BY DEF below, Kinds, Codes
  <2>2. Placed(g, p)
    BY <1>2, <1>3, <1>6, <2>1 DEF Placed
  <2>3. Saved(g, p)
    BY <1>3 DEF Saved
  <2>. QED BY <1>3, <1>12, <2>2, <2>3, StackAppend DEF q
<1>14. \A t \in Threads \ {Main} : framesOf(q, t) = {}
  BY <1>2, <1>3, <1>7 DEF framesOf
<1>15. infos(f) = <<>> /\ infos(g) = <<>>
  BY <1>2, <1>3, InfosFacts
<1>16. /\ hooksOn(p, Main) /\ handlerOf(p, Main) = "none" /\ greatest(protectedOf(p, Main)) = 1
       /\ callinfos(p, Main) = <<"base">>
  <2>1. LET ds == Append(e, f)
        IN  /\ greatest(protectedOf(ds, Main)) =
                 IF f.k \in {"pcall", "resume"} THEN Len(e) + 1 ELSE greatest(protectedOf(e, Main))
            /\ hooksOn(ds, Main) <=> hooksOn(e, Main) /\ f.k \notin {"hook", "gctm"}
            /\ handlerOf(ds, Main) = IF f.k = "pcall" THEN f.ef ELSE handlerOf(e, Main)
            /\ callinfos(ds, Main) = callinfos(e, Main) \o infos(f)
    BY <1>2, <1>5, Own
  <2>2. <<"base">> \o <<>> = <<"base">>
    OBVIOUS
  <2>. QED BY <1>2, <1>5, <1>9, <1>15, <2>1, <2>2 DEF p
<1>17. /\ hooksOn(q, Main) /\ handlerOf(q, Main) = "none" /\ greatest(protectedOf(q, Main)) = 1
       /\ callinfos(q, Main) = <<"base">> /\ framesOf(q, Main) # {}
  <2>1. LET ds == Append(p, g)
        IN  /\ greatest(protectedOf(ds, Main)) =
                 IF g.k \in {"pcall", "resume"} THEN Len(p) + 1 ELSE greatest(protectedOf(p, Main))
            /\ hooksOn(ds, Main) <=> hooksOn(p, Main) /\ g.k \notin {"hook", "gctm"}
            /\ handlerOf(ds, Main) = IF g.k = "pcall" THEN g.ef ELSE handlerOf(p, Main)
            /\ callinfos(ds, Main) = callinfos(p, Main) \o infos(g)
            /\ framesOf(ds, Main) = framesOf(p, Main) \cup {Len(p) + 1}
    BY <1>3, <1>6, Own
  <2>2. <<"base">> \o <<>> = <<"base">>
    OBVIOUS
  <2>. QED BY <1>3, <1>6, <1>15, <1>16, <2>1, <2>2 DEF q
<1>. QED BY <1>2, <1>3, <1>4, <1>7, <1>10, <1>13, <1>14, <1>17

\* The state in which pmain is called is good.
LEMMA InitGood ==
  ASSUME Init
  PROVE  IInv
<1>1. /\ Stack(cstack) /\ Len(cstack) = 2 /\ cstack[2].k = "call" /\ cstack[1].k = "pcall"
      /\ cstack[1].th = Main /\ cstack[2].th = Main
      /\ Total(cstack) = 1 /\ \A t \in Threads \ {Main} : framesOf(cstack, t) = {}
      /\ framesOf(cstack, Main) # {} /\ hooksOn(cstack, Main) /\ handlerOf(cstack, Main) = "none"
      /\ greatest(protectedOf(cstack, Main)) = 1 /\ callinfos(cstack, Main) = <<"base">>
  BY FirstStack
<1>. DEFINE m == [newthread("none") EXCEPT !.nCcalls = 1, !.errorJmp = 1]
<1>2. Main \in Threads /\ BASIC_CI_SIZE \in Nat \ {0} /\ 1 < LUAI_MAXCCALLS + EXTRACCALLS
      /\ 0 < LUAI_MAXCCALLS + EXTRACCALLS /\ 0 \in 0..LUAI_MAXCCALLS
  BY LimitFacts
<1>3. /\ m.status = "0" /\ m.ci = <<"base">> /\ m.size_ci = BASIC_CI_SIZE /\ m.nCcalls = 1
      /\ m.baseCcalls = 0 /\ m.allowhook = TRUE /\ m.errfunc = "none" /\ m.errorJmp = 1 /\ m \in States
  <2>1. <<"base">> \in Seq(Infos)
    BY DEF Infos
  <2>. QED BY <1>2, <2>1 DEF newthread, States, Handlers
<1>4. /\ NoThread.status = "none" /\ NoThread.ci = <<"base">> /\ NoThread.size_ci = BASIC_CI_SIZE
      /\ NoThread.nCcalls = 0 /\ NoThread.baseCcalls = 0 /\ NoThread.allowhook = TRUE
      /\ NoThread.errfunc = "none" /\ NoThread.errorJmp = 0 /\ NoThread \in States
  <2>1. <<"base">> \in Seq(Infos)
    BY DEF Infos
  <2>. QED BY <1>2, <2>1 DEF newthread, States, Handlers, NoThread
<1>5. L = [t \in Threads |-> IF t = Main THEN m ELSE NoThread] /\ ctl = "precall"
  BY DEF Init
<1>. HIDE DEF m
<1>6. L \in [Threads -> States] /\ L[Main] = m /\ \A t \in Threads \ {Main} : L[t] = NoThread
  BY <1>2, <1>3, <1>4, <1>5
<1>7. Len(<<"base">>) <= BASIC_CI_SIZE
  <2>1. Len(<<"base">>) = 1
    OBVIOUS
  <2>. QED BY <1>2, <2>1
<1>8. Account(m, cstack, Main)
  <2>1. Count(cstack, Main) = Total(cstack)
    BY <1>1, CountTop
  <2>. QED BY <1>1, <1>3, <1>7, <2>1 DEF Account
<1>9. ASSUME NEW t \in Threads \ {Main} PROVE Account(NoThread, cstack, t)
  <2>1. framesOf(cstack, t) = {} /\ cstack \in Seq(Frames)
    BY <1>1 DEF Stack
  <2>2. hooksOn(cstack, t) /\ handlerOf(cstack, t) = "none" /\ greatest(protectedOf(cstack, t)) = 0
    BY <2>1, NoFrames
  <2>. QED BY <1>4, <1>7, <2>1, <2>2 DEF Account
<1>10. Accounts(L, cstack)
  BY <1>6, <1>8, <1>9 DEF Accounts
<1>11. Bases(L, cstack)
  <2>1. \A i \in 1..Len(cstack) : cstack[i].k # "resume"
    BY <1>1
  <2>. QED BY <1>3, <1>6, <2>1 DEF Bases
<1>12. Limits(L)
  BY <1>2, <1>3, <1>4, <1>6 DEF Limits
<1>13. Active(L, cstack, ctl)
  BY <1>1, <1>3, <1>6 DEF Active
<1>14. Control(L, cstack, ctl)
  <2>1. cstack # <<>> /\ cstack[Len(cstack)].k = "call"
    BY <1>1
  <2>. QED BY <1>5, <2>1 DEF Control
<1>. QED BY <1>1, <1>10, <1>11, <1>12, <1>13, <1>14 DEF IInv, Good

\* Every step leaves the record of each thread what the stack says of it.
LEMMA NextGood ==
  ASSUME IInv, [Next]_vars
  PROVE  IInv'
<1>1. CASE UNCHANGED vars
  BY <1>1 DEF vars, IInv
<1>2. CASE Instructions
  <2>1. CASE OP_CALL
    BY <2>1, PlainSteps
  <2>2. CASE OP_TAILCALL
    BY <2>2, TailcallStep
  <2>3. CASE OP_RETURN
    BY <2>3, ReturnStep
  <2>4. CASE callTM
    BY <2>4, PlainCallStep
  <2>. QED BY <1>2, <2>1, <2>2, <2>3, <2>4 DEF Instructions
<1>3. CASE Calls
  <2>1. ASSUME NEW f \in {"Lua", "C"}, luaD_precall(f) PROVE IInv'
    BY <2>1, PrecallStep
  <2>2. CASE tryfuncTM
    BY <2>2, PlainSteps
  <2>3. CASE luaD_call_end
    BY <2>3, CallEndStep
  <2>4. CASE lua_call
    BY <2>4, PlainCallStep
  <2>5. CASE luaD_poscall
    BY <2>5, PoscallStep
  <2>. QED BY <1>3, <2>1, <2>2, <2>3, <2>4, <2>5 DEF Calls
<1>4. CASE Protected
  <2>1. ASSUME NEW ef \in Handlers, lua_pcall(ef) PROVE IInv'
    BY <2>1, PcallStep
  <2>2. CASE luaD_pcall_end
    BY <2>2, PcallEndStep
  <2>3. CASE luaD_protectedparser
    BY <2>3, ParserStep
  <2>4. CASE enterlevel \/ leavelevel
    BY <2>4, LevelSteps
  <2>5. CASE f_parser_end
    BY <2>5, ParserEndStep
  <2>6. CASE luaX_lexerror
    BY <2>6, PlainSteps
  <2>. QED BY <1>4, <2>1, <2>2, <2>3, <2>4, <2>5, <2>6 DEF Protected
<1>5. CASE Raises
  <2>1. CASE luaG_errormsg
    BY <2>1, ErrormsgStep
  <2>2. CASE luaG_runerror \/ luaM_realloc_fails \/ luaG_errormsg_end
    BY <2>2, PlainSteps
  <2>. QED BY <1>5, <2>1, <2>2 DEF Raises
<1>6. CASE Interruptions
  <2>1. CASE luaD_callhook
    BY <2>1, HookStep
  <2>2. CASE luaD_callhook_end
    BY <2>2, HookEndStep
  <2>3. CASE GCTM
    BY <2>3, GctmStep
  <2>4. CASE GCTM_end
    BY <2>4, GctmEndStep
  <2>5. ASSUME NEW t \in Threads, checkstacksizes(t) PROVE IInv'
    BY <2>5, ShrinkStep
  <2>. QED BY <1>6, <2>1, <2>2, <2>3, <2>4, <2>5 DEF Interruptions
<1>7. CASE Coroutines
  <2>1. ASSUME NEW co \in Threads, luaB_cocreate(co) PROVE IInv'
    BY <2>1, CreateStep
  <2>2. ASSUME NEW co \in Threads, lua_resume(co) PROVE IInv'
    BY <2>2, ResumeStep
  <2>3. ASSUME NEW co \in Threads, resume_error(co) PROVE IInv'
    BY <2>3, ResumeErrorStep
  <2>4. CASE lua_resume_end
    BY <2>4, ResumeEndStep
  <2>5. CASE lua_yield
    BY <2>5, YieldStep
  <2>6. CASE yielding
    BY <2>6, YieldingStep
  <2>. QED BY <1>7, <2>1, <2>2, <2>3, <2>4, <2>5, <2>6 DEF Coroutines
<1>8. CASE ended
  BY <1>8 DEF ended, vars, IInv
<1>. QED BY <1>1, <1>2, <1>3, <1>4, <1>5, <1>6, <1>7, <1>8 DEF Next

\* In every reachable state of calls, errors and coroutines, for any number of
\* threads, any limits and any depth, the C stack is one that the code can
\* build, and what each lua_State holds is what the C stack says of its thread.
THEOREM RecordsFollowStack == Spec => []IInv
<1>1. Init => IInv
  BY InitGood
<1>2. IInv /\ [Next]_vars => IInv'
  BY NextGood
<1>. QED BY <1>1, <1>2, PTL DEF Spec

\* The facts of the invariant about one thread.
LEMMA GoodThread ==
  ASSUME IInv, NEW t \in Threads
  PROVE  /\ L[t] \in States /\ Account(L[t], cstack, t) /\ L[t].nCcalls < LIMIT
         /\ cstack \in Seq(Frames) /\ Len(cstack) \in Nat
BY DEF IInv, Good, Accounts, Limits, LIMIT, Stack

\* The type invariant of the model: in particular the count of C calls of no
\* thread passes LUAI_MAXCCALLS + EXTRACCALLS.
THEOREM Typed == Spec => []TypeOK
<1>1. ASSUME IInv PROVE TypeOK
  <2>1. ASSUME NEW t \in Threads
        PROVE  /\ L[t].status \in {"none", "0", "LUA_YIELD", "error"}
               /\ L[t].ci \in Seq({"base", "Lua", "C"})
               /\ L[t].nCcalls \in 0..(LUAI_MAXCCALLS + EXTRACCALLS)
               /\ L[t].baseCcalls \in 0..LUAI_MAXCCALLS
               /\ L[t].allowhook \in BOOLEAN
               /\ L[t].errfunc \in Handlers
               /\ L[t].errorJmp \in 0..Len(cstack)
               /\ L[t].top \in {"none", "function", "results"}
    <3>1. /\ L[t] \in States /\ Account(L[t], cstack, t) /\ L[t].nCcalls < LIMIT
          /\ cstack \in Seq(Frames) /\ Len(cstack) \in Nat
      BY <1>1, GoodThread
    <3>2. L[t].errorJmp = greatest(protectedOf(cstack, t))
      BY <3>1 DEF Account
    <3>3. greatest(protectedOf(cstack, t)) \in 0..Len(cstack)
      <4>1. protectedOf(cstack, t) \subseteq 1..Len(cstack)
        BY FramesBounded
      <4>2. greatest(protectedOf(cstack, t)) = 0 \/ greatest(protectedOf(cstack, t)) \in protectedOf(cstack, t)
        BY <3>1, <4>1, GreatestFacts
      <4>. QED BY <3>1, <4>1, <4>2
    <3>4. L[t].nCcalls \in 0..(LUAI_MAXCCALLS + EXTRACCALLS)
      <4>1. L[t].nCcalls \in Nat
        BY <3>1 DEF States
      <4>2. LIMIT \in Nat /\ LIMIT = LUAI_MAXCCALLS + EXTRACCALLS
        BY LimitFacts DEF LIMIT
      <4>. QED BY <3>1, <4>1, <4>2
    <3>. QED BY <3>1, <3>2, <3>3, <3>4 DEF States, Infos
  <2>2. \A i \in 1..Len(cstack) : cstack[i].th \in Threads
    BY <1>1, StackOrder DEF IInv, Good
  <2>3. ctl \in {"run", "precall", "returned", "errormsg", "yielded", "exit"}
    BY <1>1 DEF IInv, Good, Control
  <2>. QED BY <2>1, <2>2, <2>3 DEF TypeOK
<1>. QED BY <1>1, RecordsFollowStack, PTL

\* The C-call counter of every thread with frames on the C stack is exactly the
\* number of C calls below its last frame, after any sequence of calls, parses,
\* errors, resumes and yields.
THEOREM CountsExact == Spec => []CCallsExact
<1>1. ASSUME IInv PROVE CCallsExact
  <2>1. ASSUME NEW t \in Threads, framesOf(cstack, t) # {}
        PROVE  L[t].nCcalls = Ccalls(cstack)[greatest(framesOf(cstack, t))]
    BY <1>1, <2>1, GoodThread DEF Account, Count
  <2>. QED BY <2>1 DEF CCallsExact
<1>. QED BY <1>1, RecordsFollowStack, PTL

\* The CallInfos of a thread are those of its C functions, and a suspended
\* coroutine has left what one luaV_execute takes up again.
THEOREM CallInfosMatch == Spec => []CallInfoMatches
<1>1. ASSUME IInv PROVE CallInfoMatches
  <2>1. ASSUME NEW t \in Threads
        PROVE  /\ framesOf(cstack, t) # {} /\ L[t].status = "0" => L[t].ci = callinfos(cstack, t)
               /\ framesOf(cstack, t) = {} /\ L[t].status = "0" => L[t].ci = <<"base">>
               /\ framesOf(cstack, t) = {} /\ L[t].status = "LUA_YIELD" =>
                    Len(L[t].ci) > 1 /\ \A i \in 2..(Len(L[t].ci) - 1) : L[t].ci[i] = "Lua"
    <3>1. Account(L[t], cstack, t) /\ cstack \in Seq(Frames)
      BY <1>1, GoodThread
    <3>2. framesOf(cstack, t) = {} => callinfos(cstack, t) = <<"base">>
      BY <3>1, NoFrames
    <3>. QED BY <3>1, <3>2 DEF Account, Yielded
  <2>. QED BY <2>1 DEF CallInfoMatches
<1>. QED BY <1>1, RecordsFollowStack, PTL

\* No thread ever has more CallInfos than its array has places, whatever growCI,
\* the collector and the recovery from an overflow do to its size.
THEOREM CallInfosAlwaysFit == Spec => []CallInfosFit
<1>1. ASSUME IInv PROVE CallInfosFit
  BY <1>1, GoodThread DEF Account, CallInfosFit
<1>. QED BY <1>1, RecordsFollowStack, PTL

\* Hooks are off in a thread exactly while one of its hooks or __gc metamethods
\* is on the C stack, however those end.
THEOREM HookFlagExact == Spec => []HookFlag
<1>1. ASSUME IInv PROVE HookFlag
  BY <1>1, GoodThread DEF Account, HookFlag
<1>. QED BY <1>1, RecordsFollowStack, PTL

\* Every thread's longjmp chain and message handler are those of its protected
\* calls on the C stack, and the running thread always has a buffer, above every
\* other: an error is always caught, and never by another thread's call.
THEOREM ErrorsCaught == Spec => []ErrorHandlers
<1>1. ASSUME IInv PROVE ErrorHandlers
  <2>1. \A t \in Threads : L[t].errorJmp = greatest(protectedOf(cstack, t)) /\ L[t].errfunc = handlerOf(cstack, t)
    BY <1>1, GoodThread DEF Account
  <2>2. ASSUME ctl # "exit"
        PROVE  me.errorJmp = greatest(UNION {protectedOf(cstack, t) : t \in Threads}) /\ me.errorJmp # 0
    <3>. DEFINE j == greatest(protectedOf(cstack, running))
                X == UNION {protectedOf(cstack, t) : t \in Threads}
    <3>1. /\ Stack(cstack) /\ cstack # <<>> /\ running = cstack[Len(cstack)].th /\ running \in Threads
          /\ me = L[running] /\ Len(cstack) \in Nat
      BY <1>1, <2>2, Current
    <3>2. me.errorJmp = j
      BY <2>1, <3>1
    <3>3. /\ j \in 1..Len(cstack) /\ cstack[j].th = running /\ cstack[j].k \in {"pcall", "resume"}
          /\ \A i \in 1..Len(cstack) : cstack[i].k \in {"pcall", "resume"} => i <= j
      BY <3>1, LastBuffer
    <3>. HIDE DEF j
    <3>4. X \subseteq 1..Len(cstack)
      BY FramesBounded
    <3>5. \A i \in X : i <= j
      BY <3>3 DEF protectedOf, framesOf
    <3>6. j \in X
      BY <3>1, <3>3 DEF protectedOf, framesOf
    <3>. HIDE DEF X
    <3>7. greatest(X) = j
      BY <3>1, <3>4, <3>5, <3>6, GreatestFacts
    <3>. QED BY <3>2, <3>3, <3>7 DEF X
  <2>. QED BY <2>1, <2>2 DEF ErrorHandlers
<1>. QED BY <1>1, RecordsFollowStack, PTL
=============================================================================
