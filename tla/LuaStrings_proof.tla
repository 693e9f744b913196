--------------------------- MODULE LuaStrings_proof ---------------------------
(***************************************************************************)
(* Proofs about the table of interned strings, for any strings, any hash   *)
(* function and any history of resizes and sweeps.                         *)
(***************************************************************************)
EXTENDS LuaStringTable, LuaInduction, SequenceTheorems

Entries == [text : Texts, mark : Marks]
Chain == Seq(Entries)

\* The entries of a chain; no two of them have one text.
Els(s) == {s[k] : k \in 1 .. Len(s)}
Distinct(s) == \A k, m \in 1 .. Len(s) : s[k].text = s[m].text => k = m

\* A table of n chains, each string in the chain its hash names, and once.
Table(h, n) == h \in [0 .. n - 1 -> Chain]
InPlace(h, n) == \A c \in 0 .. n - 1 : \A k \in 1 .. Len(h[c]) : TextHash[h[c][k].text] % n = c
Sound(h, n) == Table(h, n) /\ InPlace(h, n) /\ \A c \in 0 .. n - 1 : Distinct(h[c])

\* All entries of a table, and their texts.
All(h) == {At(h, p) : p \in Places(h)}
AllTexts(h) == {e.text : e \in All(h)}

\* What the table holds.
Contents ==
  /\ size(hash) \in Nat \ {0} /\ Sound(hash, size(hash))
  /\ nuse = Cardinality(AllTexts(hash))
  /\ inUse \subseteq AllTexts(hash)

\* The colours: outside of the sweep nothing is dead; during the sweep the
\* chains behind it are white again, and no string in use is dead.
Colours ==
  /\ currentwhite \in {0, 1} /\ sweepstrgc \in Nat
  /\ strtState \in {"mark", "sweepstring", "sweep"}
  /\ strtState # "sweepstring" => \A e \in All(hash) : e.mark # otherwhite
  /\ strtState = "sweepstring" =>
       /\ sweepstrgc < size(hash)
       /\ \A c \in DOMAIN hash : \A e \in Els(hash[c]) :
            IF c < sweepstrgc THEN e.mark = currentwhite
            ELSE e.text \in inUse => e.mark # otherwhite

StrtInvariant == Contents /\ Colours

(***************************************************************************)
(* Chains.                                                                 *)
(***************************************************************************)
LEMMA ChainFacts ==
  ASSUME NEW s \in Chain
  PROVE  Len(s) \in Nat /\ (\A k \in 1 .. Len(s) : s[k] \in Entries) /\ Els(s) \subseteq Entries
  BY LenProperties, ElementOfSeq DEF Chain, Els

\* The empty chain.
LEMMA NoChain == <<>> \in Chain /\ Els(<<>>) = {} /\ Distinct(<<>>) /\ Len(<<>>) = 0
  BY DEF Chain, Els, Distinct

\* Two chains joined.
LEMMA JoinedChains ==
  ASSUME NEW s \in Chain, NEW u \in Chain
  PROVE  /\ s \o u \in Chain /\ Els(s \o u) = Els(s) \cup Els(u)
         /\ Distinct(s) /\ Distinct(u) /\ (\A d \in Els(s), e \in Els(u) : d.text # e.text) => Distinct(s \o u)
<1>1. /\ Len(s) \in Nat /\ Len(u) \in Nat
      /\ \A k \in 1 .. Len(s) : s[k] \in Els(s)
      /\ \A k \in 1 .. Len(u) : u[k] \in Els(u)
  BY ChainFacts DEF Els
<1>. DEFINE w == s \o u
<1>2. w \in Chain /\ Len(w) = Len(s) + Len(u)
      /\ \A k \in 1 .. Len(s) + Len(u) : w[k] = IF k <= Len(s) THEN s[k] ELSE u[k - Len(s)]
  BY ConcatProperties DEF Chain
<1>. HIDE DEF w
<1>3. \A k \in 1 .. Len(s) : k \in 1 .. Len(w) /\ w[k] = s[k]
  BY <1>1, <1>2
<1>4. \A k \in 1 .. Len(u) : k + Len(s) \in 1 .. Len(w) /\ w[k + Len(s)] = u[k]
  BY <1>1, <1>2
<1>5. \A k \in 1 .. Len(w) : (k \in 1 .. Len(s) /\ w[k] = s[k]) \/ (k - Len(s) \in 1 .. Len(u) /\ w[k] = u[k - Len(s)])
  BY <1>1, <1>2
<1>6. Els(w) = Els(s) \cup Els(u)
  BY <1>3, <1>4, <1>5 DEF Els
<1>7. ASSUME Distinct(s), Distinct(u), \A d \in Els(s), e \in Els(u) : d.text # e.text,
             NEW k \in 1 .. Len(w), NEW m \in 1 .. Len(w), w[k].text = w[m].text
      PROVE  k = m
  <2>1. CASE k \in 1 .. Len(s) /\ m \in 1 .. Len(s)
    <3>1. w[k] = s[k] /\ w[m] = s[m]
      BY <1>3, <2>1
    <3>. QED BY <1>7, <2>1, <3>1 DEF Distinct
  <2>2. CASE k \in 1 .. Len(s) /\ m \notin 1 .. Len(s)
    <3>1. w[k] \in Els(s) /\ w[m] \in Els(u)
      BY <1>1, <1>3, <1>5, <2>2
    <3>. QED BY <1>7, <3>1
  <2>3. CASE k \notin 1 .. Len(s) /\ m \in 1 .. Len(s)
    <3>1. w[m] \in Els(s) /\ w[k] \in Els(u)
      BY <1>1, <1>3, <1>5, <2>3
    <3>. QED BY <1>7, <3>1
  <2>4. CASE k \notin 1 .. Len(s) /\ m \notin 1 .. Len(s)
    <3>1. /\ k - Len(s) \in 1 .. Len(u) /\ w[k] = u[k - Len(s)]
          /\ m - Len(s) \in 1 .. Len(u) /\ w[m] = u[m - Len(s)]
      BY <1>5, <2>4
    <3>2. k - Len(s) = m - Len(s)
      BY <1>7, <3>1 DEF Distinct
    <3>3. k \in Int /\ m \in Int
      OBVIOUS
    <3>. QED BY <1>1, <3>2, <3>3
  <2>. QED BY <2>1, <2>2, <2>3, <2>4
<1>. QED BY <1>2, <1>6, <1>7 DEF w, Distinct

\* One entry more at the front of a chain, or at its end.
LEMMA OneMore ==
  ASSUME NEW s \in Chain, NEW e \in Entries, NEW u, u = <<e>> \o s \/ u = Append(s, e)
  PROVE  /\ u \in Chain /\ Els(u) = Els(s) \cup {e}
         /\ Distinct(s) /\ (\A d \in Els(s) : d.text # e.text) => Distinct(u)
<1>. DEFINE one == <<e>>
<1>1. one \in Chain /\ Els(one) = {e} /\ Distinct(one) /\ Append(s, e) = s \o one
  BY AppendIsConcat DEF Chain, Els, Distinct
<1>. HIDE DEF one
<1>2. u = one \o s \/ u = s \o one
  BY <1>1 DEF one
<1>3. CASE u = one \o s
  BY <1>1, <1>3, JoinedChains
<1>4. CASE u = s \o one
  BY <1>1, <1>4, JoinedChains
<1>. QED BY <1>2, <1>3, <1>4

\* A chain built from another by taking some of its entries, one by one and
\* with their texts.
LEMMA Filtered ==
  ASSUME NEW s \in Chain, NEW g \in [1 .. Len(s) -> Entries], \A k \in 1 .. Len(s) : g[k].text = s[k].text,
         NEW K \in SUBSET (1 .. Len(s)), NEW r \in [0 .. Len(s) -> Chain], r[0] = <<>>,
         \A k \in 1 .. Len(s) : IF k \in K THEN r[k] = <<g[k]>> \o r[k - 1] \/ r[k] = Append(r[k - 1], g[k])
                                           ELSE r[k] = r[k - 1]
  PROVE  /\ r[Len(s)] \in Chain /\ Els(r[Len(s)]) = {g[k] : k \in K}
         /\ Distinct(s) => Distinct(r[Len(s)])
<1>. DEFINE S == {m \in 0 .. Len(s) : /\ Els(r[m]) = {g[k] : k \in K \cap 1 .. m}
                                      /\ Distinct(s) => Distinct(r[m])}
<1>1. Len(s) \in Nat /\ r[Len(s)] \in Chain
  BY ChainFacts
<1>2. 0 \in S
  BY <1>1, NoChain
<1>3. ASSUME NEW m \in 0 .. Len(s) - 1, m \in S PROVE m + 1 \in S
  <2>1. m + 1 \in 1 .. Len(s) /\ m + 1 - 1 = m /\ r[m] \in Chain /\ g[m + 1] \in Entries /\ m + 1 \in 0 .. Len(s)
        /\ m \in 0 .. Len(s) /\ m \in Nat
    BY <1>1
  <2>2. CASE m + 1 \notin K
    <3>1. r[m + 1] = r[m] /\ K \cap 1 .. m + 1 = K \cap 1 .. m
      <4>1. r[m + 1] = r[m]
        <5>1. PICK k \in 1 .. Len(s) : k = m + 1 /\ k - 1 = m /\ k \notin K
          BY <2>1, <2>2
        <5>2. r[k] = r[k - 1]
          BY <5>1
        <5>. QED BY <5>1, <5>2
      <4>2. ASSUME NEW k \in K PROVE k \in 1 .. m + 1 <=> k \in 1 .. m
        BY <2>1, <2>2
      <4>. QED BY <4>1, <4>2
    <3>2. Els(r[m]) = {g[k] : k \in K \cap 1 .. m} /\ (Distinct(s) => Distinct(r[m]))
      BY <1>3
    <3>3. Els(r[m + 1]) = {g[k] : k \in K \cap 1 .. m + 1} /\ (Distinct(s) => Distinct(r[m + 1]))
      BY <3>1, <3>2
    <3>. QED BY <2>1, <3>3
  <2>3. CASE m + 1 \in K
    <3>1. r[m + 1] = <<g[m + 1]>> \o r[m] \/ r[m + 1] = Append(r[m], g[m + 1])
      BY <2>1, <2>3
    <3>2. /\ Els(r[m + 1]) = Els(r[m]) \cup {g[m + 1]}
          /\ Distinct(r[m]) /\ (\A d \in Els(r[m]) : d.text # g[m + 1].text) => Distinct(r[m + 1])
      <4>. DEFINE old == r[m]
                  new == r[m + 1]
                  e == g[m + 1]
      <4>1. old \in Chain /\ e \in Entries /\ (new = <<e>> \o old \/ new = Append(old, e))
        BY <2>1, <3>1
      <4>. HIDE DEF old, new, e
      <4>2. /\ Els(new) = Els(old) \cup {e}
            /\ Distinct(old) /\ (\A d \in Els(old) : d.text # e.text) => Distinct(new)
        BY <4>1, OneMore
      <4>. QED BY <4>2 DEF old, new, e
    <3>3. Els(r[m]) = {g[k] : k \in K \cap 1 .. m} /\ (Distinct(s) => Distinct(r[m]))
      BY <1>3
    <3>4. K \cap 1 .. m + 1 = (K \cap 1 .. m) \cup {m + 1}
      BY <2>1, <2>3
    <3>5. Els(r[m + 1]) = {g[k] : k \in K \cap 1 .. m + 1}
      BY <3>2, <3>3, <3>4
    <3>6. ASSUME Distinct(s) PROVE \A d \in Els(r[m]) : d.text # g[m + 1].text
      <4>1. ASSUME NEW k \in K \cap 1 .. m PROVE g[k].text # g[m + 1].text
        BY <2>1, <3>6 DEF Distinct
      <4>. QED BY <3>3, <4>1
    <3>. QED BY <2>1, <3>2, <3>3, <3>5, <3>6
  <2>. QED BY <2>2, <2>3
<1>. HIDE DEF S
<1>4. Len(s) \in S
  <2>1. 0 .. Len(s) \subseteq S
    BY <1>1, <1>2, <1>3, BoundedInduction
  <2>. QED BY <1>1, <2>1
<1>5. K \cap 1 .. Len(s) = K
  OBVIOUS
<1>. QED BY <1>1, <1>4, <1>5 DEF S

\* A chain is built by a step for each entry of another.
LEMMA Built ==
  ASSUME NEW s \in Chain, NEW g \in [1 .. Len(s) -> [Chain -> Chain]]
  PROVE  \E r \in [0 .. Len(s) -> Chain] : r[0] = <<>> /\ \A k \in 1 .. Len(s) : r[k] = g[k][r[k - 1]]
<1>1. Len(s) \in Nat /\ <<>> \in Chain
  BY ChainFacts, NoChain
<1>2. PICK r \in [0 .. Len(s) -> Chain] : IsRecursion(r, <<>>, Len(s), g)
  BY <1>1, Recursion
<1>. QED BY <1>2 DEF IsRecursion

\* The chain of a table of n chains: the entries it is for.
LEMMA Front ==
  ASSUME NEW s \in Chain, NEW c, NEW n
  PROVE  /\ front(s, c, n) \in Chain /\ Els(front(s, c, n)) = {e \in Els(s) : TextHash[e.text] % n = c}
         /\ Distinct(s) => Distinct(front(s, c, n))
<1>. DEFINE here(k) == TextHash[s[k].text] % n = c
            Step(k, v) == IF here(k) THEN <<s[k]>> \o v ELSE v
            g == [k \in 1 .. Len(s) |-> [v \in Chain |-> Step(k, v)]]
            R(f) == f = [i \in 0 .. Len(s) |-> IF i = 0 THEN <<>> ELSE IF here(i) THEN <<s[i]>> \o f[i - 1] ELSE f[i - 1]]
            K == {k \in 1 .. Len(s) : here(k)}
            images == [k \in 1 .. Len(s) |-> s[k]]
<1>1. Len(s) \in Nat /\ \A k \in 1 .. Len(s) : s[k] \in Entries
  BY ChainFacts
<1>. HIDE DEF here
<1>2. ASSUME NEW k \in 1 .. Len(s), NEW v \in Chain PROVE Step(k, v) \in Chain
  <2>1. <<s[k]>> \o v \in Chain
    BY <1>1, OneMore
  <2>. QED BY <2>1
<1>3. g \in [1 .. Len(s) -> [Chain -> Chain]]
  <2>. HIDE DEF Step
  <2>. QED BY <1>2
<1>4. PICK r \in [0 .. Len(s) -> Chain] : r[0] = <<>> /\ \A k \in 1 .. Len(s) : r[k] = g[k][r[k - 1]]
  <2>. HIDE DEF g
  <2>. QED BY <1>3, Built
<1>5. ASSUME NEW k \in 1 .. Len(s) PROVE r[k] = (IF here(k) THEN <<s[k]>> \o r[k - 1] ELSE r[k - 1]) /\ r[k - 1] \in Chain
  <2>1. k - 1 \in 0 .. Len(s)
    BY <1>1
  <2>2. r[k - 1] \in Chain /\ r[k] = g[k][r[k - 1]] /\ g[k] = [v \in Chain |-> Step(k, v)]
    BY <1>4, <2>1
  <2>. HIDE DEF g
  <2>. QED BY <2>2
<1>. HIDE DEF g
<1>6. R(r)
  <2>1. ASSUME NEW i \in 0 .. Len(s) PROVE r[i] = IF i = 0 THEN <<>> ELSE IF here(i) THEN <<s[i]>> \o r[i - 1] ELSE r[i - 1]
    <3>1. CASE i = 0
      BY <1>4, <3>1
    <3>2. CASE i # 0
      <4>1. i \in 1 .. Len(s)
        BY <1>1, <3>2
      <4>. QED BY <1>5, <3>2, <4>1
    <3>. QED BY <3>1, <3>2
  <2>. QED BY <2>1
<1>. DEFINE f == CHOOSE f2 : R(f2)
<1>7. R(f)
  <2>. HIDE DEF R
  <2>. QED BY <1>6
<1>8. front(s, c, n) = f[Len(s)]
  BY DEF front, here
<1>. HIDE DEF f
<1>9. \A i \in 0 .. Len(s) : f[i] = r[i]
  <2>1. f[0] = r[0]
    BY <1>1, <1>4, <1>7
  <2>2. ASSUME NEW i \in 1 .. Len(s), f[i - 1] = r[i - 1] PROVE f[i] = r[i]
    <3>1. i \in 0 .. Len(s) /\ i # 0
      BY <1>1
    <3>2. f[i] = IF i = 0 THEN <<>> ELSE IF here(i) THEN <<s[i]>> \o f[i - 1] ELSE f[i - 1]
      BY <1>7, <3>1
    <3>3. f[i] = IF here(i) THEN <<s[i]>> \o r[i - 1] ELSE r[i - 1]
      BY <2>2, <3>1, <3>2, Zenon
    <3>. QED BY <1>5, <3>3, Zenon
  <2>3. \A i \in 1 .. Len(s) : f[i - 1] = r[i - 1] => f[i] = r[i]
    BY <2>2
  <2>. QED BY ONLY <1>1, <2>1, <2>3, SameRecursion, ZenonT(60)
<1>10. front(s, c, n) = r[Len(s)]
  BY <1>1, <1>8, <1>9
<1>11. /\ images \in [1 .. Len(s) -> Entries] /\ K \in SUBSET (1 .. Len(s))
       /\ \A k \in 1 .. Len(s) : images[k] = s[k]
  BY <1>1
<1>12. \A k \in 1 .. Len(s) : IF k \in K THEN r[k] = <<images[k]>> \o r[k - 1] \/ r[k] = Append(r[k - 1], images[k])
                                         ELSE r[k] = r[k - 1]
  BY <1>5
<1>13. {images[k] : k \in K} = {e \in Els(s) : TextHash[e.text] % n = c}
  BY <1>11 DEF Els, here
<1>. HIDE DEF images, K
<1>14. r[Len(s)] \in Chain /\ Els(r[Len(s)]) = {images[k] : k \in K} /\ (Distinct(s) => Distinct(r[Len(s)]))
  <2>1. \A k \in 1 .. Len(s) : images[k].text = s[k].text
    BY <1>11
  <2>. QED BY <1>4, <1>11, <1>12, <2>1, Filtered
<1>. QED BY <1>10, <1>13, <1>14

\* The entries of a chain that are not dead, made white.
Living(s) == {[e EXCEPT !.mark = currentwhite] : e \in {d \in Els(s) : ~isdead(d)}}

\* A chain that is swept: its living entries, white.
LEMMA Swept ==
  ASSUME NEW s \in Chain, currentwhite \in {0, 1}
  PROVE  /\ sweepwholelist(s) \in Chain /\ (Distinct(s) => Distinct(sweepwholelist(s)))
         /\ Els(sweepwholelist(s)) = Living(s)
<1>. DEFINE dead(k) == isdead(s[k])
            white(k) == [s[k] EXCEPT !.mark = currentwhite]
            Step(k, v) == IF dead(k) THEN v ELSE Append(v, white(k))
            g == [k \in 1 .. Len(s) |-> [v \in Chain |-> Step(k, v)]]
            R(f) == f = [i \in 0 .. Len(s) |-> IF i = 0 THEN <<>> ELSE IF dead(i) THEN f[i - 1] ELSE Append(f[i - 1], white(i))]
            K == {k \in 1 .. Len(s) : ~dead(k)}
            images == [k \in 1 .. Len(s) |-> white(k)]
<1>1. Len(s) \in Nat /\ \A k \in 1 .. Len(s) : s[k] \in Entries
  BY ChainFacts
<1>2. ASSUME NEW k \in 1 .. Len(s) PROVE white(k) \in Entries /\ white(k).text = s[k].text
  BY <1>1 DEF Entries, Marks
<1>13. {white(k) : k \in K} = {[e EXCEPT !.mark = currentwhite] : e \in {d \in Els(s) : ~isdead(d)}}
  BY DEF Els
<1>. HIDE DEF dead, white
<1>3. g \in [1 .. Len(s) -> [Chain -> Chain]]
  <2>1. ASSUME NEW k \in 1 .. Len(s), NEW v \in Chain PROVE Step(k, v) \in Chain
    <3>1. Append(v, white(k)) \in Chain
      BY <1>2, OneMore
    <3>. QED BY <3>1
  <2>. HIDE DEF Step
  <2>. QED BY <2>1
<1>4. PICK r \in [0 .. Len(s) -> Chain] : r[0] = <<>> /\ \A k \in 1 .. Len(s) : r[k] = g[k][r[k - 1]]
  <2>. HIDE DEF g
  <2>. QED BY <1>3, Built
<1>5. ASSUME NEW k \in 1 .. Len(s) PROVE r[k] = (IF dead(k) THEN r[k - 1] ELSE Append(r[k - 1], white(k))) /\ r[k - 1] \in Chain
  <2>1. k - 1 \in 0 .. Len(s)
    BY <1>1
  <2>2. r[k - 1] \in Chain /\ r[k] = g[k][r[k - 1]] /\ g[k] = [v \in Chain |-> Step(k, v)]
    BY <1>4, <2>1
  <2>. HIDE DEF g
  <2>. QED BY <2>2
<1>. HIDE DEF g
<1>6. R(r)
  <2>1. ASSUME NEW i \in 0 .. Len(s) PROVE r[i] = IF i = 0 THEN <<>> ELSE IF dead(i) THEN r[i - 1] ELSE Append(r[i - 1], white(i))
    <3>1. CASE i = 0
      BY <1>4, <3>1
    <3>2. CASE i # 0
      <4>1. i \in 1 .. Len(s)
        BY <1>1, <3>2
      <4>. QED BY <1>5, <3>2, <4>1
    <3>. QED BY <3>1, <3>2
  <2>. QED BY <2>1
<1>. DEFINE f == CHOOSE f2 : R(f2)
<1>7. R(f)
  <2>. HIDE DEF R
  <2>. QED BY <1>6
<1>8. sweepwholelist(s) = f[Len(s)]
  BY DEF sweepwholelist, dead, white
<1>. HIDE DEF f
<1>9. \A i \in 0 .. Len(s) : f[i] = r[i]
  <2>1. f[0] = r[0]
    BY <1>1, <1>4, <1>7
  <2>2. ASSUME NEW i \in 1 .. Len(s), f[i - 1] = r[i - 1] PROVE f[i] = r[i]
    <3>1. i \in 0 .. Len(s) /\ i # 0
      BY <1>1
    <3>2. f[i] = IF i = 0 THEN <<>> ELSE IF dead(i) THEN f[i - 1] ELSE Append(f[i - 1], white(i))
      BY <1>7, <3>1
    <3>3. f[i] = IF dead(i) THEN r[i - 1] ELSE Append(r[i - 1], white(i))
      BY <2>2, <3>1, <3>2, Zenon
    <3>. QED BY <1>5, <3>3, Zenon
  <2>3. \A i \in 1 .. Len(s) : f[i - 1] = r[i - 1] => f[i] = r[i]
    BY <2>2
  <2>. QED BY ONLY <1>1, <2>1, <2>3, SameRecursion, ZenonT(60)
<1>10. sweepwholelist(s) = r[Len(s)]
  BY <1>1, <1>8, <1>9
<1>11. /\ images \in [1 .. Len(s) -> Entries] /\ K \in SUBSET (1 .. Len(s))
       /\ \A k \in 1 .. Len(s) : images[k] = white(k) /\ images[k].text = s[k].text
  BY <1>2
<1>12. \A k \in 1 .. Len(s) : IF k \in K THEN r[k] = <<images[k]>> \o r[k - 1] \/ r[k] = Append(r[k - 1], images[k])
                                         ELSE r[k] = r[k - 1]
  BY <1>5, <1>11
<1>15. {images[k] : k \in K} = {white(k) : k \in K}
  BY <1>11
<1>. HIDE DEF images, K
<1>14. r[Len(s)] \in Chain /\ Els(r[Len(s)]) = {images[k] : k \in K} /\ (Distinct(s) => Distinct(r[Len(s)]))
  BY <1>4, <1>11, <1>12, Filtered
<1>. QED BY <1>10, <1>13, <1>14, <1>15 DEF K, Living

(***************************************************************************)
(* Tables.                                                                 *)
(***************************************************************************)
\* The size and the chains of a table.
LEMMA TableFacts ==
  ASSUME NEW h, NEW n \in Nat, Table(h, n)
  PROVE  size(h) = n /\ DOMAIN h = 0 .. n - 1 /\ \A c \in 0 .. n - 1 : h[c] \in Chain
<1>1. DOMAIN h = 0 .. n - 1 /\ \A c \in 0 .. n - 1 : h[c] \in Chain
  BY DEF Table
<1>2. Cardinality(0 .. n - 1) = n
  <2>1. 0 \in Int /\ n - 1 \in Int /\ (0 > n - 1 <=> n = 0) /\ n - 1 - 0 + 1 = n
    OBVIOUS
  <2>. QED BY <2>1, FS_Interval
<1>. QED BY <1>1, <1>2 DEF size

\* All entries of a table are those of its chains.
LEMMA AllEntries ==
  ASSUME NEW h, NEW n \in Nat, Table(h, n)
  PROVE  /\ \A e : e \in All(h) <=> \E c \in 0 .. n - 1 : e \in Els(h[c])
         /\ All(h) \subseteq Entries
         /\ \A p : p \in Places(h) <=> \E c \in 0 .. n - 1 : \E k \in 1 .. Len(h[c]) : p = <<c, k>>
<1>1. DOMAIN h = 0 .. n - 1 /\ \A c \in 0 .. n - 1 : h[c] \in Chain /\ DOMAIN h[c] = 1 .. Len(h[c])
  BY TableFacts DEF Chain
<1>2. \A p : p \in Places(h) <=> \E c \in 0 .. n - 1 : \E k \in 1 .. Len(h[c]) : p = <<c, k>>
  BY <1>1 DEF Places
<1>3. \A e : e \in All(h) <=> \E c \in 0 .. n - 1 : \E k \in 1 .. Len(h[c]) : e = h[c][k]
  <2>1. \A c, k : At(h, <<c, k>>) = h[c][k]
    BY DEF At
  <2>2. ASSUME NEW e \in All(h) PROVE \E c \in 0 .. n - 1 : \E k \in 1 .. Len(h[c]) : e = h[c][k]
    <3>1. PICK p \in Places(h) : e = At(h, p)
      BY DEF All
    <3>. QED BY <1>2, <2>1, <3>1
  <2>3. ASSUME NEW c \in 0 .. n - 1, NEW k \in 1 .. Len(h[c]) PROVE h[c][k] \in All(h)
    <3>1. <<c, k>> \in Places(h)
      BY <1>2
    <3>. QED BY <2>1, <3>1 DEF All
  <2>. QED BY <2>2, <2>3
<1>4. \A e : e \in All(h) <=> \E c \in 0 .. n - 1 : e \in Els(h[c])
  BY <1>3 DEF Els
<1>. QED BY <1>1, <1>2, <1>4, ChainFacts

\* A text is in the table once, and there are as many texts as places.
LEMMA Once ==
  ASSUME NEW h, NEW n \in Nat, Sound(h, n)
  PROVE  /\ \A p, q \in Places(h) : At(h, p).text = At(h, q).text => p = q
         /\ IsFiniteSet(AllTexts(h)) /\ IsFiniteSet(Places(h))
         /\ Cardinality(AllTexts(h)) = Cardinality(Places(h))
<1>1. DOMAIN h = 0 .. n - 1 /\ (\A c \in 0 .. n - 1 : h[c] \in Chain /\ Len(h[c]) \in Nat /\ DOMAIN h[c] = 1 .. Len(h[c])) /\ Table(h, n)
  BY TableFacts, ChainFacts DEF Chain, Sound
<1>2. ASSUME NEW p \in Places(h)
      PROVE  \E c \in 0 .. n - 1 : \E k \in 1 .. Len(h[c]) :
               p = <<c, k>> /\ At(h, p) = h[c][k] /\ TextHash[h[c][k].text] % n = c
  <2>1. \E c \in 0 .. n - 1 : \E k \in 1 .. Len(h[c]) : p = <<c, k>>
    BY <1>1, <1>2, AllEntries
  <2>2. PICK c \in 0 .. n - 1 : \E k \in 1 .. Len(h[c]) : p = <<c, k>>
    BY <2>1
  <2>3. PICK k \in 1 .. Len(h[c]) : p = <<c, k>>
    BY <2>2
  <2>4. At(h, p) = h[c][k]
    BY <2>3 DEF At
  <2>5. TextHash[h[c][k].text] % n = c
    BY DEF Sound, InPlace
  <2>. QED BY <2>3, <2>4, <2>5
<1>3. ASSUME NEW p \in Places(h), NEW q \in Places(h), At(h, p).text = At(h, q).text PROVE p = q
  <2>1. PICK c \in 0 .. n - 1 : \E k \in 1 .. Len(h[c]) :
          p = <<c, k>> /\ At(h, p) = h[c][k] /\ TextHash[h[c][k].text] % n = c
    BY <1>2
  <2>2. PICK k \in 1 .. Len(h[c]) : p = <<c, k>> /\ At(h, p) = h[c][k] /\ TextHash[h[c][k].text] % n = c
    BY <2>1
  <2>3. PICK d \in 0 .. n - 1 : \E m \in 1 .. Len(h[d]) :
          q = <<d, m>> /\ At(h, q) = h[d][m] /\ TextHash[h[d][m].text] % n = d
    BY <1>2
  <2>4. PICK m \in 1 .. Len(h[d]) : q = <<d, m>> /\ At(h, q) = h[d][m] /\ TextHash[h[d][m].text] % n = d
    BY <2>3
  <2>5. c = d
    BY <1>3, <2>2, <2>4
  <2>6. k = m
    BY <1>3, <2>2, <2>4, <2>5 DEF Sound, Distinct
  <2>. QED BY <2>2, <2>4, <2>5, <2>6
<1>4. IsFiniteSet(Places(h))
  <2>. DEFINE part(c) == {c} \X DOMAIN h[c]
  <2>1. ASSUME NEW c \in DOMAIN h PROVE IsFiniteSet(part(c))
    <3>1. IsFiniteSet({c}) /\ IsFiniteSet(DOMAIN h[c])
      <4>1. PICK m \in Nat : DOMAIN h[c] = 1 .. m
        BY <1>1
      <4>2. IsFiniteSet(1 .. m)
        BY FS_Interval
      <4>. QED BY <4>1, <4>2, FS_Singleton
    <3>. QED BY <3>1, FS_Product
  <2>2. IsFiniteSet(DOMAIN h)
    BY <1>1, FS_Interval
  <2>. HIDE DEF part
  <2>3. IsFiniteSet({part(c) : c \in DOMAIN h})
    <3>. DEFINE f == [c \in DOMAIN h |-> part(c)]
                T == {part(c) : c \in DOMAIN h}
    <3>1. f \in Surjection(DOMAIN h, T)
      BY DEF Surjection
    <3>. HIDE DEF f, T
    <3>2. IsFiniteSet(T)
      BY <2>2, <3>1, FS_Surjection
    <3>. QED BY <3>2 DEF T
  <2>4. IsFiniteSet(UNION {part(c) : c \in DOMAIN h})
    BY <2>1, <2>3, FS_UNION
  <2>. QED BY <2>4 DEF Places, part
<1>5. ExistsBijection(Places(h), AllTexts(h))
  <2>. DEFINE f == [p \in Places(h) |-> At(h, p).text]
  <2>1. f \in [Places(h) -> AllTexts(h)] /\ \A u \in AllTexts(h) : \E p \in Places(h) : f[p] = u
    BY DEF AllTexts, All
  <2>2. \A p, q \in Places(h) : f[p] = f[q] => p = q
    BY <1>3
  <2>. HIDE DEF f
  <2>3. f \in Bijection(Places(h), AllTexts(h))
    BY <2>1, <2>2 DEF Bijection, Injection, Surjection, IsInjective
  <2>. QED BY <2>3 DEF ExistsBijection
<1>6. IsFiniteSet(AllTexts(h)) /\ Cardinality(AllTexts(h)) = Cardinality(Places(h))
  BY ONLY <1>4, <1>5, FS_Bijection
<1>. QED BY <1>3, <1>4, <1>6

\* An entry is in the chain that its hash names.
LEMMA ItsChain ==
  ASSUME NEW h, NEW n \in Nat, Sound(h, n), NEW c \in 0 .. n - 1, NEW e \in Els(h[c])
  PROVE  TextHash[e.text] % n = c /\ e \in Entries /\ h[c] \in Chain /\ Distinct(h[c])
<1>1. h[c] \in Chain /\ Distinct(h[c])
  BY TableFacts DEF Sound
<1>. QED BY <1>1, ChainFacts DEF Sound, InPlace, Els

\* All chains in a row.
LEMMA Met ==
  ASSUME NEW h, NEW n \in Nat, Sound(h, n)
  PROVE  met(h) \in Chain /\ Els(met(h)) = All(h) /\ Distinct(met(h))
<1>. DEFINE G(k) == [v \in Chain |-> v \o h[k - 1]]
            g == [k \in 1 .. n |-> G(k)]
            R(f) == f = [c \in 0 .. n |-> IF c = 0 THEN <<>> ELSE f[c - 1] \o h[c - 1]]
<1>1. size(h) = n /\ (\A c \in 0 .. n - 1 : h[c] \in Chain) /\ Table(h, n)
  BY TableFacts DEF Sound
<1>2. g \in [1 .. n -> [Chain -> Chain]] /\ <<>> \in Chain
  <2>1. ASSUME NEW k \in 1 .. n PROVE G(k) \in [Chain -> Chain]
    <3>1. k - 1 \in 0 .. n - 1
      OBVIOUS
    <3>2. ASSUME NEW v \in Chain PROVE v \o h[k - 1] \in Chain
      BY <1>1, <3>1, JoinedChains
    <3>. QED BY <3>2
  <2>. HIDE DEF G
  <2>. QED BY <2>1, NoChain
<1>3. PICK r \in [0 .. n -> Chain] : IsRecursion(r, <<>>, n, g)
  <2>. HIDE DEF g
  <2>. QED BY <1>2, Recursion
<1>4. r[0] = <<>>
  BY <1>3 DEF IsRecursion
<1>5. ASSUME NEW k \in 1 .. n PROVE r[k] = r[k - 1] \o h[k - 1] /\ r[k - 1] \in Chain
  <2>1. k - 1 \in 0 .. n
    OBVIOUS
  <2>2. r[k - 1] \in Chain /\ r[k] = g[k][r[k - 1]] /\ g[k] = G(k)
    BY <1>3, <2>1 DEF IsRecursion
  <2>. HIDE DEF g
  <2>. QED BY <2>2
<1>. HIDE DEF g
<1>6. R(r)
  <2>1. ASSUME NEW c \in 0 .. n PROVE r[c] = IF c = 0 THEN <<>> ELSE r[c - 1] \o h[c - 1]
    <3>1. CASE c = 0
      BY <1>4, <3>1
    <3>2. CASE c # 0
      <4>1. c \in 1 .. n
        BY <3>2
      <4>. QED BY <1>5, <3>2, <4>1
    <3>. QED BY <3>1, <3>2
  <2>. QED BY <2>1
<1>. DEFINE f == CHOOSE f2 : R(f2)
<1>7. R(f)
  <2>. HIDE DEF R
  <2>. QED BY <1>6
<1>8. met(h) = f[n]
  BY <1>1 DEF met
<1>. HIDE DEF f
<1>9. \A c \in 0 .. n : f[c] = r[c]
  <2>1. f[0] = r[0]
    BY <1>4, <1>7
  <2>2. ASSUME NEW c \in 1 .. n, f[c - 1] = r[c - 1] PROVE f[c] = r[c]
    <3>1. c \in 0 .. n /\ c # 0
      OBVIOUS
    <3>2. f[c] = IF c = 0 THEN <<>> ELSE f[c - 1] \o h[c - 1]
      BY <1>7, <3>1
    <3>3. f[c] = r[c - 1] \o h[c - 1]
      BY <2>2, <3>1, <3>2, Zenon
    <3>. QED BY <1>5, <3>3, Zenon
  <2>3. \A c \in 1 .. n : f[c - 1] = r[c - 1] => f[c] = r[c]
    BY <2>2
  <2>. QED BY ONLY n \in Nat, <2>1, <2>3, SameRecursion, ZenonT(60)
<1>10. met(h) = r[n]
  BY <1>8, <1>9
<1>. HIDE DEF R
<1>. DEFINE S == {m \in 0 .. n : /\ \A e : e \in Els(r[m]) <=> \E c \in 0 .. m - 1 : e \in Els(h[c])
                                 /\ Distinct(r[m])}
<1>11. 0 \in S
  BY <1>4, NoChain
<1>12. ASSUME NEW m \in 0 .. n - 1, m \in S PROVE m + 1 \in S
  <2>1. m + 1 \in 0 .. n /\ m \in 0 .. n - 1 /\ m \in Nat
    OBVIOUS
  <2>2. r[m + 1] = r[m] \o h[m] /\ r[m] \in Chain /\ h[m] \in Chain
    <3>1. PICK k \in 1 .. n : k = m + 1 /\ k - 1 = m
      OBVIOUS
    <3>2. r[k] = r[k - 1] \o h[k - 1] /\ r[k - 1] \in Chain
      BY <1>5
    <3>. QED BY <1>1, <3>1, <3>2
  <2>3. Distinct(r[m]) /\ \A e : e \in Els(r[m]) <=> \E c \in 0 .. m - 1 : e \in Els(h[c])
    BY <1>12
  <2>4. /\ Els(r[m] \o h[m]) = Els(r[m]) \cup Els(h[m])
        /\ Distinct(r[m]) /\ Distinct(h[m]) /\ (\A d \in Els(r[m]), e \in Els(h[m]) : d.text # e.text) => Distinct(r[m] \o h[m])
    BY <2>2, JoinedChains
  <2>5. Distinct(h[m])
    BY DEF Sound
  <2>6. ASSUME NEW d \in Els(r[m]), NEW e \in Els(h[m]) PROVE d.text # e.text
    <3>1. PICK c \in 0 .. m - 1 : d \in Els(h[c])
      BY <2>3
    <3>2. c \in 0 .. n - 1 /\ c # m
      OBVIOUS
    <3>3. TextHash[d.text] % n = c
      BY <3>1, <3>2, ItsChain
    <3>4. TextHash[e.text] % n = m
      BY ItsChain
    <3>. QED BY <3>2, <3>3, <3>4
  <2>7. \A c : c \in 0 .. m + 1 - 1 <=> c \in 0 .. m - 1 \/ c = m
    OBVIOUS
  <2>8. \A e : e \in Els(r[m + 1]) <=> \E c \in 0 .. m + 1 - 1 : e \in Els(h[c])
    BY <2>2, <2>3, <2>4, <2>7
  <2>9. Distinct(r[m + 1])
    BY <2>2, <2>3, <2>4, <2>5, <2>6
  <2>. QED BY <2>1, <2>8, <2>9
<1>. HIDE DEF S
<1>13. 0 .. n \subseteq S
  BY <1>11, <1>12, BoundedInduction
<1>14. n \in S
  BY <1>13
<1>15. Distinct(r[n]) /\ \A e : e \in Els(r[n]) <=> \E c \in 0 .. n - 1 : e \in Els(h[c])
  BY <1>14 DEF S
<1>16. Els(r[n]) = All(h)
  BY <1>1, <1>15, AllEntries
<1>17. r[n] \in Chain
  BY <1>3
<1>. QED BY <1>10, <1>15, <1>16, <1>17

\* A table that grows or shrinks keeps its entries, each once and in its place.
LEMMA Resized ==
  ASSUME NEW h, NEW m \in Nat, Sound(h, m), NEW n \in Nat \ {0}
  PROVE  Sound(Rehashed(h, n), n) /\ All(Rehashed(h, n)) = All(h)
<1>. DEFINE new == Rehashed(h, n)
            s == met(h)
<1>1. s \in Chain /\ Els(s) = All(h) /\ Distinct(s)
  BY Met
<1>2. new = [c \in 0 .. n - 1 |-> front(s, c, n)]
  BY DEF Rehashed
<1>. HIDE DEF s, new
<1>3. ASSUME NEW c \in 0 .. n - 1
      PROVE  /\ new[c] \in Chain /\ Els(new[c]) = {e \in Els(s) : TextHash[e.text] % n = c} /\ Distinct(new[c])
  BY <1>1, <1>2, Front
<1>4. Table(new, n)
  BY <1>2, <1>3 DEF Table
<1>5. Sound(new, n)
  <2>1. ASSUME NEW c \in 0 .. n - 1, NEW k \in 1 .. Len(new[c]) PROVE TextHash[new[c][k].text] % n = c
    <3>1. new[c][k] \in Els(new[c])
      BY DEF Els
    <3>. QED BY <1>3, <3>1
  <2>. QED BY <1>3, <1>4, <2>1 DEF Sound, InPlace
<1>6. All(new) = All(h)
  <2>1. ASSUME NEW e \in Els(s) PROVE \E c \in 0 .. n - 1 : e \in Els(new[c])
    <3>1. TextHash[e.text] \in Nat
      <4>1. e \in Entries
        BY <1>1, ChainFacts
      <4>. QED BY <4>1, StrtConstants DEF Entries
    <3>2. TextHash[e.text] % n \in 0 .. n - 1
      BY <3>1
    <3>. QED BY <1>3, <3>2
  <2>2. \A e : e \in All(new) <=> \E c \in 0 .. n - 1 : e \in Els(new[c])
    BY <1>4, AllEntries
  <2>3. ASSUME NEW e \in All(new) PROVE e \in Els(s)
    BY <1>3, <2>2
  <2>4. ASSUME NEW e \in Els(s) PROVE e \in All(new)
    BY <2>1, <2>2
  <2>. QED BY <1>1, <2>3, <2>4
<1>. QED BY <1>5, <1>6 DEF new

\* Marks may change, the texts stay.
LEMMA SameTexts ==
  ASSUME NEW h, NEW n \in Nat, Sound(h, n), NEW g, Table(g, n),
         \A c \in 0 .. n - 1 : Len(g[c]) = Len(h[c]) /\ \A k \in 1 .. Len(h[c]) : g[c][k].text = h[c][k].text
  PROVE  Sound(g, n) /\ AllTexts(g) = AllTexts(h)
<1>1. Sound(g, n)
  BY DEF Sound, InPlace, Distinct
<1>2. Table(h, n)
  BY DEF Sound
<1>3. ASSUME NEW x, NEW y, Table(x, n), Table(y, n),
             \A c \in 0 .. n - 1 : Len(x[c]) = Len(y[c]) /\ \A k \in 1 .. Len(y[c]) : x[c][k].text = y[c][k].text
      PROVE  AllTexts(x) \subseteq AllTexts(y)
  <2>1. ASSUME NEW e \in All(x) PROVE \E d \in All(y) : d.text = e.text
    <3>1. PICK c \in 0 .. n - 1 : e \in Els(x[c])
      BY <1>3, AllEntries
    <3>2. PICK k \in 1 .. Len(x[c]) : e = x[c][k]
      BY <3>1 DEF Els
    <3>3. y[c][k] \in Els(y[c]) /\ y[c][k].text = e.text
      BY <1>3, <3>2 DEF Els
    <3>. QED BY <1>3, <3>3, AllEntries
  <2>. QED BY <2>1 DEF AllTexts
<1>4. AllTexts(g) \subseteq AllTexts(h)
  BY ONLY <1>3, Table(g, n), Table(h, n), <1>2, Zenon,
     \A c \in 0 .. n - 1 : Len(g[c]) = Len(h[c]) /\ \A k \in 1 .. Len(h[c]) : g[c][k].text = h[c][k].text
<1>5. \A c \in 0 .. n - 1 : Len(h[c]) = Len(g[c]) /\ \A k \in 1 .. Len(g[c]) : h[c][k].text = g[c][k].text
  OBVIOUS
<1>6. AllTexts(h) \subseteq AllTexts(g)
  BY ONLY <1>3, <1>2, <1>5, Table(g, n), Zenon
<1>. QED BY <1>1, <1>4, <1>6

\* A table with an entry in front of chain c.
WithEntry(h, c, e) == [h EXCEPT ![c] = <<e>> \o @]
Absent(u, s) == \A k \in 1 .. Len(s) : s[k].text # u

\* A new string at the front of its chain.
LEMMA Linked ==
  ASSUME NEW h, NEW n \in Nat \ {0}, Sound(h, n), NEW e \in Entries, NEW c, c = TextHash[e.text] % n,
         Absent(e.text, h[c]), NEW g, g = WithEntry(h, c, e)
  PROVE  /\ Sound(g, n) /\ All(g) = All(h) \cup {e} /\ e.text \notin AllTexts(h)
<1>1. c \in 0 .. n - 1
  <2>1. TextHash[e.text] \in Nat
    BY StrtConstants DEF Entries
  <2>. QED BY <2>1
<1>2. DOMAIN h = 0 .. n - 1 /\ Table(h, n) /\ \A d \in 0 .. n - 1 : h[d] \in Chain /\ Distinct(h[d])
  BY TableFacts DEF Sound
<1>. DEFINE u == <<e>> \o h[c]
<1>3. DOMAIN g = 0 .. n - 1 /\ \A d \in 0 .. n - 1 : g[d] = IF d = c THEN u ELSE h[d]
  BY <1>1, <1>2 DEF WithEntry
<1>4. h[c] \in Chain /\ Distinct(h[c])
  BY <1>1, <1>2
<1>5. \A d \in Els(h[c]) : d.text # e.text
  BY DEF Els, Absent
<1>6. u \in Chain /\ Els(u) = Els(h[c]) \cup {e} /\ Distinct(u)
  BY <1>4, <1>5, OneMore
<1>. HIDE DEF u
<1>7. \A d \in 0 .. n - 1 : g[d] \in Chain /\ Distinct(g[d]) /\ Els(g[d]) = IF d = c THEN Els(h[d]) \cup {e} ELSE Els(h[d])
  BY <1>2, <1>3, <1>6
<1>8. Table(g, n)
  <2>1. g = [d \in 0 .. n - 1 |-> g[d]]
    BY <1>2, <1>3 DEF WithEntry
  <2>. QED BY <1>7, <2>1 DEF Table
<1>9. InPlace(g, n)
  <2>1. ASSUME NEW d \in 0 .. n - 1, NEW k \in 1 .. Len(g[d]) PROVE TextHash[g[d][k].text] % n = d
    <3>1. g[d][k] \in Els(g[d])
      BY DEF Els
    <3>2. g[d][k] \in Els(h[d]) \/ (g[d][k] = e /\ d = c)
      <4>1. CASE d = c
        <5>1. Els(g[d]) = Els(h[d]) \cup {e}
          BY <1>7, <4>1
        <5>. QED BY <3>1, <4>1, <5>1
      <4>2. CASE d # c
        <5>1. Els(g[d]) = Els(h[d])
          BY <1>7, <4>2
        <5>. QED BY <3>1, <5>1
      <4>. QED BY <4>1, <4>2
    <3>. QED BY <3>2, ItsChain
  <2>. QED BY <2>1 DEF InPlace
<1>10. All(g) = All(h) \cup {e}
  <2>1. ASSUME NEW x PROVE x \in All(g) <=> x \in All(h) \/ x = e
    <3>1. (x \in All(g) <=> \E d \in 0 .. n - 1 : x \in Els(g[d])) /\ (x \in All(h) <=> \E d \in 0 .. n - 1 : x \in Els(h[d]))
      BY <1>2, <1>8, AllEntries
    <3>2. ASSUME NEW d \in 0 .. n - 1 PROVE x \in Els(g[d]) <=> x \in Els(h[d]) \/ (d = c /\ x = e)
      <4>1. CASE d = c
        <5>1. Els(g[d]) = Els(h[d]) \cup {e}
          BY <1>7, <4>1
        <5>. QED BY <4>1, <5>1
      <4>2. CASE d # c
        <5>1. Els(g[d]) = Els(h[d])
          BY <1>7, <4>2
        <5>. QED BY <4>2, <5>1
      <4>. QED BY <4>1, <4>2
    <3>. QED BY <1>1, <3>1, <3>2
  <2>. QED BY <2>1
<1>11. ASSUME NEW x \in All(h) PROVE x.text # e.text
  <2>1. PICK d \in 0 .. n - 1 : x \in Els(h[d])
    BY <1>2, AllEntries
  <2>2. TextHash[x.text] % n = d
    BY <2>1, ItsChain
  <2>. QED BY <1>5, <2>1, <2>2
<1>. QED BY <1>7, <1>8, <1>9, <1>10, <1>11 DEF Sound, AllTexts

\* One chain swept: the texts of its dead entries leave the table, as many as
\* the chain gets shorter.
LEMMA ChainSwept ==
  ASSUME NEW h, NEW n \in Nat, Sound(h, n), NEW c \in 0 .. n - 1, currentwhite \in {0, 1},
         NEW g, g = [h EXCEPT ![c] = sweepwholelist(h[c])]
  PROVE  /\ Sound(g, n)
         /\ AllTexts(g) = AllTexts(h) \ {d.text : d \in {e \in Els(h[c]) : isdead(e)}}
         /\ \A d \in 0 .. n - 1 : d # c => g[d] = h[d]
         /\ \A e \in Els(g[c]) : e.mark = currentwhite
         /\ Cardinality(AllTexts(g)) = Cardinality(AllTexts(h)) - (Len(h[c]) - Len(g[c]))
<1>. DEFINE kept == sweepwholelist(h[c])
            gone == {d.text : d \in {e \in Els(h[c]) : isdead(e)}}
<1>1. DOMAIN h = 0 .. n - 1 /\ Table(h, n) /\ h[c] \in Chain /\ Distinct(h[c]) /\ \A d \in 0 .. n - 1 : h[d] \in Chain /\ Distinct(h[d])
  BY TableFacts DEF Sound
<1>2. /\ kept \in Chain /\ Distinct(kept)
      /\ Els(kept) = Living(h[c])
  BY <1>1, Swept
<1>3. DOMAIN g = 0 .. n - 1 /\ \A d \in 0 .. n - 1 : g[d] = IF d = c THEN kept ELSE h[d]
  BY <1>1
<1>. HIDE DEF kept
<1>4. /\ \A e \in Els(h[c]) : e \in Entries /\ (~isdead(e) => \E d \in Els(kept) : d.text = e.text)
      /\ \A d \in Els(kept) : d.mark = currentwhite /\ \E e \in Els(h[c]) : ~isdead(e) /\ d.text = e.text
  <2>1. \A e \in Els(h[c]) : e \in Entries
    BY <1>1, ChainFacts
  <2>2. \A e \in Entries : [e EXCEPT !.mark = currentwhite].text = e.text /\ [e EXCEPT !.mark = currentwhite].mark = currentwhite
    BY DEF Entries
  <2>3. ASSUME NEW e \in Els(h[c]), ~isdead(e) PROVE \E d \in Els(kept) : d.text = e.text
    BY <1>2, <2>1, <2>2, <2>3 DEF Living
  <2>4. ASSUME NEW d \in Els(kept) PROVE d.mark = currentwhite /\ \E e \in Els(h[c]) : ~isdead(e) /\ d.text = e.text
    <3>1. PICK e \in {x \in Els(h[c]) : ~isdead(x)} : d = [e EXCEPT !.mark = currentwhite]
      BY <1>2 DEF Living
    <3>. QED BY <2>1, <2>2, <3>1
  <2>. QED BY <2>1, <2>3, <2>4
<1>5. \A d \in 0 .. n - 1 : g[d] \in Chain /\ Distinct(g[d])
  BY <1>1, <1>2, <1>3
<1>6. Table(g, n)
  <2>1. g = [d \in 0 .. n - 1 |-> g[d]]
    BY <1>1, <1>3
  <2>. QED BY <1>5, <2>1 DEF Table
<1>7. Sound(g, n)
  <2>1. ASSUME NEW d \in 0 .. n - 1, NEW k \in 1 .. Len(g[d]) PROVE TextHash[g[d][k].text] % n = d
    <3>1. g[d][k] \in Els(g[d])
      BY DEF Els
    <3>2. \E e \in Els(h[d]) : g[d][k].text = e.text
      BY <1>3, <1>4, <3>1
    <3>. QED BY <3>2, ItsChain
  <2>. QED BY <1>5, <1>6, <2>1 DEF Sound, InPlace
<1>8. AllTexts(g) = AllTexts(h) \ gone
  <2>1. ASSUME NEW x \in All(g) PROVE x.text \in AllTexts(h) \ gone
    <3>1. PICK d \in 0 .. n - 1 : x \in Els(g[d])
      BY <1>6, AllEntries
    <3>2. PICK e \in Els(h[d]) : x.text = e.text /\ (d = c => ~isdead(e))
      BY <1>3, <1>4, <3>1
    <3>3. e \in All(h) /\ TextHash[e.text] % n = d
      BY <1>1, <3>2, AllEntries, ItsChain
    <3>4. ASSUME NEW y \in Els(h[c]), isdead(y), y.text = e.text PROVE FALSE
      <4>1. TextHash[y.text] % n = c
        BY ItsChain
      <4>2. d = c
        BY <3>3, <3>4, <4>1
      <4>3. y = e
        BY <1>1, <3>4, <4>2 DEF Distinct, Els
      <4>. QED BY <3>2, <3>4, <4>2, <4>3
    <3>. QED BY <3>2, <3>3, <3>4 DEF AllTexts
  <2>2. ASSUME NEW e \in All(h), e.text \notin gone PROVE e.text \in AllTexts(g)
    <3>1. PICK d \in 0 .. n - 1 : e \in Els(h[d])
      BY <1>1, AllEntries
    <3>2. d = c => ~isdead(e)
      BY <2>2, <3>1
    <3>3. PICK x \in Els(g[d]) : x.text = e.text
      BY <1>3, <1>4, <3>1, <3>2
    <3>4. x \in All(g)
      BY <1>6, <3>3, AllEntries
    <3>. QED BY <3>3, <3>4 DEF AllTexts
  <2>. QED BY <2>1, <2>2 DEF AllTexts
<1>9. Cardinality(AllTexts(g)) = Cardinality(AllTexts(h)) - (Len(h[c]) - Len(g[c]))
  <2>. DEFINE texts(s) == {e.text : e \in Els(s)}
  <2>1. ASSUME NEW s \in Chain, Distinct(s) PROVE IsFiniteSet(texts(s)) /\ Cardinality(texts(s)) = Len(s) /\ Len(s) \in Nat
    <3>. DEFINE f == [k \in 1 .. Len(s) |-> s[k].text]
    <3>1. Len(s) \in Nat
      BY ChainFacts
    <3>2. IsFiniteSet(1 .. Len(s)) /\ Cardinality(1 .. Len(s)) = Len(s)
      <4>1. PICK m \in Nat : m = Len(s)
        BY <3>1
      <4>2. IsFiniteSet(1 .. m) /\ Cardinality(1 .. m) = IF 1 > m THEN 0 ELSE m - 1 + 1
        <5>1. 1 \in Int /\ m \in Int
          OBVIOUS
        <5>. QED BY ONLY <5>1, FS_Interval
      <4>. QED BY <4>1, <4>2
    <3>3. f \in Bijection(1 .. Len(s), texts(s))
      <4>1. f \in [1 .. Len(s) -> texts(s)] /\ \A u \in texts(s) : \E k \in 1 .. Len(s) : f[k] = u
        BY DEF Els
      <4>2. \A k, m \in 1 .. Len(s) : f[k] = f[m] => k = m
        BY <2>1 DEF Distinct
      <4>. HIDE DEF f
      <4>. QED BY <4>1, <4>2 DEF Bijection, Injection, Surjection, IsInjective
    <3>4. ExistsBijection(1 .. Len(s), texts(s))
      BY <3>3 DEF ExistsBijection
    <3>. HIDE DEF texts
    <3>5. IsFiniteSet(texts(s)) /\ Cardinality(texts(s)) = Cardinality(1 .. Len(s))
      BY ONLY <3>2, <3>4, FS_Bijection
    <3>. QED BY <3>1, <3>2, <3>5
  <2>2. IsFiniteSet(AllTexts(h)) /\ IsFiniteSet(AllTexts(g))
    BY <1>7, Once
  <2>3. /\ IsFiniteSet(texts(h[c])) /\ Cardinality(texts(h[c])) = Len(h[c])
        /\ Cardinality(texts(kept)) = Len(kept) /\ Len(h[c]) \in Nat /\ Len(kept) \in Nat
    <3>. HIDE DEF texts
    <3>. QED BY <1>1, <1>2, <2>1
  <2>4. texts(kept) = texts(h[c]) \ gone
    <3>1. ASSUME NEW x \in Els(kept) PROVE x.text \in texts(h[c]) \ gone
      <4>1. PICK e \in Els(h[c]) : ~isdead(e) /\ x.text = e.text
        BY <1>4
      <4>2. ASSUME NEW y \in Els(h[c]), isdead(y), y.text = e.text PROVE FALSE
        <5>1. y = e
          BY <1>1, <4>2 DEF Distinct, Els
        <5>. QED BY <4>1, <4>2, <5>1
      <4>. QED BY <4>1, <4>2
    <3>2. ASSUME NEW e \in Els(h[c]), e.text \notin gone PROVE e.text \in texts(kept)
      BY <1>4, <3>2
    <3>. QED BY <3>1, <3>2
  <2>5. gone \subseteq texts(h[c]) /\ gone \subseteq AllTexts(h)
    BY <1>1, AllEntries DEF AllTexts
  <2>. HIDE DEF texts, gone
  <2>6. IsFiniteSet(gone) /\ texts(h[c]) \cap gone = gone /\ AllTexts(h) \cap gone = gone
    BY <2>2, <2>5, FS_Subset
  <2>7. /\ Cardinality(texts(kept)) = Cardinality(texts(h[c])) - Cardinality(gone)
        /\ Cardinality(AllTexts(g)) = Cardinality(AllTexts(h)) - Cardinality(gone)
    <3>1. Cardinality(texts(h[c]) \ gone) = Cardinality(texts(h[c])) - Cardinality(texts(h[c]) \cap gone)
      BY ONLY <2>3, FS_Difference
    <3>2. Cardinality(AllTexts(h) \ gone) = Cardinality(AllTexts(h)) - Cardinality(AllTexts(h) \cap gone)
      BY ONLY <2>2, FS_Difference
    <3>. QED BY <1>8, <2>4, <2>6, <3>1, <3>2
  <2>8. Cardinality(gone) \in Nat /\ Cardinality(AllTexts(h)) \in Nat /\ g[c] = kept
    BY <1>3, <2>2, <2>6, FS_CardinalityType
  <2>9. PICK x \in Nat, y \in Nat, z \in Nat :
          x = Cardinality(gone) /\ y = Len(h[c]) /\ z = Len(kept) /\ z = y - x
    BY <2>3, <2>7, <2>8
  <2>10. Cardinality(AllTexts(h)) - x = Cardinality(AllTexts(h)) - (y - z)
    BY <2>8, <2>9
  <2>. QED BY <2>7, <2>8, <2>9, <2>10
<1>. QED BY <1>3, <1>4, <1>7, <1>8, <1>9

(***************************************************************************)
(* The steps.                                                              *)
(***************************************************************************)
\* What the invariant says of the table.
LEMMA TheTable ==
  ASSUME Contents
  PROVE  /\ size(hash) \in Nat \ {0} /\ Sound(hash, size(hash)) /\ Table(hash, size(hash))
         /\ DOMAIN hash = 0 .. size(hash) - 1
         /\ \A c \in DOMAIN hash : hash[c] \in Chain /\ Distinct(hash[c]) /\ Els(hash[c]) \subseteq Entries
                                   /\ \A e \in Els(hash[c]) : e \in All(hash)
         /\ \A e \in All(hash) : e \in Entries /\ e.text \in AllTexts(hash)
<1>1. size(hash) \in Nat \ {0} /\ size(hash) \in Nat /\ Sound(hash, size(hash)) /\ Table(hash, size(hash))
  BY DEF Contents, Sound
<1>2. DOMAIN hash = 0 .. size(hash) - 1 /\ \A c \in DOMAIN hash : hash[c] \in Chain
  BY <1>1, TableFacts
<1>3. \A c \in DOMAIN hash : Distinct(hash[c]) /\ Els(hash[c]) \subseteq Entries
  BY <1>1, <1>2, ChainFacts DEF Sound
<1>4. All(hash) \subseteq Entries /\ \A c \in DOMAIN hash : \A e \in Els(hash[c]) : e \in All(hash)
  BY <1>1, <1>2, AllEntries
<1>. QED BY <1>1, <1>2, <1>3, <1>4 DEF AllTexts

\* The colours stay right when entries only turn white and no string with
\* the other white is taken into use.
LEMMA KeepColours ==
  ASSUME Contents, Colours, UNCHANGED <<strtState, currentwhite, sweepstrgc>>,
         strtState # "sweepstring" => \A e \in All(hash') : e.mark # otherwhite,
         strtState = "sweepstring" =>
           /\ DOMAIN hash' = DOMAIN hash
           /\ \A c \in DOMAIN hash : \A e \in Els(hash'[c]) :
                \/ e.mark = currentwhite
                \/ e \in Els(hash[c]) /\ (e.text \in inUse' => e.text \in inUse \/ e.mark # otherwhite)
  PROVE  Colours'
<1>1. otherwhite' = otherwhite /\ currentwhite # otherwhite
  BY DEF otherwhite, Colours
<1>2. CASE strtState # "sweepstring"
  BY <1>1, <1>2 DEF Colours
<1>3. CASE strtState = "sweepstring"
  <2>1. size(hash') = size(hash) /\ DOMAIN hash' = DOMAIN hash
    BY <1>3 DEF size
  <2>2. sweepstrgc' < size(hash')
    BY <1>3, <2>1 DEF Colours
  <2>3. ASSUME NEW c \in DOMAIN hash, NEW e \in Els(hash'[c])
        PROVE  IF c < sweepstrgc THEN e.mark = currentwhite ELSE e.text \in inUse' => e.mark # otherwhite
    <3>1. CASE e.mark = currentwhite
      BY <1>1, <3>1
    <3>2. CASE e.mark # currentwhite
      <4>1. e \in Els(hash[c]) /\ (e.text \in inUse' => e.text \in inUse \/ e.mark # otherwhite)
        BY <1>3, <3>2
      <4>2. IF c < sweepstrgc THEN e.mark = currentwhite ELSE e.text \in inUse => e.mark # otherwhite
        BY <1>3, <4>1 DEF Colours
      <4>. QED BY <3>2, <4>1, <4>2
    <3>. QED BY <3>1, <3>2
  <2>. QED BY <1>1, <1>3, <2>1, <2>2, <2>3 DEF Colours
<1>. QED BY <1>2, <1>3

\* luaS_newlstr finds a string or makes it.
LEMMA NewString ==
  ASSUME StrtInvariant, NEW t \in Texts, NEW nomemory \in BOOLEAN, luaS_newlstr(t, nomemory)
  PROVE  StrtInvariant'
<1>. DEFINE n == size(hash)
            c == TextHash[t] % n
            same == {k \in 1 .. Len(hash[c]) : hash[c][k].text = t}
            first == CHOOSE k \in same : \A m \in same : k <= m
<1>1. /\ n \in Nat \ {0} /\ n \in Nat /\ Sound(hash, n) /\ Table(hash, n) /\ DOMAIN hash = 0 .. n - 1
      /\ \A d \in 0 .. n - 1 : hash[d] \in Chain /\ Distinct(hash[d])
      /\ Contents /\ Colours
  BY TheTable DEF StrtInvariant
<1>2. c \in 0 .. n - 1
  <2>1. TextHash[t] \in Nat
    BY StrtConstants
  <2>. QED BY <1>1, <2>1
<1>3. UNCHANGED <<strtState, currentwhite, sweepstrgc>> /\ currentwhite \in {0, 1} /\ currentwhite # otherwhite
  BY <1>1 DEF luaS_newlstr, Colours, otherwhite
<1>4. CASE same # {}
  <2>1. first \in same
    <3>1. same \subseteq Nat
      OBVIOUS
    <3>. HIDE DEF same
    <3>2. PICK x \in same : \A y \in same : ~(y < x)
      BY <1>4, <3>1, Least
    <3>3. \A y \in same : x <= y
      BY <3>1, <3>2
    <3>. QED BY <3>2, <3>3
  <2>2. hash' = Found(hash, <<c, first>>) /\ inUse' = inUse \cup {t} /\ nuse' = nuse
    BY <1>4 DEF luaS_newlstr
  <2>. HIDE DEF first
  <2>3. first \in 1 .. Len(hash[c]) /\ hash[c][first].text = t /\ hash[c][first] \in Entries
    BY <1>1, <1>2, <2>1, ChainFacts
  <2>. DEFINE e == hash[c][first]
              u == [hash[c] EXCEPT ![first].mark = currentwhite]
  <2>4. hash' = IF e.mark = otherwhite THEN [hash EXCEPT ![c] = u] ELSE hash
    BY <2>2 DEF Found, At
  <2>5. /\ u \in Chain /\ Len(u) = Len(hash[c])
        /\ \A k \in 1 .. Len(hash[c]) : u[k] = IF k = first THEN [e EXCEPT !.mark = currentwhite] ELSE hash[c][k]
    <3>1. hash[c] \in Chain /\ Len(hash[c]) \in Nat /\ \A k \in 1 .. Len(hash[c]) : hash[c][k] \in Entries
      BY <1>1, <1>2, ChainFacts
    <3>2. [e EXCEPT !.mark = currentwhite] \in Entries
      BY <1>3, <2>3 DEF Entries, Marks
    <3>3. u = [hash[c] EXCEPT ![first] = [e EXCEPT !.mark = currentwhite]]
      OBVIOUS
    <3>. HIDE DEF u, e
    <3>. QED BY <2>3, <3>1, <3>2, <3>3, ExceptSeq DEF Chain
  <2>6. [e EXCEPT !.mark = currentwhite].text = t /\ [e EXCEPT !.mark = currentwhite].mark = currentwhite
    BY <2>3 DEF Entries
  <2>. HIDE DEF u
  <2>7. /\ DOMAIN hash' = 0 .. n - 1
        /\ \A d \in 0 .. n - 1 : hash'[d] = IF d = c /\ e.mark = otherwhite THEN u ELSE hash[d]
    BY <1>1, <1>2, <2>4
  <2>8. Table(hash', n)
    <3>1. \A d \in 0 .. n - 1 : hash'[d] \in Chain
      BY <1>1, <2>5, <2>7
    <3>2. hash' = [d \in 0 .. n - 1 |-> hash'[d]]
      <4>1. hash = [d \in 0 .. n - 1 |-> hash[d]]
        BY <1>1 DEF Table
      <4>2. CASE e.mark = otherwhite
        BY <1>1, <2>4, <2>7, <4>2
      <4>3. CASE e.mark # otherwhite
        BY <2>4, <4>1, <4>3
      <4>. QED BY <4>2, <4>3
    <3>. QED BY <3>1, <3>2 DEF Table
  <2>9. \A d \in 0 .. n - 1 : Len(hash'[d]) = Len(hash[d]) /\ \A k \in 1 .. Len(hash[d]) : hash'[d][k].text = hash[d][k].text
    BY <2>3, <2>5, <2>6, <2>7
  <2>10. Sound(hash', n) /\ AllTexts(hash') = AllTexts(hash) /\ size(hash') = n
    BY <1>1, <2>8, <2>9, SameTexts, TableFacts
  <2>11. ASSUME NEW d \in 0 .. n - 1, NEW x \in Els(hash'[d])
         PROVE  \/ x.mark = currentwhite
                \/ x \in Els(hash[d]) /\ (x.text = t => x.mark # otherwhite)
    <3>1. PICK k \in 1 .. Len(hash[d]) : x = hash'[d][k]
      BY <2>9 DEF Els
    <3>2. CASE d = c /\ k = first
      <4>1. CASE e.mark = otherwhite
        BY <2>3, <2>5, <2>6, <2>7, <3>1, <3>2, <4>1
      <4>2. CASE e.mark # otherwhite
        BY <2>3, <2>7, <3>1, <3>2, <4>2 DEF Els
      <4>. QED BY <4>1, <4>2
    <3>3. CASE ~(d = c /\ k = first)
      <4>1. x = hash[d][k]
        BY <2>5, <2>7, <3>1, <3>3
      <4>2. x \in Els(hash[d]) /\ TextHash[x.text] % n = d
        <5>1. x \in Els(hash[d])
          BY <4>1 DEF Els
        <5>. QED BY <1>1, <5>1, ItsChain
      <4>3. x.text # t
        BY <1>1, <1>2, <2>3, <3>3, <4>1, <4>2 DEF Distinct
      <4>. QED BY <4>2, <4>3
    <3>. QED BY <3>2, <3>3
  <2>12. t \in AllTexts(hash)
    <3>1. e \in Els(hash[c])
      BY <2>3 DEF Els
    <3>. QED BY <1>1, <1>2, <2>3, <3>1, TheTable
  <2>13. Contents'
    BY <1>1, <2>2, <2>10, <2>12 DEF Contents
  <2>14. strtState # "sweepstring" => \A x \in All(hash') : x.mark # otherwhite
    <3>1. SUFFICES ASSUME strtState # "sweepstring", NEW x \in All(hash') PROVE x.mark # otherwhite
      OBVIOUS
    <3>2. PICK d \in 0 .. n - 1 : x \in Els(hash'[d])
      BY <1>1, <2>8, AllEntries
    <3>3. x \in Els(hash[d]) => x.mark # otherwhite
      BY <1>1, <3>1, AllEntries DEF Colours
    <3>. QED BY <1>3, <2>11, <3>2, <3>3
  <2>15. strtState = "sweepstring" =>
           /\ DOMAIN hash' = DOMAIN hash
           /\ \A d \in DOMAIN hash : \A x \in Els(hash'[d]) :
                \/ x.mark = currentwhite
                \/ x \in Els(hash[d]) /\ (x.text \in inUse' => x.text \in inUse \/ x.mark # otherwhite)
    BY <1>1, <2>2, <2>7, <2>11
  <2>. QED BY <1>1, <1>3, <2>13, <2>14, <2>15, KeepColours DEF StrtInvariant
<1>5. CASE same = {}
  <2>. DEFINE e == Entry(t, currentwhite)
              linked == [hash EXCEPT ![c] = <<e>> \o @]
              crowded == nuse + 1 > n /\ n <= MaxStrtSize
              fails == crowded /\ Moves /\ nomemory
  <2>1. newlstr(t, nomemory)
    BY <1>5 DEF luaS_newlstr
  <2>2. /\ hash' = IF crowded /\ ~fails THEN luaS_resize(linked, 2 * n) ELSE linked
        /\ nuse' = nuse + 1 /\ inUse' = IF fails THEN inUse ELSE inUse \cup {t}
    BY <2>1 DEF newlstr
  <2>3. e \in Entries /\ e.text = t /\ e.mark = currentwhite
    BY <1>3 DEF Entry, Entries, Marks
  <2>4. \A k \in 1 .. Len(hash[c]) : hash[c][k].text # t
    BY <1>5
  <2>. HIDE DEF e
  <2>5. /\ Sound(linked, n) /\ All(linked) = All(hash) \cup {e} /\ t \notin AllTexts(hash)
        /\ \A d \in 0 .. n - 1 : \A x \in Els(linked[d]) : x \in Els(hash[d]) \/ x = e
    <3>1. c = TextHash[e.text] % n /\ Absent(e.text, hash[c])
      BY <2>3, <2>4 DEF Absent
    <3>2. linked = WithEntry(hash, c, e)
      BY DEF WithEntry
    <3>3. n \in Nat \ {0} /\ Sound(hash, n) /\ e \in Entries
      BY <1>1, <2>3
    <3>. HIDE DEF n, c, linked
    <3>4. Sound(linked, n) /\ All(linked) = All(hash) \cup {e} /\ e.text \notin AllTexts(hash)
      BY <3>1, <3>2, <3>3, Linked
    <3>5. ASSUME NEW d \in 0 .. n - 1, NEW x \in Els(linked[d]), x # e PROVE x \in Els(hash[d])
      <4>1. Table(linked, n) /\ Table(hash, n) /\ n \in Nat
        BY <3>3, <3>4 DEF Sound
      <4>2. x \in All(hash)
        BY <3>4, <3>5, <4>1, AllEntries
      <4>3. PICK m \in 0 .. n - 1 : x \in Els(hash[m])
        BY <4>1, <4>2, AllEntries
      <4>4. TextHash[x.text] % n = m
        BY <3>3, <4>1, <4>3, ItsChain
      <4>5. TextHash[x.text] % n = d
        BY <3>4, <4>1, ItsChain
      <4>. QED BY <4>3, <4>4, <4>5
    <3>. QED BY <2>3, <3>4, <3>5
  <2>6. DOMAIN linked = 0 .. n - 1 /\ size(linked) = n
    BY <1>1, <2>5, TableFacts DEF Sound
  <2>7. \E m \in Nat \ {0} : Sound(hash', m) /\ All(hash') = All(linked) /\ (strtState = "sweepstring" => hash' = linked)
    <3>1. CASE hash' = linked
      BY <1>1, <2>5, <3>1
    <3>2. CASE hash' # linked
      <4>1. hash' = Rehashed(linked, 2 * n) /\ strtState # "sweepstring"
        BY <2>2, <3>2 DEF luaS_resize, Moves
      <4>2. 2 * n \in Nat \ {0}
        BY <1>1
      <4>. HIDE DEF linked
      <4>3. Sound(Rehashed(linked, 2 * n), 2 * n) /\ All(Rehashed(linked, 2 * n)) = All(linked)
        BY <1>1, <2>5, <4>2, Resized
      <4>. QED BY <4>1, <4>2, <4>3
    <3>. QED BY <3>1, <3>2
  <2>8. PICK m \in Nat \ {0} : Sound(hash', m) /\ All(hash') = All(linked) /\ (strtState = "sweepstring" => hash' = linked)
    BY <2>7
  <2>9. size(hash') = m
    BY <2>8, TableFacts DEF Sound
  <2>10. All(hash') = All(hash) \cup {e}
    BY <2>5, <2>8
  <2>11. AllTexts(hash') = AllTexts(hash) \cup {t}
    BY <2>3, <2>10 DEF AllTexts
  <2>12. nuse' = Cardinality(AllTexts(hash'))
    <3>1. IsFiniteSet(AllTexts(hash))
      BY <1>1, Once
    <3>2. Cardinality(AllTexts(hash) \cup {t}) = Cardinality(AllTexts(hash)) + 1
      BY <2>5, <3>1, FS_AddElement
    <3>. QED BY <1>1, <2>2, <2>11, <3>2 DEF Contents
  <2>13. Contents'
    BY <1>1, <2>2, <2>8, <2>9, <2>11, <2>12 DEF Contents
  <2>14. strtState # "sweepstring" => \A x \in All(hash') : x.mark # otherwhite
    BY <1>1, <1>3, <2>3, <2>10 DEF Colours
  <2>15. strtState = "sweepstring" =>
           /\ DOMAIN hash' = DOMAIN hash
           /\ \A d \in DOMAIN hash : \A x \in Els(hash'[d]) :
                \/ x.mark = currentwhite
                \/ x \in Els(hash[d]) /\ (x.text \in inUse' => x.text \in inUse \/ x.mark # otherwhite)
    <3>1. SUFFICES ASSUME strtState = "sweepstring", NEW d \in 0 .. n - 1, NEW x \in Els(linked[d])
                   PROVE  \/ x.mark = currentwhite
                          \/ x \in Els(hash[d]) /\ (x.text \in inUse' => x.text \in inUse)
      BY <1>1, <2>6, <2>8
    <3>2. x \in Els(hash[d]) \/ x = e
      BY <2>5, <3>1
    <3>3. x \in Els(hash[d]) => x.text # t
      BY <1>1, <2>5, TheTable
    <3>. QED BY <2>2, <2>3, <3>2, <3>3
  <2>. QED BY <1>1, <1>3, <2>13, <2>14, <2>15, KeepColours DEF StrtInvariant
<1>. QED BY <1>4, <1>5

\* Marking changes no text, and what it does not mark stays as it is.
LEMMA Blackening ==
  ASSUME Contents, NEW T, hash' = Blackened(hash, T)
  PROVE  /\ Sound(hash', size(hash)) /\ size(hash') = size(hash) /\ DOMAIN hash' = DOMAIN hash
         /\ AllTexts(hash') = AllTexts(hash)
         /\ \A d \in DOMAIN hash : \A e \in Els(hash'[d]) :
              e.mark = Black \/ (e \in Els(hash[d]) /\ e.text \notin T)
<1>. DEFINE n == size(hash)
            black(e) == IF e.text \in T THEN [e EXCEPT !.mark = Black] ELSE e
<1>1. /\ n \in Nat \ {0} /\ n \in Nat /\ Sound(hash, n) /\ DOMAIN hash = 0 .. n - 1
      /\ \A d \in 0 .. n - 1 : hash[d] \in Chain
  BY TheTable
<1>2. hash' = [d \in 0 .. n - 1 |-> [k \in 1 .. Len(hash[d]) |-> black(hash[d][k])]]
  BY <1>1 DEF Blackened
<1>3. \A e \in Entries : black(e) \in Entries /\ black(e).text = e.text /\ (black(e).mark = Black \/ (black(e) = e /\ e.text \notin T))
  BY DEF Entries, Marks, Black
<1>. HIDE DEF n, black
<1>4. ASSUME NEW d \in 0 .. n - 1
      PROVE  /\ hash'[d] \in Chain /\ Len(hash'[d]) = Len(hash[d])
             /\ \A k \in 1 .. Len(hash[d]) : hash'[d][k] = black(hash[d][k]) /\ hash[d][k] \in Entries
  <2>1. PICK m \in Nat : m = Len(hash[d]) /\ \A k \in 1 .. m : hash[d][k] \in Entries
    BY <1>1, ChainFacts
  <2>2. hash'[d] = [k \in 1 .. m |-> black(hash[d][k])]
    BY <1>2, <2>1
  <2>3. \A k \in 1 .. m : black(hash[d][k]) \in Entries
    BY <1>3, <2>1
  <2>. QED BY <2>1, <2>2, <2>3 DEF Chain
<1>5. Table(hash', n)
  BY <1>2, <1>4 DEF Table
<1>6. \A d \in 0 .. n - 1 : Len(hash'[d]) = Len(hash[d]) /\ \A k \in 1 .. Len(hash[d]) : hash'[d][k].text = hash[d][k].text
  BY <1>3, <1>4
<1>7. Sound(hash', n) /\ AllTexts(hash') = AllTexts(hash)
  BY <1>1, <1>5, <1>6, SameTexts
<1>8. size(hash') = n /\ DOMAIN hash' = DOMAIN hash
  BY <1>1, <1>5, TableFacts
<1>9. ASSUME NEW d \in 0 .. n - 1, NEW e \in Els(hash'[d])
      PROVE  e.mark = Black \/ (e \in Els(hash[d]) /\ e.text \notin T)
  <2>1. PICK k \in 1 .. Len(hash[d]) : e = hash'[d][k]
    BY <1>4, <1>9 DEF Els
  <2>2. e = black(hash[d][k]) /\ hash[d][k] \in Entries
    BY <1>4, <2>1
  <2>3. hash[d][k] \in Els(hash[d])
    BY DEF Els
  <2>. QED BY <1>3, <2>2, <2>3
<1>. QED BY <1>1, <1>7, <1>8, <1>9 DEF n

\* Every step keeps what the table holds and the colours.
LEMMA StrtStep ==
  ASSUME StrtInvariant, [StrtNext]_strtVars
  PROVE  StrtInvariant'
<1>. DEFINE n == size(hash)
<1>1. /\ n \in Nat \ {0} /\ n \in Nat /\ Sound(hash, n) /\ Table(hash, n) /\ DOMAIN hash = 0 .. n - 1
      /\ \A d \in 0 .. n - 1 : hash[d] \in Chain
      /\ Contents /\ Colours
  BY TheTable DEF StrtInvariant
<1>2. currentwhite \in {0, 1} /\ otherwhite \in {0, 1} /\ currentwhite # otherwhite /\ Black # otherwhite /\ Black # currentwhite
  BY <1>1 DEF Colours, otherwhite, Black
<1>. HIDE DEF n
<1>3. ASSUME NEW t \in Texts, Forget(t) PROVE StrtInvariant'
  <2>1. /\ hash' = hash /\ nuse' = nuse /\ strtState' = strtState /\ currentwhite' = currentwhite
        /\ sweepstrgc' = sweepstrgc /\ inUse' \subseteq inUse
    BY <1>3 DEF Forget
  <2>2. Contents'
    BY <1>1, <2>1 DEF Contents
  <2>3. Colours'
    BY <1>1, <2>1 DEF Colours, otherwhite
  <2>. QED BY <2>2, <2>3 DEF StrtInvariant
<1>4. ASSUME NEW t \in Texts, reallymarkobject(t) PROVE StrtInvariant'
  <2>1. /\ hash' = Blackened(hash, {t}) /\ strtState = "mark" /\ inUse' = inUse /\ nuse' = nuse
        /\ UNCHANGED <<strtState, currentwhite, sweepstrgc>>
    BY <1>4 DEF reallymarkobject
  <2>2. /\ Sound(hash', n) /\ size(hash') = n /\ DOMAIN hash' = DOMAIN hash /\ AllTexts(hash') = AllTexts(hash)
        /\ \A d \in DOMAIN hash : \A e \in Els(hash'[d]) : e.mark = Black \/ e \in Els(hash[d])
    BY <1>1, <2>1, Blackening DEF n
  <2>3. Contents'
    BY <1>1, <2>1, <2>2 DEF Contents
  <2>4. ASSUME NEW e \in All(hash') PROVE e.mark # otherwhite
    <3>1. Table(hash', n)
      BY <2>2 DEF Sound
    <3>2. PICK d \in 0 .. n - 1 : e \in Els(hash'[d])
      BY <1>1, <3>1, AllEntries
    <3>3. e \in Els(hash[d]) => e \in All(hash)
      BY <1>1, AllEntries
    <3>. QED BY <1>1, <1>2, <2>1, <2>2, <3>2, <3>3 DEF Colours
  <2>5. Colours'
    BY <1>1, <2>1, <2>4, KeepColours
  <2>. QED BY <2>3, <2>5 DEF StrtInvariant
<1>5. ASSUME atomic PROVE StrtInvariant'
  <2>1. /\ hash' = Blackened(hash, inUse) /\ inUse' = inUse /\ nuse' = nuse
        /\ strtState' = "sweepstring" /\ sweepstrgc' = 0 /\ currentwhite' = otherwhite
    BY <1>5 DEF atomic
  <2>2. /\ Sound(hash', n) /\ size(hash') = n /\ DOMAIN hash' = DOMAIN hash /\ AllTexts(hash') = AllTexts(hash)
        /\ \A d \in DOMAIN hash : \A e \in Els(hash'[d]) : e.mark = Black \/ e.text \notin inUse
    BY <1>1, <2>1, Blackening DEF n
  <2>3. Contents'
    BY <1>1, <2>1, <2>2 DEF Contents
  <2>4. otherwhite' \in {0, 1} /\ Black # otherwhite'
    BY <1>2, <2>1 DEF otherwhite, Black
  <2>5. \A c \in DOMAIN hash' : ~(c < 0)
    BY <1>1, <2>2
  <2>6. Colours'
    BY <1>1, <1>2, <2>1, <2>2, <2>4, <2>5 DEF Colours
  <2>. QED BY <2>3, <2>6 DEF StrtInvariant
<1>6. ASSUME sweepstring PROVE StrtInvariant'
  <2>. DEFINE c == sweepstrgc
  <2>1. /\ strtState = "sweepstring" /\ inUse' = inUse /\ currentwhite' = currentwhite
        /\ hash' = [hash EXCEPT ![c] = sweepwholelist(hash[c])]
        /\ nuse' = nuse - (Len(hash[c]) - Len(sweepwholelist(hash[c])))
        /\ sweepstrgc' = c + 1 /\ strtState' = IF c + 1 >= n THEN "sweep" ELSE "sweepstring"
    BY <1>6 DEF sweepstring, nothingMoreToSweep, n
  <2>2. c \in 0 .. n - 1 /\ c \in Nat /\ c < n
    BY <1>1, <2>1 DEF Colours, n
  <2>3. /\ Sound(hash', n)
        /\ AllTexts(hash') = AllTexts(hash) \ {d.text : d \in {e \in Els(hash[c]) : isdead(e)}}
        /\ \A d \in 0 .. n - 1 : d # c => hash'[d] = hash[d]
        /\ \A e \in Els(hash'[c]) : e.mark = currentwhite
        /\ Cardinality(AllTexts(hash')) = Cardinality(AllTexts(hash)) - (Len(hash[c]) - Len(hash'[c]))
    BY <1>1, <1>2, <2>1, <2>2, ChainSwept
  <2>4. size(hash') = n /\ DOMAIN hash' = 0 .. n - 1 /\ hash'[c] = sweepwholelist(hash[c]) /\ Table(hash', n)
    <3>1. Table(hash', n)
      BY <2>3 DEF Sound
    <3>. QED BY <1>1, <2>1, <2>2, <3>1, TableFacts
  <2>5. inUse \subseteq AllTexts(hash')
    <3>1. ASSUME NEW e \in Els(hash[c]), isdead(e) PROVE e.text \notin inUse
      <4>1. e.mark = otherwhite
        BY <3>1 DEF isdead
      <4>2. ~(c < sweepstrgc) /\ c \in DOMAIN hash
        BY <1>1, <2>2
      <4>. QED BY <1>1, <2>1, <4>1, <4>2 DEF Colours
    <3>. QED BY <1>1, <2>3, <3>1 DEF Contents
  <2>6. Contents'
    BY <1>1, <2>1, <2>3, <2>4, <2>5 DEF Contents, n
  <2>7. otherwhite' = otherwhite
    BY <2>1 DEF otherwhite
  <2>8. ASSUME NEW d \in 0 .. n - 1, NEW e \in Els(hash'[d])
        PROVE  IF d < c + 1 THEN e.mark = currentwhite ELSE e.text \in inUse => e.mark # otherwhite
    <3>1. CASE d = c
      BY <2>2, <2>3, <3>1
    <3>2. CASE d # c
      <4>1. e \in Els(hash[d])
        BY <2>3, <3>2
      <4>2. IF d < c THEN e.mark = currentwhite ELSE e.text \in inUse => e.mark # otherwhite
        BY <1>1, <2>1, <4>1 DEF Colours
      <4>3. d < c <=> d < c + 1
        BY <2>2, <3>2
      <4>. QED BY <4>2, <4>3
    <3>. QED BY <3>1, <3>2
  <2>9. Colours'
    <3>1. CASE c + 1 >= n
      <4>1. ASSUME NEW e \in All(hash') PROVE e.mark # otherwhite
        <5>1. PICK d \in 0 .. n - 1 : e \in Els(hash'[d])
          BY <1>1, <2>4, AllEntries
        <5>2. d < c + 1
          BY <1>1, <2>2, <3>1
        <5>. QED BY <1>2, <2>8, <5>1, <5>2
      <4>2. strtState' = "sweep" /\ sweepstrgc' \in Nat /\ currentwhite' \in {0, 1}
        BY <1>2, <2>1, <2>2, <3>1
      <4>3. strtState' # "sweepstring" /\ strtState' \in {"mark", "sweepstring", "sweep"}
        BY <4>2
      <4>4. \A e \in All(hash') : e.mark # otherwhite'
        BY <2>7, <4>1
      <4>. QED BY <4>2, <4>3, <4>4 DEF Colours
    <3>2. CASE ~(c + 1 >= n)
      <4>1. strtState' = "sweepstring" /\ c + 1 < size(hash') /\ c + 1 \in Nat
        BY <1>1, <2>1, <2>2, <2>4, <3>2
      <4>. QED BY <1>2, <2>1, <2>4, <2>7, <2>8, <4>1 DEF Colours
    <3>. QED BY <3>1, <3>2
  <2>. QED BY <2>6, <2>9 DEF StrtInvariant
<1>7. ASSUME NEW nomemory \in BOOLEAN, checkSizes(nomemory) PROVE StrtInvariant'
  <2>1. /\ strtState = "sweep" /\ strtState' = "mark"
        /\ nuse' = nuse /\ currentwhite' = currentwhite /\ sweepstrgc' = sweepstrgc /\ inUse' = inUse
    BY <1>7 DEF checkSizes
  <2>2. \E m \in Nat \ {0} : Sound(hash', m) /\ All(hash') = All(hash)
    <3>1. CASE hash' = hash
      BY <1>1, <3>1
    <3>2. CASE hash' # hash
      <4>1. hash' = Rehashed(hash, n \div 2) /\ n > MINSTRTABSIZE * 2
        BY <1>7, <2>1, <3>2 DEF checkSizes, luaS_resize, Moves, n
      <4>2. n \div 2 \in Nat \ {0}
        BY <1>1, <4>1, StrtConstants
      <4>3. Sound(Rehashed(hash, n \div 2), n \div 2) /\ All(Rehashed(hash, n \div 2)) = All(hash)
        BY <1>1, <4>2, Resized
      <4>. QED BY <4>1, <4>2, <4>3
    <3>. QED BY <3>1, <3>2
  <2>3. PICK m \in Nat \ {0} : Sound(hash', m) /\ All(hash') = All(hash)
    BY <2>2
  <2>4. size(hash') = m
    BY <2>3, TableFacts DEF Sound
  <2>5. AllTexts(hash') = AllTexts(hash)
    BY <2>3 DEF AllTexts
  <2>6. Contents'
    BY <1>1, <2>1, <2>3, <2>4, <2>5 DEF Contents
  <2>7. Colours'
    BY <1>1, <2>1, <2>3 DEF Colours, otherwhite
  <2>. QED BY <2>6, <2>7 DEF StrtInvariant
<1>8. ASSUME luaC_fullgc PROVE StrtInvariant'
  <2>1. /\ hash' = hash /\ nuse' = nuse /\ inUse' = inUse /\ currentwhite' = currentwhite /\ sweepstrgc' = 0
        /\ strtState = "mark" /\ strtState' = "sweepstring"
    BY <1>8 DEF luaC_fullgc
  <2>2. Contents'
    BY <1>1, <2>1 DEF Contents
  <2>3. otherwhite' = otherwhite /\ 0 < size(hash) /\ \A c \in DOMAIN hash : ~(c < 0)
    BY <1>1, <2>1 DEF otherwhite, n
  <2>4. \A c \in DOMAIN hash : \A e \in Els(hash[c]) : e.mark # otherwhite
    BY <1>1, <2>1, TheTable DEF Colours
  <2>5. Colours'
    BY <1>2, <2>1, <2>3, <2>4 DEF Colours
  <2>. QED BY <2>2, <2>5 DEF StrtInvariant
<1>9. CASE UNCHANGED strtVars
  BY <1>9 DEF strtVars, StrtInvariant, Contents, Colours, otherwhite
<1>. QED BY <1>3, <1>4, <1>5, <1>6, <1>7, <1>8, <1>9, NewString DEF StrtNext

\* The invariant holds from the empty table on.
LEMMA StrtInductive == StrtSpec => []StrtInvariant
<1>1. StrtInit => StrtInvariant
  <2>. SUFFICES ASSUME StrtInit PROVE StrtInvariant
    OBVIOUS
  <2>. DEFINE n == MINSTRTABSIZE
  <2>1. /\ hash = [c \in 0 .. n - 1 |-> <<>>] /\ nuse = 0 /\ inUse = {} /\ n \in Nat \ {0} /\ n \in Nat
        /\ strtState = "mark" /\ currentwhite = 0 /\ sweepstrgc = 0
    BY StrtConstants DEF StrtInit
  <2>2. Table(hash, n) /\ \A c \in 0 .. n - 1 : hash[c] = <<>>
    BY <2>1, NoChain DEF Table
  <2>3. Sound(hash, n)
    BY <2>2, NoChain DEF Sound, InPlace
  <2>4. size(hash) = n /\ \A e : e \notin All(hash)
    BY <2>1, <2>2, NoChain, TableFacts, AllEntries
  <2>5. AllTexts(hash) = {}
    BY <2>4 DEF AllTexts
  <2>. HIDE DEF n
  <2>. QED BY <2>1, <2>3, <2>4, <2>5, FS_EmptySet DEF StrtInvariant, Contents, Colours
<1>2. StrtInvariant /\ [StrtNext]_strtVars => StrtInvariant'
  BY StrtStep
<1>. QED BY <1>1, <1>2, PTL DEF StrtSpec

\* Two strings of one text are one object, each is where its hash says, and
\* no string in use is ever freed, whatever grows, shrinks and sweeps the
\* table, and when the memory for that fails (luaS_newlstr, luaS_resize,
\* sweepwholelist, checkSizes).
THEOREM StringsInterned == StrtSpec => []Interned
<1>1. StrtInvariant => Interned
  <2>. SUFFICES ASSUME StrtInvariant PROVE Interned
    OBVIOUS
  <2>. DEFINE n == size(hash)
  <2>1. n \in Nat /\ Sound(hash, n) /\ Table(hash, n) /\ Contents
    BY TheTable DEF StrtInvariant
  <2>2. /\ \A p, q \in Places(hash) : At(hash, p).text = At(hash, q).text => p = q
        /\ nuse = Cardinality(Places(hash))
    BY <2>1, Once DEF Contents
  <2>3. ASSUME NEW p \in Places(hash) PROVE TextHash[At(hash, p).text] % n = p[1]
    <3>1. PICK c \in 0 .. n - 1 : \E k \in 1 .. Len(hash[c]) : p = <<c, k>>
      BY <2>1, AllEntries
    <3>2. PICK k \in 1 .. Len(hash[c]) : p = <<c, k>>
      BY <3>1
    <3>3. At(hash, p) = hash[c][k] /\ p[1] = c
      BY <3>2 DEF At
    <3>. QED BY <2>1, <3>3 DEF Sound, InPlace
  <2>4. AllTexts(hash) = {At(hash, p).text : p \in Places(hash)}
    BY DEF AllTexts, All
  <2>. QED BY <2>1, <2>2, <2>3, <2>4 DEF Interned, Contents
<1>. QED BY <1>1, StrtInductive, PTL

\* The sweep passes over no string that it should free or make white, though
\* the table may change its size between two sweeps (sweepstrgc, Moves).
THEOREM SweepIsComplete == StrtSpec => []SweepComplete
<1>1. StrtInvariant => SweepComplete
  <2>. SUFFICES ASSUME StrtInvariant PROVE SweepComplete
    OBVIOUS
  <2>. DEFINE n == size(hash)
  <2>1. /\ n \in Nat /\ Sound(hash, n) /\ Table(hash, n) /\ DOMAIN hash = 0 .. n - 1 /\ Colours
        /\ currentwhite # otherwhite /\ currentwhite # Black
    BY TheTable DEF StrtInvariant, Colours, otherwhite, Black
  <2>2. ASSUME NEW p \in Places(hash)
        PROVE  At(hash, p) \in All(hash) /\ p[1] \in DOMAIN hash /\ At(hash, p) \in Els(hash[p[1]])
    <3>1. PICK c \in 0 .. n - 1 : \E k \in 1 .. Len(hash[c]) : p = <<c, k>>
      BY <2>1, AllEntries
    <3>2. PICK k \in 1 .. Len(hash[c]) : p = <<c, k>>
      BY <3>1
    <3>3. At(hash, p) = hash[c][k] /\ p[1] = c
      BY <3>2 DEF At
    <3>. QED BY <2>1, <3>3 DEF All, Els
  <2>3. ASSUME NEW p \in Places(hash), strtState = "sweepstring", p[1] < sweepstrgc
        PROVE  At(hash, p).mark = currentwhite
    BY <2>1, <2>2, <2>3 DEF Colours
  <2>4. ASSUME NEW p \in Places(hash), strtState # "sweepstring" PROVE At(hash, p).mark # otherwhite
    BY <2>1, <2>2, <2>4 DEF Colours
  <2>. QED BY <2>1, <2>3, <2>4 DEF SweepComplete, isdead
<1>. QED BY <1>1, StrtInductive, PTL
=============================================================================
