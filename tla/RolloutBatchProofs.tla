-------------------------- MODULE RolloutBatchProofs --------------------------
(***************************************************************************)
(* Proofs, for any numbers of prompts, rollouts, workers, ranks, rows and  *)
(* tokens, that a batch keeps its rows together on the way from the        *)
(* prompts to the updates: every row meets its own prompt, its own log     *)
(* probability and the rollouts it is to be compared with, is in one       *)
(* mini-batch of one rank, and a validation scores every rollout slot.     *)
(*                                                                         *)
(* Flattening and sorting keep every element once (Layout, Enumerates);    *)
(* what balancing, micro-batches and their inverse make of a list of rows  *)
(* is therefore a rearrangement of it.  The inductive invariant (BatInv)   *)
(* says what each stage has left: BatchOf, every generated row once and    *)
(* the dummies beside them; Dealt, as many rows for every rank.            *)
(***************************************************************************)
EXTENDS RolloutBatch, SequenceTheorems, WellFoundedInduction, FiniteSetTheorems, TLAPS

\* Every set of numbers has a least element.
LEMMA LeastOf ==
    ASSUME NEW T \in SUBSET Nat, T # {}
    PROVE  \E n \in T : \A m \in T : n <= m
PROOF
<1> DEFINE R == OpToRel(<, Nat)
<1>1. IsWellFoundedOn(R, Nat)
  BY NatLessThanWellFounded
<1>2. R = {ss \in Nat \X Nat : ss[1] < ss[2]}
  BY DEF OpToRel
<1> HIDE DEF R
<1>3. PICK n \in T : \A m \in T : ~(<<m, n>> \in R)
  BY <1>1, WFMin
<1>4. ASSUME NEW m \in T
      PROVE  n <= m
  <2>1. <<m, n>> \notin R
    BY <1>3
  <2>2. <<m, n>> \in Nat \X Nat
    OBVIOUS
  <2>3. ~(m < n)
    BY <2>1, <2>2, <1>2
  <2> QED
    BY <2>3
<1> QED
  BY <1>4

\* Induction over 0..n.
LEMMA UpTo ==
    ASSUME NEW n \in Nat, NEW S, 0 \in S, \A k \in 0..(n - 1) : k \in S => k + 1 \in S
    PROVE  0..n \subseteq S
PROOF
<1> DEFINE T == {k \in 0..n : k \notin S}
<1>1. SUFFICES ASSUME T # {} PROVE FALSE
  OBVIOUS
<1>2. T \in SUBSET Nat
  OBVIOUS
<1>3. PICK k \in T : \A m \in T : k <= m
  BY <1>1, <1>2, LeastOf
<1>4. k \in Nat /\ k # 0 /\ k <= n /\ k \notin S
  OBVIOUS
<1>5. k - 1 \in 0..(n - 1) /\ k - 1 \notin T
  BY <1>3, <1>4
<1>6. k - 1 \in S
  BY <1>5
<1> QED
  BY <1>4, <1>5, <1>6

\* The concatenations of the first sequences.
FlatPrefixes(ss) ==
    CHOOSE f : f = [i \in 1..Len(ss) |-> IF i = 1 THEN ss[i] ELSE f[i - 1] \o ss[i]]

LEMMA PrefixesDefined ==
    ASSUME NEW ss, Len(ss) \in Nat
    PROVE  FlatPrefixes(ss) =
            [i \in 1..Len(ss) |-> IF i = 1 THEN ss[i] ELSE FlatPrefixes(ss)[i - 1] \o ss[i]]
PROOF
<1> DEFINE Good(f, k) == f = [i \in 1..k |-> IF i = 1 THEN ss[i] ELSE f[i - 1] \o ss[i]]
           S == {k \in Nat : \E f : Good(f, k)}
           n == Len(ss)
<1>1. 0 \in S
  <2>1. Good([i \in 1..0 |-> 0], 0)
    OBVIOUS
  <2> QED
    BY <2>1
<1>2. ASSUME NEW k \in Nat, k \in S
      PROVE  k + 1 \in S
  <2>1. PICK f : Good(f, k)
    BY <1>2
  <2> DEFINE g == [i \in 1..(k + 1) |-> IF i = k + 1
                                        THEN IF i = 1 THEN ss[i] ELSE f[k] \o ss[i] ELSE f[i]]
  <2>2. \A i \in 1..(k + 1) : g[i] = IF i = 1 THEN ss[i] ELSE g[i - 1] \o ss[i]
    <3> TAKE i \in 1..(k + 1)
    <3>1. CASE i = k + 1
      BY <3>1
    <3>2. CASE i # k + 1
      <4>1. i \in 1..k /\ g[i] = f[i] /\ (i # 1 => i - 1 \in 1..k /\ g[i - 1] = f[i - 1])
        BY <3>2
      <4>2. f[i] = IF i = 1 THEN ss[i] ELSE f[i - 1] \o ss[i]
        BY <2>1, <4>1
      <4> QED
        BY <4>1, <4>2
    <3> QED
      BY <3>1, <3>2
  <2>3. Good(g, k + 1)
    BY <2>2
  <2> HIDE DEF g, Good
  <2>4. \E h : Good(h, k + 1)
    BY <2>3
  <2> QED
    BY <2>4
<1>3. n \in S
  BY <1>1, <1>2, UpTo, n \in 0..n
<1>4. \E f : Good(f, n)
  BY <1>3
<1>5. FlatPrefixes(ss) = CHOOSE f : Good(f, n)
  BY DEF FlatPrefixes
<1> HIDE DEF Good
<1>6. Good(FlatPrefixes(ss), n)
  BY <1>4, <1>5
<1> QED
  BY <1>6 DEF Good

LEMMA FlattenIs ==
    ASSUME NEW ss
    PROVE  FlattenSeq(ss) = IF Len(ss) = 0 THEN ss ELSE FlatPrefixes(ss)[Len(ss)]
PROOF
  BY Zenon DEF FlattenSeq, FlatPrefixes

-----------------------------------------------------------------------------
(* Flattened sequences *)

\* Sequence i of ss lies in s behind place off[i - 1].
Layout(ss, s, off) ==
    /\ off \in [0..Len(ss) -> Nat] /\ off[0] = 0
    /\ \A i \in 1..Len(ss) : off[i] = off[i - 1] + Len(ss[i])
    /\ Len(s) = off[Len(ss)]
    /\ \A i \in 1..Len(ss) : \A j \in 1..Len(ss[i]) : s[off[i - 1] + j] = ss[i][j]

\* Place k of the concatenation is place j of sequence i.
IsAt(ss, off, k, i, j) == i \in 1..Len(ss) /\ j \in 1..Len(ss[i]) /\ k = off[i - 1] + j

LEMMA ConcatIs ==
    ASSUME NEW T, NEW s \in Seq(T), NEW t \in Seq(T)
    PROVE  /\ s \o t \in Seq(T) /\ Len(s \o t) = Len(s) + Len(t)
           /\ \A j \in 1..Len(s) : (s \o t)[j] = s[j]
           /\ \A j \in 1..Len(t) : (s \o t)[Len(s) + j] = t[j]
PROOF
  OBVIOUS

LEMMA PrefixesTyped ==
    ASSUME NEW T, NEW ss \in Seq(Seq(T)), NEW f,
           f = [i \in 1..Len(ss) |-> IF i = 1 THEN ss[i] ELSE f[i - 1] \o ss[i]]
    PROVE  \A i \in 1..Len(ss) : f[i] \in Seq(T)
PROOF
<1> DEFINE n == Len(ss)
           S == {k \in Nat : k # 0 => f[k] \in Seq(T)}
<1>0. n \in Nat /\ \A i \in 1..n : ss[i] \in Seq(T)
  OBVIOUS
<1>1. 0 \in S
  OBVIOUS
<1>2. ASSUME NEW k \in 0..(n - 1), k \in S PROVE k + 1 \in S
  <2>1. k + 1 \in 1..n /\ ss[k + 1] \in Seq(T)
    BY <1>0
  <2>2. CASE k = 0
    <3>1. f[1] = ss[1]
      BY <2>1, <2>2
    <3> QED
      BY <2>1, <2>2, <3>1
  <2>3. CASE k # 0
    <3>1. f[k + 1] = f[k] \o ss[k + 1]
      <4>1. f[k + 1] = IF k + 1 = 1 THEN ss[k + 1] ELSE f[(k + 1) - 1] \o ss[k + 1]
        BY <2>1
      <4>2. (k + 1) - 1 = k /\ k + 1 # 1
        BY <2>3
      <4> QED
        BY <4>1, <4>2
    <3>2. f[k] \in Seq(T)
      BY <1>2, <2>3
    <3>3. f[k + 1] \in Seq(T)
      BY <2>1, <3>1, <3>2, ConcatIs
    <3> QED
      BY <3>3
  <2> QED
    BY <2>2, <2>3
<1> HIDE DEF S, n
<1>3. 0..n \subseteq S
  BY <1>0, <1>1, <1>2, UpTo
<1>4. ASSUME NEW i \in 1..n PROVE f[i] \in Seq(T)
  <2>1. i \in S /\ i # 0
    BY <1>0, <1>3
  <2> QED
    BY <2>1 DEF S
<1> QED
  BY <1>4 DEF n

LEMMA FlattenLayout ==
    ASSUME NEW T, NEW ss \in Seq(Seq(T))
    PROVE  FlattenSeq(ss) \in Seq(T) /\ \E off : Layout(ss, FlattenSeq(ss), off)
PROOF
<1> DEFINE n == Len(ss)
           f == FlatPrefixes(ss)
           off == [k \in 0..n |-> IF k = 0 THEN 0 ELSE Len(f[k])]
<1>0. n \in Nat /\ \A i \in 1..n : ss[i] \in Seq(T) /\ Len(ss[i]) \in Nat
  OBVIOUS
<1>1. f = [i \in 1..n |-> IF i = 1 THEN ss[i] ELSE f[i - 1] \o ss[i]]
  BY <1>0, PrefixesDefined
<1> HIDE DEF f
<1>2. \A i \in 1..n : f[i] \in Seq(T)
  BY <1>1, PrefixesTyped
<1>3. FlattenSeq(ss) = IF n = 0 THEN ss ELSE f[n]
  BY FlattenIs DEF f
<1>4. CASE n = 0
  <2>1. ss = <<>> /\ FlattenSeq(ss) = <<>>
    BY <1>3, <1>4, EmptySeq
  <2>2. <<>> \in Seq(T)
    OBVIOUS
  <2>3. Layout(ss, <<>>, off)
    BY <1>4, <2>1 DEF Layout
  <2> HIDE DEF off
  <2> QED
    BY <2>1, <2>2, <2>3
<1>5. CASE n # 0
  <2>1. FlattenSeq(ss) = f[n] /\ f[n] \in Seq(T) /\ n \in 1..n
    BY <1>0, <1>2, <1>3, <1>5
  <2>2. off \in [0..n -> Nat] /\ off[0] = 0 /\ Len(f[n]) = off[n]
    BY <1>0, <1>2, <1>5
  <2>3. ASSUME NEW i \in 1..n
        PROVE  /\ off[i] = Len(f[i]) /\ off[i] = off[i - 1] + Len(ss[i])
               /\ \A j \in 1..Len(ss[i]) : f[i][off[i - 1] + j] = ss[i][j]
               /\ \A k \in 1..off[i - 1] : i # 1 /\ f[i][k] = f[i - 1][k]
    <3>1. off[i] = Len(f[i])
      OBVIOUS
    <3>2. CASE i = 1
      <4>1. f[i] = ss[i] /\ off[i - 1] = 0
        BY <1>1, <3>2
      <4> HIDE DEF off
      <4> QED
        BY <1>0, <3>1, <4>1
    <3>3. CASE i # 1
      <4>1. f[i] = f[i - 1] \o ss[i]
        BY <1>1, <3>3
      <4>2. i - 1 \in 1..n /\ off[i - 1] = Len(f[i - 1]) /\ f[i - 1] \in Seq(T)
        BY <1>2, <3>3
      <4>3. ss[i] \in Seq(T)
        BY <1>0
      <4> HIDE DEF off, n
      <4>4. /\ Len(f[i]) = Len(f[i - 1]) + Len(ss[i])
            /\ \A j \in 1..Len(f[i - 1]) : f[i][j] = f[i - 1][j]
            /\ \A j \in 1..Len(ss[i]) : f[i][Len(f[i - 1]) + j] = ss[i][j]
        <5> DEFINE g == f[i - 1]
        <5>1. g \in Seq(T) /\ ss[i] \in Seq(T)
          BY <4>2, <4>3
        <5> HIDE DEF g
        <5>2. /\ Len(g \o ss[i]) = Len(g) + Len(ss[i])
              /\ \A j \in 1..Len(g) : (g \o ss[i])[j] = g[j]
              /\ \A j \in 1..Len(ss[i]) : (g \o ss[i])[Len(g) + j] = ss[i][j]
          BY <5>1, ConcatIs
        <5> QED
          BY <4>1, <5>2 DEF g
      <4> QED
        BY <3>1, <3>3, <4>2, <4>4
    <3> QED
      BY <3>2, <3>3
  <2> HIDE DEF off, n
  <2>4. \A i \in 1..n : /\ off[i] = off[i - 1] + Len(ss[i]) /\ off[i] \in Nat
                         /\ off[i - 1] \in Nat /\ Len(ss[i]) \in Nat
    <3> TAKE i \in 1..n
    <3>1. i \in 0..n /\ i - 1 \in 0..n
      BY <1>0
    <3> QED
      BY <1>0, <2>2, <2>3, <3>1
  <2> DEFINE Kept(k) == \A i \in 1..n : i <= k =>
                            \A j \in 1..Len(ss[i]) : f[k][off[i - 1] + j] = ss[i][j]
             S == {k \in Nat : k # 0 => Kept(k)}
  <2>5. 0 \in S
    OBVIOUS
  <2>6. ASSUME NEW k \in 0..(n - 1), k \in S PROVE k + 1 \in S
    <3>0. k + 1 \in 1..n /\ (k + 1) - 1 = k /\ k \in 0..n
      BY <1>0
    <3>1. ASSUME NEW i \in 1..n, i <= k + 1, NEW j \in 1..Len(ss[i])
          PROVE  f[k + 1][off[i - 1] + j] = ss[i][j]
      <4>1. CASE i = k + 1
        BY <2>3, <4>1
      <4>2. CASE i # k + 1
        <5>1. i <= k /\ k # 0
          BY <3>1, <4>2
        <5>2. f[k][off[i - 1] + j] = ss[i][j]
          BY <2>6, <5>1
        <5>3. off[i - 1] \in Nat /\ off[i] = off[i - 1] + Len(ss[i]) /\ off[i] \in Nat
          BY <2>4
        <5>4. off[i] <= off[k]
          <6> DEFINE R == {h \in Nat : h >= i => off[i] <= off[h]}
          <6>1. 0 \in R
            OBVIOUS
          <6>2. ASSUME NEW h \in 0..(n - 1), h \in R PROVE h + 1 \in R
            <7>1. h + 1 \in 1..n /\ off[h + 1] = off[(h + 1) - 1] + Len(ss[h + 1]) /\ (h + 1) - 1 = h
              BY <1>0, <2>4
            <7>2. Len(ss[h + 1]) \in Nat /\ off[h] \in Nat /\ off[h + 1] = off[h] + Len(ss[h + 1])
              BY <2>4, <7>1
            <7>3. CASE h >= i
              <8>1. off[i] <= off[h]
                BY <6>2, <7>3
              <8> QED
                BY <5>3, <7>2, <8>1
            <7>4. CASE ~(h >= i)
              BY <5>3, <7>2, <7>4
            <7> QED
              BY <7>3, <7>4
          <6> HIDE DEF R
          <6>3. 0..n \subseteq R
            BY <1>0, <6>1, <6>2, UpTo
          <6>4. k \in R
            BY <3>0, <6>3
          <6> QED
            BY <5>1, <6>4 DEF R
        <5>5. off[i - 1] + j \in 1..off[k] /\ off[k] \in Nat
          <6>1. off[k] \in Nat
            BY <2>2, <3>0
          <6> QED
            BY <2>4, <5>3, <5>4, <6>1
        <5>6. f[k + 1][off[i - 1] + j] = f[k][off[i - 1] + j]
          <6>1. \A h \in 1..off[(k + 1) - 1] : f[k + 1][h] = f[(k + 1) - 1][h]
            BY <2>3, <3>0
          <6> QED
            BY <3>0, <5>5, <6>1
        <5> QED
          BY <5>2, <5>6
      <4> QED
        BY <4>1, <4>2
    <3>2. Kept(k + 1)
      BY <3>1
    <3> QED
      BY <3>2
  <2> HIDE DEF S
  <2>7. n \in S
    <3>1. 0..n \subseteq S
      BY <1>0, <2>5, <2>6, UpTo
    <3> QED
      BY <1>0, <3>1
  <2>8. Kept(n)
    BY <1>5, <2>7 DEF S
  <2>9. Layout(ss, f[n], off)
    <3>1. \A i \in 1..n : \A j \in 1..Len(ss[i]) : f[n][off[i - 1] + j] = ss[i][j]
      BY <1>0, <2>8
    <3> HIDE DEF Kept
    <3>2. \A i \in 1..n : off[i] = off[i - 1] + Len(ss[i])
      BY <2>4
    <3> QED
      BY <2>2, <3>1, <3>2 DEF Layout, n
  <2>10. \E g : Layout(ss, f[n], g)
    BY <2>9
  <2> QED
    BY <2>1, <2>10
<1> QED
  BY <1>4, <1>5

\* Places grow with the sequences.
LEMMA LayoutOffsets ==
    ASSUME NEW T, NEW ss \in Seq(Seq(T)), NEW s, NEW off, Layout(ss, s, off)
    PROVE  /\ off \in [0..Len(ss) -> Nat] /\ Len(s) = off[Len(ss)]
           /\ \A i \in 1..Len(ss) : /\ off[i] = off[i - 1] + Len(ss[i]) /\ Len(ss[i]) \in Nat
                                     /\ off[i] \in Nat /\ off[i - 1] \in Nat
           /\ \A i, k \in 0..Len(ss) : i <= k => off[i] <= off[k]
PROOF
<1> DEFINE n == Len(ss)
<1>0. n \in Nat /\ \A i \in 1..n : Len(ss[i]) \in Nat
  OBVIOUS
<1>1. off \in [0..n -> Nat] /\ off[0] = 0 /\ Len(s) = off[n]
  BY DEF Layout
<1>9. \A i \in 1..n : off[i] = off[i - 1] + Len(ss[i])
  BY DEF Layout
<1> HIDE DEF n
<1>2. \A i \in 1..n : off[i] = off[i - 1] + Len(ss[i]) /\ off[i] \in Nat /\ off[i - 1] \in Nat
  <2> TAKE i \in 1..n
  <2>1. i \in 0..n /\ i - 1 \in 0..n
    BY <1>0
  <2> QED
    BY <1>1, <1>9, <2>1
<1>3. ASSUME NEW i \in 0..n, NEW k \in 0..n, i <= k PROVE off[i] <= off[k]
  <2> DEFINE R == {h \in Nat : h >= i => off[i] <= off[h]}
  <2>1. 0 \in R
    BY <1>1
  <2>2. ASSUME NEW h \in 0..(n - 1), h \in R PROVE h + 1 \in R
    <3>1. h + 1 \in 1..n /\ (h + 1) - 1 = h
      BY <1>0
    <3>2. Len(ss[h + 1]) \in Nat /\ off[h] \in Nat /\ off[h + 1] = off[h] + Len(ss[h + 1])
      BY <1>0, <1>1, <1>2, <3>1
    <3>3. off[i] \in Nat
      BY <1>1
    <3>4. CASE h >= i
      BY <2>2, <3>2, <3>3, <3>4
    <3>5. CASE ~(h >= i)
      BY <3>2, <3>3, <3>5
    <3> QED
      BY <3>4, <3>5
  <2> HIDE DEF R
  <2>3. k \in R
    BY <1>0, <2>1, <2>2, UpTo
  <2> QED
    BY <1>3, <2>3 DEF R
<1> QED
  BY <1>0, <1>1, <1>2, <1>3 DEF n

\* Every place of s belongs to one place of one sequence.
LEMMA LayoutCovers ==
    ASSUME NEW T, NEW ss \in Seq(Seq(T)), NEW s, NEW off, Layout(ss, s, off), NEW k \in 1..Len(s)
    PROVE  \E i, j : IsAt(ss, off, k, i, j)
PROOF
<1> DEFINE n == Len(ss)
<1>0. n \in Nat /\ \A i \in 1..n : Len(ss[i]) \in Nat
  OBVIOUS
<1>1. off \in [0..n -> Nat] /\ off[0] = 0 /\ Len(s) = off[n]
  BY DEF Layout
<1>9. \A i \in 1..n : off[i] = off[i - 1] + Len(ss[i])
  BY DEF Layout
<1> HIDE DEF n
<1>2. \A i \in 1..n : off[i] = off[i - 1] + Len(ss[i]) /\ off[i] \in Nat /\ off[i - 1] \in Nat
  <2> TAKE i \in 1..n
  <2>1. i \in 0..n /\ i - 1 \in 0..n
    BY <1>0
  <2> QED
    BY <1>1, <1>9, <2>1
<1>4. \E i \in 1..n : \E j \in 1..Len(ss[i]) : k = off[i - 1] + j
  <2> DEFINE R == {i \in 0..n : k <= off[i]}
  <2>1. R \in SUBSET Nat /\ n \in R
    BY <1>0, <1>1
  <2>2. PICK i \in R : \A m \in R : i <= m
    BY <2>1, LeastOf
  <2>3. i \in 1..n
    BY <1>1, <2>2
  <2>4. i - 1 \in 0..n /\ i - 1 \notin R
    <3>1. i - 1 \in 0..n /\ ~(i <= i - 1)
      BY <1>0, <2>3
    <3> HIDE DEF R
    <3>2. i - 1 \notin R
      BY <2>2, <3>1
    <3> QED
      BY <3>1, <3>2
  <2>5. off[i - 1] < k /\ k <= off[i]
    <3>1. off[i - 1] \in Nat /\ off[n] \in Nat /\ k \in Nat
      BY <1>0, <1>1, <1>2, <2>3
    <3> QED
      BY <2>2, <2>3, <2>4, <3>1
  <2>6. k - off[i - 1] \in 1..Len(ss[i]) /\ k = off[i - 1] + (k - off[i - 1])
    BY <1>0, <1>2, <2>3, <2>5
  <2> QED
    BY <2>3, <2>6
<1> QED
  BY <1>4 DEF n, IsAt

LEMMA LayoutPlaces ==
    ASSUME NEW T, NEW ss \in Seq(Seq(T)), NEW s, NEW off, Layout(ss, s, off)
    PROVE  /\ \A i \in 1..Len(ss) : \A j \in 1..Len(ss[i]) : off[i - 1] + j \in 1..Len(s)
           /\ \A i, h \in 1..Len(ss) : \A j \in 1..Len(ss[i]), k \in 1..Len(ss[h]) :
                off[i - 1] + j = off[h - 1] + k => i = h /\ j = k
PROOF
<1> DEFINE n == Len(ss)
<1>0. n \in Nat /\ \A i \in 1..n : Len(ss[i]) \in Nat
  OBVIOUS
<1>1. off \in [0..n -> Nat] /\ off[0] = 0 /\ Len(s) = off[n]
  BY DEF Layout
<1>9. \A i \in 1..n : off[i] = off[i - 1] + Len(ss[i])
  BY DEF Layout
<1> HIDE DEF n
<1>2. \A i \in 1..n : off[i] = off[i - 1] + Len(ss[i]) /\ off[i] \in Nat /\ off[i - 1] \in Nat
  <2> TAKE i \in 1..n
  <2>1. i \in 0..n /\ i - 1 \in 0..n
    BY <1>0
  <2> QED
    BY <1>1, <1>9, <2>1
<1>3. \A i, k \in 0..n : i <= k => off[i] <= off[k]
  BY LayoutOffsets DEF n
<1>5. ASSUME NEW i \in 1..n, NEW j \in 1..Len(ss[i]) PROVE off[i - 1] + j \in 1..Len(s)
  <2>1. i \in 0..n /\ n \in 0..n /\ i <= n
    BY <1>0
  <2>2. off[i] <= off[n]
    BY <1>3, <2>1
  <2>3. /\ off[i] = off[i - 1] + Len(ss[i]) /\ off[i - 1] \in Nat /\ off[n] \in Nat
        /\ Len(ss[i]) \in Nat /\ off[n] = Len(s)
    BY <1>0, <1>1, <1>2
  <2>4. j \in Nat /\ j >= 1 /\ j <= Len(ss[i])
    BY <2>3
  <2> QED
    BY <2>2, <2>3, <2>4
<1>6. ASSUME NEW i \in 1..n, NEW h \in 1..n, NEW j \in 1..Len(ss[i]), NEW k \in 1..Len(ss[h]),
             i < h
      PROVE  off[i - 1] + j < off[h - 1] + k
  <2>1. i \in 0..n /\ h - 1 \in 0..n /\ i <= h - 1
    BY <1>0, <1>6
  <2>2. off[i] <= off[h - 1]
    BY <1>3, <2>1
  <2>3. /\ off[i] = off[i - 1] + Len(ss[i]) /\ off[i - 1] \in Nat /\ off[h - 1] \in Nat
        /\ Len(ss[i]) \in Nat /\ Len(ss[h]) \in Nat
    BY <1>0, <1>2
  <2>4. j \in Nat /\ j <= Len(ss[i]) /\ k \in Nat /\ k >= 1
    BY <2>3
  <2>5. \A a, b, c, d, e \in Nat : a + b <= c /\ d <= b /\ e >= 1 => a + d < c + e
    OBVIOUS
  <2>6. off[i - 1] + Len(ss[i]) <= off[h - 1]
    BY <2>2, <2>3
  <2> QED
    BY <2>3, <2>4, <2>5, <2>6
<1>7. ASSUME NEW i \in 1..n, NEW h \in 1..n, NEW j \in 1..Len(ss[i]), NEW k \in 1..Len(ss[h]),
             off[i - 1] + j = off[h - 1] + k
      PROVE  i = h /\ j = k
  <2>1. off[i - 1] \in Nat /\ off[h - 1] \in Nat /\ Len(ss[i]) \in Nat /\ Len(ss[h]) \in Nat
    BY <1>0, <1>2
  <2>2. ~(i < h) /\ ~(h < i)
    <3>1. i < h => off[i - 1] + j < off[h - 1] + k
      BY <1>6
    <3>2. h < i => off[h - 1] + k < off[i - 1] + j
      BY <1>6
    <3>3. j \in Nat /\ k \in Nat
      BY <2>1
    <3> QED
      BY <1>7, <2>1, <3>1, <3>2, <3>3
  <2>3. i = h
    BY <2>2
  <2> QED
    BY <1>7, <2>1, <2>3
<1> QED
  BY <1>5, <1>7 DEF n

-----------------------------------------------------------------------------
(* Enumerations *)

\* s is S in some order.
Enumerates(s, S) ==
    /\ s \in Seq(S)
    /\ \A i, j \in 1..Len(s) : s[i] = s[j] => i = j
    /\ \A x \in S : \E i \in 1..Len(s) : s[i] = x

StrictTotal(R, S) ==
    /\ \A x \in S : <<x, x>> \notin R
    /\ \A x, y, z \in S : <<x, y>> \in R /\ <<y, z>> \in R => <<x, z>> \in R
    /\ \A x, y \in S : x = y \/ <<x, y>> \in R \/ <<y, x>> \in R

Below(S, R, x) == {y \in S : <<y, x>> \in R}

LEMMA BelowGrows ==
    ASSUME NEW S, NEW R, IsFiniteSet(S), StrictTotal(R, S), NEW x \in S, NEW y \in S,
           <<x, y>> \in R
    PROVE  /\ Cardinality(Below(S, R, x)) \in Nat /\ Cardinality(Below(S, R, y)) \in Nat
           /\ Cardinality(Below(S, R, x)) < Cardinality(Below(S, R, y))
PROOF
<1>1. Below(S, R, x) \subseteq Below(S, R, y)
  BY Zenon DEF Below, StrictTotal
<1>2. x \in Below(S, R, y) /\ x \notin Below(S, R, x)
  BY Zenon DEF Below, StrictTotal
<1>3. Below(S, R, y) \subseteq S
  BY DEF Below
<1>4. IsFiniteSet(Below(S, R, y))
  BY <1>3, FS_Subset
<1>5. /\ IsFiniteSet(Below(S, R, x))
      /\ Cardinality(Below(S, R, x)) <= Cardinality(Below(S, R, y))
      /\ (Cardinality(Below(S, R, y)) = Cardinality(Below(S, R, x)) => Below(S, R, y) = Below(S, R, x))
  BY <1>1, <1>4, FS_Subset
<1>6. Cardinality(Below(S, R, x)) \in Nat /\ Cardinality(Below(S, R, y)) \in Nat
  BY <1>4, <1>5, FS_CardinalityType
<1> QED
  BY <1>2, <1>5, <1>6

LEMMA BelowBounded ==
    ASSUME NEW S, NEW R, IsFiniteSet(S), StrictTotal(R, S), NEW x \in S
    PROVE  Cardinality(Below(S, R, x)) \in 0..(Cardinality(S) - 1)
PROOF
<1>1. Below(S, R, x) \subseteq S \ {x}
  BY Zenon DEF Below, StrictTotal
<1>2. IsFiniteSet(S \ {x}) /\ Cardinality(S \ {x}) = Cardinality(S) - 1
  BY FS_RemoveElement
<1>3. IsFiniteSet(Below(S, R, x)) /\ Cardinality(Below(S, R, x)) <= Cardinality(S \ {x})
  BY <1>1, <1>2, FS_Subset
<1>4. Cardinality(Below(S, R, x)) \in Nat /\ Cardinality(S) \in Nat
  BY <1>3, FS_CardinalityType
<1> QED
  BY <1>2, <1>3, <1>4

\* Sorted enumerates a set, and the place of an element says how many are below.
LEMMA SortedEnumerates ==
    ASSUME NEW S, NEW R, IsFiniteSet(S), StrictTotal(R, S)
    PROVE  /\ Enumerates(Sorted(S, R), S) /\ Len(Sorted(S, R)) = Cardinality(S)
           /\ \A i \in 1..Cardinality(S) : Cardinality(Below(S, R, Sorted(S, R)[i])) = i - 1
PROOF
<1> DEFINE n == Cardinality(S)
           f == [x \in S |-> Cardinality(Below(S, R, x))]
<1>0. n \in Nat
  BY FS_CardinalityType
<1>1. f \in [S -> 0..(n - 1)]
  BY BelowBounded
<1>2. ASSUME NEW x \in S, NEW y \in S, f[x] = f[y] PROVE x = y
  <2>1. <<x, y>> \in R => f[x] < f[y] /\ f[x] \in Nat /\ f[y] \in Nat
    BY BelowGrows
  <2>2. <<y, x>> \in R => f[y] < f[x] /\ f[x] \in Nat /\ f[y] \in Nat
    BY BelowGrows
  <2>3. x = y \/ <<x, y>> \in R \/ <<y, x>> \in R
    BY DEF StrictTotal
  <2> HIDE DEF f
  <2> QED
    BY <1>2, <2>1, <2>2, <2>3
<1> HIDE DEF f
<1>3. f \in Injection(S, 0..(n - 1))
  BY <1>1, <1>2 DEF Injection, IsInjective
<1>4. IsFiniteSet(0..(n - 1)) /\ Cardinality(0..(n - 1)) = n
  <2>1. n - 1 \in Int /\ 0 \in Int
    BY <1>0
  <2>2. /\ IsFiniteSet(0..(n - 1))
        /\ Cardinality(0..(n - 1)) = IF 0 > n - 1 THEN 0 ELSE (n - 1) - 0 + 1
    BY <2>1, FS_Interval
  <2> HIDE DEF n
  <2> QED
    BY <1>0, <2>2
<1>5. f \in Surjection(S, 0..(n - 1))
  BY <1>3, <1>4, FS_Injection
<1>6. \A k \in 0..(n - 1) : \E x \in S : f[x] = k
  BY <1>5 DEF Surjection
<1>7. Sorted(S, R) = [i \in 1..n |-> CHOOSE x \in S : Cardinality(Below(S, R, x)) = i - 1]
  BY Zenon DEF Sorted, Below
<1>8. ASSUME NEW i \in 1..n
      PROVE  Sorted(S, R)[i] \in S /\ f[Sorted(S, R)[i]] = i - 1
  <2>1. \E x \in S : Cardinality(Below(S, R, x)) = i - 1
    <3>1. i - 1 \in 0..(n - 1)
      BY <1>0
    <3>2. PICK x \in S : f[x] = i - 1
      BY <1>6, <3>1
    <3> QED
      BY <3>2 DEF f
  <2>2. Sorted(S, R)[i] = CHOOSE x \in S : Cardinality(Below(S, R, x)) = i - 1
    BY <1>7
  <2>3. Sorted(S, R)[i] \in S /\ Cardinality(Below(S, R, Sorted(S, R)[i])) = i - 1
    BY Zenon, <2>1, <2>2
  <2> QED
    BY <2>3 DEF f
<1> DEFINE s == Sorted(S, R)
<1>9. s \in Seq(S) /\ Len(s) = n
  <2>1. s = [i \in 1..n |-> s[i]]
    BY <1>7
  <2> HIDE DEF s, n
  <2>2. \A i \in 1..n : s[i] \in S
    BY <1>8 DEF s, n
  <2>3. s \in [1..n -> S]
    BY <2>1, <2>2
  <2> QED
    BY <1>0, <2>3
<1>10. \A i, j \in 1..n : s[i] = s[j] => i = j
  <2> TAKE i, j \in 1..n
  <2>1. f[s[i]] = i - 1 /\ f[s[j]] = j - 1
    BY <1>8
  <2> HIDE DEF s, n
  <2> QED
    BY <1>0, <2>1
<1>11. ASSUME NEW x \in S PROVE \E i \in 1..n : s[i] = x
  <2>1. f[x] \in 0..(n - 1)
    BY <1>1
  <2>2. f[x] + 1 \in 1..n /\ (f[x] + 1) - 1 = f[x]
    BY <1>0, <2>1
  <2>3. s[f[x] + 1] \in S /\ f[s[f[x] + 1]] = f[x]
    BY <1>8, <2>2
  <2>4. s[f[x] + 1] = x
    BY <1>2, <2>3
  <2> QED
    BY <2>2, <2>4
<1>12. \A i \in 1..n : Cardinality(Below(S, R, s[i])) = i - 1
  BY <1>8 DEF f
<1> QED
  BY <1>9, <1>10, <1>11, <1>12 DEF Enumerates

\* The length of an enumeration.
LEMMA EnumerationLength ==
    ASSUME NEW s, NEW S, Enumerates(s, S)
    PROVE  IsFiniteSet(S) /\ Len(s) = Cardinality(S)
PROOF
<1> DEFINE n == Len(s)
<1>0. n \in Nat /\ s \in [1..n -> S]
  BY DEF Enumerates
<1>1. s \in Bijection(1..n, S)
  BY <1>0 DEF Enumerates, Bijection, Injection, IsInjective, Surjection
<1>2. ExistsBijection(1..n, S)
  BY <1>1 DEF ExistsBijection
<1>3. IsFiniteSet(1..n) /\ Cardinality(1..n) = n
  <2>1. n \in Int /\ 1 \in Int
    BY <1>0
  <2>2. IsFiniteSet(1..n) /\ Cardinality(1..n) = IF 1 > n THEN 0 ELSE n - 1 + 1
    BY <2>1, FS_Interval
  <2> HIDE DEF n
  <2> QED
    BY <1>0, <2>2
<1> QED
  BY <1>2, <1>3, FS_Bijection

LEMMA IntervalLength ==
    ASSUME NEW s, NEW n \in Nat, Enumerates(s, 1..n)
    PROVE  Len(s) = n /\ s \in [1..n -> 1..n]
PROOF
<1>1. Len(s) = Cardinality(1..n)
  BY EnumerationLength
<1>2. Cardinality(1..n) = IF 1 > n THEN 0 ELSE n - 1 + 1
  BY FS_Interval
<1>3. Len(s) = n
  BY <1>1, <1>2
<1>4. s \in [1..Len(s) -> 1..n]
  <2> DEFINE S == 1..n
  <2>1. s \in Seq(S)
    BY DEF Enumerates
  <2> HIDE DEF S
  <2>2. s \in [1..Len(s) -> S]
    BY <2>1
  <2> QED
    BY <2>2 DEF S
<1> QED
  BY <1>3, <1>4

\* A rearrangement of the places of an enumeration is one, too.
Rearranges(f, n) ==
    /\ f \in [1..n -> 1..n]
    /\ \A i, j \in 1..n : f[i] = f[j] => i = j
    /\ \A k \in 1..n : \E i \in 1..n : f[i] = k

LEMMA PlacesRearranged ==
    ASSUME NEW S, NEW s, Enumerates(s, S), NEW n \in Nat, Len(s) = n,
           NEW f, Rearranges(f, n), NEW t, t = [i \in 1..n |-> s[f[i]]]
    PROVE  Enumerates(t, S) /\ Len(t) = n
PROOF
<1> USE DEF Rearranges
<1>0. \A i \in 1..n : s[i] \in S
  BY DEF Enumerates
<1>1. \A i \in 1..n : f[i] \in 1..n /\ t[i] = s[f[i]] /\ t[i] \in S
  BY <1>0
<1>2. t \in [1..n -> S]
  BY <1>1
<1>3. t \in Seq(S) /\ Len(t) = n
  BY <1>2
<1>4. \A i, j \in 1..n : t[i] = t[j] => i = j
  <2> TAKE i, j \in 1..n
  <2> HAVE t[i] = t[j]
  <2>1. s[f[i]] = s[f[j]]
    BY <1>1
  <2>2. f[i] = f[j]
    BY <1>1, <2>1 DEF Enumerates
  <2> QED
    BY <2>2
<1>5. \A x \in S : \E i \in 1..n : t[i] = x
  <2> TAKE x \in S
  <2>1. PICK k \in 1..n : s[k] = x
    BY DEF Enumerates
  <2>2. PICK i \in 1..n : f[i] = k
    OBVIOUS
  <2> QED
    BY <1>1, <2>1, <2>2
<1> QED
  BY <1>3, <1>4, <1>5 DEF Enumerates

\* The concatenation of enumerations of disjoint sets.
LEMMA FlattenEnumerates ==
    ASSUME NEW T, NEW n \in Nat, NEW ss, ss = [i \in 1..n |-> ss[i]],
           NEW P, \A i \in 1..n : P[i] \subseteq T /\ Enumerates(ss[i], P[i]),
           \A i, j \in 1..n : i # j => P[i] \cap P[j] = {},
           \A x \in T : \E i \in 1..n : x \in P[i]
    PROVE  Enumerates(FlattenSeq(ss), T)
PROOF
<1>1. \A i \in 1..n : ss[i] \in Seq(T)
  <2> TAKE i \in 1..n
  <2>1. ss[i] \in Seq(P[i]) /\ P[i] \subseteq T
    BY DEF Enumerates
  <2> QED
    BY <2>1
<1>2. ss \in Seq(Seq(T)) /\ Len(ss) = n
  <2> DEFINE Q == Seq(T)
  <2>1. \A i \in 1..n : ss[i] \in Q
    BY <1>1
  <2> HIDE DEF Q
  <2>2. ss \in [1..n -> Q]
    BY <2>1
  <2>3. ss \in Seq(Q) /\ Len(ss) = n
    BY <2>2
  <2> QED
    BY <2>3 DEF Q
<1>3. FlattenSeq(ss) \in Seq(T) /\ \E off : Layout(ss, FlattenSeq(ss), off)
  BY <1>2, FlattenLayout
<1>4. PICK s, off : s = FlattenSeq(ss) /\ s \in Seq(T) /\ Layout(ss, s, off)
  BY <1>3
<1>5. \A k \in 1..Len(s) : \E i, j : IsAt(ss, off, k, i, j)
  BY <1>2, <1>4, LayoutCovers
<1>9. \A i \in 1..n : \A j \in 1..Len(ss[i]) : off[i - 1] + j \in 1..Len(s)
  BY <1>2, <1>4, LayoutPlaces
<1>6. \A i \in 1..n : \A j \in 1..Len(ss[i]) : s[off[i - 1] + j] = ss[i][j] /\ ss[i][j] \in P[i]
  <2>1. \A i \in 1..n : \A j \in 1..Len(ss[i]) : s[off[i - 1] + j] = ss[i][j]
    BY <1>2, <1>4 DEF Layout
  <2>2. \A i \in 1..n : ss[i] \in Seq(P[i])
    BY DEF Enumerates
  <2> QED
    BY <2>1, <2>2
<1>7. ASSUME NEW k \in 1..Len(s), NEW l \in 1..Len(s), s[k] = s[l] PROVE k = l
  <2>1. PICK i, j : IsAt(ss, off, k, i, j)
    BY <1>5
  <2>2. i \in 1..n /\ j \in 1..Len(ss[i]) /\ k = off[i - 1] + j
    BY <1>2, <2>1 DEF IsAt
  <2>3. PICK h, m : IsAt(ss, off, l, h, m)
    BY <1>5
  <2>4. h \in 1..n /\ m \in 1..Len(ss[h]) /\ l = off[h - 1] + m
    BY <1>2, <2>3 DEF IsAt
  <2>5. ss[i][j] = ss[h][m] /\ ss[i][j] \in P[i] /\ ss[h][m] \in P[h]
    BY <1>6, <1>7, <2>2, <2>4
  <2>6. i = h
    BY <2>2, <2>4, <2>5
  <2>7. j = m
    BY <2>2, <2>4, <2>5, <2>6 DEF Enumerates
  <2> QED
    BY <2>2, <2>4, <2>6, <2>7
<1>8. ASSUME NEW x \in T PROVE \E k \in 1..Len(s) : s[k] = x
  <2>1. PICK i \in 1..n : x \in P[i]
    OBVIOUS
  <2>2. PICK j \in 1..Len(ss[i]) : ss[i][j] = x
    BY <2>1 DEF Enumerates
  <2> QED
    BY <1>6, <1>9, <2>1, <2>2
<1> QED
  BY <1>4, <1>7, <1>8 DEF Enumerates

\* The order of _balance_batch and of the micro-batches.
OddEven(s) == OddPlaces(s) \o Reverse(EvenPlaces(s))
OddMiddle(s) == Reverse(OddPlaces(s)) \o EvenPlaces(s)

LEMMA HalvesTyped ==
    ASSUME NEW S, NEW s \in Seq(S), NEW n \in Nat, Len(s) = n
    PROVE  /\ OddPlaces(s) \in Seq(S) /\ Len(OddPlaces(s)) = (n + 1) \div 2
           /\ EvenPlaces(s) \in Seq(S) /\ Len(EvenPlaces(s)) = n \div 2
           /\ Reverse(OddPlaces(s)) \in Seq(S) /\ Len(Reverse(OddPlaces(s))) = (n + 1) \div 2
           /\ Reverse(EvenPlaces(s)) \in Seq(S) /\ Len(Reverse(EvenPlaces(s))) = n \div 2
           /\ \A i \in 1..((n + 1) \div 2) :
                /\ OddPlaces(s)[i] = s[2 * i - 1]
                /\ Reverse(OddPlaces(s))[i] = s[2 * (((n + 1) \div 2) - i) + 1]
           /\ \A i \in 1..(n \div 2) :
                /\ EvenPlaces(s)[i] = s[2 * i]
                /\ Reverse(EvenPlaces(s))[i] = s[2 * ((n \div 2) - i) + 2]
PROOF
<1> DEFINE a == (n + 1) \div 2
           b == n \div 2
<1>1. /\ a \in Nat /\ b \in Nat
      /\ \A i \in 1..a : 2 * i - 1 \in 1..n
      /\ \A i \in 1..b : 2 * i \in 1..n
  OBVIOUS
<1>2. \A i \in 1..n : s[i] \in S
  OBVIOUS
<1>3. OddPlaces(s) = [i \in 1..a |-> s[2 * i - 1]]
  BY DEF OddPlaces
<1>4. EvenPlaces(s) = [i \in 1..b |-> s[2 * i]]
  BY DEF EvenPlaces
<1> HIDE DEF a, b
<1> DEFINE o == OddPlaces(s)
           e == EvenPlaces(s)
<1>5. o \in Seq(S) /\ Len(o) = a
  <2>1. o \in [1..a -> S]
    BY <1>1, <1>2, <1>3
  <2> HIDE DEF o
  <2> QED
    BY <1>1, <1>3, <2>1
<1>6. e \in Seq(S) /\ Len(e) = b
  <2>1. e \in [1..b -> S]
    BY <1>1, <1>2, <1>4
  <2> HIDE DEF e
  <2> QED
    BY <1>1, <1>4, <2>1
<1>7. \A i \in 1..a : o[i] = s[2 * i - 1]
  BY <1>3
<1>8. \A i \in 1..b : e[i] = s[2 * i]
  BY <1>4
<1> HIDE DEF o, e
<1>9. Reverse(o) \in Seq(S) /\ Len(Reverse(o)) = a /\ \A i \in 1..a : Reverse(o)[i] = o[(a - i) + 1]
  <2>1. Reverse(o) = [i \in 1..a |-> o[(a - i) + 1]]
    BY <1>5 DEF Reverse
  <2>2. \A i \in 1..a : (a - i) + 1 \in 1..a
    BY <1>1
  <2>3. \A i \in 1..a : o[i] \in S
    BY <1>5
  <2>4. Reverse(o) \in [1..a -> S]
    BY <2>1, <2>2, <2>3
  <2>5. Reverse(o) \in Seq(S) /\ Len(Reverse(o)) = a
    BY <1>1, <2>1, <2>4
  <2> QED
    BY <2>1, <2>5
<1>10. Reverse(e) \in Seq(S) /\ Len(Reverse(e)) = b /\ \A i \in 1..b : Reverse(e)[i] = e[(b - i) + 1]
  <2>1. Reverse(e) = [i \in 1..b |-> e[(b - i) + 1]]
    BY <1>6 DEF Reverse
  <2>2. \A i \in 1..b : (b - i) + 1 \in 1..b
    BY <1>1
  <2>3. \A i \in 1..b : e[i] \in S
    BY <1>6
  <2>4. Reverse(e) \in [1..b -> S]
    BY <2>1, <2>2, <2>3
  <2>5. Reverse(e) \in Seq(S) /\ Len(Reverse(e)) = b
    BY <1>1, <2>1, <2>4
  <2> QED
    BY <2>1, <2>5
<1>11. ASSUME NEW i \in 1..a PROVE Reverse(o)[i] = s[2 * (a - i) + 1]
  <2>1. (a - i) + 1 \in 1..a /\ 2 * ((a - i) + 1) - 1 = 2 * (a - i) + 1
    BY <1>1
  <2> QED
    BY <1>7, <1>9, <2>1
<1>12. ASSUME NEW i \in 1..b PROVE Reverse(e)[i] = s[2 * (b - i) + 2]
  <2>1. (b - i) + 1 \in 1..b /\ 2 * ((b - i) + 1) = 2 * (b - i) + 2
    BY <1>1
  <2> QED
    BY <1>8, <1>10, <2>1
<1> QED
  BY <1>5, <1>6, <1>7, <1>8, <1>9, <1>10, <1>11, <1>12 DEF o, e, a, b

LEMMA OddEvenEnumerates ==
    ASSUME NEW S, NEW s, Enumerates(s, S)
    PROVE  Enumerates(OddEven(s), S) /\ Len(OddEven(s)) = Len(s)
PROOF
<1>1. PICK n \in Nat : n = Len(s) /\ s \in Seq(S)
  BY DEF Enumerates
<1> DEFINE a == (n + 1) \div 2
           b == n \div 2
           f == [i \in 1..n |-> IF i <= a THEN 2 * i - 1 ELSE 2 * (n - i) + 2]
           t == OddEven(s)
           o == OddPlaces(s)
           r == Reverse(EvenPlaces(s))
<1>2. /\ a \in Nat /\ b \in Nat /\ a + b = n /\ a >= b /\ a <= b + 1
      /\ n = 2 * b \/ n = 2 * b + 1
  OBVIOUS
<1>3. /\ o \in Seq(S) /\ Len(o) = a /\ r \in Seq(S) /\ Len(r) = b
      /\ \A i \in 1..a : o[i] = s[2 * i - 1]
      /\ \A i \in 1..b : r[i] = s[2 * (b - i) + 2]
  BY <1>1, HalvesTyped
<1> HIDE DEF a, b, o, r
<1>4. /\ t \in Seq(S) /\ Len(t) = n
      /\ \A i \in 1..a : t[i] = o[i]
      /\ \A i \in 1..b : t[a + i] = r[i]
  <2>1. t = o \o r
    BY DEF OddEven, o, r
  <2> HIDE DEF t
  <2>2. /\ o \o r \in Seq(S) /\ Len(o \o r) = Len(o) + Len(r)
        /\ \A i \in 1..Len(o) : (o \o r)[i] = o[i]
        /\ \A i \in 1..Len(r) : (o \o r)[Len(o) + i] = r[i]
    <3>1. o \in Seq(S) /\ r \in Seq(S)
      BY <1>3
    <3> QED
      BY <3>1, ConcatIs
  <2> QED
    BY <1>2, <1>3, <2>1, <2>2
<1> HIDE DEF t
<1>5. ASSUME NEW i \in 1..n PROVE t[i] = s[f[i]]
  <2>1. CASE i <= a
    <3>1. f[i] = 2 * i - 1 /\ i \in 1..a
      BY <2>1
    <3> HIDE DEF f
    <3> QED
      BY <1>3, <1>4, <3>1
  <2>2. CASE ~(i <= a)
    <3>1. i - a \in 1..b /\ a + (i - a) = i /\ 2 * (b - (i - a)) + 2 = 2 * (n - i) + 2
      BY <1>2, <2>2
    <3>2. f[i] = 2 * (n - i) + 2
      BY <2>2
    <3> HIDE DEF f
    <3>3. t[a + (i - a)] = r[i - a] /\ r[i - a] = s[2 * (b - (i - a)) + 2]
      BY <1>3, <1>4, <3>1
    <3> QED
      BY <3>1, <3>2, <3>3
  <2> QED
    BY <2>1, <2>2
<1>6. f \in [1..n -> 1..n]
  BY <1>2
<1>7. \A i, j \in 1..n : f[i] = f[j] => i = j
  BY <1>2
<1>8. ASSUME NEW k \in 1..n PROVE \E i \in 1..n : f[i] = k
  <2>1. PICK h \in Nat : k = 2 * h \/ k = 2 * h + 1
    <3>1. k \div 2 \in Nat /\ (k = 2 * (k \div 2) \/ k = 2 * (k \div 2) + 1)
      OBVIOUS
    <3> QED
      BY <3>1
  <2>2. CASE k = 2 * h + 1
    <3>1. h + 1 \in 1..n /\ h + 1 <= a /\ 2 * (h + 1) - 1 = k
      BY <1>2, <2>2
    <3>2. f[h + 1] = k
      BY <3>1
    <3> QED
      BY <3>1, <3>2
  <2>3. CASE k = 2 * h
    <3>1. n - h + 1 \in 1..n /\ ~(n - h + 1 <= a) /\ 2 * (n - (n - h + 1)) + 2 = k
      BY <1>2, <2>3
    <3>2. f[n - h + 1] = k
      BY <3>1
    <3> QED
      BY <3>1, <3>2
  <2> QED
    BY <2>1, <2>2, <2>3
<1> HIDE DEF f
<1>9. t = [i \in 1..n |-> s[f[i]]]
  <2>1. t = [i \in 1..n |-> t[i]]
    BY <1>4
  <2> QED
    BY <1>5, <2>1
<1>10. Len(s) = n /\ Rearranges(f, n)
  BY <1>1, <1>6, <1>7, <1>8 DEF Rearranges
<1>11. Enumerates(t, S) /\ Len(t) = n
  BY <1>9, <1>10, PlacesRearranged
<1> QED
  BY <1>1, <1>11 DEF t

LEMMA OddMiddleEnumerates ==
    ASSUME NEW S, NEW s, Enumerates(s, S)
    PROVE  Enumerates(OddMiddle(s), S) /\ Len(OddMiddle(s)) = Len(s)
PROOF
<1>1. PICK n \in Nat : n = Len(s) /\ s \in Seq(S)
  BY DEF Enumerates
<1> DEFINE a == (n + 1) \div 2
           b == n \div 2
           f == [i \in 1..n |-> IF i <= a THEN 2 * (a - i) + 1 ELSE 2 * (i - a)]
           t == OddMiddle(s)
           o == Reverse(OddPlaces(s))
           r == EvenPlaces(s)
<1>2. /\ a \in Nat /\ b \in Nat /\ a + b = n /\ a >= b /\ a <= b + 1
      /\ n = 2 * b \/ n = 2 * b + 1
  OBVIOUS
<1>3. /\ o \in Seq(S) /\ Len(o) = a /\ r \in Seq(S) /\ Len(r) = b
      /\ \A i \in 1..a : o[i] = s[2 * (a - i) + 1]
      /\ \A i \in 1..b : r[i] = s[2 * i]
  BY <1>1, HalvesTyped
<1> HIDE DEF a, b, o, r
<1>4. /\ t \in Seq(S) /\ Len(t) = n
      /\ \A i \in 1..a : t[i] = o[i]
      /\ \A i \in 1..b : t[a + i] = r[i]
  <2>1. t = o \o r
    BY DEF OddMiddle, o, r
  <2> HIDE DEF t
  <2>2. /\ o \o r \in Seq(S) /\ Len(o \o r) = Len(o) + Len(r)
        /\ \A i \in 1..Len(o) : (o \o r)[i] = o[i]
        /\ \A i \in 1..Len(r) : (o \o r)[Len(o) + i] = r[i]
    <3>1. o \in Seq(S) /\ r \in Seq(S)
      BY <1>3
    <3> QED
      BY <3>1, ConcatIs
  <2> QED
    BY <1>2, <1>3, <2>1, <2>2
<1> HIDE DEF t
<1>5. ASSUME NEW i \in 1..n PROVE t[i] = s[f[i]]
  <2>1. CASE i <= a
    <3>1. f[i] = 2 * (a - i) + 1 /\ i \in 1..a
      BY <2>1
    <3> HIDE DEF f
    <3> QED
      BY <1>3, <1>4, <3>1
  <2>2. CASE ~(i <= a)
    <3>1. i - a \in 1..b /\ a + (i - a) = i
      BY <1>2, <2>2
    <3>2. f[i] = 2 * (i - a)
      BY <2>2
    <3> HIDE DEF f
    <3>3. t[a + (i - a)] = r[i - a] /\ r[i - a] = s[2 * (i - a)]
      BY <1>3, <1>4, <3>1
    <3> QED
      BY <3>1, <3>2, <3>3
  <2> QED
    BY <2>1, <2>2
<1>6. f \in [1..n -> 1..n]
  BY <1>2
<1>7. \A i, j \in 1..n : f[i] = f[j] => i = j
  BY <1>2
<1>8. ASSUME NEW k \in 1..n PROVE \E i \in 1..n : f[i] = k
  <2>1. PICK h \in Nat : k = 2 * h \/ k = 2 * h + 1
    <3>1. k \div 2 \in Nat /\ (k = 2 * (k \div 2) \/ k = 2 * (k \div 2) + 1)
      OBVIOUS
    <3> QED
      BY <3>1
  <2>2. CASE k = 2 * h + 1
    <3>1. a - h \in 1..n /\ a - h <= a /\ 2 * (a - (a - h)) + 1 = k
      BY <1>2, <2>2
    <3>2. f[a - h] = k
      BY <3>1
    <3> QED
      BY <3>1, <3>2
  <2>3. CASE k = 2 * h
    <3>1. a + h \in 1..n /\ ~(a + h <= a) /\ 2 * ((a + h) - a) = k
      BY <1>2, <2>3
    <3>2. f[a + h] = k
      BY <3>1
    <3> QED
      BY <3>1, <3>2
  <2> QED
    BY <2>1, <2>2, <2>3
<1> HIDE DEF f
<1>9. t = [i \in 1..n |-> s[f[i]]]
  <2>1. t = [i \in 1..n |-> t[i]]
    BY <1>4
  <2> QED
    BY <1>5, <2>1
<1>10. Len(s) = n /\ Rearranges(f, n)
  BY <1>1, <1>6, <1>7, <1>8 DEF Rearranges
<1>11. Enumerates(t, S) /\ Len(t) = n
  BY <1>9, <1>10, PlacesRearranged
<1> QED
  BY <1>1, <1>11 DEF t

-----------------------------------------------------------------------------
(* Sums, partitions and micro-batches *)

Sums(S, s) ==
    CHOOSE f : f = [i \in 0..Len(s) |-> IF i = 0 THEN 0
                                        ELSE IF i \in S THEN f[i - 1] + s[i] ELSE f[i - 1]]

LEMMA SumIsLast == ASSUME NEW S, NEW s PROVE SumOver(S, s) = Sums(S, s)[Len(s)]
PROOF
  BY Zenon DEF SumOver, Sums

AreSums(f, S, s, n) ==
    f = [i \in 0..n |-> IF i = 0 THEN 0 ELSE IF i \in S THEN f[i - 1] + s[i] ELSE f[i - 1]]

LEMMA SumsDefined ==
    ASSUME NEW S, NEW s, NEW n \in Nat
    PROVE  \E f : AreSums(f, S, s, n)
PROOF
<1> DEFINE Good(f, k) == f = [i \in 0..k |-> IF i = 0 THEN 0
                                             ELSE IF i \in S THEN f[i - 1] + s[i] ELSE f[i - 1]]
           Q == {k \in Nat : \E f : Good(f, k)}
<1>1. 0 \in Q
  <2> DEFINE g == [i \in 0..0 |-> 0]
  <2>1. Good(g, 0)
    OBVIOUS
  <2> HIDE DEF g, Good
  <2>2. \E h : Good(h, 0)
    BY <2>1
  <2> QED
    BY <2>2
<1>2. ASSUME NEW k \in Nat, k \in Q PROVE k + 1 \in Q
  <2>1. PICK f : Good(f, k)
    BY <1>2
  <2> DEFINE g == [i \in 0..(k + 1) |-> IF i = k + 1
                                        THEN IF i \in S THEN f[k] + s[i] ELSE f[k] ELSE f[i]]
  <2>2. \A i \in 0..(k + 1) : g[i] = IF i = 0 THEN 0
                                     ELSE IF i \in S THEN g[i - 1] + s[i] ELSE g[i - 1]
    <3> TAKE i \in 0..(k + 1)
    <3>1. CASE i = k + 1
      <4>1. i # 0 /\ i - 1 = k /\ k \in 0..(k + 1) /\ k # k + 1
        BY <3>1
      <4>2. g[i] = (IF i \in S THEN f[k] + s[i] ELSE f[k]) /\ g[i - 1] = f[k]
        BY <3>1, <4>1
      <4> HIDE DEF g
      <4> QED
        BY <4>1, <4>2
    <3>2. CASE i # k + 1
      <4>1. i \in 0..k /\ g[i] = f[i] /\ (i # 0 => i - 1 \in 0..k /\ g[i - 1] = f[i - 1])
        BY <3>2
      <4>2. f[i] = IF i = 0 THEN 0 ELSE IF i \in S THEN f[i - 1] + s[i] ELSE f[i - 1]
        BY <2>1, <4>1
      <4> HIDE DEF g
      <4> QED
        BY <4>1, <4>2
    <3> QED
      BY <3>1, <3>2
  <2>3. Good(g, k + 1)
    BY <2>2
  <2> HIDE DEF g, Good
  <2>4. \E h : Good(h, k + 1)
    BY <2>3
  <2> QED
    BY <2>4
<1>3. n \in Q
  BY <1>1, <1>2, UpTo, n \in 0..n
<1> QED
  BY <1>3 DEF AreSums

LEMMA SumIsNat ==
    ASSUME NEW S, NEW s, NEW n \in Nat, Len(s) = n, \A i \in 1..n : s[i] \in Nat
    PROVE  SumOver(S, s) \in Nat
PROOF
<1> DEFINE f == Sums(S, s)
<1>1. f = [i \in 0..Len(s) |-> IF i = 0 THEN 0
                               ELSE IF i \in S THEN f[i - 1] + s[i] ELSE f[i - 1]]
  <2>1. \E g : AreSums(g, S, s, n)
    BY SumsDefined
  <2>2. f = CHOOSE g : AreSums(g, S, s, n)
    BY DEF Sums, AreSums
  <2> HIDE DEF f
  <2>3. AreSums(f, S, s, n)
    BY <2>1, <2>2
  <2> QED
    BY <2>3 DEF AreSums
<1> HIDE DEF f
<1> DEFINE Q == {k \in Nat : f[k] \in Nat}
<1>2. 0 \in Q
  BY <1>1
<1>3. ASSUME NEW k \in 0..(n - 1), k \in Q PROVE k + 1 \in Q
  <2>1. k + 1 \in 0..n /\ (k + 1) - 1 = k /\ k + 1 # 0 /\ k + 1 \in 1..n
    OBVIOUS
  <2>2. f[k + 1] = IF k + 1 \in S THEN f[k] + s[k + 1] ELSE f[k]
    BY <1>1, <2>1
  <2> QED
    BY <1>3, <2>1, <2>2
<1> HIDE DEF Q
<1>4. n \in Q
  BY <1>2, <1>3, UpTo, n \in 0..n
<1> QED
  BY <1>4, SumIsLast DEF Q, f

\* Every item is in one part and no part is empty.
IsPartition(parts, n, m) ==
    /\ parts = [p \in 1..m |-> parts[p]]
    /\ \A p \in 1..m : parts[p] \subseteq 1..n /\ parts[p] # {}
    /\ \A p, q \in 1..m : p # q => parts[p] \cap parts[q] = {}
    /\ \A i \in 1..n : \E p \in 1..m : i \in parts[p]

LEMMA PartitionsParted ==
    ASSUME NEW load, NEW n \in Nat, DOMAIN load = 1..n, Len(load) = n, NEW m, NEW equal_size,
           NEW parts \in Partitions(load, m, equal_size)
    PROVE  /\ IsPartition(parts, n, m)
           /\ equal_size => \A p \in 1..m : Cardinality(parts[p]) * m = n
PROOF
<1> DEFINE Assigned(f, p) == {i \in DOMAIN load : f[i] = p}
           Even(f) == \A p \in 1..m : Cardinality(Assigned(f, p)) * m = Len(load)
           Close(f) == \A p, q \in 1..m :
               p < q => SumOver(Assigned(f, p), load) - SumOver(Assigned(f, q), load)
                           \in 0..Max({load[i] : i \in DOMAIN load})
           Allowed == {g \in [DOMAIN load -> 1..m] :
                          (\A p \in 1..m : Assigned(g, p) # {}) /\ (equal_size => Even(g)) /\ Close(g)}
<1>0. parts \in {[p \in 1..m |-> Assigned(f, p)] : f \in Allowed}
  BY Zenon DEF Partitions
<1> HIDE DEF Allowed
<1>01. PICK g \in Allowed : parts = [p \in 1..m |-> Assigned(g, p)]
  BY <1>0
<1> HIDE DEF Close
<1>02. /\ g \in [DOMAIN load -> 1..m] /\ \A p \in 1..m : Assigned(g, p) # {}
       /\ equal_size => Even(g)
  BY DEF Allowed
<1>1. PICK f \in [1..n -> 1..m] :
        /\ parts = [p \in 1..m |-> {i \in 1..n : f[i] = p}]
        /\ \A p \in 1..m : {i \in 1..n : f[i] = p} # {}
        /\ equal_size => \A p \in 1..m : Cardinality({i \in 1..n : f[i] = p}) * m = n
  <2>1. \A p \in 1..m : Assigned(g, p) = {i \in 1..n : g[i] = p}
    OBVIOUS
  <2>2. parts = [p \in 1..m |-> {i \in 1..n : g[i] = p}]
    BY <1>01, <2>1
  <2>3. \A p \in 1..m : {i \in 1..n : g[i] = p} # {}
    BY <1>02, <2>1
  <2>4. equal_size => \A p \in 1..m : Cardinality({i \in 1..n : g[i] = p}) * m = n
    BY <1>02, <2>1
  <2>5. g \in [1..n -> 1..m]
    BY <1>02
  <2> HIDE DEF Assigned
  <2> QED
    BY <2>2, <2>3, <2>4, <2>5
<1>2. \A p \in 1..m : parts[p] = {i \in 1..n : f[i] = p}
  BY <1>1
<1>3. parts = [p \in 1..m |-> parts[p]]
  BY <1>1
<1>4. \A p \in 1..m : parts[p] \subseteq 1..n /\ parts[p] # {}
  BY <1>1, <1>2
<1>5. \A p, q \in 1..m : p # q => parts[p] \cap parts[q] = {}
  BY <1>2
<1>6. \A i \in 1..n : \E p \in 1..m : i \in parts[p]
  BY <1>1, <1>2
<1>7. equal_size => \A p \in 1..m : Cardinality(parts[p]) * m = n
  BY <1>1, <1>2
<1> QED
  BY <1>3, <1>4, <1>5, <1>6, <1>7 DEF IsPartition

LEMMA AscendingTotal ==
    ASSUME NEW S \in SUBSET Nat
    PROVE  StrictTotal(Ascending(S), S)
PROOF
  BY DEF StrictTotal, Ascending

LEMMA LeastIs ==
    ASSUME NEW S \in SUBSET Nat, S # {}
    PROVE  Min(S) \in S /\ \A x \in S : Min(S) <= x
PROOF
<1>1. \E x \in S : \A y \in S : x <= y
  BY LeastOf
<1>2. Min(S) = CHOOSE x \in S : \A y \in S : x <= y
  BY DEF Min
<1> QED
  BY <1>1, <1>2

LargerOf(load, sets) ==
    {pair \in sets \X sets :
        \/ SumOver(pair[1], load) > SumOver(pair[2], load)
        \/ SumOver(pair[1], load) = SumOver(pair[2], load) /\ Min(pair[1]) > Min(pair[2])}

MicroOf(load, parts, m) ==
    LET sets == {parts[p] : p \in 1..m}
        middle == OddMiddle(Sorted(sets, LargerOf(load, sets)))
    IN  [p \in 1..m |-> Sorted(middle[p], Ascending(middle[p]))]

LoadOf(rows) == [i \in DOMAIN rows |-> CalculateWorkload(Length(rows[i]))]

LEMMA MicroBatchesAre ==
    ASSUME NEW rows, NEW m
    PROVE  RearrangeMicroBatches(rows, m) =
            {MicroOf(LoadOf(rows), parts, m) : parts \in Partitions(LoadOf(rows), m, FALSE)}
PROOF
  BY Zenon DEF RearrangeMicroBatches, MicroOf, LoadOf, LargerOf, OddMiddle

LEMMA LargerTotal ==
    ASSUME NEW load, NEW n \in Nat, Len(load) = n, \A i \in 1..n : load[i] \in Nat,
           NEW sets, \A X \in sets : X \in SUBSET Nat /\ X # {},
           \A X, Y \in sets : X # Y => X \cap Y = {}
    PROVE  StrictTotal(LargerOf(load, sets), sets)
PROOF
<1>1. \A X \in sets : SumOver(X, load) \in Nat
  BY SumIsNat
<1>2. \A X \in sets : Min(X) \in X /\ Min(X) \in Nat
  <2> TAKE X \in sets
  <2>1. X \in SUBSET Nat /\ X # {}
    OBVIOUS
  <2> QED
    BY <2>1, LeastIs
<1>3. \A X, Y \in sets : Min(X) = Min(Y) => X = Y
  BY <1>2
<1>4. \A X, Y \in sets : <<X, Y>> \in LargerOf(load, sets) <=>
        \/ SumOver(X, load) > SumOver(Y, load)
        \/ SumOver(X, load) = SumOver(Y, load) /\ Min(X) > Min(Y)
  BY DEF LargerOf
<1>5. \A X \in sets : <<X, X>> \notin LargerOf(load, sets)
  BY <1>1, <1>2, <1>4
<1>6. ASSUME NEW X \in sets, NEW Y \in sets, NEW Z \in sets,
             <<X, Y>> \in LargerOf(load, sets), <<Y, Z>> \in LargerOf(load, sets)
      PROVE  <<X, Z>> \in LargerOf(load, sets)
  <2>1. /\ SumOver(X, load) \in Nat /\ SumOver(Y, load) \in Nat /\ SumOver(Z, load) \in Nat
        /\ Min(X) \in Nat /\ Min(Y) \in Nat /\ Min(Z) \in Nat
    BY <1>1, <1>2
  <2>2. \/ SumOver(X, load) > SumOver(Y, load)
        \/ SumOver(X, load) = SumOver(Y, load) /\ Min(X) > Min(Y)
    BY <1>4, <1>6
  <2>3. \/ SumOver(Y, load) > SumOver(Z, load)
        \/ SumOver(Y, load) = SumOver(Z, load) /\ Min(Y) > Min(Z)
    BY <1>4, <1>6
  <2>4. \/ SumOver(X, load) > SumOver(Z, load)
        \/ SumOver(X, load) = SumOver(Z, load) /\ Min(X) > Min(Z)
    BY <2>1, <2>2, <2>3
  <2> QED
    BY <1>4, <2>4
<1>7. ASSUME NEW X \in sets, NEW Y \in sets, X # Y
      PROVE  <<X, Y>> \in LargerOf(load, sets) \/ <<Y, X>> \in LargerOf(load, sets)
  <2>1. /\ SumOver(X, load) \in Nat /\ SumOver(Y, load) \in Nat
        /\ Min(X) \in Nat /\ Min(Y) \in Nat /\ Min(X) # Min(Y)
    BY <1>1, <1>2, <1>3, <1>7
  <2>2. \/ SumOver(X, load) > SumOver(Y, load) \/ SumOver(Y, load) > SumOver(X, load)
        \/ SumOver(X, load) = SumOver(Y, load)
    BY <2>1
  <2>3. Min(X) > Min(Y) \/ Min(Y) > Min(X)
    BY <2>1
  <2> QED
    BY <1>4, <2>2, <2>3
<1> QED
  BY <1>5, <1>6, <1>7 DEF StrictTotal

\* The micro-batches of a rank, one after the other, are its rows in some order.
LEMMA MicroEnumerates ==
    ASSUME NEW load, NEW n \in Nat, Len(load) = n, \A i \in 1..n : load[i] \in Nat,
           NEW m \in Nat, NEW parts, IsPartition(parts, n, m)
    PROVE  Enumerates(FlattenSeq(MicroOf(load, parts, m)), 1..n)
PROOF
<1> DEFINE sets == {parts[p] : p \in 1..m}
           sorted == Sorted(sets, LargerOf(load, sets))
           middle == OddMiddle(sorted)
           micro == [p \in 1..m |-> Sorted(middle[p], Ascending(middle[p]))]
<1>1. \A p \in 1..m : parts[p] \in sets
  OBVIOUS
<1>2. \A X \in sets : \E p \in 1..m : X = parts[p]
  OBVIOUS
<1>3. /\ parts = [p \in 1..m |-> parts[p]]
      /\ \A p \in 1..m : parts[p] \subseteq 1..n /\ parts[p] # {}
      /\ \A p, q \in 1..m : p # q => parts[p] \cap parts[q] = {}
      /\ \A i \in 1..n : \E p \in 1..m : i \in parts[p]
  BY DEF IsPartition
<1> HIDE DEF sets
<1>4. \A X \in sets : X \in SUBSET Nat /\ X # {} /\ X \subseteq 1..n
  BY <1>2, <1>3
<1>5. \A X, Y \in sets : X # Y => X \cap Y = {}
  <2> TAKE X, Y \in sets
  <2>1. PICK p \in 1..m : X = parts[p]
    BY <1>2
  <2>2. PICK q \in 1..m : Y = parts[q]
    BY <1>2
  <2> QED
    BY <1>3, <2>1, <2>2
<1>6. IsFiniteSet(sets) /\ Cardinality(sets) = m
  <2>1. parts \in [1..m -> sets]
    BY <1>1, <1>3
  <2>2. parts \in Seq(sets) /\ Len(parts) = m
    BY <2>1
  <2>3. \A p, q \in 1..m : parts[p] = parts[q] => p = q
    BY <1>3
  <2>4. Enumerates(parts, sets)
    BY <1>2, <2>2, <2>3 DEF Enumerates
  <2> QED
    BY <2>2, <2>4, EnumerationLength
<1>7. StrictTotal(LargerOf(load, sets), sets)
  BY <1>4, <1>5, LargerTotal
<1>8. Enumerates(sorted, sets) /\ Len(sorted) = m
  BY <1>6, <1>7, SortedEnumerates
<1> HIDE DEF sorted
<1>9. Enumerates(middle, sets) /\ Len(middle) = m
  BY <1>8, OddEvenEnumerates, OddMiddleEnumerates
<1> HIDE DEF middle
<1>10. /\ \A p \in 1..m : middle[p] \in sets
       /\ \A p, q \in 1..m : middle[p] = middle[q] => p = q
       /\ \A X \in sets : \E p \in 1..m : middle[p] = X
  BY <1>9 DEF Enumerates
<1>11. ASSUME NEW p \in 1..m PROVE middle[p] \subseteq 1..n /\ Enumerates(micro[p], middle[p])
  <2>1. middle[p] \in SUBSET Nat /\ middle[p] \subseteq 1..n
    BY <1>4, <1>10
  <2>2. IsFiniteSet(middle[p])
    <3>1. IsFiniteSet(1..n)
      BY FS_Interval
    <3> QED
      BY <2>1, <3>1, FS_Subset
  <2>3. StrictTotal(Ascending(middle[p]), middle[p])
    BY <2>1, AscendingTotal
  <2>4. Enumerates(Sorted(middle[p], Ascending(middle[p])), middle[p])
    BY <2>2, <2>3, SortedEnumerates
  <2> QED
    BY <2>1, <2>4
<1>12. \A p, q \in 1..m : p # q => middle[p] \cap middle[q] = {}
  BY <1>5, <1>10
<1>13. \A i \in 1..n : \E p \in 1..m : i \in middle[p]
  <2> TAKE i \in 1..n
  <2>1. PICK q \in 1..m : i \in parts[q]
    BY <1>3
  <2>2. PICK p \in 1..m : middle[p] = parts[q]
    BY <1>1, <1>10
  <2> QED
    BY <2>1, <2>2
<1>14. micro = [p \in 1..m |-> micro[p]]
  OBVIOUS
<1>15. MicroOf(load, parts, m) = micro
  BY Zenon DEF MicroOf, sets, sorted, middle
<1> HIDE DEF micro
<1>16. Enumerates(FlattenSeq(micro), 1..n)
  BY <1>11, <1>12, <1>13, <1>14, FlattenEnumerates
<1> QED
  BY <1>15, <1>16

-----------------------------------------------------------------------------
(* What the proofs assume of the constants *)

AllKinds == {"single", "characters", "uneven", "copy", "empty"}

\* DataProto.chunk asserts that the agent loop workers get equal chunks.
Numbers ==
    /\ Modes \subseteq {"fit", "validate"}
    /\ PromptNum \in Nat \ {0} /\ RolloutN \in Nat \ {0} /\ ValPrompts \in Nat \ {0}
    /\ NumWorkers \in Nat \ {0} /\ DpSize \in Nat \ {0}
    /\ MiniBatch \in Nat \ {0} /\ MaxTokenLen \in Nat \ {0}
    /\ (PromptNum * RolloutN) % NumWorkers = 0
    /\ Lengths \subseteq Nat
    /\ Kinds \subseteq AllKinds /\ ValKinds \subseteq AllKinds

Prompts == Max({PromptNum, ValPrompts})

LEMMA PromptsAre ==
    ASSUME Numbers
    PROVE  Prompts \in Nat /\ PromptNum <= Prompts /\ ValPrompts <= Prompts
PROOF
<1>1. PromptNum \in Nat /\ ValPrompts \in Nat
  BY DEF Numbers
<1>2. \E x \in {PromptNum, ValPrompts} : \A y \in {PromptNum, ValPrompts} : x >= y
  BY <1>1
<1>3. Prompts = CHOOSE x \in {PromptNum, ValPrompts} : \A y \in {PromptNum, ValPrompts} : x >= y
  BY DEF Prompts, Max
<1> QED
  BY <1>1, <1>2, <1>3

LEMMA Quotient ==
    \A a \in Nat, b \in Nat \ {0} : a \div b \in Nat /\ (a \div b) * b <= a /\ a < (a \div b) * b + b
PROOF
  OBVIOUS

LEMMA Remainder ==
    ASSUME NEW a \in Nat, NEW b \in Nat \ {0}
    PROVE  a % b \in 0..(b - 1) /\ a \div b \in Nat /\ a = (a \div b) * b + (a % b)
PROOF
<1>1. a = (a \div b) * b + (a % b)
  OBVIOUS
<1>2. a % b \in 0..(b - 1)
  OBVIOUS
<1>3. a \div b \in Nat
  OBVIOUS
<1> QED
  BY <1>1, <1>2, <1>3

LEMMA QuotientOf ==
    ASSUME NEW q \in Nat, NEW b \in Nat \ {0}
    PROVE  (q * b) \div b = q
PROOF
  OBVIOUS

-----------------------------------------------------------------------------
(* The slots *)

SlotSet == [uid : 1..Prompts, slot : Nat, run : Nat]

\* What the proofs know of the slots.
SlotsOrdered(s, n) ==
    /\ s \in Seq(SlotSet) /\ Len(s) = n /\ n \in Nat \ {0}
    /\ \A i \in 1..n : s[i].slot = i /\ s[i].run = i /\ (mode = "validate" => s[i].uid = i)

LEMMA SlotsAre ==
    ASSUME Numbers, mode \in Modes
    PROVE  /\ SlotsOrdered(Slots, Len(Slots))
           /\ mode = "fit" => Len(Slots) = PromptNum * RolloutN
PROOF
<1>1. /\ PromptNum \in Nat \ {0} /\ RolloutN \in Nat \ {0} /\ ValPrompts \in Nat \ {0}
      /\ mode \in {"fit", "validate"}
  BY DEF Numbers
<1>2. Prompts \in Nat /\ PromptNum <= Prompts /\ ValPrompts <= Prompts
  BY PromptsAre
<1>3. CASE mode = "fit"
  <2> DEFINE n == PromptNum * RolloutN
  <2>1. n \in Nat \ {0}
    BY <1>1
  <2>2. \A a \in Nat, b \in Nat \ {0}, c \in Nat : a < c * b => a \div b < c /\ a \div b \in Nat
    OBVIOUS
  <2>3. \A i \in 1..n : (i - 1) \div RolloutN + 1 \in 1..Prompts
    <3> TAKE i \in 1..n
    <3>1. i - 1 \in Nat /\ i - 1 < PromptNum * RolloutN
      BY <2>1
    <3>2. (i - 1) \div RolloutN < PromptNum /\ (i - 1) \div RolloutN \in Nat
      BY <1>1, <2>2, <3>1
    <3> QED
      BY <1>1, <1>2, <3>2
  <2>4. Slots = [i \in 1..n |-> [uid |-> (i - 1) \div RolloutN + 1, slot |-> i, run |-> i]]
    BY <1>3 DEF Slots
  <2> HIDE DEF n
  <2>5. Slots \in [1..n -> SlotSet]
    BY <2>1, <2>3, <2>4 DEF SlotSet
  <2>6. Slots \in Seq(SlotSet) /\ Len(Slots) = n
    BY <2>1, <2>5
  <2>7. \A i \in 1..n : Slots[i].slot = i /\ Slots[i].run = i
    BY <2>4
  <2> QED
    BY <1>3, <2>1, <2>6, <2>7 DEF SlotsOrdered, n
<1>4. CASE mode = "validate"
  <2>1. Slots = [i \in 1..ValPrompts |-> [uid |-> i, slot |-> i, run |-> i]]
    BY <1>4 DEF Slots
  <2>2. Slots \in [1..ValPrompts -> SlotSet]
    BY <1>1, <1>2, <2>1 DEF SlotSet
  <2>3. Slots \in Seq(SlotSet) /\ Len(Slots) = ValPrompts
    BY <1>1, <2>2
  <2>4. \A i \in 1..ValPrompts : Slots[i].slot = i /\ Slots[i].run = i /\ Slots[i].uid = i
    BY <2>1
  <2> QED
    BY <1>1, <1>4, <2>3, <2>4 DEF SlotsOrdered
<1> QED
  BY <1>1, <1>3, <1>4

LEMMA PaddingIs ==
    ASSUME Numbers, mode \in Modes
    PROVE  PadSize \in Nat /\ (mode = "fit" => PadSize = 0)
PROOF
<1>1. Len(Slots) \in Nat \ {0} /\ (mode = "fit" => Len(Slots) = PromptNum * RolloutN)
  BY SlotsAre DEF SlotsOrdered
<1>2. NumWorkers \in Nat \ {0} /\ (PromptNum * RolloutN) % NumWorkers = 0
  BY DEF Numbers
<1>3. \A a \in Nat, b \in Nat \ {0} : a % b \in 0..(b - 1)
  OBVIOUS
<1>4. Len(Slots) % NumWorkers \in 0..(NumWorkers - 1)
  BY <1>1, <1>2, <1>3
<1>5. NumWorkers - (Len(Slots) % NumWorkers) \in Nat
  BY <1>2, <1>4
<1>6. (NumWorkers - (Len(Slots) % NumWorkers)) % NumWorkers \in Nat
  BY <1>2, <1>3, <1>5
<1>7. \A b \in Nat \ {0} : (b - 0) % b = 0
  OBVIOUS
<1>8. mode = "fit" => (NumWorkers - (Len(Slots) % NumWorkers)) % NumWorkers = 0
  <2> HAVE mode = "fit"
  <2>1. Len(Slots) % NumWorkers = 0
    BY <1>1, <1>2
  <2> QED
    BY <1>2, <1>7, <2>1
<1> QED
  BY <1>6, <1>8 DEF PadSize

\* What the proofs know of the padded slots: the slots again after them.
PaddedOrdered(s, p, n) ==
    /\ p \in Seq(SlotSet) /\ Len(p) = n + PadSize
    /\ \A i \in 1..n : p[i] = s[i]
    /\ \A i \in 1..(n + PadSize) : p[i].run = i /\ p[i].slot \in 1..n

LEMMA PaddedSlotsAre ==
    ASSUME Numbers, mode \in Modes
    PROVE  PaddedOrdered(Slots, PaddedSlots, Len(Slots))
PROOF
<1> DEFINE n == Len(Slots)
           again == [i \in 1..PadSize |-> [Slots[((i - 1) % n) + 1] EXCEPT !.run = n + i]]
<1>1. /\ Slots \in Seq(SlotSet) /\ n \in Nat \ {0}
      /\ \A i \in 1..n : Slots[i].slot = i /\ Slots[i].run = i
  BY SlotsAre DEF SlotsOrdered
<1>2. PadSize \in Nat
  BY PaddingIs
<1>3. PaddedSlots = Slots \o again
  BY DEF PaddedSlots
<1> HIDE DEF n
<1>4. \A a \in Nat, b \in Nat \ {0} : a % b \in 0..(b - 1)
  OBVIOUS
<1>5. \A i \in 1..PadSize : ((i - 1) % n) + 1 \in 1..n
  <2> TAKE i \in 1..PadSize
  <2>1. i - 1 \in Nat
    BY <1>2
  <2>2. (i - 1) % n \in 0..(n - 1)
    BY <1>1, <1>4, <2>1
  <2> QED
    BY <1>1, <2>2
<1>6. \A i \in 1..PadSize : again[i] \in SlotSet /\ again[i].run = n + i /\ again[i].slot \in 1..n
  <2> TAKE i \in 1..PadSize
  <2>1. PICK k \in 1..n : k = ((i - 1) % n) + 1
    BY <1>5
  <2>2. again[i] = [Slots[k] EXCEPT !.run = n + i]
    BY <2>1
  <2>3. Slots[k] \in SlotSet /\ Slots[k].slot = k
    BY <1>1 DEF n
  <2>4. n + i \in Nat
    BY <1>1, <1>2
  <2> HIDE DEF again
  <2> QED
    BY <2>2, <2>3, <2>4 DEF SlotSet
<1>7. again \in [1..PadSize -> SlotSet]
  BY <1>6
<1> HIDE DEF again
<1>8. again \in Seq(SlotSet) /\ Len(again) = PadSize
  BY <1>2, <1>7
<1>9. /\ PaddedSlots \in Seq(SlotSet) /\ Len(PaddedSlots) = n + PadSize
      /\ \A i \in 1..n : PaddedSlots[i] = Slots[i]
      /\ \A i \in 1..PadSize : PaddedSlots[n + i] = again[i]
  <2>1. Slots \in Seq(SlotSet) /\ again \in Seq(SlotSet) /\ Len(Slots) = n
    BY <1>1, <1>8 DEF n
  <2>2. PICK T, s, t : T = SlotSet /\ s = Slots /\ t = again
    OBVIOUS
  <2>3. s \in Seq(T) /\ t \in Seq(T)
    BY <2>1, <2>2
  <2>4. /\ s \o t \in Seq(T) /\ Len(s \o t) = Len(s) + Len(t)
        /\ \A i \in 1..Len(s) : (s \o t)[i] = s[i]
        /\ \A i \in 1..Len(t) : (s \o t)[Len(s) + i] = t[i]
    BY <2>3, ConcatIs
  <2> QED
    BY <1>3, <1>8, <2>1, <2>2, <2>4
<1>10. \A i \in 1..(n + PadSize) : PaddedSlots[i].run = i /\ PaddedSlots[i].slot \in 1..n
  <2> TAKE i \in 1..(n + PadSize)
  <2>1. CASE i <= n
    BY <1>1, <1>2, <1>9, <2>1
  <2>2. CASE i > n
    <3>1. i - n \in 1..PadSize /\ n + (i - n) = i
      BY <1>1, <1>2, <2>2
    <3> QED
      BY <1>6, <1>9, <3>1
  <2> QED
    BY <1>1, <1>2, <2>1, <2>2
<1> QED
  BY <1>9, <1>10 DEF PaddedOrdered, n

\* The slots given to the agent loops.
Given == IF mode = "fit" THEN Slots ELSE PaddedSlots

LEMMA GivenIsPadded ==
    ASSUME Numbers, mode \in Modes
    PROVE  Given = PaddedSlots
PROOF
<1>1. CASE mode = "fit"
  <2>1. PadSize = 0 /\ Slots \in Seq(SlotSet)
    BY <1>1, PaddingIs, SlotsAre DEF SlotsOrdered
  <2>2. PaddedOrdered(Slots, PaddedSlots, Len(Slots))
    BY PaddedSlotsAre
  <2>3. Len(Slots) \in Nat /\ Slots = [i \in 1..Len(Slots) |-> Slots[i]]
    BY <2>1
  <2>4. Len(PaddedSlots) = Len(Slots) /\ PaddedSlots = [i \in 1..Len(PaddedSlots) |-> PaddedSlots[i]]
    BY <2>1, <2>2, <2>3 DEF PaddedOrdered
  <2>5. \A i \in 1..Len(Slots) : PaddedSlots[i] = Slots[i]
    BY <2>2 DEF PaddedOrdered
  <2>6. PaddedSlots = Slots
    BY <2>3, <2>4, <2>5
  <2> QED
    BY <1>1, <2>6 DEF Given
<1>2. CASE mode # "fit"
  BY <1>2 DEF Given
<1> QED
  BY <1>1, <1>2

-----------------------------------------------------------------------------
(* What the rollouts return *)

Rewards == {"own", "hinted", "halved"}
RowSet ==
    [uid : 0..Prompts, gen_uid : Nat \X {"own", "copy", "dummy"}, agent_role : {"", "hint_agent"},
     part : Nat, run : Nat, reward : Rewards, len : Nat, dummy : BOOLEAN]

\* The rows of one rollout tell its prompt, its slot and their number.
RowsOfRollout(o, s) ==
    /\ o \in Seq(RowSet)
    /\ \A j \in 1..Len(o) : o[j].uid = s.uid /\ o[j].run = s.run /\ o[j].part = j /\ ~o[j].dummy

\* Rollouts that return at least one row, and all rows under one gen_uid.
OwnKinds == {"single", "characters", "uneven"}
OwnRows(o, s) == Len(o) >= 1 /\ \A j \in 1..Len(o) : o[j].gen_uid = <<s.slot, "own">>

LEMMA OutputsAre ==
    ASSUME Numbers, NEW s \in SlotSet, NEW len \in Nat, NEW kind \in AllKinds
    PROVE  /\ RowsOfRollout(Outputs(kind, s, len), s)
           /\ kind \in OwnKinds => OwnRows(Outputs(kind, s, len), s)
PROOF
<1> DEFINE first == [uid |-> s.uid, gen_uid |-> <<s.slot, "own">>, agent_role |-> "", part |-> 1,
                     run |-> s.run, reward |-> "own", len |-> len, dummy |-> FALSE]
           second == [first EXCEPT !.part = 2]
           halved == [first EXCEPT !.part = 2, !.reward = "halved"]
           hinted == [first EXCEPT !.reward = "hinted"]
           copy == [hinted EXCEPT !.part = 2, !.gen_uid = <<s.slot, "copy">>]
           hint == [hinted EXCEPT !.part = 3, !.agent_role = "hint_agent"]
           OfSlot(r, j) == r.uid = s.uid /\ r.run = s.run /\ r.part = j /\ ~r.dummy
           Own(r) == r.gen_uid = <<s.slot, "own">>
<1>1. /\ Outputs("single", s, len) = <<first>>
      /\ Outputs("characters", s, len) = <<first, second>>
      /\ Outputs("uneven", s, len) = <<first, halved>>
      /\ Outputs("copy", s, len) = <<first, copy, hint>>
      /\ Outputs("empty", s, len) = <<>>
  BY DEF Outputs
<1>2. s.uid \in 0..Prompts /\ s.slot \in Nat /\ s.run \in Nat
  BY PromptsAre DEF SlotSet
<1>3. /\ <<s.slot, "own">> \in Nat \X {"own", "copy", "dummy"}
      /\ <<s.slot, "copy">> \in Nat \X {"own", "copy", "dummy"}
  BY <1>2
<1>4. first \in RowSet /\ OfSlot(first, 1) /\ Own(first)
  BY <1>2, <1>3 DEF RowSet, Rewards
<1>5. second \in RowSet /\ OfSlot(second, 2) /\ Own(second)
  BY <1>2, <1>3 DEF RowSet, Rewards
<1>6. halved \in RowSet /\ OfSlot(halved, 2) /\ Own(halved)
  BY <1>2, <1>3 DEF RowSet, Rewards
<1>7. copy \in RowSet /\ OfSlot(copy, 2)
  BY <1>2, <1>3 DEF RowSet, Rewards
<1>8. hint \in RowSet /\ OfSlot(hint, 3)
  BY <1>2, <1>3 DEF RowSet, Rewards
<1> HIDE DEF first, second, halved, copy, hint
<1>9. CASE kind = "single"
  <2>1. RowsOfRollout(<<first>>, s)
    BY <1>4 DEF RowsOfRollout
  <2>2. OwnRows(<<first>>, s)
    BY <1>4 DEF OwnRows
  <2> QED
    BY <1>1, <1>9, <2>1, <2>2
<1>10. CASE kind = "characters"
  <2>1. RowsOfRollout(<<first, second>>, s)
    BY <1>4, <1>5 DEF RowsOfRollout
  <2>2. OwnRows(<<first, second>>, s)
    BY <1>4, <1>5 DEF OwnRows
  <2> QED
    BY <1>1, <1>10, <2>1, <2>2
<1>11. CASE kind = "uneven"
  <2>1. RowsOfRollout(<<first, halved>>, s)
    BY <1>4, <1>6 DEF RowsOfRollout
  <2>2. OwnRows(<<first, halved>>, s)
    BY <1>4, <1>6 DEF OwnRows
  <2> QED
    BY <1>1, <1>11, <2>1, <2>2
<1>12. CASE kind = "copy"
  <2>1. RowsOfRollout(<<first, copy, hint>>, s)
    BY <1>4, <1>7, <1>8 DEF RowsOfRollout
  <2>2. kind \notin OwnKinds
    BY <1>12 DEF OwnKinds
  <2> QED
    BY <1>1, <1>12, <2>1, <2>2
<1>13. CASE kind = "empty"
  <2>1. RowsOfRollout(<<>>, s)
    BY DEF RowsOfRollout
  <2>2. kind \notin OwnKinds
    BY <1>13 DEF OwnKinds
  <2> QED
    BY <1>1, <1>13, <2>1, <2>2
<1> QED
  BY <1>9, <1>10, <1>11, <1>12, <1>13 DEF AllKinds

\* What the rollouts of all the slots in p return.
Generated(ss, p) ==
    /\ ss \in Seq(Seq(RowSet)) /\ Len(ss) = Len(p)
    /\ \A i \in 1..Len(p) : RowsOfRollout(ss[i], p[i])

AllOwn(ss, p) == \A i \in 1..Len(p) : OwnRows(ss[i], p[i])

LEMMA GenerateGives ==
    ASSUME Numbers, NEW p \in Seq(SlotSet), NEW allowed \in SUBSET AllKinds,
           NEW kind \in [DOMAIN p -> allowed],
           NEW len \in [{p[i].uid : i \in DOMAIN p} -> Lengths],
           NEW rows, rows = [i \in DOMAIN p |-> Outputs(kind[i], p[i], len[p[i].uid])]
    PROVE  Generated(rows, p) /\ (allowed \subseteq OwnKinds => AllOwn(rows, p))
PROOF
<1>1. DOMAIN p = 1..Len(p) /\ Len(p) \in Nat
  OBVIOUS
<1>2. \A i \in 1..Len(p) : p[i] \in SlotSet /\ kind[i] \in allowed /\ len[p[i].uid] \in Nat
  <2> DEFINE uids == {p[h].uid : h \in DOMAIN p}
  <2> TAKE i \in 1..Len(p)
  <2>1. p[i].uid \in uids
    BY <1>1
  <2>2. len \in [uids -> Lengths]
    OBVIOUS
  <2> HIDE DEF uids
  <2>3. len[p[i].uid] \in Lengths
    BY <2>1, <2>2
  <2>4. Lengths \subseteq Nat
    BY DEF Numbers
  <2>5. len[p[i].uid] \in Nat
    BY <2>3, <2>4
  <2>6. p[i] \in SlotSet
    BY <1>1
  <2>7. kind[i] \in allowed
    BY <1>1
  <2> QED
    BY <2>5, <2>6, <2>7
<1>3. \A i \in 1..Len(p) : RowsOfRollout(rows[i], p[i])
  <2> TAKE i \in 1..Len(p)
  <2>1. kind[i] \in AllKinds /\ p[i] \in SlotSet /\ len[p[i].uid] \in Nat
    BY <1>2
  <2>2. RowsOfRollout(Outputs(kind[i], p[i], len[p[i].uid]), p[i])
    BY <2>1, OutputsAre
  <2> QED
    BY <1>1, <2>2
<1>4. rows \in [1..Len(p) -> Seq(RowSet)]
  BY <1>1, <1>3 DEF RowsOfRollout
<1>5. rows \in Seq(Seq(RowSet)) /\ Len(rows) = Len(p)
  BY <1>1, <1>4
<1>6. ASSUME allowed \subseteq OwnKinds
      PROVE  \A i \in 1..Len(p) : OwnRows(rows[i], p[i])
  <2> TAKE i \in 1..Len(p)
  <2>1. kind[i] \in AllKinds /\ kind[i] \in OwnKinds /\ p[i] \in SlotSet /\ len[p[i].uid] \in Nat
    BY <1>2, <1>6
  <2>2. OwnRows(Outputs(kind[i], p[i], len[p[i].uid]), p[i])
    BY <2>1, OutputsAre
  <2> QED
    BY <1>1, <2>2
<1> QED
  BY <1>3, <1>5, <1>6 DEF Generated, AllOwn

\* Rows no two of which are the same, none of them a dummy.
GoodRows(o) ==
    /\ o \in Seq(RowSet)
    /\ \A i, j \in 1..Len(o) : o[i] = o[j] => i = j
    /\ \A i \in 1..Len(o) : o[i].uid \in 1..Prompts /\ ~o[i].dummy

LEMMA GeneratedGood ==
    ASSUME NEW p \in Seq(SlotSet), \A i \in 1..Len(p) : p[i].run = i,
           NEW ss, Generated(ss, p)
    PROVE  GoodRows(FlattenSeq(ss))
PROOF
<1> DEFINE o == FlattenSeq(ss)
<1>1. /\ ss \in Seq(Seq(RowSet)) /\ Len(ss) = Len(p)
      /\ \A i \in 1..Len(p) : RowsOfRollout(ss[i], p[i])
  BY DEF Generated
<1>2. o \in Seq(RowSet) /\ \E off : Layout(ss, o, off)
  BY <1>1, FlattenLayout
<1> HIDE DEF o
<1>3. PICK off : Layout(ss, o, off)
  BY <1>2
<1>4. \A k \in 1..Len(o) : \E i, j : IsAt(ss, off, k, i, j)
  BY <1>1, <1>3, LayoutCovers
<1>5. ASSUME NEW k \in 1..Len(o), NEW i, NEW j, IsAt(ss, off, k, i, j)
      PROVE  /\ i \in 1..Len(ss) /\ k = off[i - 1] + j /\ j \in 1..Len(ss[i]) /\ o[k] = ss[i][j]
             /\ o[k].run = i /\ o[k].part = j /\ o[k].uid \in 1..Prompts /\ ~o[k].dummy
  <2>1. i \in 1..Len(ss) /\ j \in 1..Len(ss[i]) /\ k = off[i - 1] + j
    BY <1>5 DEF IsAt
  <2>2. o[k] = ss[i][j]
    BY <1>3, <2>1 DEF Layout
  <2>3. p[i].run = i /\ p[i].uid \in 1..Prompts
    <3>1. i \in 1..Len(p) /\ Len(p) \in Nat
      BY <1>1, <2>1
    <3>2. p[i] \in SlotSet
      BY <3>1
    <3>3. p[i].uid \in 1..Prompts
      BY <3>2 DEF SlotSet
    <3> QED
      BY <3>1, <3>3
  <2>4. RowsOfRollout(ss[i], p[i])
    BY <1>1, <2>1
  <2> QED
    BY <2>1, <2>2, <2>3, <2>4 DEF RowsOfRollout
<1>6. \A k \in 1..Len(o) : o[k].uid \in 1..Prompts /\ ~o[k].dummy
  BY <1>4, <1>5
<1>7. \A k, l \in 1..Len(o) : o[k] = o[l] => k = l
  <2> TAKE k, l \in 1..Len(o)
  <2> HAVE o[k] = o[l]
  <2>1. PICK i, j : IsAt(ss, off, k, i, j)
    BY <1>4
  <2>2. PICK g, h : IsAt(ss, off, l, g, h)
    BY <1>4
  <2>3. k = off[i - 1] + j /\ o[k].run = i /\ o[k].part = j
    BY <1>5, <2>1
  <2>4. l = off[g - 1] + h /\ o[l].run = g /\ o[l].part = h
    BY <1>5, <2>2
  <2> QED
    BY <2>3, <2>4
<1>8. GoodRows(o)
  BY <1>2, <1>6, <1>7 DEF GoodRows
<1> QED
  BY <1>8 DEF o

\* The first rows of good rows are good.
LEMMA PrefixGood ==
    ASSUME NEW o, GoodRows(o), NEW n \in Int, n <= Len(o)
    PROVE  /\ GoodRows(SubSeq(o, 1, n))
           /\ Len(SubSeq(o, 1, n)) = IF n > 0 THEN n ELSE 0
           /\ \A i \in 1..n : SubSeq(o, 1, n)[i] = o[i]
PROOF
<1>1. o \in Seq(RowSet)
  BY DEF GoodRows
<1> DEFINE t == SubSeq(o, 1, n)
<1>2. /\ t \in Seq(RowSet) /\ Len(t) = (IF n > 0 THEN n ELSE 0)
      /\ \A i \in 1..n : t[i] = o[i]
  <2>1. CASE n > 0
    <3>1. n \in 1..Len(o) /\ 1 \in 1..n
      BY <1>1, <2>1
    <3>2. t = [i \in 1..n |-> o[i]]
      BY <1>1, <3>1
    <3> HIDE DEF t
    <3>3. t \in [1..n -> RowSet]
      BY <1>1, <3>1, <3>2
    <3> QED
      BY <2>1, <3>2, <3>3
  <2>2. CASE ~(n > 0)
    <3>1. t = <<>>
      BY <1>1, <2>2
    <3> QED
      BY <2>2, <3>1
  <2> QED
    BY <2>1, <2>2
<1> HIDE DEF t
<1>3. \A i \in 1..Len(t) : i \in 1..n /\ i \in 1..Len(o) /\ t[i] = o[i]
  BY <1>1, <1>2
<1>4. GoodRows(t)
  BY <1>2, <1>3 DEF GoodRows
<1> QED
  BY <1>2, <1>4 DEF t

-----------------------------------------------------------------------------
(* Workers, raising and the join *)

\* A slot whose rollout has returned nothing.
EmptyRun(o) == \E i \in DOMAIN PaddedSlots : \A r \in Rows(o) : r.run # PaddedSlots[i].run

LEMMA FlattenEmpty ==
    ASSUME NEW T, NEW ss \in Seq(Seq(T))
    PROVE  FlattenSeq(ss) = <<>> <=> \A i \in 1..Len(ss) : Len(ss[i]) = 0
PROOF
<1> DEFINE s == FlattenSeq(ss)
<1>1. s \in Seq(T) /\ \E off : Layout(ss, s, off)
  BY FlattenLayout
<1> HIDE DEF s
<1>2. PICK off : Layout(ss, s, off)
  BY <1>1
<1>3. /\ off \in [0..Len(ss) -> Nat] /\ Len(s) = off[Len(ss)]
      /\ \A i \in 1..Len(ss) : /\ off[i] = off[i - 1] + Len(ss[i]) /\ Len(ss[i]) \in Nat
                               /\ off[i] \in Nat /\ off[i - 1] \in Nat
      /\ \A i, k \in 0..Len(ss) : i <= k => off[i] <= off[k]
  BY <1>2, LayoutOffsets
<1>4. Len(ss) \in Nat /\ Len(s) \in Nat
  BY <1>1
<1>5. ASSUME s = <<>>, NEW i \in 1..Len(ss)
      PROVE  Len(ss[i]) = 0
  <2>1. off[Len(ss)] = 0
    BY <1>3, <1>5
  <2>2. i \in 0..Len(ss) /\ Len(ss) \in 0..Len(ss) /\ i <= Len(ss)
    BY <1>4
  <2>3. off[i] <= 0
    BY <1>3, <2>1, <2>2
  <2> QED
    BY <1>3, <2>3
<1>6. ASSUME \A i \in 1..Len(ss) : Len(ss[i]) = 0
      PROVE  s = <<>>
  <2>1. SUFFICES ASSUME Len(s) # 0 PROVE FALSE
    BY <1>1
  <2>2. 1 \in 1..Len(s)
    BY <1>4, <2>1
  <2>3. \E i, j : IsAt(ss, off, 1, i, j)
    BY <1>2, <2>2, LayoutCovers
  <2>4. PICK i, j : IsAt(ss, off, 1, i, j)
    BY <2>3
  <2>5. i \in 1..Len(ss) /\ j \in 1..Len(ss[i])
    BY <2>4 DEF IsAt
  <2> QED
    BY <1>6, <2>5
<1> QED
  BY <1>5, <1>6 DEF s

\* Every worker has a slot.
LEMMA ChunkPlaces ==
    ASSUME Numbers, mode \in Modes
    PROVE  LET w == Len(PaddedSlots) \div NumWorkers
           IN  \A c \in 1..NumWorkers :
                /\ (c - 1) * w \in Nat /\ c * w \in Nat
                /\ (c - 1) * w + 1 <= c * w /\ c * w <= Len(PaddedSlots)
PROOF
<1> DEFINE N == Len(PaddedSlots)
           w == N \div NumWorkers
<1>1. NumWorkers \in Nat \ {0} /\ (PromptNum * RolloutN) % NumWorkers = 0
  BY DEF Numbers
<1>2. /\ Len(Slots) \in Nat \ {0} /\ PadSize \in Nat /\ N = Len(Slots) + PadSize
      /\ mode = "fit" => Len(Slots) = PromptNum * RolloutN /\ PadSize = 0
  <2>1. Len(Slots) \in Nat \ {0} /\ (mode = "fit" => Len(Slots) = PromptNum * RolloutN)
    BY SlotsAre DEF SlotsOrdered
  <2>2. PadSize \in Nat /\ (mode = "fit" => PadSize = 0)
    BY PaddingIs
  <2>3. N = Len(Slots) + PadSize
    BY PaddedSlotsAre DEF PaddedOrdered
  <2> QED
    BY <2>1, <2>2, <2>3
<1>3. \A a \in Nat \ {0}, b \in Nat \ {0} : a % b = 0 => a >= b
  OBVIOUS
<1>4. \A a \in Nat \ {0}, b \in Nat \ {0} : a + ((b - (a % b)) % b) >= b
  <2> TAKE a \in Nat \ {0}, b \in Nat \ {0}
  <2>1. a % b \in 0..(b - 1) /\ a % b <= a
    OBVIOUS
  <2>2. CASE a % b = 0
    <3>1. a >= b /\ (b - 0) % b = 0
      BY <1>3, <2>2
    <3> QED
      BY <2>2, <3>1
  <2>3. CASE a % b # 0
    <3>1. b - (a % b) \in 1..(b - 1)
      BY <2>1, <2>3
    <3>2. \A x \in 1..(b - 1) : x % b = x
      OBVIOUS
    <3>3. (b - (a % b)) % b = b - (a % b)
      BY <3>1, <3>2
    <3> QED
      BY <2>1, <3>3
  <2> QED
    BY <2>2, <2>3
<1>5. N >= NumWorkers /\ N \in Nat
  BY <1>1, <1>2, <1>4 DEF PadSize
<1>6. w \in Nat /\ w * NumWorkers <= N /\ N < w * NumWorkers + NumWorkers
  BY <1>1, <1>5, Quotient
<1> HIDE DEF w, N
<1>7. w # 0
  BY <1>1, <1>5, <1>6
<1>8. ASSUME NEW c \in 1..NumWorkers
      PROVE  /\ (c - 1) * w \in Nat /\ c * w \in Nat
             /\ (c - 1) * w + 1 <= c * w /\ c * w <= N
  <2>1. c - 1 \in Nat /\ NumWorkers - c \in Nat /\ c \in Nat
    BY <1>1
  <2>2. (c - 1) * w \in Nat /\ c * w \in Nat /\ (NumWorkers - c) * w \in Nat
    BY <1>6, <2>1
  <2>3. c * w = (c - 1) * w + w
    BY <1>6, <2>1
  <2>4. w * NumWorkers = c * w + (NumWorkers - c) * w
    BY <1>1, <1>6, <2>1
  <2> QED
    BY <1>5, <1>6, <1>7, <2>2, <2>3, <2>4
<1> QED
  BY <1>8 DEF w, N

LEMMA WorkerOutputs ==
    ASSUME Numbers, mode \in Modes, NEW ss, Generated(ss, PaddedSlots),
           NEW c \in 1..NumWorkers
    PROVE  /\ FlattenSeq(Chunks(ss, NumWorkers)[c]) = <<>> => EmptyRun(FlattenSeq(ss))
           /\ FlattenSeq(Chunks(ss, NumWorkers)[c]) # <<>> => FlattenSeq(ss) # <<>>
PROOF
<1> DEFINE w == Len(PaddedSlots) \div NumWorkers
           N == Len(PaddedSlots)
           chunk == SubSeq(ss, (c - 1) * w + 1, c * w)
           o == FlattenSeq(ss)
<1>1. /\ ss \in Seq(Seq(RowSet)) /\ Len(ss) = N
      /\ \A i \in 1..N : RowsOfRollout(ss[i], PaddedSlots[i])
  BY DEF Generated
<1>2. /\ (c - 1) * w \in Nat /\ c * w \in Nat
      /\ (c - 1) * w + 1 <= c * w /\ c * w <= N
  BY ChunkPlaces
<1>3. Chunks(ss, NumWorkers)[c] = chunk
  BY <1>1 DEF Chunks
<1>4. PaddedSlots \in Seq(SlotSet) /\ \A i \in 1..N : PaddedSlots[i].run = i
  BY PaddedSlotsAre DEF PaddedOrdered
<1>5. N \in Nat /\ DOMAIN PaddedSlots = 1..N
  BY <1>4
<1>6. PICK a \in Nat, b \in Nat : a = (c - 1) * w /\ b = c * w
  BY <1>2
<1>7. /\ chunk = SubSeq(ss, a + 1, b) /\ a + 1 <= b /\ b <= N
  BY <1>2, <1>6
<1> HIDE DEF w, N, chunk
<1>8. /\ chunk \in Seq(Seq(RowSet)) /\ Len(chunk) = b - a
      /\ \A i \in 1..(b - a) : chunk[i] = ss[a + i]
  <2>1. a + 1 \in 1..(Len(ss) + 1) /\ b \in ((a + 1) - 1)..Len(ss)
    BY <1>1, <1>5, <1>6, <1>7
  <2>2. /\ chunk \in Seq(Seq(RowSet)) /\ Len(chunk) = b - (a + 1) + 1
        /\ \A i \in 1..(b - (a + 1) + 1) : chunk[i] = ss[(a + 1) + i - 1]
    BY <1>1, <1>7, <2>1, SubSeqProperties
  <2>3. b - (a + 1) + 1 = b - a /\ \A i \in 1..(b - a) : (a + 1) + i - 1 = a + i
    BY <1>6
  <2> QED
    BY <2>2, <2>3
<1>9. ASSUME FlattenSeq(chunk) = <<>>
      PROVE  EmptyRun(o)
  <2>1. \A i \in 1..Len(chunk) : Len(chunk[i]) = 0
    BY <1>8, <1>9, FlattenEmpty
  <2>8. Len(chunk) = b - a
    BY <1>8
  <2>2. 1 \in 1..(b - a) /\ a + 1 \in 1..N
    BY <1>5, <1>6, <1>7
  <2>9. chunk[1] = ss[a + 1]
    BY <1>8, <2>2
  <2>3. Len(ss[a + 1]) = 0
    BY <2>1, <2>2, <2>8, <2>9
  <2>4. o \in Seq(RowSet) /\ \E off : Layout(ss, o, off)
    BY <1>1, FlattenLayout
  <2> HIDE DEF o
  <2>5. PICK off : Layout(ss, o, off)
    BY <2>4
  <2>6. ASSUME NEW k \in 1..Len(o) PROVE o[k].run # a + 1
    <3>1. \E i, j : IsAt(ss, off, k, i, j)
      BY <1>1, <2>5, LayoutCovers
    <3>2. PICK i, j : IsAt(ss, off, k, i, j)
      BY <3>1
    <3>3. i \in 1..N /\ j \in 1..Len(ss[i]) /\ k = off[i - 1] + j
      BY <1>1, <3>2 DEF IsAt
    <3>4. o[k] = ss[i][j]
      BY <1>1, <2>5, <3>3 DEF Layout
    <3>5. ss[i][j].run = i
      BY <1>1, <1>4, <3>3 DEF RowsOfRollout
    <3> QED
      BY <2>3, <3>3, <3>4, <3>5
  <2>7. \A r \in Rows(o) : r.run # PaddedSlots[a + 1].run
    BY <1>4, <2>2, <2>4, <2>6 DEF Rows
  <2> QED
    BY <1>5, <2>2, <2>7 DEF EmptyRun
<1>10. ASSUME FlattenSeq(chunk) # <<>>
       PROVE  o # <<>>
  <2>1. PICK i \in 1..Len(chunk) : Len(chunk[i]) # 0
    BY <1>8, <1>10, FlattenEmpty
  <2>2. i \in 1..(b - a)
    BY <1>8
  <2>3. a + i \in 1..N
    <3>1. a \in Nat /\ b \in Nat /\ i \in Nat /\ 1 <= i /\ i <= b - a
      BY <1>6, <2>2
    <3>2. b <= N /\ N \in Nat
      BY <1>5, <1>7
    <3> QED
      BY <3>1, <3>2
  <2>5. chunk[i] = ss[a + i]
    BY <1>8, <2>2
  <2>4. a + i \in 1..Len(ss) /\ Len(ss[a + i]) # 0
    BY <1>1, <2>1, <2>3, <2>5
  <2> QED
    BY <1>1, <2>4, FlattenEmpty
<1> QED
  BY <1>3, <1>9, <1>10

LEMMA GrowsAtLeast ==
    ASSUME NEW n \in Nat, NEW off \in [0..n -> Nat], \A i \in 1..n : off[i] >= off[i - 1] + 1
    PROVE  \A i, k \in 0..n : i <= k => off[k] - off[i] >= k - i
PROOF
<1> SUFFICES ASSUME NEW i \in 0..n, NEW k \in 0..n, i <= k
             PROVE  off[k] - off[i] >= k - i
  OBVIOUS
<1> DEFINE Q == {d \in Nat : i + d <= n => off[i + d] - off[i] >= d}
<1>1. 0 \in Q
  BY i + 0 = i
<1>2. ASSUME NEW d \in 0..((k - i) - 1), d \in Q PROVE d + 1 \in Q
  <2>1. i + d \in 0..n /\ i + (d + 1) \in 1..n /\ (i + (d + 1)) - 1 = i + d
    OBVIOUS
  <2>2. off[i + d] \in Nat /\ off[i + (d + 1)] \in Nat /\ off[i] \in Nat
    BY <2>1
  <2>3. off[i + (d + 1)] >= off[i + d] + 1
    BY <2>1
  <2>4. off[i + d] - off[i] >= d
    BY <1>2, <2>1
  <2> QED
    BY <2>1, <2>2, <2>3, <2>4
<1>3. k - i \in Nat
  OBVIOUS
<1> HIDE DEF Q
<1>4. k - i \in Q
  BY <1>1, <1>2, <1>3, UpTo, k - i \in 0..(k - i)
<1>5. i + (k - i) = k
  OBVIOUS
<1> QED
  BY <1>4, <1>5 DEF Q

\* A row meets the data of its prompt, or a rollout has returned nothing.
LEMMA JoinAgrees ==
    ASSUME Numbers, mode \in Modes, NEW ss, Generated(ss, PaddedSlots),
           NEW o \in Seq(RowSet), Len(o) <= Len(FlattenSeq(ss)),
           \A k \in 1..Len(o) : o[k] = FlattenSeq(ss)[k],
           ~EmptyRun(o), Len(o) = Len(Slots)
    PROVE  \A i \in 1..Len(o) : Slots[i].uid = o[i].uid
PROOF
<1> DEFINE F == FlattenSeq(ss)
           N == Len(PaddedSlots)
           n == Len(Slots)
<1>1. /\ ss \in Seq(Seq(RowSet)) /\ Len(ss) = N
      /\ \A i \in 1..N : RowsOfRollout(ss[i], PaddedSlots[i])
  BY DEF Generated
<1>2. n \in Nat \ {0} /\ PadSize \in Nat
  BY SlotsAre, PaddingIs DEF SlotsOrdered
<1>3. /\ PaddedSlots \in Seq(SlotSet) /\ N = n + PadSize
      /\ \A i \in 1..n : PaddedSlots[i] = Slots[i]
      /\ \A i \in 1..N : PaddedSlots[i].run = i
  BY PaddedSlotsAre DEF PaddedOrdered
<1>4. N \in Nat /\ N # 0 /\ DOMAIN PaddedSlots = 1..N
  BY <1>2, <1>3
<1>5. F \in Seq(RowSet) /\ \E off : Layout(ss, F, off)
  BY <1>1, FlattenLayout
<1>6. Len(o) <= Len(F) /\ \A k \in 1..Len(o) : o[k] = F[k]
  OBVIOUS
<1> HIDE DEF F, N, n
<1>7. PICK off : Layout(ss, F, off)
  BY <1>5
<1>8. /\ off \in [0..N -> Nat] /\ off[0] = 0
      /\ \A i \in 1..N : off[i] = off[i - 1] + Len(ss[i])
      /\ \A i \in 1..N : \A j \in 1..Len(ss[i]) : F[off[i - 1] + j] = ss[i][j]
  BY <1>1, <1>7 DEF Layout
<1>9. ASSUME NEW i \in 1..N
      PROVE  Len(ss[i]) \in Nat /\ Len(ss[i]) >= 1 /\ off[i - 1] + 1 <= Len(o)
  <2>1. PICK r \in Rows(o) : r.run = i
    BY <1>3, <1>4 DEF EmptyRun
  <2>2. PICK k \in 1..Len(o) : o[k].run = i
    BY <2>1 DEF Rows
  <2>3. k \in 1..Len(F) /\ F[k] = o[k]
    BY <1>5, <1>6
  <2>4. \E h, j : IsAt(ss, off, k, h, j)
    BY <1>1, <1>7, <2>3, LayoutCovers
  <2>5. PICK h, j : IsAt(ss, off, k, h, j)
    BY <2>4
  <2>6. h \in 1..N /\ j \in 1..Len(ss[h]) /\ k = off[h - 1] + j
    BY <1>1, <2>5 DEF IsAt
  <2>7. F[k] = ss[h][j]
    BY <1>8, <2>6
  <2>8. ss[h][j].run = h
    BY <1>1, <1>3, <2>6 DEF RowsOfRollout
  <2>9. h = i
    BY <2>2, <2>3, <2>7, <2>8
  <2>10. Len(ss[i]) \in Nat /\ off[i - 1] \in Nat
    BY <1>1, <1>4, <1>8
  <2> QED
    BY <2>6, <2>9, <2>10
<1>10. \A i \in 1..N : off[i] >= off[i - 1] + 1
  <2> TAKE i \in 1..N
  <2>1. off[i - 1] \in Nat
    BY <1>4, <1>8
  <2> QED
    BY <1>8, <1>9, <2>1
<1>11. \A i, k \in 0..N : i <= k => off[k] - off[i] >= k - i
  BY <1>4, <1>8, <1>10, GrowsAtLeast
<1>12. Len(o) = n /\ n \in Nat
  BY <1>2 DEF n
<1>13. N = n /\ off[n - 1] = n - 1
  <2>1. N \in 1..N /\ N - 1 \in 0..N /\ 0 \in 0..N /\ 0 <= N - 1
    BY <1>4
  <2>2. off[N - 1] + 1 <= n
    BY <1>9, <1>12, <2>1
  <2>3. off[N - 1] - off[0] >= (N - 1) - 0
    BY <1>11, <2>1
  <2>4. off[N - 1] \in Nat
    BY <1>8, <2>1
  <2> QED
    BY <1>2, <1>3, <1>4, <1>8, <2>2, <2>3, <2>4
<1>14. ASSUME NEW i \in 1..n PROVE Slots[i].uid = o[i].uid
  <2>1. i - 1 \in 0..N /\ 0 \in 0..N /\ n - 1 \in 0..N /\ 0 <= i - 1 /\ i - 1 <= n - 1 /\ i \in 1..N
    BY <1>4, <1>13
  <2>2. off[i - 1] - off[0] >= (i - 1) - 0
    BY <1>11, <2>1
  <2>3. off[n - 1] - off[i - 1] >= (n - 1) - (i - 1)
    BY <1>11, <2>1
  <2>4. off[i - 1] \in Nat
    BY <1>8, <2>1
  <2>5. off[i - 1] + 1 = i
    <3>1. off[i - 1] >= i - 1
      BY <1>8, <2>2, <2>4
    <3>2. off[i - 1] <= i - 1
      BY <1>12, <1>13, <2>3, <2>4
    <3> QED
      BY <2>4, <3>1, <3>2
  <2>6. 1 \in 1..Len(ss[i])
    BY <1>9, <2>1
  <2>7. F[i] = ss[i][1]
    BY <1>8, <2>1, <2>5, <2>6
  <2>8. ss[i][1].uid = PaddedSlots[i].uid
    BY <1>1, <2>1, <2>6 DEF RowsOfRollout
  <2> QED
    BY <1>3, <1>6, <1>12, <2>7, <2>8
<1> QED
  BY <1>12, <1>14

-----------------------------------------------------------------------------
(* The batch: joined, padded, balanced *)

LEMMA FewerThan ==
    ASSUME NEW S, NEW T, IsFiniteSet(T), NEW f \in [S -> T],
           \A x, y \in S : f[x] = f[y] => x = y
    PROVE  IsFiniteSet(S) /\ Cardinality(S) <= Cardinality(T)
PROOF
<1>1. f \in Injection(S, T)
  BY DEF Injection, IsInjective
<1> QED
  BY <1>1, FS_Injection

LEMMA AsMany ==
    ASSUME NEW S, NEW T, IsFiniteSet(T), NEW f \in [S -> T],
           \A x, y \in S : f[x] = f[y] => x = y, \A z \in T : \E x \in S : f[x] = z
    PROVE  Cardinality(S) = Cardinality(T)
PROOF
<1>1. f \in Injection(S, T)
  BY DEF Injection, IsInjective
<1>2. f \in Surjection(S, T)
  BY DEF Surjection
<1> QED
  BY <1>1, <1>2, FS_Injection

PairSet == [prompt : 1..Prompts, row : RowSet]

\* Every generated row is in the batch once, with the data of its prompt, and
\* nothing else but dummies, who belong to no prompt.
BatchOf(b, o) ==
    /\ b \in Seq(PairSet)
    /\ \A i \in 1..Len(b) :
        IF b[i].row.dummy THEN b[i].row.uid = 0
        ELSE b[i].prompt = b[i].row.uid /\ \E k \in 1..Len(o) : o[k] = b[i].row
    /\ \A i, j \in 1..Len(b) : ~b[i].row.dummy /\ b[i].row = b[j].row => i = j
    /\ \A k \in 1..Len(o) : \E i \in 1..Len(b) : b[i].row = o[k]

NoDummy(b) == \A i \in 1..Len(b) : ~b[i].row.dummy

Dummies(b) == {i \in 1..Len(b) : b[i].row.dummy}

\* q rows for every rank, and fewer dummies than there are ranks.
Dealt(b, q) ==
    /\ q \in Nat \ {0} /\ Len(b) = q * DpSize
    /\ IsFiniteSet(Dummies(b)) /\ Cardinality(Dummies(b)) < DpSize

LEMMA JoinedGood ==
    ASSUME NEW o, GoodRows(o), NEW b,
           b = [i \in DOMAIN o |-> [prompt |-> o[i].uid, row |-> o[i]]]
    PROVE  BatchOf(b, o) /\ NoDummy(b) /\ Len(b) = Len(o)
PROOF
<1>1. /\ o \in Seq(RowSet) /\ DOMAIN o = 1..Len(o) /\ Len(o) \in Nat
      /\ \A i, j \in 1..Len(o) : o[i] = o[j] => i = j
      /\ \A i \in 1..Len(o) : o[i].uid \in 1..Prompts /\ ~o[i].dummy
  BY DEF GoodRows
<1>2. \A i \in 1..Len(o) : b[i] = [prompt |-> o[i].uid, row |-> o[i]]
  BY <1>1
<1>3. \A i \in 1..Len(o) : b[i].prompt = o[i].uid /\ b[i].row = o[i] /\ b[i] \in PairSet
  <2> TAKE i \in 1..Len(o)
  <2>1. o[i] \in RowSet /\ o[i].uid \in 1..Prompts
    BY <1>1
  <2>2. b[i].prompt = o[i].uid /\ b[i].row = o[i]
    BY <1>2
  <2>3. b[i] \in PairSet
    BY <1>2, <2>1 DEF PairSet
  <2> QED
    BY <2>2, <2>3
<1>4. b = [i \in 1..Len(o) |-> b[i]]
  BY <1>1
<1>5. b \in [1..Len(o) -> PairSet]
  BY <1>3, <1>4
<1>6. b \in Seq(PairSet) /\ Len(b) = Len(o)
  BY <1>1, <1>5
<1> QED
  BY <1>1, <1>3, <1>6 DEF BatchOf, NoDummy

LEMMA PadGives ==
    ASSUME Numbers, NEW o, GoodRows(o), NEW b, BatchOf(b, o), NoDummy(b), Len(b) # 0, NEW c,
           c = IF Len(b) % DpSize = 0 THEN b
               ELSE b \o [i \in 1..(DpSize - (Len(b) % DpSize)) |-> Dummy(b[1])]
    PROVE  BatchOf(c, o) /\ \E q : Dealt(c, q)
PROOF
<1> DEFINE n == Len(b)
<1>1. /\ b \in Seq(PairSet)
      /\ \A i \in 1..n : b[i].prompt = b[i].row.uid /\ \E k \in 1..Len(o) : o[k] = b[i].row
      /\ \A i, j \in 1..n : b[i].row = b[j].row => i = j
      /\ \A k \in 1..Len(o) : \E i \in 1..n : b[i].row = o[k]
      /\ \A i \in 1..n : ~b[i].row.dummy
  BY DEF BatchOf, NoDummy
<1>2. n \in Nat \ {0} /\ DpSize \in Nat \ {0}
  BY <1>1 DEF Numbers
<1> DEFINE d == n \div DpSize
           r == n % DpSize
<1>4. r \in 0..(DpSize - 1) /\ d \in Nat /\ n = d * DpSize + r
  <2>1. PICK a \in Nat, b0 \in Nat \ {0} : a = n /\ b0 = DpSize
    BY <1>2
  <2>2. a % b0 \in 0..(b0 - 1) /\ a \div b0 \in Nat /\ a = (a \div b0) * b0 + (a % b0)
    BY <2>1, Remainder
  <2> QED
    BY <2>1, <2>2
<1>5. c = IF r = 0 THEN b ELSE b \o [i \in 1..(DpSize - r) |-> Dummy(b[1])]
  OBVIOUS
<1>6. Len(b) = n
  OBVIOUS
<1> HIDE DEF n, d, r
<1>7. CASE r = 0
  <2>1. c = b
    BY <1>5, <1>7
  <2>2. d # 0 /\ n = d * DpSize
    BY <1>2, <1>4, <1>7
  <2>3. Dummies(b) = {}
    BY <1>1, <1>6 DEF Dummies
  <2>4. IsFiniteSet(Dummies(b)) /\ Cardinality(Dummies(b)) = 0
    BY <2>3, FS_EmptySet
  <2>5. Dealt(c, d)
    BY <1>2, <1>4, <1>6, <2>1, <2>2, <2>4 DEF Dealt
  <2> QED
    BY <2>1, <2>5
<1>8. CASE r # 0
  <2> DEFINE m == DpSize - r
             more == [i \in 1..m |-> Dummy(b[1])]
             dm == Dummy(b[1])
  <2>1. m \in 1..(DpSize - 1) /\ n + m = (d + 1) * DpSize
    BY <1>2, <1>4, <1>8
  <2>2. b[1] \in PairSet
    BY <1>1, <1>2, <1>6
  <2>3. /\ dm \in PairSet /\ dm.row.dummy /\ dm.row.uid = 0
    <3>1. <<0, "dummy">> \in Nat \X {"own", "copy", "dummy"}
      OBVIOUS
    <3>2. 0 \in 0..Prompts
      BY PromptsAre
    <3>3. PICK w \in RowSet : w = b[1].row
      BY <2>2 DEF PairSet
    <3> DEFINE w1 == [w EXCEPT !.uid = 0]
               w2 == [w1 EXCEPT !.gen_uid = <<0, "dummy">>]
               w3 == [w2 EXCEPT !.len = 0]
               w4 == [w3 EXCEPT !.dummy = TRUE]
    <3>4. w1 \in RowSet /\ w1.uid = 0
      BY <3>2 DEF RowSet
    <3> HIDE DEF w1
    <3>5. w2 \in RowSet /\ w2.uid = 0
      BY <3>1, <3>4 DEF RowSet
    <3> HIDE DEF w2
    <3>6. w3 \in RowSet /\ w3.uid = 0
      BY <3>5 DEF RowSet
    <3> HIDE DEF w3
    <3>7. w4 \in RowSet /\ w4.uid = 0 /\ w4.dummy
      BY <3>6 DEF RowSet
    <3>8. dm = [b[1] EXCEPT !.row = w4]
      BY <3>3 DEF Dummy, w1, w2, w3
    <3> HIDE DEF dm, w4
    <3>9. dm \in PairSet /\ dm.row = w4
      BY <2>2, <3>7, <3>8 DEF PairSet
    <3> QED
      BY <3>7, <3>9
  <2> HIDE DEF m, dm
  <2>4. more = [i \in 1..m |-> dm]
    BY DEF dm
  <2>5. more \in [1..m -> PairSet] /\ m \in Nat
    BY <2>1, <2>3, <2>4
  <2>6. more \in Seq(PairSet) /\ Len(more) = m
    BY <2>5
  <2>7. c = b \o more
    BY <1>5, <1>8 DEF m
  <2>8. \A i \in 1..m : more[i] = dm
    BY <2>4
  <2> HIDE DEF more
  <2>9. /\ b \o more \in Seq(PairSet) /\ Len(b \o more) = Len(b) + Len(more)
        /\ \A i \in 1..Len(b) : (b \o more)[i] = b[i]
        /\ \A i \in 1..Len(more) : (b \o more)[Len(b) + i] = more[i]
    <3>1. PICK T, t : T = PairSet /\ t = more
      OBVIOUS
    <3>2. b \in Seq(T) /\ t \in Seq(T)
      BY <1>1, <2>6, <3>1
    <3>3. /\ b \o t \in Seq(T) /\ Len(b \o t) = Len(b) + Len(t)
          /\ \A i \in 1..Len(b) : (b \o t)[i] = b[i]
          /\ \A i \in 1..Len(t) : (b \o t)[Len(b) + i] = t[i]
      BY <1>1, <3>2, ConcatIs
    <3> QED
      BY <3>1, <3>3
  <2>10. /\ c \in Seq(PairSet) /\ Len(c) = n + m
         /\ \A i \in 1..n : c[i] = b[i]
         /\ \A i \in 1..m : c[n + i] = dm
    BY <1>6, <2>6, <2>7, <2>8, <2>9
  <2>11. ASSUME NEW i \in 1..(n + m), i \notin 1..n PROVE i - n \in 1..m /\ c[i] = dm
    <3>1. i - n \in 1..m /\ n + (i - n) = i
      BY <1>2, <2>1, <2>11
    <3> QED
      BY <2>10, <3>1
  <2>12. \A i \in 1..(n + m) : IF i \in 1..n THEN c[i] = b[i] /\ ~c[i].row.dummy
                               ELSE c[i] = dm /\ c[i].row.dummy
    BY <1>1, <2>3, <2>10, <2>11
  <2>13. \A i \in 1..n : i \in 1..(n + m)
    BY <1>2, <2>1
  <2>14. BatchOf(c, o)
    <3>0. 1..Len(c) = 1..(n + m)
      BY <2>10
    <3>1. \A i \in 1..Len(c) :
            IF c[i].row.dummy THEN c[i].row.uid = 0
            ELSE c[i].prompt = c[i].row.uid /\ \E k \in 1..Len(o) : o[k] = c[i].row
      <4> TAKE i \in 1..Len(c)
      <4>1. CASE i \in 1..n
        <5>1. c[i] = b[i] /\ ~c[i].row.dummy
          BY <2>12, <3>0, <4>1
        <5>2. b[i].prompt = b[i].row.uid /\ \E k \in 1..Len(o) : o[k] = b[i].row
          BY <1>1, <4>1
        <5> QED
          BY <5>1, <5>2
      <4>2. CASE i \notin 1..n
        <5>1. c[i] = dm /\ c[i].row.dummy
          BY <2>12, <3>0, <4>2
        <5> QED
          BY <2>3, <5>1
      <4> QED
        BY <4>1, <4>2
    <3>2. \A i, j \in 1..Len(c) : ~c[i].row.dummy /\ c[i].row = c[j].row => i = j
      <4> TAKE i, j \in 1..Len(c)
      <4> HAVE ~c[i].row.dummy /\ c[i].row = c[j].row
      <4>1. ~c[j].row.dummy
        OBVIOUS
      <4>2. i \in 1..n /\ j \in 1..n /\ c[i] = b[i] /\ c[j] = b[j]
        BY <2>12, <3>0, <4>1
      <4> QED
        BY <1>1, <4>2
    <3>3. \A k \in 1..Len(o) : \E i \in 1..Len(c) : c[i].row = o[k]
      <4> TAKE k \in 1..Len(o)
      <4>1. PICK i \in 1..n : b[i].row = o[k]
        BY <1>1
      <4> QED
        BY <2>10, <2>13, <3>0, <4>1
    <3> QED
      <4>1. c \in Seq(PairSet)
        BY <2>10
      <4> QED
        BY <3>1, <3>2, <3>3, <4>1 DEF BatchOf
  <2>15. Dummies(c) = (n + 1)..(n + m)
    <3>1. \A i \in 1..(n + m) : i \in (n + 1)..(n + m) <=> i \notin 1..n
      BY <1>2, <2>1
    <3>2. (n + 1)..(n + m) \subseteq 1..(n + m)
      BY <1>2, <2>1
    <3> QED
      BY <2>10, <2>12, <3>1, <3>2 DEF Dummies
  <2>16. IsFiniteSet(Dummies(c)) /\ Cardinality(Dummies(c)) = m
    <3>1. n + 1 \in Int /\ n + m \in Int /\ ~(n + 1 > n + m) /\ (n + m) - (n + 1) + 1 = m
      BY <1>2, <2>1
    <3> QED
      BY <2>15, <3>1, FS_Interval
  <2>17. Dealt(c, d + 1)
    <3>0. d + 1 \in Nat \ {0}
      BY <1>4
    <3>1. d + 1 \in Nat \ {0} /\ Len(c) = (d + 1) * DpSize
      BY <2>1, <2>10, <3>0
    <3>2. m < DpSize
      BY <1>2, <2>1
    <3> QED
      BY <2>16, <3>1, <3>2 DEF Dealt
  <2> QED
    BY <2>14, <2>17
<1> QED
  BY <1>7, <1>8

\* Rows of a dealt batch in another order.
LEMMA RearrangedBatch ==
    ASSUME Numbers, NEW o, NEW b, BatchOf(b, o), NEW q, Dealt(b, q), NEW f, NEW n,
           n = Len(b), Rearranges(f, n), NEW c, c = [i \in 1..n |-> b[f[i]]]
    PROVE  BatchOf(c, o) /\ Dealt(c, q)
PROOF
<1>1. /\ b \in Seq(PairSet)
      /\ \A i \in 1..n :
          IF b[i].row.dummy THEN b[i].row.uid = 0
          ELSE b[i].prompt = b[i].row.uid /\ \E k \in 1..Len(o) : o[k] = b[i].row
      /\ \A i, j \in 1..n : ~b[i].row.dummy /\ b[i].row = b[j].row => i = j
      /\ \A k \in 1..Len(o) : \E i \in 1..n : b[i].row = o[k]
  BY DEF BatchOf
<1>2. n \in Nat /\ \A i \in 1..n : b[i] \in PairSet
  BY <1>1
<1>3. /\ f \in [1..n -> 1..n] /\ \A i, j \in 1..n : f[i] = f[j] => i = j
      /\ \A k \in 1..n : \E i \in 1..n : f[i] = k
  BY DEF Rearranges
<1>4. \A i \in 1..n : f[i] \in 1..n /\ c[i] = b[f[i]]
  BY <1>3
<1>5. c \in [1..n -> PairSet]
  BY <1>2, <1>4
<1>6. c \in Seq(PairSet) /\ Len(c) = n
  BY <1>2, <1>5
<1>7. BatchOf(c, o)
  <2>1. \A i \in 1..n :
          IF c[i].row.dummy THEN c[i].row.uid = 0
          ELSE c[i].prompt = c[i].row.uid /\ \E k \in 1..Len(o) : o[k] = c[i].row
    BY <1>1, <1>4
  <2>2. \A i, j \in 1..n : ~c[i].row.dummy /\ c[i].row = c[j].row => i = j
    <3> TAKE i, j \in 1..n
    <3> HAVE ~c[i].row.dummy /\ c[i].row = c[j].row
    <3>1. f[i] = f[j]
      BY <1>1, <1>4
    <3> QED
      BY <1>3, <3>1
  <2>3. \A k \in 1..Len(o) : \E i \in 1..n : c[i].row = o[k]
    <3> TAKE k \in 1..Len(o)
    <3>1. PICK h \in 1..n : b[h].row = o[k]
      BY <1>1
    <3>2. PICK i \in 1..n : f[i] = h
      BY <1>3
    <3> QED
      BY <1>4, <3>1, <3>2
  <2> QED
    BY <1>6, <2>1, <2>2, <2>3 DEF BatchOf
<1>8. Dealt(c, q)
  <2>1. /\ q \in Nat \ {0} /\ n = q * DpSize
        /\ IsFiniteSet(Dummies(b)) /\ Cardinality(Dummies(b)) < DpSize
    BY DEF Dealt
  <2> DEFINE g == [i \in Dummies(c) |-> f[i]]
  <2>2. g \in [Dummies(c) -> Dummies(b)]
    BY <1>4, <1>6 DEF Dummies
  <2>3. \A i, j \in Dummies(c) : g[i] = g[j] => i = j
    BY <1>3, <1>6 DEF Dummies
  <2> HIDE DEF g
  <2>4. IsFiniteSet(Dummies(c)) /\ Cardinality(Dummies(c)) <= Cardinality(Dummies(b))
    BY <2>1, <2>2, <2>3, FewerThan
  <2>5. Cardinality(Dummies(c)) \in Nat /\ Cardinality(Dummies(b)) \in Nat
    BY <2>1, <2>4, FS_CardinalityType
  <2>6. Cardinality(Dummies(c)) < DpSize
    BY <2>1, <2>4, <2>5 DEF Numbers
  <2> QED
    BY <1>6, <2>1, <2>4, <2>6 DEF Dealt
<1> QED
  BY <1>7, <1>8

SmallerOf(load, n) ==
    {pair \in (1..n) \X (1..n) :
        \/ load[pair[1]] < load[pair[2]]
        \/ load[pair[1]] = load[pair[2]] /\ pair[1] < pair[2]}

LEMMA SmallerTotal ==
    ASSUME NEW n \in Nat, NEW load \in [1..n -> Nat], NEW S \in SUBSET (1..n)
    PROVE  StrictTotal(SmallerOf(load, n), S)
PROOF
<1>1. \A i, j \in S : <<i, j>> \in SmallerOf(load, n) <=>
        load[i] < load[j] \/ (load[i] = load[j] /\ i < j)
  BY DEF SmallerOf
<1>2. \A i \in S : i \in Nat /\ load[i] \in Nat
  OBVIOUS
<1>3. \A i \in S : <<i, i>> \notin SmallerOf(load, n)
  BY <1>1, <1>2
<1>4. \A i, j, k \in S : <<i, j>> \in SmallerOf(load, n) /\ <<j, k>> \in SmallerOf(load, n)
                         => <<i, k>> \in SmallerOf(load, n)
  BY <1>1, <1>2
<1>5. \A i, j \in S : i = j \/ <<i, j>> \in SmallerOf(load, n) \/ <<j, i>> \in SmallerOf(load, n)
  <2> TAKE i, j \in S
  <2>1. i \in Nat /\ j \in Nat /\ load[i] \in Nat /\ load[j] \in Nat
    BY <1>2
  <2>2. i = j \/ (load[i] < load[j] \/ (load[i] = load[j] /\ i < j))
              \/ (load[j] < load[i] \/ (load[j] = load[i] /\ j < i))
    BY <2>1
  <2> QED
    BY <1>1, <2>2
<1> QED
  BY <1>3, <1>4, <1>5 DEF StrictTotal

\* The balanced order is the rows in some order.
LEMMA BalancedOrder ==
    ASSUME Numbers, NEW n \in Nat, NEW load \in [1..n -> Nat],
           NEW parts \in Partitions(load, DpSize, TRUE),
           NEW order, order = FlattenSeq([r \in Ranks |->
                                OddEven(Sorted(parts[r], SmallerOf(load, n)))])
    PROVE  Len(order) = n /\ Rearranges(order, n)
PROOF
<1> DEFINE ss == [r \in 1..DpSize |-> OddEven(Sorted(parts[r], SmallerOf(load, n)))]
<1>1. DpSize \in Nat
  BY DEF Numbers
<1>2. DOMAIN load = 1..n /\ Len(load) = n
  OBVIOUS
<1>3. IsPartition(parts, n, DpSize)
  BY <1>2, PartitionsParted
<1>4. /\ \A p \in 1..DpSize : parts[p] \subseteq 1..n
      /\ \A p, q \in 1..DpSize : p # q => parts[p] \cap parts[q] = {}
      /\ \A i \in 1..n : \E p \in 1..DpSize : i \in parts[p]
  BY <1>3 DEF IsPartition
<1>5. ASSUME NEW p \in 1..DpSize PROVE parts[p] \subseteq 1..n /\ Enumerates(ss[p], parts[p])
  <2>1. parts[p] \in SUBSET (1..n)
    BY <1>4
  <2>2. IsFiniteSet(parts[p])
    <3>1. IsFiniteSet(1..n)
      BY FS_Interval
    <3> QED
      BY <2>1, <3>1, FS_Subset
  <2>3. StrictTotal(SmallerOf(load, n), parts[p])
    BY <2>1, SmallerTotal
  <2>4. Enumerates(Sorted(parts[p], SmallerOf(load, n)), parts[p])
    BY <2>2, <2>3, SortedEnumerates
  <2>5. Enumerates(OddEven(Sorted(parts[p], SmallerOf(load, n))), parts[p])
    BY <2>4, OddEvenEnumerates
  <2> QED
    BY <2>1, <2>5
<1>6. ss = [p \in 1..DpSize |-> ss[p]]
  OBVIOUS
<1>7. order = FlattenSeq(ss)
  BY DEF Ranks
<1> HIDE DEF ss
<1>8. Enumerates(FlattenSeq(ss), 1..n)
  BY <1>1, <1>4, <1>5, <1>6, FlattenEnumerates
<1>9. Len(order) = n /\ order \in [1..n -> 1..n]
  BY <1>7, <1>8, IntervalLength
<1> QED
  BY <1>7, <1>8, <1>9 DEF Enumerates, Rearranges

-----------------------------------------------------------------------------
(* The rows of the ranks and the old log probabilities *)

\* Blocks of a line: every place is in one of them.
LEMMA Block ==
    ASSUME NEW n \in Nat, NEW off \in [0..n -> Nat], off[0] = 0, NEW k \in 1..off[n]
    PROVE  \E i \in 1..n : off[i - 1] < k /\ k <= off[i]
PROOF
<1> DEFINE T == {i \in 0..n : k <= off[i]}
<1>1. T \in SUBSET Nat /\ n \in T
  <2>1. n \in 0..n /\ off[n] \in Nat
    OBVIOUS
  <2> QED
    BY <2>1
<1>2. PICK i \in T : \A j \in T : i <= j
  BY <1>1, LeastOf
<1>3. i \in 1..n /\ k <= off[i]
  BY <1>2
<1>4. i - 1 \in 0..n /\ i - 1 \notin T
  BY <1>2, <1>3
<1>5. off[i - 1] \in Nat /\ ~(k <= off[i - 1])
  BY <1>4
<1> QED
  BY <1>3, <1>5

\* k is place i of block r.
InBlock(q, k, r, i) == k = (r - 1) * q + i

LEMMA BlockOf ==
    ASSUME NEW q \in Nat \ {0}, NEW D \in Nat, NEW k \in 1..(q * D)
    PROVE  \E r \in 1..D, i \in 1..q : InBlock(q, k, r, i)
PROOF
<1> DEFINE off == [r \in 0..D |-> r * q]
<1>1. \A r \in 0..D : r * q \in Nat
  OBVIOUS
<1>2. off \in [0..D -> Nat] /\ off[0] = 0 /\ off[D] = q * D
  BY <1>1
<1>3. \A r \in 1..D : off[r] = r * q /\ off[r - 1] = (r - 1) * q
  OBVIOUS
<1> HIDE DEF off
<1>4. k \in 1..off[D]
  BY <1>2
<1>5. PICK r \in 1..D : off[r - 1] < k /\ k <= off[r]
  BY <1>2, <1>4, Block
<1>6. (r - 1) * q < k /\ k <= r * q /\ r * q = (r - 1) * q + q /\ (r - 1) * q \in Nat
  BY <1>3, <1>5
<1>7. k - (r - 1) * q \in 1..q /\ k = (r - 1) * q + (k - (r - 1) * q)
  BY <1>6
<1>8. \E i \in 1..q : k = (r - 1) * q + i
  BY <1>7
<1> QED
  BY <1>8 DEF InBlock

LEMMA BlockPlace ==
    ASSUME NEW q \in Nat \ {0}, NEW D \in Nat, NEW r \in 1..D, NEW i \in 1..q
    PROVE  (r - 1) * q + i \in 1..(q * D)
PROOF
<1>1. r - 1 \in Nat /\ D - r \in Nat /\ i \in Nat /\ q - i \in Nat
  OBVIOUS
<1>2. (r - 1) * q \in Nat /\ (D - r) * q \in Nat
  BY <1>1
<1>3. q * D = (r - 1) * q + q + (D - r) * q
  OBVIOUS
<1> QED
  BY <1>1, <1>2, <1>3

LEMMA BlockUnique ==
    ASSUME NEW q \in Nat \ {0}, NEW r \in Nat, NEW s \in Nat, NEW i \in 1..q, NEW j \in 1..q,
           (r - 1) * q + i = (s - 1) * q + j
    PROVE  r = s /\ i = j
PROOF
<1>1. ASSUME NEW x \in Nat, NEW y \in Nat, NEW g \in 1..q, NEW h \in 1..q, x < y
      PROVE  (x - 1) * q + g < (y - 1) * q + h
  <2>1. PICK e \in Nat : y = x + 1 + e
    <3>1. y - x - 1 \in Nat /\ y = x + 1 + (y - x - 1)
      BY <1>1
    <3> QED
      BY <3>1
  <2>2. (y - 1) * q = (x - 1) * q + q + e * q
    BY <2>1
  <2>3. e * q \in Nat /\ (x - 1) * q \in Int
    OBVIOUS
  <2> QED
    BY <2>2, <2>3
<1>2. ~(r < s)
  BY <1>1
<1>3. ~(s < r)
  BY <1>1
<1>4. r = s
  BY <1>2, <1>3
<1>5. (r - 1) * q \in Int
  OBVIOUS
<1> QED
  BY <1>4, <1>5

LocalRows(r, q) == [i \in 1..q |-> (r - 1) * q + i]

LEMMA LocalIs ==
    ASSUME Numbers, NEW q, Dealt(batch, q)
    PROVE  \A r : Local(r) = LocalRows(r, q)
PROOF
<1>1. q \in Nat /\ DpSize \in Nat \ {0} /\ Len(batch) = q * DpSize
  BY DEF Dealt, Numbers
<1>2. Len(batch) \div DpSize = q
  <2>1. PICK a \in Nat, d \in Nat \ {0} : a = q /\ d = DpSize
    BY <1>1
  <2>2. (a * d) \div d = a
    BY QuotientOf
  <2> QED
    BY <1>1, <2>1, <2>2
<1> QED
  BY <1>2 DEF Local, LocalRows

LEMMA FlattenLocals ==
    ASSUME NEW q \in Nat \ {0}, NEW D \in Nat, NEW ss, ss = [r \in 1..D |-> LocalRows(r, q)]
    PROVE  FlattenSeq(ss) = [k \in 1..(q * D) |-> k]
PROOF
<1>1. ASSUME NEW r \in 1..D
      PROVE  /\ ss[r] \in Seq(Nat) /\ Len(ss[r]) = q
             /\ \A i \in 1..q : ss[r][i] = (r - 1) * q + i
  <2>1. \A i \in 1..q : (r - 1) * q + i \in Nat
    OBVIOUS
  <2>2. ss[r] = [i \in 1..q |-> (r - 1) * q + i]
    BY DEF LocalRows
  <2>3. ss[r] \in [1..q -> Nat]
    BY <2>1, <2>2
  <2> QED
    BY <2>2, <2>3
<1>2. ss \in [1..D -> Seq(Nat)]
  BY <1>1
<1>3. ss \in Seq(Seq(Nat)) /\ Len(ss) = D
  BY <1>2
<1> DEFINE s == FlattenSeq(ss)
<1>4. s \in Seq(Nat) /\ \E off : Layout(ss, s, off)
  BY <1>3, FlattenLayout
<1> HIDE DEF s
<1>5. PICK off : Layout(ss, s, off)
  BY <1>4
<1>6. /\ off \in [0..D -> Nat] /\ off[0] = 0
      /\ \A r \in 1..D : off[r] = off[r - 1] + q
      /\ Len(s) = off[D]
      /\ \A r \in 1..D : \A i \in 1..q : s[off[r - 1] + i] = (r - 1) * q + i
  <2>1. /\ off \in [0..D -> Nat] /\ off[0] = 0 /\ Len(s) = off[D]
        /\ \A r \in 1..D : off[r] = off[r - 1] + Len(ss[r])
        /\ \A r \in 1..D : \A i \in 1..Len(ss[r]) : s[off[r - 1] + i] = ss[r][i]
    BY <1>3, <1>5 DEF Layout
  <2>2. \A r \in 1..D : off[r] = off[r - 1] + q
    BY <1>1, <2>1
  <2>3. \A r \in 1..D : \A i \in 1..q : s[off[r - 1] + i] = (r - 1) * q + i
    <3> TAKE r \in 1..D
    <3>1. Len(ss[r]) = q /\ \A i \in 1..q : ss[r][i] = (r - 1) * q + i
      BY <1>1
    <3>2. \A i \in 1..Len(ss[r]) : s[off[r - 1] + i] = ss[r][i]
      BY <2>1
    <3> TAKE i \in 1..q
    <3>3. s[off[r - 1] + i] = ss[r][i]
      BY <3>1, <3>2
    <3> QED
      BY <3>1, <3>3
  <2> QED
    BY <2>1, <2>2, <2>3
<1> DEFINE Q == {r \in Nat : r \in 0..D => off[r] = r * q}
<1>7. 0 \in Q
  BY <1>6
<1>8. ASSUME NEW r \in 0..(D - 1), r \in Q PROVE r + 1 \in Q
  <2>1. r \in 0..D /\ r + 1 \in 1..D /\ (r + 1) - 1 = r
    OBVIOUS
  <2>2. off[r] = r * q /\ off[r + 1] = off[r] + q
    BY <1>6, <1>8, <2>1
  <2>3. (r + 1) * q = r * q + q
    OBVIOUS
  <2> QED
    BY <2>2, <2>3
<1> HIDE DEF Q
<1>9. 0..D \subseteq Q
  BY <1>7, <1>8, UpTo
<1>10. \A r \in 0..D : off[r] = r * q
  BY <1>9 DEF Q
<1>11. Len(s) = q * D
  BY <1>6, <1>10, D \in 0..D
<1>12. \A k \in 1..Len(s) : s[k] = k
  <2> TAKE k \in 1..Len(s)
  <2>1. \E r, i : IsAt(ss, off, k, r, i)
    BY <1>3, <1>5, LayoutCovers
  <2>2. PICK r, i : IsAt(ss, off, k, r, i)
    BY <2>1
  <2>3. r \in 1..D /\ i \in 1..q /\ k = off[r - 1] + i
    BY <1>1, <1>3, <2>2 DEF IsAt
  <2>4. s[k] = (r - 1) * q + i
    BY <1>6, <2>3
  <2>5. r - 1 \in 0..D
    BY <2>3
  <2>6. off[r - 1] = (r - 1) * q
    BY <1>10, <2>5
  <2> QED
    BY <2>3, <2>4, <2>6
<1>13. s = [k \in 1..Len(s) |-> k]
  BY <1>4, <1>12
<1> QED
  BY <1>11, <1>13 DEF s

LEMMA WorkloadIsNat == \A n \in Nat : CalculateWorkload(n) \in Nat
PROOF
  BY DEF CalculateWorkload

\* Whatever the micro-batches are, the outputs are those of the rows.
LEMMA LogProbsAre ==
    ASSUME NEW n \in Nat, NEW rows, DOMAIN rows = 1..n, rows = [i \in 1..n |-> rows[i]],
           \A i \in 1..n : Length(rows[i]) \in Nat, NEW m \in Nat,
           NEW x \in LogProbs(rows, m)
    PROVE  x = rows
PROOF
<1> DEFINE load == LoadOf(rows)
           Restored(micro) == LET indices == FlattenSeq(micro)
                              IN  RestoreDynamicBatch([i \in DOMAIN indices |-> rows[indices[i]]],
                                                      indices)
<1>1. PICK micro \in RearrangeMicroBatches(rows, m) : x = Restored(micro)
  BY DEF LogProbs
<1>2. PICK parts \in Partitions(load, m, FALSE) : micro = MicroOf(load, parts, m)
  BY MicroBatchesAre
<1>3. load = [i \in 1..n |-> CalculateWorkload(Length(rows[i]))]
  BY DEF LoadOf
<1>4. load \in [1..n -> Nat]
  BY <1>3, WorkloadIsNat
<1> HIDE DEF load
<1>5. DOMAIN load = 1..n /\ Len(load) = n /\ \A i \in 1..n : load[i] \in Nat
  BY <1>4
<1>6. IsPartition(parts, n, m)
  BY <1>5, PartitionsParted
<1> DEFINE indices == FlattenSeq(micro)
<1>7. Enumerates(indices, 1..n)
  BY <1>2, <1>5, <1>6, MicroEnumerates
<1>8. x = RestoreDynamicBatch([i \in DOMAIN indices |-> rows[indices[i]]], indices)
  BY <1>1
<1> HIDE DEF indices
<1>9. Len(indices) = n /\ indices \in [1..n -> 1..n]
  BY <1>7, IntervalLength
<1> DEFINE data == [i \in DOMAIN indices |-> rows[indices[i]]]
           reverse == ReverseIdx(indices)
<1>10. DOMAIN indices = 1..n /\ data = [i \in 1..n |-> rows[indices[i]]] /\ DOMAIN data = 1..n
  BY <1>9
<1>11. \A j \in 1..n : reverse[j] \in 1..n /\ indices[reverse[j]] = j
  <2> TAKE j \in 1..n
  <2>1. \E i \in 1..n : indices[i] = j
    BY <1>7, <1>9 DEF Enumerates
  <2>2. reverse[j] = CHOOSE i \in 1..n : indices[i] = j
    BY <1>10 DEF ReverseIdx
  <2> HIDE DEF reverse
  <2> QED
    BY <2>1, <2>2
<1>12. x = [j \in 1..n |-> data[reverse[j]]]
  BY <1>8, <1>10 DEF RestoreDynamicBatch
<1> HIDE DEF reverse
<1>13. \A j \in 1..n : data[reverse[j]] = rows[j]
  BY <1>10, <1>11
<1> HIDE DEF data
<1> QED
  BY <1>12, <1>13

-----------------------------------------------------------------------------
(* The number of micro-batches *)

LEMMA SmallestOf ==
    ASSUME NEW a \in Nat, NEW b \in Nat
    PROVE  Min({a, b}) \in Nat /\ Min({a, b}) <= a /\ Min({a, b}) <= b /\ Min({a, b}) \in {a, b}
PROOF
<1>1. {a, b} \in SUBSET Nat /\ {a, b} # {}
  OBVIOUS
<1>2. Min({a, b}) \in {a, b} /\ \A x \in {a, b} : Min({a, b}) <= x
  BY <1>1, LeastIs
<1> QED
  BY <1>2

LEMMA LargestOf ==
    ASSUME NEW n \in Nat, NEW S \in SUBSET (0..n), S # {}
    PROVE  Max(S) \in Nat
PROOF
<1> DEFINE T == {d \in Nat : \E x \in S : d = n - x}
<1>1. T # {}
  <2>1. PICK x \in S : TRUE
    OBVIOUS
  <2>2. n - x \in T
    BY <2>1
  <2> QED
    BY <2>2
<1>2. PICK d \in T : \A e \in T : d <= e
  BY <1>1, LeastOf
<1>3. PICK x \in S : d = n - x
  OBVIOUS
<1>4. \A y \in S : x >= y
  <2> TAKE y \in S
  <2>1. n - y \in T
    OBVIOUS
  <2>2. d <= n - y
    BY <1>2, <2>1
  <2> QED
    BY <1>3, <2>2
<1>5. Max(S) = CHOOSE z \in S : \A y \in S : z >= y
  BY DEF Max
<1>6. Max(S) \in S
  BY <1>4, <1>5
<1>7. S \subseteq Nat
  OBVIOUS
<1> QED
  BY <1>6, <1>7

LEMMA NumMicroBatchesIsNat ==
    ASSUME Numbers, NEW q \in Nat, NEW rows,
           \A r \in Ranks : Len(rows[r]) = q /\ DOMAIN rows[r] = 1..q,
           \A r \in Ranks : \A i \in 1..q : Length(rows[r][i]) \in Nat
    PROVE  NumMicroBatches(rows) \in Nat
PROOF
<1> DEFINE Lens(r) == [i \in DOMAIN rows[r] |-> Length(rows[r][i])]
           Tokens(r) == SumOver(DOMAIN rows[r], Lens(r))
           Num(r) == Min({Len(rows[r]), CeilDiv(Tokens(r), MaxTokenLen)})
           nums == {Num(r) : r \in Ranks}
<1>1. DpSize \in Nat \ {0} /\ MaxTokenLen \in Nat \ {0} /\ 1 \in Ranks
  BY DEF Numbers, Ranks
<1>2. ASSUME NEW r \in Ranks PROVE Num(r) \in 0..q
  <2>1. Lens(r) = [i \in 1..q |-> Length(rows[r][i])]
    OBVIOUS
  <2>2. Lens(r) \in [1..q -> Nat]
    BY <2>1
  <2> HIDE DEF Lens
  <2>3. Len(Lens(r)) = q /\ \A i \in 1..q : Lens(r)[i] \in Nat
    BY <2>2
  <2>4. Tokens(r) \in Nat
    BY <2>3, SumIsNat
  <2> HIDE DEF Tokens
  <2>5. Tokens(r) + MaxTokenLen - 1 \in Nat
    BY <1>1, <2>4
  <2>6. CeilDiv(Tokens(r), MaxTokenLen) \in Nat
    BY <1>1, <2>5, Quotient DEF CeilDiv
  <2>7. Len(rows[r]) \in Nat /\ Len(rows[r]) = q
    OBVIOUS
  <2>8. Num(r) \in Nat /\ Num(r) <= q
    BY <2>6, <2>7, SmallestOf
  <2> QED
    BY <2>8
<1>3. NumMicroBatches(rows) = Max(nums)
  BY Zenon DEF NumMicroBatches
<1> HIDE DEF Num
<1>4. nums \in SUBSET (0..q) /\ nums # {}
  BY <1>1, <1>2
<1> HIDE DEF nums
<1>5. Max(nums) \in Nat
  BY <1>4, LargestOf
<1> QED
  BY <1>3, <1>5

\* The log probabilities of all ranks, one after the other, are those of the
\* rows of the batch.
LEMMA LogProbsOfAll ==
    ASSUME Numbers, NEW q, Dealt(batch, q), batch \in Seq(PairSet), NEW computed,
           computed \in PerRank([r \in Ranks |-> LogProbs([s \in Ranks |-> Local(s)][r],
                                              NumMicroBatches([s \in Ranks |-> Local(s)]))])
    PROVE  FlattenSeq(computed) = [i \in DOMAIN batch |-> i]
PROOF
<1> DEFINE rows == [r \in Ranks |-> Local(r)]
           m == NumMicroBatches(rows)
<1>1. /\ q \in Nat \ {0} /\ DpSize \in Nat \ {0} /\ Len(batch) = q * DpSize
      /\ Ranks = 1..DpSize
  BY DEF Dealt, Numbers, Ranks
<1>2. \A r \in Ranks : rows[r] = LocalRows(r, q)
  BY LocalIs
<1>3. rows = [r \in Ranks |-> rows[r]]
  OBVIOUS
<1>4. computed \in PerRank([r \in Ranks |-> LogProbs(rows[r], m)])
  OBVIOUS
<1> HIDE DEF rows
<1>5. ASSUME NEW r \in Ranks
      PROVE  /\ Len(rows[r]) = q /\ DOMAIN rows[r] = 1..q /\ rows[r] = [i \in 1..q |-> rows[r][i]]
             /\ \A i \in 1..q : Length(rows[r][i]) \in Nat
  <2>1. rows[r] = [i \in 1..q |-> (r - 1) * q + i]
    BY <1>2 DEF LocalRows
  <2>2. \A i \in 1..q : (r - 1) * q + i \in 1..Len(batch)
    <3> TAKE i \in 1..q
    <3>1. r \in 1..DpSize
      BY <1>1
    <3> QED
      BY <1>1, <3>1, BlockPlace
  <2>3. \A i \in 1..q : Length(rows[r][i]) \in Nat
    <3> TAKE i \in 1..q
    <3>1. PICK k \in 1..Len(batch) : k = (r - 1) * q + i
      BY <2>2
    <3>2. batch[k] \in PairSet
      OBVIOUS
    <3>3. Length(k) \in Nat
      BY <3>2 DEF Length, PairSet, RowSet
    <3> QED
      BY <2>1, <3>1, <3>3
  <2> QED
    BY <1>1, <2>1, <2>3
<1>6. m \in Nat
  BY <1>1, <1>5, NumMicroBatchesIsNat
<1> HIDE DEF m
<1>7. ASSUME NEW r \in Ranks PROVE computed[r] = rows[r]
  <2>1. computed[r] \in LogProbs(rows[r], m)
    BY <1>4 DEF PerRank
  <2>2. PICK n, x : n = q /\ x = rows[r]
    OBVIOUS
  <2>4. n \in Nat
    BY <1>1, <2>2
  <2>3. /\ DOMAIN x = 1..n /\ x = [i \in 1..n |-> x[i]]
        /\ \A i \in 1..n : Length(x[i]) \in Nat
        /\ computed[r] \in LogProbs(x, m)
    BY <1>5, <2>1, <2>2
  <2> QED
    BY <1>6, <2>2, <2>3, <2>4, LogProbsAre
<1>8. computed = [r \in 1..DpSize |-> LocalRows(r, q)]
  <2>1. computed = [r \in Ranks |-> computed[r]]
    BY <1>4 DEF PerRank
  <2> QED
    BY <1>1, <1>2, <1>7, <2>1
<1>9. FlattenSeq(computed) = [k \in 1..(q * DpSize) |-> k]
  BY <1>1, <1>8, FlattenLocals
<1>10. DOMAIN batch = 1..(q * DpSize)
  BY <1>1
<1> QED
  BY <1>9, <1>10

-----------------------------------------------------------------------------
(* Groups *)

\* What GroupOfRollouts says of a row with the group adv.
GroupedAs(row, adv) ==
    LET mine == {r \in Rows(out) : r.uid = row.uid /\ r.agent_role = row.agent_role}
        group == {batch[c].row : c \in adv}
    IN  row.dummy \/
        /\ group \subseteq mine /\ Cardinality(group) = Cardinality(adv)
        /\ \A r \in mine : Cardinality({c \in group : c.gen_uid = r.gen_uid}) = 1

LEMMA GroupsCounted ==
    ASSUME GoodRows(out), BatchOf(batch, out), NEW i \in DOMAIN batch
    PROVE  GroupedAs(batch[i].row, Counted(GroupKey(i)))
PROOF
<1> DEFINE n == Len(batch)
           row == batch[i].row
           Same == {j \in 1..n : batch[j].row.uid = row.uid /\ batch[j].row.agent_role = row.agent_role}
           adv == Counted(GroupKey(i))
           mine == {r \in Rows(out) : r.uid = row.uid /\ r.agent_role = row.agent_role}
           group == {batch[c].row : c \in adv}
<1>1. /\ batch \in Seq(PairSet) /\ n \in Nat /\ DOMAIN batch = 1..n
      /\ \A j \in 1..n :
          IF batch[j].row.dummy THEN batch[j].row.uid = 0
          ELSE \E k \in 1..Len(out) : out[k] = batch[j].row
      /\ \A j, k \in 1..n : ~batch[j].row.dummy /\ batch[j].row = batch[k].row => j = k
      /\ \A k \in 1..Len(out) : \E j \in 1..n : batch[j].row = out[k]
  BY DEF BatchOf
<1>2. /\ out \in Seq(RowSet) /\ DOMAIN out = 1..Len(out)
      /\ \A k \in 1..Len(out) : out[k].uid \in 1..Prompts /\ ~out[k].dummy
  BY DEF GoodRows
<1>3. \A j \in DOMAIN batch :
        GroupKey(j) = GroupKey(i) <=> batch[j].row.uid = row.uid
                                       /\ batch[j].row.agent_role = row.agent_role
  BY DEF GroupKey
<1>4. adv = {j \in Same : \A k \in Same : batch[k].row.gen_uid = batch[j].row.gen_uid => j <= k}
  <2>1. Same = {j \in DOMAIN batch : GroupKey(j) = GroupKey(i)}
    BY <1>1, <1>3
  <2> HIDE DEF Same
  <2> QED
    BY <2>1 DEF Counted
<1> HIDE DEF n, adv
<1>5. SUFFICES ASSUME ~row.dummy
               PROVE  /\ group \subseteq mine /\ Cardinality(group) = Cardinality(adv)
                      /\ \A r \in mine : Cardinality({c \in group : c.gen_uid = r.gen_uid}) = 1
  BY DEF GroupedAs, adv
<1>6. row.uid # 0
  <2>1. PICK k \in 1..Len(out) : out[k] = row
    BY <1>1, <1>5
  <2>2. out[k].uid \in 1..Prompts
    BY <1>2
  <2> QED
    BY <2>1, <2>2
<1>7. ASSUME NEW j \in Same
      PROVE  j \in 1..n /\ ~batch[j].row.dummy /\ batch[j].row \in mine
  <2>1. j \in 1..n /\ batch[j].row.uid = row.uid /\ batch[j].row.agent_role = row.agent_role
    OBVIOUS
  <2>2. ~batch[j].row.dummy
    BY <1>1, <1>6, <2>1
  <2>3. PICK k \in 1..Len(out) : out[k] = batch[j].row
    BY <1>1, <2>1, <2>2
  <2>4. batch[j].row \in Rows(out)
    BY <1>2, <2>3 DEF Rows
  <2> QED
    BY <2>1, <2>2, <2>4
<1>8. ASSUME NEW r \in mine PROVE \E j \in Same : batch[j].row = r
  <2>1. PICK k \in 1..Len(out) : out[k] = r
    BY <1>2 DEF Rows
  <2>2. PICK j \in 1..n : batch[j].row = r
    BY <1>1, <2>1
  <2> QED
    BY <2>2
<1> HIDE DEF Same, mine, row
<1>9. adv \subseteq Same
  BY <1>4
<1>10. group \subseteq mine
  BY <1>7, <1>9
<1>11. Cardinality(group) = Cardinality(adv)
  <2> DEFINE f == [c \in adv |-> batch[c].row]
  <2>1. f \in [adv -> group] /\ \A x \in group : \E c \in adv : f[c] = x
    OBVIOUS
  <2>2. \A c, d \in adv : f[c] = f[d] => c = d
    BY <1>1, <1>7, <1>9
  <2> HIDE DEF f
  <2>3. IsFiniteSet(adv)
    <3>1. IsFiniteSet(1..n)
      BY <1>1, FS_Interval
    <3>2. adv \in SUBSET (1..n)
      BY <1>7, <1>9
    <3> QED
      BY <3>1, <3>2, FS_Subset
  <2>4. IsFiniteSet(group)
    <3>1. f \in Surjection(adv, group)
      BY <2>1 DEF Surjection
    <3> QED
      BY <2>3, <3>1, FS_Surjection
  <2> HIDE DEF group
  <2> QED
    BY <2>1, <2>2, <2>4, AsMany
<1>12. ASSUME NEW r \in mine PROVE Cardinality({c \in group : c.gen_uid = r.gen_uid}) = 1
  <2> DEFINE T == {j \in Same : batch[j].row.gen_uid = r.gen_uid}
  <2>1. T \in SUBSET Nat /\ T # {}
    BY <1>1, <1>7, <1>8
  <2>2. PICK j \in T : \A k \in T : j <= k
    BY <2>1, LeastOf
  <2>3. j \in adv
    BY <1>4, <2>2
  <2>4. ASSUME NEW k \in adv, batch[k].row.gen_uid = r.gen_uid PROVE k = j
    <3>1. k \in T /\ k \in Nat /\ j \in Nat /\ j \in Same
      BY <1>9, <2>1, <2>4
    <3>2. j <= k
      BY <2>2, <3>1
    <3>3. batch[j].row.gen_uid = batch[k].row.gen_uid
      BY <2>4
    <3>4. k <= j
      BY <1>4, <2>4, <3>1, <3>3
    <3> QED
      BY <3>1, <3>2, <3>4
  <2>5. {c \in group : c.gen_uid = r.gen_uid} = {batch[j].row}
    BY <2>2, <2>3, <2>4
  <2> HIDE DEF T, group
  <2> QED
    BY <2>5, FS_Singleton
<1> QED
  BY <1>10, <1>11, <1>12

-----------------------------------------------------------------------------
(* Mini-batches *)

MiniNum(q) == CeilDiv(q, MiniBatch)
MiniEnd(b, q) == IF b * MiniBatch <= q THEN b * MiniBatch ELSE q
MiniSize(b, q) == MiniEnd(b, q) - (b - 1) * MiniBatch

LEMMA MiniNumIs ==
    ASSUME Numbers, NEW q \in Nat \ {0}
    PROVE  /\ MiniNum(q) \in Nat \ {0}
           /\ q <= MiniNum(q) * MiniBatch /\ (MiniNum(q) - 1) * MiniBatch < q
PROOF
<1>1. MiniBatch \in Nat \ {0} /\ q + MiniBatch - 1 \in Nat
  BY DEF Numbers
<1>2. PICK a \in Nat, b \in Nat \ {0} : a = q + MiniBatch - 1 /\ b = MiniBatch
  BY <1>1
<1>3. a \div b \in Nat /\ (a \div b) * b <= a /\ a < (a \div b) * b + b
  BY Quotient
<1>4. PICK k \in Nat : k = a \div b
  BY <1>3
<1>5. k * b <= q + b - 1 /\ q + b - 1 < k * b + b /\ k * b \in Nat
  BY <1>2, <1>3, <1>4
<1>6. q <= k * b
  BY <1>2, <1>5
<1>7. k # 0
  BY <1>6
<1>8. (k - 1) * b = k * b - b
  BY <1>2
<1>9. (k - 1) * b < q
  BY <1>2, <1>5, <1>8
<1>10. MiniNum(q) = k
  BY <1>2, <1>4 DEF MiniNum, CeilDiv
<1> QED
  BY <1>2, <1>6, <1>7, <1>9, <1>10

LEMMA MiniSizes ==
    ASSUME Numbers, NEW q \in Nat \ {0}, NEW b \in 1..MiniNum(q)
    PROVE  /\ (b - 1) * MiniBatch \in Nat /\ MiniEnd(b, q) \in 1..q
           /\ MiniSize(b, q) \in 1..MiniBatch
           /\ Min({b * MiniBatch, q}) = MiniEnd(b, q)
PROOF
<1>1. MiniBatch \in Nat \ {0} /\ MiniNum(q) \in Nat /\ (MiniNum(q) - 1) * MiniBatch < q
  BY MiniNumIs DEF Numbers
<1>2. PICK k \in Nat, m \in Nat \ {0} : k = MiniNum(q) /\ m = MiniBatch
  BY <1>1
<1>3. b - 1 \in Nat /\ k - b \in Nat /\ b \in Nat
  BY <1>2
<1>4. (b - 1) * m \in Nat /\ b * m \in Nat /\ (k - b) * m \in Nat
  BY <1>3
<1>5. (k - 1) * m = (b - 1) * m + (k - b) * m /\ b * m = (b - 1) * m + m
  BY <1>3
<1>6. (b - 1) * m < q
  BY <1>1, <1>2, <1>4, <1>5
<1>7. MiniEnd(b, q) = IF b * m <= q THEN b * m ELSE q
  BY <1>2 DEF MiniEnd
<1>8. MiniEnd(b, q) \in 1..q /\ MiniEnd(b, q) - (b - 1) * m \in 1..m
  BY <1>4, <1>5, <1>6, <1>7
<1>9. Min({b * m, q}) \in {b * m, q} /\ Min({b * m, q}) <= b * m /\ Min({b * m, q}) <= q
  BY <1>4, SmallestOf
<1>10. Min({b * m, q}) = MiniEnd(b, q)
  BY <1>4, <1>7, <1>9
<1> QED
  BY <1>2, <1>4, <1>8, <1>10 DEF MiniSize

LEMMA MiniBatchIs ==
    ASSUME Numbers, NEW q \in Nat \ {0}, NEW r \in 1..DpSize, NEW b \in 1..MiniNum(q),
           NEW mini, mini = MiniBatches(LocalRows(r, q))[b]
    PROVE  /\ Len(mini) = MiniSize(b, q) /\ DOMAIN mini = 1..MiniSize(b, q)
           /\ \A p \in 1..MiniSize(b, q) : mini[p] = (r - 1) * q + ((b - 1) * MiniBatch + p)
PROOF
<1> DEFINE rows == LocalRows(r, q)
<1>1. /\ (b - 1) * MiniBatch \in Nat /\ MiniEnd(b, q) \in 1..q
      /\ MiniSize(b, q) \in 1..MiniBatch
      /\ Min({b * MiniBatch, q}) = MiniEnd(b, q)
  BY MiniSizes
<1>2. r \in Nat /\ DpSize \in Nat
  BY DEF Numbers
<1>3. \A i \in 1..q : (r - 1) * q + i \in Nat
  BY <1>2
<1>4. rows = [i \in 1..q |-> (r - 1) * q + i]
  BY DEF LocalRows
<1>5. rows \in [1..q -> Nat]
  BY <1>3, <1>4
<1> HIDE DEF rows
<1>6. rows \in Seq(Nat) /\ Len(rows) = q
  BY <1>5
<1>7. PICK lo \in Nat, hi \in 1..q : lo = (b - 1) * MiniBatch /\ hi = MiniEnd(b, q)
  BY <1>1
<1>8. mini = SubSeq(rows, lo + 1, hi)
  BY <1>1, <1>6, <1>7 DEF MiniBatches, MiniNum, rows
<1>9. MiniSize(b, q) = hi - lo /\ hi - lo \in Nat \ {0} /\ MiniBatch \in Nat
  BY <1>1, <1>7 DEF MiniSize, Numbers
<1>10. \A i \in (lo + 1)..hi : rows[i] \in Nat
  BY <1>5
<1>11. /\ mini \in Seq(Nat)
       /\ Len(mini) = IF lo + 1 <= hi THEN hi - (lo + 1) + 1 ELSE 0
       /\ \A i \in 1..(hi - (lo + 1) + 1) : mini[i] = rows[(lo + 1) + i - 1]
  BY <1>8, <1>10, SubSeqProperties
<1>12. /\ lo + 1 <= hi /\ hi - (lo + 1) + 1 = hi - lo
       /\ \A i \in 1..(hi - lo) : (lo + 1) + i - 1 = lo + i /\ lo + i \in 1..q
  BY <1>9
<1>13. Len(mini) = hi - lo
  BY <1>11, <1>12
<1>14. \A i \in 1..(hi - lo) : mini[i] = rows[lo + i] /\ lo + i \in 1..q
  BY <1>11, <1>12
<1>15. \A i \in 1..(hi - lo) : mini[i] = (r - 1) * q + (lo + i)
  BY <1>4, <1>14
<1> QED
  BY <1>7, <1>9, <1>11, <1>13, <1>15

-----------------------------------------------------------------------------
(* Updates *)

\* The n elements of s in the order f.
InOrder(t, s, n, f) == Rearranges(f, n) /\ t = [i \in 1..n |-> s[f[i]]]
Reordered(t, s, n) == \E f : InOrder(t, s, n, f)

\* The rows of rank r in an update: those of its u-th mini-batch, in some order.
TakenBy(rows, r, u, q) == Reordered(rows, MiniBatches(LocalRows(r, q))[u], MiniSize(u, q))

\* The mini-batches done: the first n of every rank.
UpdatesAre(us, n, q) ==
    /\ us = [u \in 1..n |-> us[u]]
    /\ \A u \in 1..n : \A r \in Ranks : TakenBy(us[u][r], r, u, q)

Places ==
    {p \in (DOMAIN updates) \X Ranks \X (1..MiniBatch) : p[3] \in DOMAIN updates[p[1]][p[2]]}
IndexOf(p) == updates[p[1]][p[2]][p[3]]
OrderOf(u, r, q) ==
    CHOOSE f : InOrder(updates[u][r], MiniBatches(LocalRows(r, q))[u], MiniSize(u, q), f)

LEMMA PlacesAre ==
    ASSUME Numbers, NEW q \in Nat \ {0}, UpdatesAre(updates, MiniNum(q), q)
    PROVE  /\ \A p \in Places : IndexOf(p) \in 1..(q * DpSize)
           /\ \A o, p \in Places : IndexOf(o) = IndexOf(p) => o = p
           /\ \A k \in 1..(q * DpSize) : \E p \in Places : IndexOf(p) = k
           /\ \A u \in DOMAIN updates : \A r \in Ranks :
                Len(updates[u][r]) = MiniSize(u, q)
PROOF
<1> DEFINE K == MiniNum(q)
<1>1. /\ MiniBatch \in Nat \ {0} /\ DpSize \in Nat \ {0} /\ Ranks = 1..DpSize
      /\ K \in Nat \ {0} /\ q <= K * MiniBatch
  BY MiniNumIs DEF Numbers, Ranks
<1>2. /\ DOMAIN updates = 1..K
      /\ \A u \in 1..K : \A r \in Ranks : TakenBy(updates[u][r], r, u, q)
  BY DEF UpdatesAre
<1>3. ASSUME NEW u \in 1..K, NEW r \in Ranks
      PROVE  /\ Rearranges(OrderOf(u, r, q), MiniSize(u, q))
             /\ Len(updates[u][r]) = MiniSize(u, q)
             /\ DOMAIN updates[u][r] = 1..MiniSize(u, q)
             /\ \A i \in 1..MiniSize(u, q) :
                    updates[u][r][i] = (r - 1) * q + ((u - 1) * MiniBatch + OrderOf(u, r, q)[i])
  <2>1. PICK mini, f : mini = MiniBatches(LocalRows(r, q))[u] /\ f = OrderOf(u, r, q)
    OBVIOUS
  <2>2. Rearranges(f, MiniSize(u, q)) /\ updates[u][r] = [i \in 1..MiniSize(u, q) |-> mini[f[i]]]
    <3>1. InOrder(updates[u][r], mini, MiniSize(u, q), f)
      BY <1>2, <2>1 DEF TakenBy, Reordered, OrderOf
    <3> QED
      BY <3>1 DEF InOrder
  <2>3. r \in 1..DpSize /\ u \in 1..MiniNum(q)
    BY <1>1
  <2>4. \A p \in 1..MiniSize(u, q) : mini[p] = (r - 1) * q + ((u - 1) * MiniBatch + p)
    BY <2>1, <2>3, MiniBatchIs
  <2>5. \A i \in 1..MiniSize(u, q) : f[i] \in 1..MiniSize(u, q)
    BY <2>2 DEF Rearranges
  <2>6. PICK n \in Nat : n = MiniSize(u, q)
    <3>1. MiniSize(u, q) \in 1..MiniBatch
      BY MiniSizes
    <3> QED
      BY <1>1, <3>1
  <2>7. Len(updates[u][r]) = n /\ DOMAIN updates[u][r] = 1..n
    BY <2>2, <2>6
  <2>8. \A i \in 1..MiniSize(u, q) :
            updates[u][r][i] = (r - 1) * q + ((u - 1) * MiniBatch + f[i])
    BY <2>2, <2>4, <2>5
  <2> QED
    BY <2>1, <2>2, <2>6, <2>7, <2>8
<1> DEFINE Taken(p) == OrderOf(p[1], p[2], q)[p[3]]
<1>4. ASSUME NEW u \in 1..K
      PROVE  /\ (u - 1) * MiniBatch \in Nat /\ MiniEnd(u, q) \in 1..q
             /\ MiniSize(u, q) \in 1..MiniBatch
             /\ MiniSize(u, q) = MiniEnd(u, q) - (u - 1) * MiniBatch
             /\ MiniEnd(u, q) = IF u * MiniBatch <= q THEN u * MiniBatch ELSE q
    BY MiniSizes DEF MiniSize, MiniEnd
<1>5. ASSUME NEW u \in 1..K, NEW p \in 1..MiniSize(u, q)
      PROVE  p \in 1..MiniBatch /\ (u - 1) * MiniBatch + p \in 1..q
  BY <1>1, <1>4
<1>6. ASSUME NEW p \in Places
      PROVE  /\ p[1] \in 1..K /\ p[2] \in 1..DpSize /\ p[3] \in 1..MiniSize(p[1], q)
             /\ p = <<p[1], p[2], p[3]>> /\ Taken(p) \in 1..MiniSize(p[1], q)
             /\ IndexOf(p) = (p[2] - 1) * q + ((p[1] - 1) * MiniBatch + Taken(p))
  <2>1. p[1] \in 1..K /\ p[2] \in Ranks /\ p = <<p[1], p[2], p[3]>>
    BY <1>2 DEF Places
  <2>2. p[3] \in DOMAIN updates[p[1]][p[2]]
    BY DEF Places
  <2>3. p[3] \in 1..MiniSize(p[1], q)
    BY <1>3, <2>1, <2>2
  <2>4. updates[p[1]][p[2]][p[3]] = (p[2] - 1) * q + ((p[1] - 1) * MiniBatch + Taken(p))
    BY <1>3, <2>1, <2>3
  <2>5. Taken(p) \in 1..MiniSize(p[1], q)
    <3>1. Rearranges(OrderOf(p[1], p[2], q), MiniSize(p[1], q))
      BY <1>3, <2>1
    <3>2. OrderOf(p[1], p[2], q) \in [1..MiniSize(p[1], q) -> 1..MiniSize(p[1], q)]
      BY <3>1 DEF Rearranges
    <3> QED
      BY <2>3, <3>2
  <2> QED
    BY <1>1, <2>1, <2>3, <2>4, <2>5 DEF IndexOf
<1>7. ASSUME NEW o \in Places, NEW p \in Places,
             o[1] = p[1], o[2] = p[2], Taken(o) = Taken(p)
      PROVE  o = p
  <2>1. /\ o[1] \in 1..K /\ o[2] \in Ranks
        /\ o[3] \in 1..MiniSize(o[1], q) /\ p[3] \in 1..MiniSize(o[1], q)
        /\ o = <<o[1], o[2], o[3]>> /\ p = <<p[1], p[2], p[3]>>
    BY <1>1, <1>6, <1>7
  <2>2. Rearranges(OrderOf(o[1], o[2], q), MiniSize(o[1], q))
    BY <1>3, <2>1
  <2>3. OrderOf(o[1], o[2], q)[o[3]] = OrderOf(o[1], o[2], q)[p[3]]
    BY <1>7
  <2>4. o[3] = p[3]
    BY <2>1, <2>2, <2>3 DEF Rearranges
  <2> QED
    BY <1>7, <2>1, <2>4
<1> HIDE DEF Taken
<1>8. \A p \in Places : IndexOf(p) \in 1..(q * DpSize)
  <2> TAKE p \in Places
  <2>1. PICK i \in 1..q : i = (p[1] - 1) * MiniBatch + Taken(p)
    BY <1>5, <1>6
  <2>2. p[2] \in 1..DpSize /\ IndexOf(p) = (p[2] - 1) * q + i
    BY <1>6, <2>1
  <2> QED
    BY <1>1, <2>2, BlockPlace
<1>9. \A o, p \in Places : IndexOf(o) = IndexOf(p) => o = p
  <2> TAKE o, p \in Places
  <2> HAVE IndexOf(o) = IndexOf(p)
  <2>1. PICK i \in 1..q : i = (o[1] - 1) * MiniBatch + Taken(o)
    BY <1>5, <1>6
  <2>2. PICK j \in 1..q : j = (p[1] - 1) * MiniBatch + Taken(p)
    BY <1>5, <1>6
  <2>3. PICK r \in Nat, s \in Nat : r = o[2] /\ s = p[2]
    <3>1. o[2] \in 1..DpSize /\ p[2] \in 1..DpSize
      BY <1>6
    <3>2. o[2] \in Nat /\ p[2] \in Nat
      BY <3>1
    <3> QED
      BY <3>2
  <2>4. (r - 1) * q + i = (s - 1) * q + j
    BY <1>6, <2>1, <2>2, <2>3
  <2>5. r = s /\ i = j
    BY <2>4, BlockUnique
  <2>6. PICK m \in Nat \ {0}, u \in Nat, v \in Nat, x \in 1..MiniBatch, y \in 1..MiniBatch :
            m = MiniBatch /\ u = o[1] /\ v = p[1] /\ x = Taken(o) /\ y = Taken(p)
    <3>1. o[1] \in 1..K /\ p[1] \in 1..K
      BY <1>6
    <3>2. o[1] \in Nat /\ p[1] \in Nat /\ MiniBatch \in Nat \ {0}
      BY <1>1, <3>1
    <3>3. Taken(o) \in 1..MiniSize(o[1], q) /\ Taken(p) \in 1..MiniSize(p[1], q)
      BY <1>6
    <3>4. Taken(o) \in 1..MiniBatch /\ Taken(p) \in 1..MiniBatch
      BY <1>5, <3>1, <3>3
    <3> QED
      BY <3>2, <3>4
  <2>7. (u - 1) * m + x = (v - 1) * m + y /\ x \in 1..m /\ y \in 1..m
    BY <2>1, <2>2, <2>5, <2>6
  <2>8. u = v /\ x = y
    BY <2>7, BlockUnique
  <2>9. o[1] = p[1] /\ o[2] = p[2] /\ Taken(o) = Taken(p)
    BY <2>3, <2>5, <2>6, <2>8
  <2> QED
    BY <1>7, <2>9
<1>10. \A k \in 1..(q * DpSize) : \E p \in Places : IndexOf(p) = k
  <2> TAKE k \in 1..(q * DpSize)
  <2>1. \E r \in 1..DpSize, i \in 1..q : InBlock(q, k, r, i)
    BY <1>1, BlockOf
  <2>2. PICK r \in 1..DpSize, i \in 1..q : InBlock(q, k, r, i)
    BY <2>1
  <2>3. PICK m \in Nat \ {0}, D \in Nat : m = MiniBatch /\ D = K
    BY <1>1
  <2>4. i \in 1..(m * D)
    BY <1>1, <2>3
  <2>5. \E u \in 1..D, p \in 1..m : InBlock(m, i, u, p)
    BY <2>4, BlockOf
  <2>6. PICK u \in 1..D, p \in 1..m : InBlock(m, i, u, p)
    BY <2>5
  <2>7. k = (r - 1) * q + i /\ i = (u - 1) * m + p
    BY <2>2, <2>6 DEF InBlock
  <2>8. u \in 1..K /\ p \in 1..MiniBatch /\ i = (u - 1) * MiniBatch + p
    BY <2>3, <2>7
  <2>9. u * MiniBatch = (u - 1) * MiniBatch + MiniBatch
    BY <1>1, <2>8
  <2>10. p \in 1..MiniSize(u, q)
    <3>1. (u - 1) * MiniBatch \in Nat
      BY <1>4, <2>8
    <3>2. MiniEnd(u, q) >= (u - 1) * MiniBatch + p
      BY <1>1, <1>4, <2>8, <2>9, <3>1
    <3> QED
      BY <1>1, <1>4, <2>8, <3>1, <3>2
  <2>11. PICK i3 \in 1..MiniSize(u, q) : OrderOf(u, r, q)[i3] = p
    <3>1. Rearranges(OrderOf(u, r, q), MiniSize(u, q))
      BY <1>1, <1>3, <2>8
    <3> QED
      BY <2>10, <3>1 DEF Rearranges
  <2> DEFINE t == <<u, r, i3>>
  <2>12. i3 \in 1..MiniBatch /\ i3 \in DOMAIN updates[u][r]
    BY <1>1, <1>3, <1>5, <2>8
  <2>13. t[1] = u /\ t[2] = r /\ t[3] = i3 /\ t \in (DOMAIN updates) \X Ranks \X (1..MiniBatch)
    BY <1>1, <1>2, <2>8, <2>12
  <2> HIDE DEF t
  <2>14. t \in Places
    BY <2>12, <2>13 DEF Places
  <2>15. Taken(t) = p
    BY <2>11, <2>13 DEF Taken
  <2>16. IndexOf(t) = (r - 1) * q + ((u - 1) * MiniBatch + p)
    BY <1>6, <2>13, <2>14, <2>15
  <2> QED
    BY <2>7, <2>8, <2>14, <2>16
<1>11. \A u \in DOMAIN updates : \A r \in Ranks : Len(updates[u][r]) = MiniSize(u, q)
  BY <1>2, <1>3
<1> QED
  BY <1>8, <1>9, <1>10, <1>11

LEMMA EachRowOnce ==
    ASSUME Numbers, GoodRows(out), BatchOf(batch, out), NEW q, Dealt(batch, q),
           UpdatesAre(updates, MiniNum(q), q)
    PROVE  /\ \A row \in Rows(out) :
                Cardinality({p \in Places : batch[IndexOf(p)].row = row}) = 1
           /\ Cardinality({p \in Places : batch[IndexOf(p)].row \notin Rows(out)}) < DpSize
           /\ \A u \in DOMAIN updates : \A r, s \in Ranks :
                Len(updates[u][r]) = Len(updates[u][s])
PROOF
<1> DEFINE n == Len(batch)
<1>1. /\ \A i \in 1..n :
          ~batch[i].row.dummy => \E k \in 1..Len(out) : out[k] = batch[i].row
      /\ \A i, j \in 1..n : ~batch[i].row.dummy /\ batch[i].row = batch[j].row => i = j
      /\ \A k \in 1..Len(out) : \E i \in 1..n : batch[i].row = out[k]
  BY DEF BatchOf
<1>2. /\ DOMAIN out = 1..Len(out) /\ \A k \in 1..Len(out) : ~out[k].dummy
  BY DEF GoodRows
<1>3. /\ q \in Nat \ {0} /\ n = q * DpSize
      /\ IsFiniteSet(Dummies(batch)) /\ Cardinality(Dummies(batch)) < DpSize
      /\ Dummies(batch) = {i \in 1..n : batch[i].row.dummy}
  BY DEF Dealt, Dummies
<1>4. /\ \A p \in Places : IndexOf(p) \in 1..n
      /\ \A o, p \in Places : IndexOf(o) = IndexOf(p) => o = p
      /\ \A k \in 1..n : \E p \in Places : IndexOf(p) = k
      /\ \A u \in DOMAIN updates : \A r \in Ranks : Len(updates[u][r]) = MiniSize(u, q)
  <2>1. /\ \A p \in Places : IndexOf(p) \in 1..(q * DpSize)
        /\ \A o, p \in Places : IndexOf(o) = IndexOf(p) => o = p
        /\ \A k \in 1..(q * DpSize) : \E p \in Places : IndexOf(p) = k
        /\ \A u \in DOMAIN updates : \A r \in Ranks : Len(updates[u][r]) = MiniSize(u, q)
    BY <1>3, PlacesAre
  <2> QED
    BY <1>3, <2>1
<1> HIDE DEF n
<1>5. ASSUME NEW row \in Rows(out)
      PROVE  Cardinality({p \in Places : batch[IndexOf(p)].row = row}) = 1
  <2>1. PICK k \in 1..Len(out) : out[k] = row
    BY <1>2 DEF Rows
  <2>2. PICK i \in 1..n : batch[i].row = row
    BY <1>1, <2>1
  <2>3. PICK t \in Places : IndexOf(t) = i
    BY <1>4
  <2>4. ~batch[i].row.dummy
    BY <1>2, <2>1, <2>2
  <2>5. \A p \in Places : batch[IndexOf(p)].row = row => p = t
    <3> TAKE p \in Places
    <3> HAVE batch[IndexOf(p)].row = row
    <3>1. IndexOf(p) \in 1..n
      BY <1>4
    <3>2. IndexOf(p) = i
      BY <1>1, <2>2, <2>4, <3>1
    <3> QED
      BY <1>4, <2>3, <3>2
  <2>6. {p \in Places : batch[IndexOf(p)].row = row} = {t}
    BY <2>2, <2>3, <2>5
  <2> QED
    BY <2>6, FS_Singleton
<1>6. Cardinality({p \in Places : batch[IndexOf(p)].row \notin Rows(out)}) < DpSize
  <2> DEFINE S == {p \in Places : batch[IndexOf(p)].row \notin Rows(out)}
             f == [p \in S |-> IndexOf(p)]
  <2>1. \A p \in S : IndexOf(p) \in Dummies(batch)
    <3> TAKE p \in S
    <3>1. IndexOf(p) \in 1..n /\ batch[IndexOf(p)].row \notin Rows(out)
      BY <1>4
    <3>2. batch[IndexOf(p)].row.dummy
      BY <1>1, <1>2, <3>1 DEF Rows
    <3> QED
      BY <1>3, <3>1, <3>2
  <2>2. f \in [S -> Dummies(batch)]
    BY <2>1
  <2>3. \A o, p \in S : f[o] = f[p] => o = p
    BY <1>4
  <2> HIDE DEF f, S
  <2>4. IsFiniteSet(S) /\ Cardinality(S) <= Cardinality(Dummies(batch))
    BY <1>3, <2>2, <2>3, FewerThan
  <2>5. Cardinality(S) \in Nat /\ Cardinality(Dummies(batch)) \in Nat
    BY <1>3, <2>4, FS_CardinalityType
  <2>6. Cardinality(S) < DpSize
    BY <1>3, <2>4, <2>5 DEF Numbers
  <2> QED
    BY <2>6 DEF S
<1>7. \A u \in DOMAIN updates : \A r, s \in Ranks :
        Len(updates[u][r]) = Len(updates[u][s])
  BY <1>4
<1> QED
  BY <1>5, <1>6, <1>7

-----------------------------------------------------------------------------
(* Scores of a validation *)

\* An ascending sequence is the sorted sequence of its elements.
LEMMA SortedAscending ==
    ASSUME NEW n \in Nat, NEW e \in [1..n -> Nat],
           \A s, t \in 1..n : s < t => e[s] < e[t],
           NEW S, S = {e[s] : s \in 1..n}
    PROVE  Sorted(S, Ascending(S)) = e
PROOF
<1>1. \A s, t \in 1..n : e[s] = e[t] => s = t
  <2> TAKE s, t \in 1..n
  <2>1. e[s] \in Nat /\ e[t] \in Nat /\ s \in Nat /\ t \in Nat
    OBVIOUS
  <2>2. (s < t => e[s] < e[t]) /\ (t < s => e[t] < e[s])
    OBVIOUS
  <2> QED
    BY <2>1, <2>2
<1>2. Cardinality(S) = n
  <2>1. e \in Seq(S) /\ Len(e) = n
    OBVIOUS
  <2>2. Enumerates(e, S)
    BY <1>1, <2>1 DEF Enumerates
  <2> QED
    BY <2>1, <2>2, EnumerationLength
<1>3. ASSUME NEW t \in 1..n
      PROVE  Cardinality({y \in S : <<y, e[t]>> \in Ascending(S)}) = t - 1
  <2> DEFINE Low == {y \in S : <<y, e[t]>> \in Ascending(S)}
             g == [s \in 1..(t - 1) |-> e[s]]
  <2>1. \A s \in 1..n : e[s] \in Low <=> s < t
    <3> TAKE s \in 1..n
    <3>1. e[s] \in S /\ e[t] \in S /\ e[s] \in Nat /\ e[t] \in Nat /\ s \in Nat /\ t \in Nat
      OBVIOUS
    <3>2. <<e[s], e[t]>> \in Ascending(S) <=> e[s] < e[t]
      BY <3>1 DEF Ascending
    <3>3. (s < t => e[s] < e[t]) /\ (t < s => e[t] < e[s])
      OBVIOUS
    <3>4. e[s] < e[t] <=> s < t
      BY <3>1, <3>3
    <3> QED
      BY <3>1, <3>2, <3>4
  <2>2. \A y \in Low : \E s \in 1..n : y = e[s]
    OBVIOUS
  <2> HIDE DEF Low
  <2>3. \A s \in 1..(t - 1) : s \in 1..n /\ s < t /\ g[s] = e[s]
    OBVIOUS
  <2>4. g \in [1..(t - 1) -> Low] /\ t - 1 \in Nat
    BY <2>1, <2>3
  <2>5. \A y \in Low : \E s \in 1..(t - 1) : g[s] = y
    <3> TAKE y \in Low
    <3>1. PICK s \in 1..n : y = e[s]
      BY <2>2
    <3>2. s < t
      BY <2>1, <3>1
    <3>3. s \in 1..(t - 1)
      BY <3>2
    <3> QED
      BY <2>3, <3>1, <3>3
  <2>6. \A r, s \in 1..(t - 1) : g[r] = g[s] => r = s
    BY <1>1, <2>3
  <2> HIDE DEF g
  <2>7. g \in Seq(Low) /\ Len(g) = t - 1
    BY <2>4
  <2>8. Enumerates(g, Low)
    BY <2>5, <2>6, <2>7 DEF Enumerates
  <2>9. Cardinality(Low) = t - 1
    BY <2>7, <2>8, EnumerationLength
  <2> QED
    BY <2>9 DEF Low
<1> DEFINE Rank(x) == Cardinality({y \in S : <<y, x>> \in Ascending(S)})
<1>4. Sorted(S, Ascending(S)) = [i \in 1..n |-> CHOOSE x \in S : Rank(x) = i - 1]
  BY <1>2 DEF Sorted
<1>5. \A t \in 1..n : Rank(e[t]) = t - 1
  BY <1>3
<1> HIDE DEF Rank
<1>6. ASSUME NEW i \in 1..n PROVE (CHOOSE x \in S : Rank(x) = i - 1) = e[i]
  <2>1. e[i] \in S /\ Rank(e[i]) = i - 1
    BY <1>5
  <2>2. \A x \in S : Rank(x) = i - 1 => x = e[i]
    <3> TAKE x \in S
    <3>1. PICK t \in 1..n : x = e[t]
      OBVIOUS
    <3> QED
      BY <1>5, <3>1
  <2> QED
    BY <2>1, <2>2
<1>7. e = [i \in 1..n |-> e[i]]
  OBVIOUS
<1>8. [i \in 1..n |-> CHOOSE x \in S : Rank(x) = i - 1] = [i \in 1..n |-> e[i]]
  BY <1>6
<1> QED
  BY <1>4, <1>7, <1>8

\* The rows o of a validation: those of slot s are at off[s - 1] + 1 to off[s],
\* after them what is left of the padding.
RunsAt(o, off, n) ==
    /\ off \in [0..n -> Nat] /\ off[0] = 0
    /\ \A s, t \in 0..n : s < t => off[s] < off[t]
    /\ \A s \in 0..n : off[s] <= Len(o)
    /\ \A s \in 1..n : LET r == o[off[s - 1] + 1]
                       IN  r.gen_uid = <<s, "own">> /\ r.uid = Slots[s].uid /\ r.run = s
    /\ \A k \in 1..Len(o) : \E s \in 1..n :
            /\ o[k].gen_uid = <<s, "own">> /\ (o[k].run \in 1..n => o[k].run = s)
            /\ ~(k <= off[s - 1])

LEMMA RunsOfValidation ==
    ASSUME Numbers, mode \in Modes, NEW ss, Generated(ss, PaddedSlots), AllOwn(ss, PaddedSlots),
           NEW o, o = UnpadDataproto(FlattenSeq(ss), PadSize)
    PROVE  \E off : RunsAt(o, off, Len(Slots))
PROOF
<1> DEFINE F == FlattenSeq(ss)
           N == Len(PaddedSlots)
           n == Len(Slots)
<1>1. /\ ss \in Seq(Seq(RowSet)) /\ Len(ss) = N
      /\ \A i \in 1..N : RowsOfRollout(ss[i], PaddedSlots[i]) /\ OwnRows(ss[i], PaddedSlots[i])
  BY DEF Generated, AllOwn
<1>2. /\ n \in Nat \ {0} /\ PadSize \in Nat /\ \A i \in 1..n : Slots[i].slot = i
  BY SlotsAre, PaddingIs DEF SlotsOrdered
<1>3. /\ PaddedSlots \in Seq(SlotSet) /\ N = n + PadSize
      /\ \A i \in 1..n : PaddedSlots[i] = Slots[i]
      /\ \A i \in 1..N : PaddedSlots[i].run = i /\ PaddedSlots[i].slot \in 1..n
  BY PaddedSlotsAre DEF PaddedOrdered
<1>4. N \in Nat /\ n <= N /\ \A i \in 1..n : i \in 1..N
  BY <1>2, <1>3
<1>5. F \in Seq(RowSet) /\ \E off : Layout(ss, F, off)
  BY <1>1, FlattenLayout
<1>6. o = SubSeq(F, 1, Len(F) - PadSize)
  BY DEF UnpadDataproto
<1> HIDE DEF F, N, n
<1>7. PICK off : Layout(ss, F, off)
  BY <1>5
<1>8. /\ off \in [0..N -> Nat] /\ off[0] = 0 /\ Len(F) = off[N]
      /\ \A i \in 1..N : off[i] = off[i - 1] + Len(ss[i])
      /\ \A i \in 1..N : \A j \in 1..Len(ss[i]) : F[off[i - 1] + j] = ss[i][j]
  BY <1>1, <1>7 DEF Layout
<1>9. \A i \in 1..N : off[i] >= off[i - 1] + 1
  <2> TAKE i \in 1..N
  <2>1. i - 1 \in 0..N
    BY <1>4
  <2>2. off[i - 1] \in Nat
    BY <1>8, <2>1
  <2>3. Len(ss[i]) \in Nat
    BY <1>1, <1>4
  <2>4. Len(ss[i]) >= 1
    BY <1>1, <2>3 DEF OwnRows
  <2>5. off[i] = off[i - 1] + Len(ss[i])
    BY <1>8
  <2> QED
    BY <2>2, <2>3, <2>4, <2>5
<1>10. \A i, k \in 0..N : i <= k => off[k] - off[i] >= k - i
  BY <1>4, <1>8, <1>9, GrowsAtLeast
<1>11. off[n] <= Len(F) - PadSize
  <2>1. n \in 0..N /\ N \in 0..N /\ n <= N
    BY <1>2, <1>4
  <2>2. off[N] - off[n] >= N - n
    BY <1>10, <2>1
  <2>3. off[N] \in Nat /\ off[n] \in Nat
    BY <1>8, <2>1
  <2> QED
    BY <1>2, <1>3, <1>8, <2>2, <2>3
<1>12. \A s, t \in 0..n : s < t => off[s] < off[t]
  <2> TAKE s, t \in 0..n
  <2> HAVE s < t
  <2>1. s \in 0..N /\ t \in 0..N /\ s <= t /\ t - s >= 1
    BY <1>2, <1>4
  <2>2. off[t] - off[s] >= t - s
    BY <1>10, <2>1
  <2>3. off[s] \in Nat /\ off[t] \in Nat
    BY <1>8, <2>1
  <2> QED
    BY <2>1, <2>2, <2>3
<1>13. /\ Len(o) = Len(F) - PadSize /\ Len(o) \in Nat
       /\ \A k \in 1..Len(o) : o[k] = F[k] /\ k \in 1..Len(F)
  <2>1. off[n] \in Nat /\ off[n] # 0
    <3>1. 0 \in 0..n /\ n \in 0..n /\ 0 < n
      BY <1>2
    <3>2. n \in 0..N
      BY <1>2, <1>4
    <3> QED
      BY <1>8, <1>12, <3>1, <3>2
  <2>2. PICK m \in Nat : m = Len(F) - PadSize
    BY <1>2, <1>5, <1>11, <2>1
  <2>3. m <= Len(F) /\ Len(F) \in Nat
    BY <1>2, <1>5, <2>2
  <2>4. \A k \in 1..m : k \in 1..Len(F) /\ F[k] \in RowSet
    BY <1>5, <2>3
  <2>5. /\ o \in Seq(RowSet) /\ Len(o) = IF 1 <= m THEN m - 1 + 1 ELSE 0
        /\ \A k \in 1..(m - 1 + 1) : o[k] = F[1 + k - 1]
    BY <1>6, <2>2, <2>4, SubSeqProperties
  <2>6. Len(o) = m /\ \A k \in 1..m : k \in 1..(m - 1 + 1) /\ 1 + k - 1 = k
    BY <2>5
  <2>7. \A k \in 1..m : o[k] = F[k]
    BY <2>5, <2>6
  <2> QED
    BY <2>2, <2>4, <2>6, <2>7
<1>14. \A s \in 0..n : s \in 0..N /\ off[s] \in Nat /\ off[s] <= Len(o)
  <2> TAKE s \in 0..n
  <2>1. s \in 0..N /\ n \in 0..n /\ n \in 0..N
    BY <1>2, <1>4
  <2>2. off[s] \in Nat /\ off[n] \in Nat
    BY <1>8, <2>1
  <2>3. off[s] <= off[n]
    BY <1>12, <2>1, <2>2
  <2> QED
    BY <1>11, <1>13, <2>1, <2>2, <2>3
<1>15. ASSUME NEW s \in 1..n
       PROVE  LET r == o[off[s - 1] + 1]
              IN  r.gen_uid = <<s, "own">> /\ r.uid = Slots[s].uid /\ r.run = s
  <2>1. s \in 1..N /\ s - 1 \in 0..n /\ s \in 0..n
    BY <1>2, <1>4
  <2>2. off[s - 1] < off[s] /\ off[s - 1] \in Nat /\ off[s] \in Nat /\ off[s] <= Len(o)
    BY <1>12, <1>14, <2>1
  <2>3. off[s - 1] + 1 \in 1..Len(o)
    BY <1>13, <2>2
  <2>4. 1 \in 1..Len(ss[s])
    BY <1>1, <2>1 DEF OwnRows
  <2>5. o[off[s - 1] + 1] = ss[s][1]
    BY <1>8, <1>13, <2>1, <2>3, <2>4
  <2>6. RowsOfRollout(ss[s], PaddedSlots[s]) /\ OwnRows(ss[s], PaddedSlots[s])
    BY <1>1, <2>1
  <2>7. PaddedSlots[s] = Slots[s] /\ Slots[s].slot = s /\ PaddedSlots[s].run = s
    BY <1>2, <1>3, <2>1
  <2>8. /\ ss[s][1].gen_uid = <<s, "own">> /\ ss[s][1].uid = Slots[s].uid /\ ss[s][1].run = s
    BY <2>4, <2>6, <2>7 DEF RowsOfRollout, OwnRows
  <2> QED
    BY <2>5, <2>8
<1>16. ASSUME NEW k \in 1..Len(o)
       PROVE  \E s \in 1..n : /\ o[k].gen_uid = <<s, "own">>
                              /\ (o[k].run \in 1..n => o[k].run = s)
                              /\ ~(k <= off[s - 1])
  <2>1. k \in 1..Len(F) /\ o[k] = F[k]
    BY <1>13
  <2>2. \E i, j : IsAt(ss, off, k, i, j)
    BY <1>1, <1>7, <2>1, LayoutCovers
  <2>3. PICK i, j : IsAt(ss, off, k, i, j)
    BY <2>2
  <2>4. i \in 1..N /\ j \in 1..Len(ss[i]) /\ k = off[i - 1] + j
    BY <1>1, <2>3 DEF IsAt
  <2>5. o[k] = ss[i][j]
    BY <1>8, <2>1, <2>4
  <2>6. RowsOfRollout(ss[i], PaddedSlots[i]) /\ OwnRows(ss[i], PaddedSlots[i])
    BY <1>1, <2>4
  <2>7. o[k].run = i /\ o[k].gen_uid = <<PaddedSlots[i].slot, "own">>
    BY <1>3, <2>4, <2>5, <2>6 DEF RowsOfRollout, OwnRows
  <2>8. PICK s \in 1..n : s = PaddedSlots[i].slot
    BY <1>3, <2>4
  <2>9. i \in 1..n => s = i
    BY <1>2, <1>3, <2>8
  <2>10. off[i - 1] \in Nat /\ k > off[i - 1]
    <3>1. i - 1 \in 0..N
      BY <1>4, <2>4
    <3>2. off[i - 1] \in Nat
      BY <1>8, <3>1
    <3>3. j \in Nat /\ j >= 1
      BY <1>1, <2>4
    <3> QED
      BY <2>4, <3>2, <3>3
  <2>11. i \notin 1..n => i > n
    BY <1>2, <1>4, <2>4
  <2>12. ~(k <= off[s - 1])
    <3>1. CASE i \in 1..n
      <4>1. s - 1 \in 0..n /\ off[s - 1] = off[i - 1]
        BY <1>2, <2>9, <3>1
      <4> QED
        BY <2>10, <4>1
    <3>2. CASE i \notin 1..n
      <4>1. s - 1 \in 0..N /\ i - 1 \in 0..N /\ s - 1 <= i - 1
        BY <1>2, <1>4, <2>4, <2>11, <3>2
      <4>2. off[i - 1] - off[s - 1] >= (i - 1) - (s - 1)
        BY <1>10, <4>1
      <4>3. off[s - 1] \in Nat
        BY <1>8, <4>1
      <4>4. off[s - 1] <= off[i - 1]
        BY <2>10, <4>1, <4>2, <4>3
      <4> QED
        BY <2>10, <4>3, <4>4
    <3> QED
      BY <3>1, <3>2
  <2> QED
    BY <2>7, <2>8, <2>9, <2>12
<1> DEFINE low == [s \in 0..n |-> off[s]]
<1>17. \A s \in 0..n : low[s] = off[s]
  OBVIOUS
<1>18. low \in [0..n -> Nat] /\ low[0] = 0
  BY <1>2, <1>8, <1>14
<1> HIDE DEF low
<1>19. \A s \in 1..n : s - 1 \in 0..n
  BY <1>2
<1>20. RunsAt(o, low, n)
  BY <1>12, <1>14, <1>15, <1>16, <1>17, <1>18, <1>19 DEF RunsAt
<1> QED
  BY <1>20 DEF n

\* What the join leaves.
JoinedRows(o) == [i \in DOMAIN o |-> [prompt |-> o[i].uid, row |-> o[i]]]

GenUidOf(i) == batch[i].row.gen_uid
FirstRows == {i \in DOMAIN batch : \A j \in 1..(i - 1) : GenUidOf(j) # GenUidOf(i)}
ScoresFrom(order) ==
    [s \in DOMAIN order |->
        [prompt |-> batch[order[s]].prompt,
         rows |-> {batch[i].row : i \in {j \in DOMAIN batch : GenUidOf(j) = GenUidOf(order[s])}}]]

\* Of every slot a score, taken from the rows of its rollout.
OneForEach(x, s, b) ==
    /\ Len(x) = Len(s)
    /\ \A i \in DOMAIN s :
        /\ x[i].prompt = s[i].uid
        /\ {r \in {b[k].row : k \in DOMAIN b} : r.run = s[i].run} \subseteq x[i].rows
        /\ \E r \in x[i].rows : r.run = s[i].run

\* When every rollout has returned rows, all under one gen_uid, the first rows
\* of the gen_uids are the first rows of the slots, in their order.
LEMMA ScoresAre ==
    ASSUME Numbers, mode \in Modes, out \in Seq(RowSet), batch = JoinedRows(out),
           NEW off, RunsAt(out, off, Len(Slots)),
           NEW x, x = ScoresFrom(Sorted(FirstRows, Ascending(FirstRows)))
    PROVE  OneForEach(x, Slots, batch)
PROOF
<1> DEFINE n == Len(Slots)
           e == [s \in 1..n |-> off[s - 1] + 1]
<1>1. /\ n \in Nat \ {0} /\ DOMAIN Slots = 1..n /\ \A s \in 1..n : Slots[s].run = s
  BY SlotsAre DEF SlotsOrdered
<1>2. /\ off \in [0..n -> Nat]
      /\ \A s, t \in 0..n : s < t => off[s] < off[t]
      /\ \A s \in 0..n : off[s] <= Len(out)
      /\ \A s \in 1..n : /\ out[off[s - 1] + 1].gen_uid = <<s, "own">>
                         /\ out[off[s - 1] + 1].uid = Slots[s].uid
                         /\ out[off[s - 1] + 1].run = s
      /\ \A k \in 1..Len(out) : \E s \in 1..n :
            /\ out[k].gen_uid = <<s, "own">> /\ (out[k].run \in 1..n => out[k].run = s)
            /\ ~(k <= off[s - 1])
  BY DEF RunsAt
<1>3. /\ Len(out) \in Nat /\ DOMAIN out = 1..Len(out) /\ DOMAIN batch = 1..Len(out)
      /\ \A i \in 1..Len(out) : batch[i].prompt = out[i].uid /\ batch[i].row = out[i]
  BY DEF JoinedRows
<1>4. \A i \in 1..Len(out) : GenUidOf(i) = out[i].gen_uid
  BY <1>3 DEF GenUidOf
<1> HIDE DEF n
<1>5. ASSUME NEW s \in 1..n
      PROVE  /\ s - 1 \in 0..n /\ s \in 0..n /\ off[s - 1] \in Nat /\ off[s] \in Nat
             /\ off[s - 1] < off[s] /\ e[s] = off[s - 1] + 1 /\ e[s] \in 1..Len(out)
  <2>1. s - 1 \in 0..n /\ s \in 0..n /\ s - 1 < s
    BY <1>1
  <2>2. off[s - 1] \in Nat /\ off[s] \in Nat /\ off[s - 1] < off[s] /\ off[s] <= Len(out)
    BY <1>2, <2>1
  <2>3. off[s - 1] + 1 \in 1..Len(out)
    BY <1>3, <2>2
  <2> QED
    BY <2>1, <2>2, <2>3
<1>6. \A s \in 1..n : /\ out[e[s]].gen_uid = <<s, "own">> /\ out[e[s]].uid = Slots[s].uid
                      /\ out[e[s]].run = s
  BY <1>2
<1>7. e \in [1..n -> Nat]
  BY <1>5
<1> HIDE DEF e
<1>8. ASSUME NEW s \in 1..n, NEW t \in 1..n, s < t PROVE e[s] < e[t]
  <2>1. s - 1 \in 0..n /\ t - 1 \in 0..n /\ s - 1 < t - 1
    BY <1>1, s < t
  <2>2. off[s - 1] < off[t - 1]
    BY <1>2, <2>1
  <2>3. off[s - 1] \in Nat /\ off[t - 1] \in Nat
    BY <1>5
  <2>4. e[s] = off[s - 1] + 1 /\ e[t] = off[t - 1] + 1
    BY <1>5
  <2> QED
    BY <2>2, <2>3, <2>4
<1>9. ASSUME NEW s \in 1..n PROVE e[s] \in FirstRows
  <2>1. ASSUME NEW j \in 1..(e[s] - 1) PROVE GenUidOf(j) # GenUidOf(e[s])
    <3>1. e[s] \in 1..Len(out) /\ e[s] = off[s - 1] + 1 /\ off[s - 1] \in Nat
      BY <1>5
    <3>2. j \in 1..Len(out) /\ j <= off[s - 1]
      BY <1>3, <3>1
    <3>3. PICK t \in 1..n : out[j].gen_uid = <<t, "own">> /\ ~(j <= off[t - 1])
      BY <1>2, <3>2
    <3>4. t # s
      BY <3>2, <3>3
    <3>5. GenUidOf(j) = <<t, "own">> /\ GenUidOf(e[s]) = <<s, "own">>
      BY <1>4, <1>6, <3>1, <3>2, <3>3
    <3> QED
      BY <3>4, <3>5
  <2>2. e[s] \in DOMAIN batch
    BY <1>3, <1>5
  <2> QED
    BY <2>1, <2>2 DEF FirstRows
<1>10. ASSUME NEW i \in FirstRows PROVE \E s \in 1..n : e[s] = i
  <2>1. i \in 1..Len(out) /\ i \in Nat /\ \A j \in 1..(i - 1) : GenUidOf(j) # GenUidOf(i)
    BY <1>3 DEF FirstRows
  <2>2. PICK s \in 1..n : out[i].gen_uid = <<s, "own">> /\ ~(i <= off[s - 1])
    BY <1>2, <2>1
  <2>3. e[s] \in 1..Len(out) /\ e[s] = off[s - 1] + 1 /\ off[s - 1] \in Nat
    BY <1>5
  <2>4. GenUidOf(i) = <<s, "own">> /\ GenUidOf(e[s]) = <<s, "own">>
    BY <1>4, <1>6, <2>1, <2>2, <2>3
  <2>5. e[s] <= i
    BY <2>1, <2>2, <2>3
  <2>6. e[s] \notin 1..(i - 1)
    BY <2>1, <2>4
  <2>7. e[s] = i
    BY <2>1, <2>3, <2>5, <2>6
  <2> QED
    BY <2>7
<1>11. FirstRows = {e[s] : s \in 1..n}
  BY <1>9, <1>10
<1>12. Sorted(FirstRows, Ascending(FirstRows)) = e
  <2>1. n \in Nat /\ \A s, t \in 1..n : s < t => e[s] < e[t]
    BY <1>1, <1>8
  <2> QED
    BY <1>7, <1>11, <2>1, SortedAscending
<1>13. x = [s \in 1..n |->
              [prompt |-> batch[e[s]].prompt,
               rows |-> {batch[i].row : i \in {j \in DOMAIN batch : GenUidOf(j) = GenUidOf(e[s])}}]]
  BY <1>7, <1>12 DEF ScoresFrom
<1>14. Len(x) = n
  BY <1>1, <1>13
<1>15. ASSUME NEW s \in 1..n
       PROVE  /\ x[s].prompt = Slots[s].uid
              /\ {r \in {batch[k].row : k \in DOMAIN batch} : r.run = Slots[s].run} \subseteq x[s].rows
              /\ \E r \in x[s].rows : r.run = Slots[s].run
  <2> DEFINE same == {j \in DOMAIN batch : GenUidOf(j) = GenUidOf(e[s])}
  <2>1. x[s].prompt = batch[e[s]].prompt /\ x[s].rows = {batch[i].row : i \in same}
    BY <1>13
  <2>2. e[s] \in 1..Len(out) /\ GenUidOf(e[s]) = <<s, "own">>
    BY <1>4, <1>5, <1>6
  <2>3. x[s].prompt = Slots[s].uid
    BY <1>3, <1>6, <2>1, <2>2
  <2>4. ASSUME NEW k \in 1..Len(out), out[k].run = s PROVE k \in same
    <3>1. PICK t \in 1..n : out[k].gen_uid = <<t, "own">> /\ (out[k].run \in 1..n => out[k].run = t)
      BY <1>2
    <3>2. t = s
      BY <2>4, <3>1
    <3> QED
      BY <1>3, <1>4, <2>2, <3>1, <3>2
  <2>5. ASSUME NEW r \in {batch[k].row : k \in DOMAIN batch}, r.run = s PROVE r \in {batch[i].row : i \in same}
    <3>1. PICK k \in 1..Len(out) : r = batch[k].row
      BY <1>3
    <3>2. out[k].run = s
      BY <1>3, <2>5, <3>1
    <3>3. k \in same
      BY <2>4, <3>2
    <3> QED
      BY <3>1, <3>3
  <2>6. e[s] \in same /\ batch[e[s]].row.run = s
    BY <1>3, <1>6, <2>2
  <2>7. \E r \in {batch[i].row : i \in same} : r.run = s
    BY <2>6
  <2>8. Slots[s].run = s
    BY <1>1
  <2> HIDE DEF same
  <2> QED
    BY <2>1, <2>3, <2>5, <2>7, <2>8
<1> QED
  BY <1>1, <1>14, <1>15 DEF OneForEach, n

-----------------------------------------------------------------------------
(* The inductive invariant *)

\* The rows ss were returned for the slots p, in mode m.
From(ss, p, m) ==
    /\ Generated(ss, p)
    /\ (m = "validate" /\ ValKinds \subseteq OwnKinds) => AllOwn(ss, p)

AdvantagesOf(b) ==
    [i \in DOMAIN b |->
        LET rows == {j \in DOMAIN b : <<b[j].row.uid, b[j].row.agent_role>> =
                                      <<b[i].row.uid, b[i].row.agent_role>>}
        IN  {j \in rows : \A k \in rows : b[k].row.gen_uid = b[j].row.gen_uid => j <= k}]

Stages ==
    /\ mode \in Modes
    /\ stage \in {"generate", "unpad", "join", "pad", "balance", "log_prob", "advantage",
                  "update", "score", "done", "raised"}
    /\ stage \in {"pad", "balance", "log_prob", "advantage", "update"} => mode = "fit"
    /\ stage \in {"unpad", "score"} => mode = "validate"

\* Where the rows of out come from.
Origins ==
    /\ GoodRows(out)
    /\ stage = "unpad" => \E ss : From(ss, PaddedSlots, mode) /\ out = FlattenSeq(ss)
    /\ stage \in {"join", "score"} =>
        \E ss : From(ss, PaddedSlots, mode) /\ out = UnpadDataproto(FlattenSeq(ss), PadSize)
    /\ (stage = "join" /\ mode = "fit") => Len(out) # 0
    /\ stage = "raised" => EmptyRun(out)

Batches ==
    /\ stage \in {"generate", "unpad", "join", "raised"} => batch = <<>>
    /\ stage = "pad" => BatchOf(batch, out) /\ NoDummy(batch) /\ Len(batch) # 0
    /\ stage \in {"balance", "log_prob", "advantage"} =>
        BatchOf(batch, out) /\ \E q : Dealt(batch, q)
    /\ (stage = "score" \/ (stage = "done" /\ mode = "validate")) => batch = JoinedRows(out)

Results ==
    /\ stage = "advantage" => old_log_probs = [i \in DOMAIN batch |-> i]
    /\ stage = "update" => advantages = AdvantagesOf(batch)
    /\ (stage = "done" /\ mode = "validate" /\ ValKinds \subseteq OwnKinds) =>
        OneForEach(scores, Slots, batch)

\* The updates made so far are those of the first mini-batches.
Updates ==
    /\ (stage \notin {"update", "done"} \/ mode = "validate") => updates = <<>>
    /\ stage = "update" =>
        /\ BatchOf(batch, out)
        /\ \E q : /\ Dealt(batch, q) /\ UpdatesAre(updates, Len(updates), q)
                  /\ Len(updates) \in 0..(MiniNum(q) - 1)
    /\ (stage = "done" /\ mode = "fit") =>
        BatchOf(batch, out) /\ \E q : Dealt(batch, q) /\ UpdatesAre(updates, MiniNum(q), q)
    /\ \A u \in Rows(updates) : DOMAIN u = Ranks

BatInv == Stages /\ Origins /\ Batches /\ Results /\ Updates

LEMMA InitGives == Numbers => (Init => BatInv)
PROOF
<1> SUFFICES ASSUME Numbers, Init PROVE BatInv
  OBVIOUS
<1> USE DEF Init
<1>1. Stages /\ Batches /\ Results
  BY DEF Stages, Batches, Results
<1>2. GoodRows(out)
  BY DEF GoodRows
<1>3. Origins
  BY <1>2 DEF Origins
<1>4. \A u \in Rows(updates) : DOMAIN u = Ranks
  BY DEF Rows
<1>5. Updates
  BY <1>4 DEF Updates
<1> QED
  BY <1>1, <1>3, <1>5 DEF BatInv

\* The slots are those of the mode, which no step changes.
LEMMA SlotsKept ==
    ASSUME mode' = mode
    PROVE  Slots' = Slots /\ PadSize' = PadSize /\ PaddedSlots' = PaddedSlots
PROOF
<1>1. Slots' = Slots
  BY DEF Slots
<1>2. PadSize' = PadSize
  BY <1>1 DEF PadSize
<1> QED
  BY <1>1, <1>2 DEF PaddedSlots

LEMMA NothingDropped ==
    ASSUME NEW T, NEW s \in Seq(T)
    PROVE  UnpadDataproto(s, 0) = s
PROOF
<1>1. Len(s) \in Nat /\ Len(s) - 0 = Len(s)
  OBVIOUS
<1>2. UnpadDataproto(s, 0) = SubSeq(s, 1, Len(s))
  BY <1>1 DEF UnpadDataproto
<1>3. \A k \in 1..Len(s) : s[k] \in T
  OBVIOUS
<1>4. /\ SubSeq(s, 1, Len(s)) \in Seq(T)
      /\ Len(SubSeq(s, 1, Len(s))) = Len(s)
      /\ \A k \in 1..Len(s) : SubSeq(s, 1, Len(s))[k] = s[k]
  BY <1>1, <1>3
<1> QED
  BY <1>2, <1>4

LEMMA GenerateKeeps == Numbers => (BatInv /\ Generate => BatInv')
PROOF
<1> SUFFICES ASSUME Numbers, BatInv, Generate PROVE BatInv'
  OBVIOUS
<1>1. /\ stage = "generate" /\ mode \in Modes /\ batch = <<>> /\ updates = <<>>
      /\ \A u \in Rows(updates) : DOMAIN u = Ranks
  BY DEF BatInv, Stages, Batches, Updates, Generate
<1>2. mode \in {"fit", "validate"} /\ NumWorkers \in Nat \ {0}
  BY <1>1 DEF Numbers
<1>3. mode' = mode /\ batch' = batch /\ updates' = updates
  BY DEF Generate
<1>4. Slots' = Slots /\ PadSize' = PadSize /\ PaddedSlots' = PaddedSlots
  BY <1>3, SlotsKept
<1> DEFINE allowed == IF mode = "fit" THEN Kinds ELSE ValKinds
           uids == {Given[i].uid : i \in DOMAIN Given}
<1>5. \E kind \in [DOMAIN Given -> allowed], len \in [uids -> Lengths] :
        LET rows == [i \in DOMAIN Given |-> Outputs(kind[i], Given[i], len[Given[i].uid])]
        IN  /\ out' = FlattenSeq(rows)
            /\ stage' = IF \A c \in 1..NumWorkers : FlattenSeq(Chunks(rows, NumWorkers)[c]) # <<>>
                          THEN IF mode = "fit" THEN "join" ELSE "unpad"
                          ELSE "raised"
  BY DEF Generate, Given
<1>6. PICK kind \in [DOMAIN Given -> allowed], len \in [uids -> Lengths] :
        LET rows == [i \in DOMAIN Given |-> Outputs(kind[i], Given[i], len[Given[i].uid])]
        IN  /\ out' = FlattenSeq(rows)
            /\ stage' = IF \A c \in 1..NumWorkers : FlattenSeq(Chunks(rows, NumWorkers)[c]) # <<>>
                          THEN IF mode = "fit" THEN "join" ELSE "unpad"
                          ELSE "raised"
  BY <1>5
<1>7. PICK p : p = PaddedSlots
  OBVIOUS
<1>8. Given = p
  BY <1>1, <1>7, GivenIsPadded
<1>9. PICK rows : rows = [i \in DOMAIN p |-> Outputs(kind[i], p[i], len[p[i].uid])]
  OBVIOUS
<1>10. out' = FlattenSeq(rows)
  BY <1>6, <1>8, <1>9
<1>11. stage' = IF \A c \in 1..NumWorkers : FlattenSeq(Chunks(rows, NumWorkers)[c]) # <<>>
                  THEN IF mode = "fit" THEN "join" ELSE "unpad"
                  ELSE "raised"
  BY <1>6, <1>8, <1>9
<1>12. PICK some : some = allowed
  OBVIOUS
<1>13. some \in SUBSET AllKinds /\ (mode = "validate" => some = ValKinds)
  BY <1>2, <1>12 DEF Numbers
<1>14. PICK n \in Nat : n = Len(Slots)
  BY <1>1, SlotsAre DEF SlotsOrdered
<1>15. PaddedOrdered(Slots, PaddedSlots, Len(Slots)) /\ PadSize \in Nat
  BY <1>1, PaddedSlotsAre, PaddingIs
<1>16. p \in Seq(SlotSet) /\ \A i \in 1..Len(p) : p[i].run = i
  BY <1>7, <1>14, <1>15 DEF PaddedOrdered
<1>17. kind \in [DOMAIN p -> some] /\ len \in [{p[i].uid : i \in DOMAIN p} -> Lengths]
  BY <1>6, <1>8, <1>12
<1>18. Generated(rows, p) /\ (some \subseteq OwnKinds => AllOwn(rows, p))
  BY <1>9, <1>13, <1>16, <1>17, GenerateGives
<1>19. From(rows, p, mode)
  BY <1>2, <1>13, <1>18 DEF From
<1>20. GoodRows(out')
  BY <1>10, <1>16, <1>18, GeneratedGood
<1>21. Generated(rows, PaddedSlots)
  BY <1>7, <1>18
<1>22. \A c \in 1..NumWorkers :
        /\ FlattenSeq(Chunks(rows, NumWorkers)[c]) = <<>> => EmptyRun(FlattenSeq(rows))
        /\ FlattenSeq(Chunks(rows, NumWorkers)[c]) # <<>> => FlattenSeq(rows) # <<>>
  BY <1>1, <1>21, WorkerOutputs
<1>23. stage' = "raised" => EmptyRun(out)'
  <2>1. stage' = "raised" => EmptyRun(FlattenSeq(rows))
    BY <1>2, <1>11, <1>22
  <2>2. EmptyRun(FlattenSeq(rows)) => EmptyRun(out)'
    BY <1>4, <1>10 DEF EmptyRun
  <2> QED
    BY <2>1, <2>2
<1>24. stage' = "unpad" => From(rows, PaddedSlots, mode)' /\ out' = FlattenSeq(rows)
  BY <1>3, <1>4, <1>7, <1>10, <1>19 DEF From
<1>25. stage' = "join" =>
        /\ mode = "fit" /\ From(rows, PaddedSlots, mode)' /\ Len(out)' # 0
        /\ out' = UnpadDataproto(FlattenSeq(rows), PadSize)'
  <2> SUFFICES ASSUME stage' = "join"
               PROVE  /\ mode = "fit" /\ From(rows, PaddedSlots, mode)' /\ Len(out)' # 0
                      /\ out' = UnpadDataproto(FlattenSeq(rows), PadSize)'
    OBVIOUS
  <2>1. mode = "fit" /\ \A c \in 1..NumWorkers : FlattenSeq(Chunks(rows, NumWorkers)[c]) # <<>>
    BY <1>2, <1>11
  <2>2. 1 \in 1..NumWorkers
    BY <1>2
  <2>3. out' \in Seq(RowSet) /\ out' # <<>>
    BY <1>10, <1>20, <1>22, <2>1, <2>2 DEF GoodRows
  <2>4. PadSize' = 0
    BY <1>1, <1>4, <2>1, PaddingIs
  <2>5. UnpadDataproto(out', 0) = out'
    BY <2>3, NothingDropped
  <2>6. UnpadDataproto(FlattenSeq(rows), PadSize)' = UnpadDataproto(out', 0)
    BY <1>10, <2>4 DEF UnpadDataproto
  <2>7. Len(out)' # 0
    BY <2>3
  <2>8. From(rows, PaddedSlots, mode)'
    BY <1>3, <1>4, <1>7, <1>19 DEF From
  <2> QED
    BY <2>1, <2>5, <2>6, <2>7, <2>8
<1>26. stage' \in {"join", "unpad", "raised"} /\ (stage' = "unpad" => mode = "validate")
  BY <1>2, <1>11
<1>27. Stages'
  BY <1>1, <1>3, <1>26 DEF Stages
<1>28. Origins'
  BY <1>3, <1>20, <1>23, <1>24, <1>25, <1>26 DEF Origins
<1>29. Batches' /\ Results'
  BY <1>1, <1>3, <1>26 DEF Batches, Results
<1>30. Updates'
  BY <1>1, <1>3, <1>26 DEF Updates
<1> QED
  BY <1>27, <1>28, <1>29, <1>30 DEF BatInv

LEMMA UnpadKeeps == Numbers => (BatInv /\ Unpad => BatInv')
PROOF
<1> SUFFICES ASSUME Numbers, BatInv, Unpad PROVE BatInv'
  OBVIOUS
<1>1. /\ stage = "unpad" /\ mode \in Modes /\ mode = "validate" /\ GoodRows(out)
      /\ batch = <<>> /\ updates = <<>> /\ \A u \in Rows(updates) : DOMAIN u = Ranks
      /\ \E ss : From(ss, PaddedSlots, mode) /\ out = FlattenSeq(ss)
  BY DEF BatInv, Stages, Origins, Batches, Updates, Unpad
<1>2. PICK ss : From(ss, PaddedSlots, mode) /\ out = FlattenSeq(ss)
  BY <1>1
<1>3. /\ mode' = mode /\ batch' = batch /\ updates' = updates /\ stage' = "join"
      /\ out' = UnpadDataproto(out, PadSize)
  BY DEF Unpad
<1>4. Slots' = Slots /\ PadSize' = PadSize /\ PaddedSlots' = PaddedSlots
  BY <1>3, SlotsKept
<1>5. PICK n \in Int : n = Len(out) - PadSize
  BY <1>1, PaddingIs DEF GoodRows
<1>6. n <= Len(out)
  BY <1>1, <1>5, PaddingIs DEF GoodRows
<1>7. GoodRows(SubSeq(out, 1, n))
  BY <1>1, <1>6, PrefixGood
<1>8. GoodRows(out')
  BY <1>3, <1>5, <1>7 DEF UnpadDataproto
<1>9. From(ss, PaddedSlots, mode)' /\ out' = UnpadDataproto(FlattenSeq(ss), PadSize)'
  BY <1>2, <1>3, <1>4 DEF From, UnpadDataproto
<1>10. Stages'
  BY <1>1, <1>3 DEF Stages
<1>11. Origins'
  BY <1>1, <1>3, <1>8, <1>9 DEF Origins
<1>12. Batches' /\ Results' /\ Updates'
  BY <1>1, <1>3 DEF Batches, Results, Updates
<1> QED
  BY <1>10, <1>11, <1>12 DEF BatInv

\* The join raises only when a rollout has returned nothing.
LEMMA RaisesOnlyEmpty ==
    ASSUME Numbers, mode \in Modes, NEW ss, From(ss, PaddedSlots, mode), out \in Seq(RowSet),
           out = UnpadDataproto(FlattenSeq(ss), PadSize), ~UnionAgrees
    PROVE  EmptyRun(out)
PROOF
<1>1. Generated(ss, PaddedSlots) /\ PadSize \in Nat
  BY PaddingIs DEF From
<1>2. ss \in Seq(Seq(RowSet))
  BY <1>1 DEF Generated
<1>3. PICK F : F = FlattenSeq(ss)
  OBVIOUS
<1>4. F \in Seq(RowSet) /\ GoodRows(F)
  <2>1. PaddedOrdered(Slots, PaddedSlots, Len(Slots)) /\ Len(Slots) \in Nat
    BY PaddedSlotsAre, SlotsAre DEF SlotsOrdered
  <2>2. PaddedSlots \in Seq(SlotSet) /\ \A i \in 1..Len(PaddedSlots) : PaddedSlots[i].run = i
    BY <2>1 DEF PaddedOrdered
  <2>3. GoodRows(F)
    BY <1>1, <1>3, <2>2, GeneratedGood
  <2> QED
    BY <2>3 DEF GoodRows
<1>5. PICK n \in Int : n = Len(F) - PadSize
  BY <1>1, <1>4
<1>6. n <= Len(F) /\ out = SubSeq(F, 1, n)
  BY <1>1, <1>3, <1>4, <1>5 DEF UnpadDataproto
<1>7. /\ Len(SubSeq(F, 1, n)) = IF n > 0 THEN n ELSE 0
      /\ \A i \in 1..n : SubSeq(F, 1, n)[i] = F[i]
  BY <1>4, <1>6, PrefixGood
<1>8. Len(out) <= Len(F) /\ \A k \in 1..Len(out) : out[k] = F[k]
  BY <1>4, <1>6, <1>7
<1>9. PICK i \in DOMAIN out : Prompt(i) # out[i].uid
  BY DEF UnionAgrees
<1>10. Len(out) = Len(Slots) /\ Slots[i].uid # out[i].uid /\ i \in 1..Len(out)
  BY <1>9 DEF Prompt
<1>11. SUFFICES ASSUME ~EmptyRun(out) PROVE FALSE
  OBVIOUS
<1>12. \A k \in 1..Len(out) : Slots[k].uid = out[k].uid
  BY <1>1, <1>3, <1>8, <1>10, <1>11, JoinAgrees
<1> QED
  BY <1>10, <1>12

LEMMA JoinKeeps == Numbers => (BatInv /\ Join => BatInv')
PROOF
<1> SUFFICES ASSUME Numbers, BatInv, Join PROVE BatInv'
  OBVIOUS
<1>1. /\ stage = "join" /\ mode \in Modes /\ GoodRows(out) /\ batch = <<>> /\ updates = <<>>
      /\ \A u \in Rows(updates) : DOMAIN u = Ranks
      /\ \E ss : From(ss, PaddedSlots, mode) /\ out = UnpadDataproto(FlattenSeq(ss), PadSize)
      /\ mode = "fit" => Len(out) # 0
  BY DEF BatInv, Stages, Origins, Batches, Updates, Join
<1>2. PICK ss : From(ss, PaddedSlots, mode) /\ out = UnpadDataproto(FlattenSeq(ss), PadSize)
  BY <1>1
<1>3. mode' = mode /\ out' = out /\ updates' = updates
  BY DEF Join
<1>4. mode \in {"fit", "validate"}
  BY <1>1 DEF Numbers
<1>5. Slots' = Slots /\ PadSize' = PadSize /\ PaddedSlots' = PaddedSlots
  BY <1>3, SlotsKept
<1>6. CASE UnionAgrees
  <2>1. batch' = [i \in DOMAIN out |-> [prompt |-> Prompt(i), row |-> out[i]]]
    BY <1>6 DEF Join
  <2>2. batch' = [i \in DOMAIN out |-> [prompt |-> out[i].uid, row |-> out[i]]]
    BY <1>6, <2>1 DEF UnionAgrees
  <2>3. stage' = IF mode = "fit" THEN "pad" ELSE "score"
    BY <1>6 DEF Join
  <2>4. BatchOf(batch', out) /\ NoDummy(batch') /\ Len(batch') = Len(out)
    BY <1>1, <2>2, JoinedGood
  <2>5. batch' = JoinedRows(out)'
    BY <1>3, <2>2 DEF JoinedRows
  <2>6. /\ stage' = "pad" => mode = "fit"
        /\ stage' = "score" => mode = "validate"
        /\ stage' \in {"pad", "score"}
    BY <1>4, <2>3
  <2>7. Stages'
    BY <1>1, <1>3, <2>6 DEF Stages
  <2>8. stage' = "score" => From(ss, PaddedSlots, mode)'
                            /\ out' = UnpadDataproto(FlattenSeq(ss), PadSize)'
    BY <1>2, <1>3, <1>5 DEF From, UnpadDataproto
  <2>9. Origins'
    BY <1>1, <1>3, <2>6, <2>8 DEF Origins
  <2>10. stage' = "pad" => Len(batch') # 0
    BY <1>1, <2>4, <2>6
  <2>11. Batches'
    BY <1>3, <2>4, <2>5, <2>6, <2>10 DEF Batches
  <2>12. Results' /\ Updates'
    BY <1>1, <1>3, <2>6 DEF Results, Updates
  <2> QED
    BY <2>7, <2>9, <2>11, <2>12 DEF BatInv
<1>7. CASE ~UnionAgrees
  <2>1. batch' = batch /\ stage' = "raised"
    BY <1>7 DEF Join
  <2>2. out \in Seq(RowSet)
    BY <1>1 DEF GoodRows
  <2>3. EmptyRun(out)
    BY <1>1, <1>2, <1>7, <2>2, RaisesOnlyEmpty
  <2>4. EmptyRun(out)'
    BY <1>3, <1>5, <2>3 DEF EmptyRun
  <2>5. Stages'
    BY <1>1, <1>3, <2>1 DEF Stages
  <2>6. Origins'
    BY <1>1, <1>3, <2>1, <2>4 DEF Origins
  <2>7. Batches' /\ Results' /\ Updates'
    BY <1>1, <1>3, <2>1 DEF Batches, Results, Updates
  <2> QED
    BY <2>5, <2>6, <2>7 DEF BatInv
<1> QED
  BY <1>6, <1>7

LEMMA PadBatchKeeps == Numbers => (BatInv /\ PadBatch => BatInv')
PROOF
<1> SUFFICES ASSUME Numbers, BatInv, PadBatch PROVE BatInv'
  OBVIOUS
<1>1. /\ stage = "pad" /\ mode \in Modes /\ mode = "fit" /\ GoodRows(out)
      /\ BatchOf(batch, out) /\ NoDummy(batch) /\ Len(batch) # 0 /\ updates = <<>>
      /\ \A u \in Rows(updates) : DOMAIN u = Ranks
  BY DEF BatInv, Stages, Origins, Batches, Updates, PadBatch
<1>2. /\ mode' = mode /\ out' = out /\ updates' = updates /\ stage' = "balance"
      /\ batch' = IF Len(batch) % DpSize = 0 THEN batch
                  ELSE batch \o [i \in 1..(DpSize - (Len(batch) % DpSize)) |-> Dummy(batch[1])]
  BY DEF PadBatch
<1>3. BatchOf(batch', out) /\ \E q : Dealt(batch', q)
  BY <1>1, <1>2, PadGives
<1>4. Stages'
  BY <1>1, <1>2 DEF Stages
<1>5. Origins'
  BY <1>1, <1>2 DEF Origins
<1>6. Batches'
  BY <1>1, <1>2, <1>3 DEF Batches
<1>7. Results' /\ Updates'
  BY <1>1, <1>2 DEF Results, Updates
<1> QED
  BY <1>4, <1>5, <1>6, <1>7 DEF BatInv

LEMMA BalanceBatchKeeps == Numbers => (BatInv /\ BalanceBatch => BatInv')
PROOF
<1> SUFFICES ASSUME Numbers, BatInv, BalanceBatch PROVE BatInv'
  OBVIOUS
<1>1. /\ stage = "balance" /\ mode \in Modes /\ mode = "fit" /\ GoodRows(out)
      /\ BatchOf(batch, out) /\ updates = <<>>
      /\ \E q : Dealt(batch, q) /\ \A u \in Rows(updates) : DOMAIN u = Ranks
  BY DEF BatInv, Stages, Origins, Batches, Updates, BalanceBatch
<1>2. /\ mode' = mode /\ out' = out /\ updates' = updates /\ stage' = "log_prob"
  BY DEF BalanceBatch
<1>3. PICK q : Dealt(batch, q)
  BY <1>1
<1>4. batch \in Seq(PairSet)
  BY <1>1 DEF BatchOf
<1>5. PICK n \in Nat : n = Len(batch) /\ DOMAIN batch = 1..n
  BY <1>4
<1>6. PICK load : load = Workload(batch)
  OBVIOUS
<1>7. load \in [1..n -> Nat]
  <2>1. load = [i \in 1..n |-> CalculateWorkload(batch[i].row.len)]
    BY <1>5, <1>6 DEF Workload
  <2>2. \A i \in 1..n : batch[i].row.len \in Nat
    <3> TAKE i \in 1..n
    <3>1. batch[i] \in PairSet
      BY <1>4, <1>5
    <3>2. batch[i].row \in RowSet
      BY <3>1 DEF PairSet
    <3> QED
      BY <3>2 DEF RowSet
  <2>3. \A i \in 1..n : CalculateWorkload(batch[i].row.len) \in Nat
    BY <2>2, WorkloadIsNat
  <2> QED
    BY <2>1, <2>3
<1>8. {pair \in (DOMAIN batch) \X (DOMAIN batch) :
            \/ load[pair[1]] < load[pair[2]]
            \/ load[pair[1]] = load[pair[2]] /\ pair[1] < pair[2]} = SmallerOf(load, n)
  BY <1>5 DEF SmallerOf
<1>9. \E parts \in Partitions(load, DpSize, TRUE) :
        LET order == FlattenSeq([r \in Ranks |-> OddEven(Sorted(parts[r], SmallerOf(load, n)))])
        IN  batch' = [i \in DOMAIN order |-> batch[order[i]]]
  <2>1. \E parts \in Partitions(load, DpSize, TRUE) :
          LET sorted == [r \in Ranks |-> Sorted(parts[r], SmallerOf(load, n))]
              order == FlattenSeq([r \in Ranks |-> OddPlaces(sorted[r]) \o
                                                   Reverse(EvenPlaces(sorted[r]))])
          IN  batch' = [i \in DOMAIN order |-> batch[order[i]]]
    BY <1>6, <1>8 DEF BalanceBatch
  <2>2. PICK parts \in Partitions(load, DpSize, TRUE) :
          LET sorted == [r \in Ranks |-> Sorted(parts[r], SmallerOf(load, n))]
              order == FlattenSeq([r \in Ranks |-> OddPlaces(sorted[r]) \o
                                                   Reverse(EvenPlaces(sorted[r]))])
          IN  batch' = [i \in DOMAIN order |-> batch[order[i]]]
    BY <2>1
  <2> DEFINE sorted == [r \in Ranks |-> Sorted(parts[r], SmallerOf(load, n))]
  <2>3. [r \in Ranks |-> OddPlaces(sorted[r]) \o Reverse(EvenPlaces(sorted[r]))] =
        [r \in Ranks |-> OddEven(Sorted(parts[r], SmallerOf(load, n)))]
    BY DEF OddEven
  <2> QED
    BY <2>2, <2>3
<1>10. PICK parts \in Partitions(load, DpSize, TRUE) :
        LET order == FlattenSeq([r \in Ranks |-> OddEven(Sorted(parts[r], SmallerOf(load, n)))])
        IN  batch' = [i \in DOMAIN order |-> batch[order[i]]]
  BY <1>9
<1>11. PICK order :
          order = FlattenSeq([r \in Ranks |-> OddEven(Sorted(parts[r], SmallerOf(load, n)))])
  OBVIOUS
<1>12. batch' = [i \in DOMAIN order |-> batch[order[i]]]
  BY <1>10, <1>11
<1>13. Len(order) = n /\ Rearranges(order, n)
  BY <1>7, <1>11, BalancedOrder
<1>14. DOMAIN order = 1..n
  BY <1>13 DEF Rearranges
<1>15. batch' = [i \in 1..n |-> batch[order[i]]]
  BY <1>12, <1>14
<1>16. BatchOf(batch', out) /\ Dealt(batch', q)
  BY <1>1, <1>3, <1>5, <1>13, <1>15, RearrangedBatch
<1>17. Stages'
  BY <1>1, <1>2 DEF Stages
<1>18. Origins'
  BY <1>1, <1>2 DEF Origins
<1>19. Batches'
  BY <1>1, <1>2, <1>16 DEF Batches
<1>20. Results' /\ Updates'
  BY <1>1, <1>2 DEF Results, Updates
<1> QED
  BY <1>17, <1>18, <1>19, <1>20 DEF BatInv

LEMMA ComputeOldLogProbKeeps == Numbers => (BatInv /\ ComputeOldLogProb => BatInv')
PROOF
<1> SUFFICES ASSUME Numbers, BatInv, ComputeOldLogProb PROVE BatInv'
  OBVIOUS
<1>1. /\ stage = "log_prob" /\ mode \in Modes /\ mode = "fit" /\ GoodRows(out)
      /\ BatchOf(batch, out) /\ updates = <<>>
      /\ \E q : Dealt(batch, q) /\ \A u \in Rows(updates) : DOMAIN u = Ranks
  BY DEF BatInv, Stages, Origins, Batches, Updates, ComputeOldLogProb
<1>2. /\ mode' = mode /\ out' = out /\ batch' = batch /\ updates' = updates
      /\ stage' = "advantage"
  BY DEF ComputeOldLogProb
<1>3. PICK q : Dealt(batch, q)
  BY <1>1
<1>4. batch \in Seq(PairSet)
  BY <1>1 DEF BatchOf
<1>5. \E computed \in PerRank([r \in Ranks |-> LogProbs([s \in Ranks |-> Local(s)][r],
                                           NumMicroBatches([s \in Ranks |-> Local(s)]))]) :
        old_log_probs' = FlattenSeq(computed)
  BY DEF ComputeOldLogProb
<1>6. PICK computed \in PerRank([r \in Ranks |-> LogProbs([s \in Ranks |-> Local(s)][r],
                                           NumMicroBatches([s \in Ranks |-> Local(s)]))]) :
        old_log_probs' = FlattenSeq(computed)
  BY <1>5
<1>7. FlattenSeq(computed) = [i \in DOMAIN batch |-> i]
  BY <1>3, <1>4, LogProbsOfAll
<1>8. old_log_probs' = [i \in DOMAIN batch' |-> i]
  BY <1>2, <1>6, <1>7
<1>9. Stages'
  BY <1>1, <1>2 DEF Stages
<1>10. Origins'
  BY <1>1, <1>2 DEF Origins
<1>11. Batches'
  BY <1>1, <1>2 DEF Batches
<1>12. Results'
  BY <1>1, <1>2, <1>8 DEF Results
<1>13. Updates'
  BY <1>1, <1>2 DEF Updates
<1> QED
  BY <1>9, <1>10, <1>11, <1>12, <1>13 DEF BatInv

LEMMA AdvantagesAre == AdvantagesOf(batch) = [i \in DOMAIN batch |-> Counted(GroupKey(i))]
PROOF
<1>1. \A i : Counted(GroupKey(i)) =
        LET rows == {j \in DOMAIN batch : <<batch[j].row.uid, batch[j].row.agent_role>> =
                                          <<batch[i].row.uid, batch[i].row.agent_role>>}
        IN  {j \in rows : \A k \in rows : batch[k].row.gen_uid = batch[j].row.gen_uid => j <= k}
  BY Zenon DEF Counted, GroupKey
<1> QED
  BY <1>1 DEF AdvantagesOf

LEMMA ComputeAdvantageKeeps == Numbers => (BatInv /\ ComputeAdvantage => BatInv')
PROOF
<1> SUFFICES ASSUME Numbers, BatInv, ComputeAdvantage PROVE BatInv'
  OBVIOUS
<1>1. /\ stage = "advantage" /\ mode \in Modes /\ mode = "fit" /\ GoodRows(out)
      /\ BatchOf(batch, out) /\ updates = <<>>
      /\ \E q : Dealt(batch, q) /\ \A u \in Rows(updates) : DOMAIN u = Ranks
  BY DEF BatInv, Stages, Origins, Batches, Updates, ComputeAdvantage
<1>2. /\ mode' = mode /\ out' = out /\ batch' = batch /\ updates' = updates
      /\ stage' = "update"
  BY DEF ComputeAdvantage
<1>3. advantages' = AdvantagesOf(batch)
  BY AdvantagesAre DEF ComputeAdvantage
<1>4. advantages' = AdvantagesOf(batch')
  BY <1>2, <1>3
<1>5. PICK q : Dealt(batch, q)
  BY <1>1
<1>6. UpdatesAre(updates', Len(updates'), q) /\ Len(updates') \in 0..(MiniNum(q) - 1)
  <2>1. updates' = <<>> /\ Len(updates') = 0
    BY <1>1, <1>2
  <2>2. MiniNum(q) \in Nat \ {0}
    BY <1>5, MiniNumIs DEF Dealt
  <2>3. UpdatesAre(<<>>, 0, q)
    BY DEF UpdatesAre
  <2>4. 0 \in 0..(MiniNum(q) - 1)
    BY <2>2
  <2> QED
    BY <2>1, <2>3, <2>4
<1>7. Stages'
  BY <1>1, <1>2 DEF Stages
<1>8. Origins'
  BY <1>1, <1>2 DEF Origins
<1>9. Batches'
  BY <1>1, <1>2 DEF Batches
<1>10. Results'
  BY <1>1, <1>2, <1>4 DEF Results
<1>11. Updates'
  BY <1>1, <1>2, <1>5, <1>6 DEF Updates
<1> QED
  BY <1>7, <1>8, <1>9, <1>10, <1>11 DEF BatInv

\* The updates with one more.
LEMMA OneUpdateMore ==
    ASSUME Numbers, NEW q, NEW us, UpdatesAre(us, Len(us), q), Len(us) \in Nat,
           NEW u, \A r \in Ranks : TakenBy(u[r], r, Len(us) + 1, q)
    PROVE  /\ UpdatesAre(Append(us, u), Len(us) + 1, q) /\ Len(Append(us, u)) = Len(us) + 1
           /\ Rows(Append(us, u)) \subseteq Rows(us) \cup {u}
PROOF
<1>1. PICK n \in Nat : n = Len(us)
  OBVIOUS
<1>2. us = [k \in 1..n |-> us[k]]
  BY <1>1 DEF UpdatesAre
<1>3. PICK T : T = {us[k] : k \in 1..n} \cup {u}
  OBVIOUS
<1>4. us \in Seq(T) /\ u \in T
  <2>1. \A k \in 1..n : us[k] \in T
    BY <1>3
  <2>2. us \in [1..n -> T]
    BY <1>2, <2>1
  <2> QED
    BY <1>3, <2>2
<1>5. /\ Append(us, u) \in Seq(T) /\ Len(Append(us, u)) = n + 1
      /\ \A k \in 1..n : Append(us, u)[k] = us[k]
      /\ Append(us, u)[n + 1] = u
  BY <1>1, <1>4
<1>6. \A k \in 1..(n + 1) :
        \A r \in Ranks : TakenBy(Append(us, u)[k][r], r, k, q)
  <2> TAKE k \in 1..(n + 1)
  <2>1. CASE k \in 1..n
    BY <1>1, <1>5, <2>1 DEF UpdatesAre
  <2>2. CASE k = n + 1
    BY <1>1, <1>5, <2>2
  <2>3. k \in 1..n \/ k = n + 1
    BY <1>1
  <2> QED
    BY <2>1, <2>2, <2>3
<1>7. Append(us, u) = [k \in 1..(n + 1) |-> Append(us, u)[k]]
  <2>1. PICK w : w = Append(us, u)
    OBVIOUS
  <2>2. w \in Seq(T) /\ Len(w) = n + 1
    BY <1>5, <2>1
  <2>3. w = [k \in 1..(n + 1) |-> w[k]]
    BY <2>2
  <2> QED
    BY <2>1, <2>3
<1>8. Rows(Append(us, u)) \subseteq Rows(us) \cup {u}
  <2> SUFFICES ASSUME NEW k \in DOMAIN Append(us, u)
               PROVE  Append(us, u)[k] \in Rows(us) \cup {u}
    BY DEF Rows
  <2>1. k \in 1..n \/ k = n + 1
    BY <1>5
  <2>2. k \in 1..n => k \in DOMAIN us
    BY <1>2
  <2>3. k \in 1..n => Append(us, u)[k] \in Rows(us)
    BY <1>5, <2>2 DEF Rows
  <2> QED
    BY <1>5, <2>1, <2>3
<1> QED
  BY <1>1, <1>5, <1>6, <1>7, <1>8 DEF UpdatesAre

\* Whatever the micro-batches of a mini-batch are, they have each of its rows once.
LEMMA MicroBatchedIs ==
    ASSUME NEW n \in Nat, NEW rows, DOMAIN rows = 1..n,
           \A i \in 1..n : Length(rows[i]) \in Nat, NEW m \in Nat,
           NEW x \in MicroBatched(rows, m)
    PROVE  Reordered(x, rows, n)
PROOF
<1> DEFINE load == LoadOf(rows)
           Ordered(micro) == LET indices == FlattenSeq(micro)
                             IN  [i \in DOMAIN indices |-> rows[indices[i]]]
<1>1. PICK micro \in RearrangeMicroBatches(rows, m) : x = Ordered(micro)
  BY DEF MicroBatched
<1>2. PICK parts \in Partitions(load, m, FALSE) : micro = MicroOf(load, parts, m)
  BY MicroBatchesAre
<1>3. load = [i \in 1..n |-> CalculateWorkload(Length(rows[i]))]
  BY DEF LoadOf
<1>4. load \in [1..n -> Nat]
  BY <1>3, WorkloadIsNat
<1> HIDE DEF load
<1>5. DOMAIN load = 1..n /\ Len(load) = n /\ \A i \in 1..n : load[i] \in Nat
  BY <1>4
<1>6. IsPartition(parts, n, m)
  BY <1>5, PartitionsParted
<1> DEFINE indices == FlattenSeq(micro)
<1>7. Enumerates(indices, 1..n)
  BY <1>2, <1>5, <1>6, MicroEnumerates
<1>8. x = [i \in DOMAIN indices |-> rows[indices[i]]]
  BY <1>1
<1> HIDE DEF indices
<1>9. Len(indices) = n /\ indices \in [1..n -> 1..n]
  BY <1>7, IntervalLength
<1>10. Rearranges(indices, n)
  BY <1>7, <1>9 DEF Enumerates, Rearranges
<1>11. InOrder(x, rows, n, indices)
  BY <1>8, <1>9, <1>10 DEF InOrder
<1> QED
  BY <1>11 DEF Reordered

LEMMA LengthIsNat ==
    ASSUME batch \in Seq(PairSet), NEW k \in 1..Len(batch)
    PROVE  Length(k) \in Nat
PROOF
<1>1. batch[k] \in PairSet
  OBVIOUS
<1>2. PICK row \in RowSet : row = batch[k].row
  BY <1>1 DEF PairSet
<1>3. row.len \in Nat
  BY <1>2 DEF RowSet
<1> QED
  BY <1>2, <1>3 DEF Length

\* The rows of all ranks in the micro-batches of their b-th mini-batches.
LEMMA MiniBatchesTaken ==
    ASSUME Numbers, NEW q, Dealt(batch, q), batch \in Seq(PairSet),
           NEW b \in 1..MiniNum(q),
           NEW mini, mini = [r \in Ranks |-> MiniBatches(LocalRows(r, q))[b]],
           NEW u, u \in PerRank([r \in Ranks |-> MicroBatched(mini[r], NumMicroBatches(mini))])
    PROVE  DOMAIN u = Ranks /\ \A r \in Ranks : TakenBy(u[r], r, b, q)
PROOF
<1>1. /\ q \in Nat \ {0} /\ DpSize \in Nat \ {0} /\ Len(batch) = q * DpSize
      /\ Ranks = 1..DpSize /\ MiniBatch \in Nat \ {0}
  BY DEF Dealt, Numbers, Ranks
<1>2. /\ (b - 1) * MiniBatch \in Nat /\ MiniEnd(b, q) \in 1..q /\ MiniSize(b, q) \in 1..MiniBatch
  BY <1>1, MiniSizes
<1>3. PICK n \in Nat, o \in Nat : n = MiniSize(b, q) /\ o = (b - 1) * MiniBatch
  BY <1>1, <1>2
<1>4. \A p \in 1..n : o + p \in 1..q
  <2>1. PICK e \in 1..q : e = MiniEnd(b, q)
    BY <1>2
  <2>2. n = e - o
    BY <1>3, <2>1 DEF MiniSize
  <2> QED
    BY <1>1, <2>2
<1>5. ASSUME NEW r \in Ranks
      PROVE  /\ Len(mini[r]) = n /\ DOMAIN mini[r] = 1..n
             /\ \A i \in 1..n : Length(mini[r][i]) \in Nat
  <2>1. PICK rows : rows = MiniBatches(LocalRows(r, q))[b] /\ mini[r] = rows
    OBVIOUS
  <2>2. r \in 1..DpSize
    BY <1>1
  <2>3. /\ Len(rows) = n /\ DOMAIN rows = 1..n
        /\ \A p \in 1..n : rows[p] = (r - 1) * q + (o + p)
    BY <1>1, <1>3, <2>1, <2>2, MiniBatchIs
  <2>4. \A i \in 1..n : Length(rows[i]) \in Nat
    <3> TAKE i \in 1..n
    <3>1. PICK p \in 1..q : p = o + i
      BY <1>4
    <3>2. (r - 1) * q + p \in 1..Len(batch)
      BY <1>1, <2>2, BlockPlace
    <3>3. PICK k \in 1..Len(batch) : k = (r - 1) * q + p
      BY <3>2
    <3>4. Length(k) \in Nat
      BY LengthIsNat
    <3> QED
      BY <2>3, <3>1, <3>3, <3>4
  <2> QED
    BY <2>1, <2>3, <2>4
<1> DEFINE m == NumMicroBatches(mini)
<1>6. m \in Nat
  BY <1>5, NumMicroBatchesIsNat
<1>7. u \in PerRank([r \in Ranks |-> MicroBatched(mini[r], m)])
  OBVIOUS
<1> HIDE DEF m
<1>8. DOMAIN u = Ranks /\ \A r \in Ranks : u[r] \in MicroBatched(mini[r], m)
  BY <1>7 DEF PerRank
<1>9. ASSUME NEW r \in Ranks PROVE TakenBy(u[r], r, b, q)
  <2>1. PICK rows : rows = MiniBatches(LocalRows(r, q))[b] /\ mini[r] = rows
    OBVIOUS
  <2>2. /\ DOMAIN rows = 1..n /\ \A i \in 1..n : Length(rows[i]) \in Nat
        /\ u[r] \in MicroBatched(rows, m)
    BY <1>5, <1>8, <2>1
  <2>3. Reordered(u[r], rows, n)
    BY <1>6, <2>2, MicroBatchedIs
  <2> QED
    BY <1>3, <2>1, <2>3 DEF TakenBy
<1> QED
  BY <1>8, <1>9

LEMMA UpdateMiniBatchKeeps == Numbers => (BatInv /\ UpdateMiniBatch => BatInv')
PROOF
<1> SUFFICES ASSUME Numbers, BatInv, UpdateMiniBatch PROVE BatInv'
  OBVIOUS
<1>1. /\ stage = "update" /\ mode \in Modes /\ mode = "fit" /\ GoodRows(out)
      /\ BatchOf(batch, out) /\ advantages = AdvantagesOf(batch)
      /\ \A u \in Rows(updates) : DOMAIN u = Ranks
      /\ \E q : /\ Dealt(batch, q) /\ UpdatesAre(updates, Len(updates), q)
                /\ Len(updates) \in 0..(MiniNum(q) - 1)
  BY DEF BatInv, Stages, Origins, Results, Updates, UpdateMiniBatch
<1>2. /\ mode' = mode /\ out' = out /\ batch' = batch /\ advantages' = advantages
  BY DEF UpdateMiniBatch
<1>3. PICK q : /\ Dealt(batch, q) /\ UpdatesAre(updates, Len(updates), q)
               /\ Len(updates) \in 0..(MiniNum(q) - 1)
  BY <1>1
<1>4. q \in Nat \ {0} /\ MiniNum(q) \in Nat \ {0}
  BY <1>3, MiniNumIs DEF Dealt
<1>5. PICK n \in Nat : n = Len(updates) /\ n < MiniNum(q)
  BY <1>3, <1>4
<1>6. \A r : Local(r) = LocalRows(r, q)
  BY <1>3, LocalIs
<1> DEFINE mini == [r \in Ranks |-> MiniBatches(Local(r))[Len(updates) + 1]]
           S == [r \in Ranks |-> MicroBatched(mini[r], NumMicroBatches(mini))]
<1>7. \E taken \in PerRank(S) :
        /\ updates' = Append(updates, taken)
        /\ stage' = IF Len(updates) + 1 = Len(MiniBatches(Local(1))) THEN "done" ELSE stage
  BY DEF UpdateMiniBatch
<1>8. PICK u \in PerRank(S) :
        /\ updates' = Append(updates, u)
        /\ stage' = IF Len(updates) + 1 = Len(MiniBatches(Local(1))) THEN "done" ELSE stage
  BY <1>7
<1>9. mini = [r \in Ranks |-> MiniBatches(LocalRows(r, q))[Len(updates) + 1]]
  BY <1>6
<1>10. Len(MiniBatches(Local(1))) = MiniNum(q)
  <2>1. Local(1) = LocalRows(1, q) /\ Len(LocalRows(1, q)) = q
    BY <1>4, <1>6 DEF LocalRows
  <2>2. MiniBatches(LocalRows(1, q)) =
            [b \in 1..MiniNum(q) |->
                SubSeq(LocalRows(1, q), (b - 1) * MiniBatch + 1,
                       Min({b * MiniBatch, Len(LocalRows(1, q))}))]
    BY <2>1 DEF MiniBatches, MiniNum
  <2> QED
    BY <1>4, <2>1, <2>2
<1>11. u \in PerRank([r \in Ranks |-> MicroBatched(mini[r], NumMicroBatches(mini))])
  OBVIOUS
<1> HIDE DEF mini, S
<1>12. DOMAIN u = Ranks /\ \A r \in Ranks : TakenBy(u[r], r, Len(updates) + 1, q)
  <2>1. Len(updates) + 1 \in 1..MiniNum(q) /\ batch \in Seq(PairSet)
    BY <1>1, <1>4, <1>5 DEF BatchOf
  <2> QED
    BY <1>3, <1>9, <1>11, <2>1, MiniBatchesTaken
<1>13. /\ UpdatesAre(Append(updates, u), Len(updates) + 1, q)
       /\ Len(Append(updates, u)) = Len(updates) + 1
       /\ Rows(Append(updates, u)) \subseteq Rows(updates) \cup {u}
  <2>1. \A r \in Ranks : TakenBy(u[r], r, Len(updates) + 1, q)
    BY <1>12
  <2>2. Len(updates) \in Nat
    BY <1>5
  <2> QED
    BY <1>3, <2>1, <2>2, OneUpdateMore
<1>14. UpdatesAre(updates', n + 1, q) /\ Len(updates') = n + 1
  BY <1>5, <1>8, <1>13
<1>15. \A v \in Rows(updates') : DOMAIN v = Ranks
  BY <1>1, <1>8, <1>13, <1>12
<1>16. stage' = IF n + 1 = MiniNum(q) THEN "done" ELSE "update"
  BY <1>1, <1>5, <1>8, <1>10
<1>17. Stages'
  BY <1>1, <1>2, <1>16 DEF Stages
<1>18. Origins'
  BY <1>1, <1>2, <1>16 DEF Origins
<1>19. Batches'
  BY <1>1, <1>2, <1>16 DEF Batches
<1>20. Results'
  BY <1>1, <1>2, <1>16 DEF Results
<1>21. Updates'
  <2>1. CASE n + 1 = MiniNum(q)
    BY <1>1, <1>2, <1>3, <1>14, <1>15, <1>16, <2>1 DEF Updates
  <2>2. CASE n + 1 # MiniNum(q)
    <3>1. n + 1 \in 0..(MiniNum(q) - 1) /\ stage' = "update"
      BY <1>4, <1>5, <1>16, <2>2
    <3> QED
      BY <1>1, <1>2, <1>3, <1>14, <1>15, <3>1 DEF Updates
  <2> QED
    BY <2>1, <2>2
<1> QED
  BY <1>17, <1>18, <1>19, <1>20, <1>21 DEF BatInv

LEMMA ScoreRolloutsKeeps == Numbers => (BatInv /\ ScoreRollouts => BatInv')
PROOF
<1> SUFFICES ASSUME Numbers, BatInv, ScoreRollouts PROVE BatInv'
  OBVIOUS
<1>1. /\ stage = "score" /\ mode \in Modes /\ mode = "validate" /\ GoodRows(out)
      /\ batch = JoinedRows(out) /\ updates = <<>>
      /\ \A u \in Rows(updates) : DOMAIN u = Ranks
      /\ \E ss : From(ss, PaddedSlots, mode) /\ out = UnpadDataproto(FlattenSeq(ss), PadSize)
  BY DEF BatInv, Stages, Origins, Batches, Updates, ScoreRollouts
<1>2. /\ mode' = mode /\ out' = out /\ batch' = batch /\ updates' = updates /\ stage' = "done"
  BY DEF ScoreRollouts
<1>3. Slots' = Slots
  BY <1>2, SlotsKept
<1>4. scores' = ScoresFrom(Sorted(FirstRows, Ascending(FirstRows)))
  <2>1. FirstRows = {i \in DOMAIN batch :
                        \A j \in 1..(i - 1) : batch[j].row.gen_uid # batch[i].row.gen_uid}
    BY DEF FirstRows, GenUidOf
  <2>2. PICK order : order = Sorted(FirstRows, Ascending(FirstRows))
    OBVIOUS
  <2>3. scores' = [s \in DOMAIN order |->
                    [prompt |-> batch[order[s]].prompt,
                     rows |-> {batch[i].row : i \in {j \in DOMAIN batch :
                                    batch[j].row.gen_uid = batch[order[s]].row.gen_uid}}]]
    BY <2>1, <2>2 DEF ScoreRollouts
  <2> QED
    BY <2>2, <2>3 DEF ScoresFrom, GenUidOf
<1>5. ValKinds \subseteq OwnKinds => OneForEach(scores', Slots, batch)
  <2> SUFFICES ASSUME ValKinds \subseteq OwnKinds PROVE OneForEach(scores', Slots, batch)
    OBVIOUS
  <2>1. PICK ss : From(ss, PaddedSlots, mode) /\ out = UnpadDataproto(FlattenSeq(ss), PadSize)
    BY <1>1
  <2>2. Generated(ss, PaddedSlots) /\ AllOwn(ss, PaddedSlots)
    BY <1>1, <2>1 DEF From
  <2>3. \E off : RunsAt(out, off, Len(Slots))
    BY <1>1, <2>1, <2>2, RunsOfValidation
  <2>4. PICK off : RunsAt(out, off, Len(Slots))
    BY <2>3
  <2>5. out \in Seq(RowSet)
    BY <1>1 DEF GoodRows
  <2> QED
    BY <1>1, <1>4, <2>4, <2>5, ScoresAre
<1>6. Stages'
  BY <1>1, <1>2 DEF Stages
<1>7. Origins'
  BY <1>1, <1>2 DEF Origins
<1>8. JoinedRows(out)' = JoinedRows(out)
  BY <1>2 DEF JoinedRows
<1>9. Batches'
  BY <1>1, <1>2, <1>8 DEF Batches
<1>10. Results'
  BY <1>1, <1>2, <1>3, <1>5 DEF Results
<1>11. Updates'
  BY <1>1, <1>2 DEF Updates
<1> QED
  BY <1>6, <1>7, <1>9, <1>10, <1>11 DEF BatInv

LEMMA StutterKeeps == Numbers => (BatInv /\ UNCHANGED vars => BatInv')
PROOF
<1> SUFFICES ASSUME Numbers, BatInv, UNCHANGED vars PROVE BatInv'
  OBVIOUS
<1>1. /\ mode' = mode /\ stage' = stage /\ out' = out /\ batch' = batch
      /\ old_log_probs' = old_log_probs /\ advantages' = advantages
      /\ updates' = updates /\ scores' = scores
  BY DEF vars
<1>2. Slots' = Slots /\ PadSize' = PadSize /\ PaddedSlots' = PaddedSlots
  BY <1>1, SlotsKept
<1>3. Stages'
  BY <1>1 DEF BatInv, Stages
<1>4. EmptyRun(out)' <=> EmptyRun(out)
  BY <1>1, <1>2 DEF EmptyRun
<1>5. Origins'
  BY <1>1, <1>2, <1>4 DEF BatInv, Origins
<1>6. JoinedRows(out)' = JoinedRows(out)
  BY <1>1 DEF JoinedRows
<1>7. Batches'
  BY <1>1, <1>6 DEF BatInv, Batches
<1>8. Results'
  BY <1>1, <1>2 DEF BatInv, Results
<1>9. Updates'
  BY <1>1 DEF BatInv, Updates
<1> QED
  BY <1>3, <1>5, <1>7, <1>8, <1>9 DEF BatInv

LEMMA NextKeeps == Numbers => (BatInv /\ [Next]_vars => BatInv')
PROOF
<1> SUFFICES ASSUME Numbers, BatInv, [Next]_vars PROVE BatInv'
  OBVIOUS
<1>1. CASE Generate
  BY <1>1, GenerateKeeps
<1>2. CASE Unpad
  BY <1>2, UnpadKeeps
<1>3. CASE Join
  BY <1>3, JoinKeeps
<1>4. CASE PadBatch
  BY <1>4, PadBatchKeeps
<1>5. CASE BalanceBatch
  BY <1>5, BalanceBatchKeeps
<1>6. CASE ComputeOldLogProb
  BY <1>6, ComputeOldLogProbKeeps
<1>7. CASE ComputeAdvantage
  BY <1>7, ComputeAdvantageKeeps
<1>8. CASE UpdateMiniBatch
  BY <1>8, UpdateMiniBatchKeeps
<1>9. CASE ScoreRollouts
  BY <1>9, ScoreRolloutsKeeps
<1>10. CASE Ended \/ UNCHANGED vars
  BY <1>10, StutterKeeps DEF Ended
<1> QED
  BY <1>1, <1>2, <1>3, <1>4, <1>5, <1>6, <1>7, <1>8, <1>9, <1>10 DEF Next

LEMMA AlwaysBatInv == Numbers => (Spec => []BatInv)
PROOF
<1> SUFFICES ASSUME Numbers PROVE Spec => []BatInv
  OBVIOUS
<1>1. Init => BatInv
  BY InitGives
<1>2. BatInv /\ [Next]_vars => BatInv'
  BY NextKeeps
<1> QED
  BY <1>1, <1>2, PTL DEF Spec

-----------------------------------------------------------------------------
(* The theorems *)

LEMMA JoinedRowsTyped ==
    ASSUME GoodRows(out), batch = JoinedRows(out)
    PROVE  BatchOf(batch, out)
PROOF
<1>1. batch = [i \in DOMAIN out |-> [prompt |-> out[i].uid, row |-> out[i]]]
  BY DEF JoinedRows
<1> QED
  BY <1>1, JoinedGood

LEMMA BatchAlways ==
    ASSUME Numbers, BatInv, batch # <<>>
    PROVE  BatchOf(batch, out)
PROOF
<1>1. mode \in {"fit", "validate"} /\ GoodRows(out)
  BY DEF Numbers, BatInv, Stages, Origins
<1>2. stage \in {"pad", "balance", "log_prob", "advantage", "update", "score", "done"}
  BY DEF BatInv, Stages, Batches
<1>3. CASE stage \in {"pad", "balance", "log_prob", "advantage"}
  BY <1>3 DEF BatInv, Batches
<1>4. CASE stage = "update"
  BY <1>4 DEF BatInv, Updates
<1>5. CASE stage = "score"
  <2>1. Batches
    BY DEF BatInv
  <2>2. batch = JoinedRows(out)
    BY <1>5, <2>1 DEF Batches
  <2> QED
    BY <1>1, <2>2, JoinedRowsTyped
<1>6. CASE stage = "done" /\ mode = "fit"
  BY <1>6 DEF BatInv, Updates
<1>7. CASE stage = "done" /\ mode = "validate"
  <2>1. batch = JoinedRows(out)
    BY <1>7 DEF BatInv, Batches
  <2> QED
    BY <1>1, <2>1, JoinedRowsTyped
<1>8. CASE stage = "done"
  BY <1>1, <1>6, <1>7, <1>8
<1> QED
  BY <1>2, <1>3, <1>4, <1>5, <1>8

\* The stages follow one another; prompts and lengths are of their sets, and all
\* ranks take part in an update.
THEOREM TypesKept == Numbers => (Spec => []TypeOK)
PROOF
<1> SUFFICES ASSUME Numbers PROVE Spec => []TypeOK
  OBVIOUS
<1>1. BatInv => TypeOK
  <2> SUFFICES ASSUME BatInv PROVE TypeOK
    OBVIOUS
  <2>1. ASSUME NEW b \in Rows(batch)
        PROVE  b.prompt \in 1..Max({PromptNum, ValPrompts}) /\ b.row.len \in Nat
    <3>1. PICK i \in DOMAIN batch : b = batch[i]
      BY DEF Rows
    <3>2. batch # <<>>
      BY <3>1
    <3>3. batch \in Seq(PairSet)
      BY <3>2, BatchAlways DEF BatchOf
    <3>4. b \in PairSet
      BY <3>1, <3>3
    <3>5. b.prompt \in 1..Prompts /\ b.row \in RowSet
      BY <3>4 DEF PairSet
    <3> QED
      BY <3>5 DEF RowSet, Prompts
  <2>2. \A u \in Rows(updates) : DOMAIN u = Ranks
    BY DEF BatInv, Updates
  <2> QED
    BY <2>1, <2>2 DEF TypeOK, BatInv, Stages
<1>2. Spec => []BatInv
  BY AlwaysBatInv
<1> QED
  BY <1>1, <1>2, PTL

\* Whatever number of sub-sequences the rollouts return, a row is joined to the
\* prompt it was generated from, or the step raises, and that only when a
\* rollout has returned nothing.
THEOREM RowsOfPrompts == Numbers => (Spec => []JoinedToOwnPrompt)
PROOF
<1> SUFFICES ASSUME Numbers PROVE Spec => []JoinedToOwnPrompt
  OBVIOUS
<1>1. BatInv => JoinedToOwnPrompt
  <2> SUFFICES ASSUME BatInv PROVE JoinedToOwnPrompt
    OBVIOUS
  <2>1. ASSUME NEW b \in Rows(batch) PROVE b.row.dummy \/ b.prompt = b.row.uid
    <3>1. PICK i \in DOMAIN batch : b = batch[i]
      BY DEF Rows
    <3>2. batch # <<>>
      BY <3>1
    <3>3. BatchOf(batch, out)
      BY <3>2, BatchAlways
    <3>4. DOMAIN batch = 1..Len(batch)
      BY <3>3 DEF BatchOf
    <3> QED
      BY <3>1, <3>3, <3>4 DEF BatchOf
  <2>2. stage = "raised" => EmptyRun(out)
    BY DEF BatInv, Origins
  <2> QED
    BY <2>1, <2>2 DEF JoinedToOwnPrompt, EmptyRun
<1>2. Spec => []BatInv
  BY AlwaysBatInv
<1> QED
  BY <1>1, <1>2, PTL

\* After padding, dispatch, micro-batching, restoring and collecting, the old
\* log probabilities in row i are those of row i.
THEOREM OwnLogProbs == Numbers => (Spec => []LogProbsAligned)
PROOF
<1> SUFFICES ASSUME Numbers PROVE Spec => []LogProbsAligned
  OBVIOUS
<1>1. BatInv => LogProbsAligned
  BY DEF BatInv, Results, LogProbsAligned
<1>2. Spec => []BatInv
  BY AlwaysBatInv
<1> QED
  BY <1>1, <1>2, PTL

\* In the group of a row every rollout of its prompt and role counts once, and
\* nothing else does.
THEOREM GroupsAre == Numbers => (Spec => []GroupOfRollouts)
PROOF
<1> SUFFICES ASSUME Numbers PROVE Spec => []GroupOfRollouts
  OBVIOUS
<1>1. BatInv => GroupOfRollouts
  <2> SUFFICES ASSUME BatInv, stage = "update" PROVE GroupOfRollouts
    BY DEF GroupOfRollouts
  <2>1. /\ GoodRows(out) /\ BatchOf(batch, out)
        /\ advantages = [i \in DOMAIN batch |-> Counted(GroupKey(i))]
    BY AdvantagesAre DEF BatInv, Origins, Updates, Results
  <2>2. ASSUME NEW i \in DOMAIN advantages PROVE GroupedAs(batch[i].row, advantages[i])
    <3>1. i \in DOMAIN batch /\ advantages[i] = Counted(GroupKey(i))
      BY <2>1
    <3>2. GroupedAs(batch[i].row, Counted(GroupKey(i)))
      BY <2>1, <3>1, GroupsCounted
    <3> QED
      BY <3>1, <3>2
  <2> QED
    BY <2>2 DEF GroupOfRollouts, GroupedAs
<1>2. Spec => []BatInv
  BY AlwaysBatInv
<1> QED
  BY <1>1, <1>2, PTL

\* Every row that was generated is in one micro-batch of one mini-batch of one
\* rank; every rank has as many rows as the others in every mini-batch, and fewer
\* dummies than there are ranks take part.
THEOREM EachRowUpdatedOnce == Numbers => (Spec => []UpdatesEachRowOnce)
PROOF
<1> SUFFICES ASSUME Numbers PROVE Spec => []UpdatesEachRowOnce
  OBVIOUS
<1>1. BatInv => UpdatesEachRowOnce
  <2> SUFFICES ASSUME BatInv, mode = "fit", stage = "done" PROVE UpdatesEachRowOnce
    BY DEF UpdatesEachRowOnce
  <2>1. /\ GoodRows(out) /\ BatchOf(batch, out)
        /\ \E q : Dealt(batch, q) /\ UpdatesAre(updates, MiniNum(q), q)
    BY DEF BatInv, Origins, Updates
  <2>2. PICK q : Dealt(batch, q) /\ UpdatesAre(updates, MiniNum(q), q)
    BY <2>1
  <2>3. /\ \A row \in Rows(out) :
                Cardinality({p \in Places : batch[IndexOf(p)].row = row}) = 1
        /\ Cardinality({p \in Places : batch[IndexOf(p)].row \notin Rows(out)}) < DpSize
        /\ \A u \in DOMAIN updates : \A r, s \in Ranks :
                Len(updates[u][r]) = Len(updates[u][s])
    BY <2>1, <2>2, EachRowOnce
  <2> QED
    BY <2>3 DEF UpdatesEachRowOnce, Places, IndexOf
<1>2. Spec => []BatInv
  BY AlwaysBatInv
<1> QED
  BY <1>1, <1>2, PTL

\* When a validation's rollouts all return rows, under one gen_uid each, it has
\* one score for every rollout slot, in the order of the slots, from all rows of
\* that rollout.
THEOREM ScoreForSlot == Numbers /\ ValKinds \subseteq OwnKinds => (Spec => []ScorePerSlot)
PROOF
<1> SUFFICES ASSUME Numbers, ValKinds \subseteq OwnKinds PROVE Spec => []ScorePerSlot
  OBVIOUS
<1>1. BatInv => ScorePerSlot
  <2> SUFFICES ASSUME BatInv, mode = "validate", stage = "done" PROVE ScorePerSlot
    BY DEF ScorePerSlot
  <2>1. OneForEach(scores, Slots, batch)
    BY DEF BatInv, Results
  <2> QED
    BY <2>1 DEF ScorePerSlot, OneForEach, Joined
<1>2. Spec => []BatInv
  BY AlwaysBatInv
<1> QED
  BY <1>1, <1>2, PTL
=============================================================================
