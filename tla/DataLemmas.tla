----------------------------- MODULE DataLemmas -----------------------------
(***************************************************************************)
(* Induction over the naturals and functions defined by recursion, stated  *)
(* for sets and functions, so that no lemma has an operator parameter; and *)
(* what the proofs of several modules need of sequences.                   *)
(***************************************************************************)
EXTENDS Integers, Sequences, FiniteSets, SequencesExt,
        FiniteSetTheorems, SequenceTheorems, WellFoundedInduction, TLAPS

LEMMA LeastElement ==
    ASSUME NEW S, S \subseteq Nat, S # {}
    PROVE  \E least \in S : \A n \in S : least <= n
<1>1. IsWellFoundedOn(OpToRel(<, Nat), Nat)
  BY NatLessThanWellFounded, Zenon
<1>2. PICK least \in S : \A n \in S : <<n, least>> \notin OpToRel(<, Nat)
  BY <1>1, WFMin
<1>3. \A n \in S : ~(n < least)
  BY <1>2 DEF OpToRel
<1> QED  BY <1>3

LEMMA SetInduction ==
    ASSUME NEW S, S \subseteq Nat, 0 \in S, \A n \in S : n + 1 \in S
    PROVE  S = Nat
<1> SUFFICES ASSUME Nat \ S # {}
             PROVE  FALSE
  OBVIOUS
<1>1. PICK least \in Nat \ S : \A n \in Nat \ S : least <= n
  BY LeastElement
<1>2. least - 1 \in S
  BY <1>1
<1> QED  BY <1>1, <1>2

(* A function on 0 .. n is defined by its first value and a step for each  *)
(* of the others.  The two notions are operators, to be cited as they are. *)
StepsOn(step, S, n) == \A i \in 1 .. n : \A v \in S : step[i][v] \in S

Recursive(f, first, step, S, n) ==
    /\ f \in [0 .. n -> S]
    /\ f[0] = first
    /\ \A i \in 1 .. n : f[i] = step[i][f[i - 1]]

LEMMA RecursiveFunction ==
    ASSUME NEW S, NEW first \in S, NEW n \in Nat, NEW step, StepsOn(step, S, n)
    PROVE  \E f : Recursive(f, first, step, S, n)
<1> USE DEF StepsOn, Recursive
<1> DEFINE Upto(m) == \E f \in [0 .. m -> S] : /\ f[0] = first
                                               /\ \A i \in 1 .. m : f[i] = step[i][f[i - 1]]
           Defined == {m \in Nat : m <= n => Upto(m)}
<1>1. Upto(0)
  <2>1. PICK f : f = [i \in 0 .. 0 |-> first]
    OBVIOUS
  <2> QED  BY <2>1
<1>2. ASSUME NEW m \in Nat, m + 1 <= n, Upto(m)
      PROVE  Upto(m + 1)
  <2>1. PICK f \in [0 .. m -> S] : /\ f[0] = first
                                   /\ \A i \in 1 .. m : f[i] = step[i][f[i - 1]]
    BY <1>2
  <2>2. PICK g : g = [i \in 0 .. m + 1 |-> IF i <= m THEN f[i] ELSE step[m + 1][f[m]]]
    OBVIOUS
  <2>3. m + 1 \in 1 .. n /\ f[m] \in S
    BY <1>2, <2>1
  <2>4. g \in [0 .. m + 1 -> S] /\ g[0] = first
    BY <2>1, <2>2, <2>3
  <2>5. ASSUME NEW i \in 1 .. m + 1
        PROVE  g[i] = step[i][g[i - 1]]
    <3>1. CASE i \in 1 .. m
      BY <2>1, <2>2, <3>1
    <3>2. CASE i = m + 1
      BY <2>2, <3>2
    <3> QED  BY <3>1, <3>2
  <2> QED  BY <2>4, <2>5
<1>3. Defined = Nat
  <2>1. 0 \in Defined /\ Defined \subseteq Nat
    BY <1>1
  <2>2. \A m \in Defined : m + 1 \in Defined
    BY <1>2
  <2> HIDE DEF Defined
  <2> QED  BY <2>1, <2>2, SetInduction
<1> HIDE DEF Upto
<1>4. Upto(n)
  BY <1>3
<1> QED  BY <1>4 DEF Upto

-----------------------------------------------------------------------------
LEMMA RangeOfConcatenation ==
    ASSUME NEW S, NEW s \in Seq(S), NEW t \in Seq(S)
    PROVE  s \o t \in Seq(S) /\ Range(s \o t) = Range(s) \union Range(t)
<1>1. /\ s \o t \in Seq(S) /\ Len(s) \in Nat /\ Len(t) \in Nat
      /\ DOMAIN s = 1 .. Len(s) /\ DOMAIN t = 1 .. Len(t)
      /\ DOMAIN (s \o t) = 1 .. Len(s) + Len(t)
      /\ \A i \in 1 .. Len(s) + Len(t) :
            (s \o t)[i] = IF i <= Len(s) THEN s[i] ELSE t[i - Len(s)]
  BY ConcatProperties, LenProperties
<1>2. ASSUME NEW x \in Range(t)
      PROVE  x \in Range(s \o t)
  <2>1. PICK i \in 1 .. Len(t) : x = t[i]
    BY <1>1, <1>2 DEF Range
  <2>2. Len(s) + i \in 1 .. Len(s) + Len(t) /\ (s \o t)[Len(s) + i] = t[i]
    BY <1>1
  <2> QED  BY <1>1, <2>1, <2>2 DEF Range
<1>3. ASSUME NEW x \in Range(s)
      PROVE  x \in Range(s \o t)
  BY <1>1, <1>3 DEF Range
<1>4. Range(s \o t) \subseteq Range(s) \union Range(t)
  BY <1>1 DEF Range
<1> QED  BY <1>1, <1>2, <1>3, <1>4

LEMMA RangeOfSequence ==
    ASSUME NEW S, NEW s \in Seq(S)
    PROVE  Range(s) \subseteq S /\ Range(s) = {s[i] : i \in 1 .. Len(s)}
BY LenProperties, ElementOfSeq DEF Range

(* The sequence that enumerates a finite set.                              *)
LEMMA SetAsSequence ==
    ASSUME NEW S, IsFiniteSet(S)
    PROVE  SetToSeq(S) \in Seq(S) /\ Range(SetToSeq(S)) = S
<1> DEFINE n == Cardinality(S)
           s == SetToSeq(S)
<1>1. n \in Nat /\ \E f : f \in Bijection(1 .. n, S)
  BY FS_CardinalityType DEF ExistsBijection
<1>2. \E f \in [1 .. n -> S] : IsInjective(f)
  BY <1>1 DEF Bijection, Injection
<1>3. s \in [1 .. n -> S] /\ IsInjective(s)
  <2> HIDE DEF n
  <2>1. s = CHOOSE f \in [1 .. n -> S] : IsInjective(f)
    BY Zenon DEF SetToSeq, n
  <2> QED  BY <1>2, <2>1, Zenon
<1>4. s \in Injection(1 .. n, S)
  BY <1>3 DEF Injection
<1>5. IsFiniteSet(1 .. n) /\ Cardinality(1 .. n) = n
  BY <1>1, FS_Interval
<1> HIDE DEF s
<1>6. s \in Surjection(1 .. n, S)
  BY <1>4, <1>5, FS_Injection
<1>7. Range(s) = S /\ s \in Seq(S)
  BY <1>1, <1>3, <1>6 DEF Range, Surjection
<1> QED  BY <1>7 DEF s

-----------------------------------------------------------------------------
(* A sequence in the order that the pairs of R are.                        *)
InOrder(s, R) == \A i, j \in 1 .. Len(s) : i < j => <<s[i], s[j]>> \in R

LEMMA ConcatenationInOrder ==
    ASSUME NEW S, NEW s \in Seq(S), NEW t \in Seq(S), NEW R, InOrder(s, R), InOrder(t, R),
           \A x \in Range(s), y \in Range(t) : <<x, y>> \in R
    PROVE  InOrder(s \o t, R)
<1>1. /\ Len(s) \in Nat /\ Len(t) \in Nat /\ Len(s \o t) = Len(s) + Len(t)
      /\ DOMAIN s = 1 .. Len(s) /\ DOMAIN t = 1 .. Len(t)
      /\ \A i \in 1 .. Len(s) + Len(t) :
            (s \o t)[i] = IF i <= Len(s) THEN s[i] ELSE t[i - Len(s)]
  BY ConcatProperties, LenProperties
<1>2. PICK st : st = s \o t
  OBVIOUS
<1>3. ASSUME NEW i \in 1 .. Len(s) + Len(t), NEW j \in 1 .. Len(s) + Len(t), i < j
      PROVE  <<st[i], st[j]>> \in R
  <2>1. CASE j <= Len(s)
    <3>1. i \in 1 .. Len(s) /\ j \in 1 .. Len(s)
      BY <1>1, <1>3, <2>1
    <3> QED  BY <1>1, <1>2, <1>3, <3>1 DEF InOrder
  <2>2. CASE i <= Len(s) /\ j > Len(s)
    <3>1. i \in 1 .. Len(s) /\ j - Len(s) \in 1 .. Len(t)
      BY <1>1, <1>3, <2>2
    <3>2. st[i] = s[i] /\ st[j] = t[j - Len(s)]
      BY <1>1, <1>2, <2>2
    <3>3. s[i] \in Range(s) /\ t[j - Len(s)] \in Range(t)
      BY <1>1, <3>1 DEF Range
    <3> QED  BY <3>2, <3>3
  <2>3. CASE i > Len(s)
    <3>1. i - Len(s) \in 1 .. Len(t) /\ j - Len(s) \in 1 .. Len(t) /\ i - Len(s) < j - Len(s)
      BY <1>1, <1>3, <2>3
    <3>2. st[i] = t[i - Len(s)] /\ st[j] = t[j - Len(s)]
      BY <1>1, <1>2, <1>3, <2>3
    <3> QED  BY <3>1, <3>2 DEF InOrder
  <2> QED  BY <1>1, <2>1, <2>2, <2>3
<1> QED  BY <1>1, <1>2, <1>3 DEF InOrder

(* FlattenSeq adds one sequence after the other.                           *)
LEMMA FlattenSteps ==
    ASSUME NEW X, NEW seqs \in Seq(Seq(X))
    PROVE  \E f \in [0 .. Len(seqs) -> Seq(X)] :
              /\ f[0] = <<>>
              /\ \A i \in 1 .. Len(seqs) : f[i] = f[i - 1] \o seqs[i]
              /\ FlattenSeq(seqs) = f[Len(seqs)]
<1> DEFINE n == Len(seqs)
           step == [i \in 1 .. n |-> [v \in Seq(X) |-> v \o seqs[i]]]
<1>1. n \in Nat /\ \A i \in 1 .. n : seqs[i] \in Seq(X)
  BY LenProperties, ElementOfSeq
<1>2. <<>> \in Seq(X) /\ StepsOn(step, Seq(X), n)
  BY <1>1, ConcatProperties DEF StepsOn
<1>3. PICK f : Recursive(f, <<>>, step, Seq(X), n)
  <2> HIDE DEF step, n
  <2> QED  BY <1>1, <1>2, RecursiveFunction
<1>4. f \in [0 .. n -> Seq(X)] /\ f[0] = <<>>
  BY <1>3 DEF Recursive
<1>5. ASSUME NEW i \in 1 .. n
      PROVE  f[i] = f[i - 1] \o seqs[i]
  <2>1. f[i] = step[i][f[i - 1]]
    BY <1>3 DEF Recursive
  <2>2. f[i - 1] \in Seq(X)
    BY <1>1, <1>4
  <2> QED  BY <2>1, <2>2
<1>6. CASE n = 0
  <2>1. FlattenSeq(seqs) = seqs
    BY <1>6, Zenon DEF FlattenSeq
  <2>2. seqs = <<>>
    BY <1>6, EmptySeq
  <2> QED  BY <1>4, <1>5, <1>6, <2>1, <2>2
<1>7. CASE n # 0
  <2> DEFINE flatten[i \in 1 .. n] == IF i = 1 THEN seqs[i] ELSE flatten[i - 1] \o seqs[i]
             g == [i \in 1 .. n |-> f[i]]
  <2>1. ASSUME NEW i \in 1 .. n
        PROVE  g[i] = IF i = 1 THEN seqs[i] ELSE g[i - 1] \o seqs[i]
    <3>1. CASE i = 1
      <4>1. seqs[i] \in Seq(X) /\ i - 1 = 0
        BY <1>1, <3>1
      <4>2. <<>> \o seqs[i] = seqs[i]
        BY <4>1, ConcatEmptySeq
      <4>3. g[i] = f[0] \o seqs[i]
        BY <1>5, <4>1
      <4> QED  BY <1>4, <3>1, <4>2, <4>3
    <3>2. CASE i # 1
      <4>1. i - 1 \in 1 .. n
        BY <1>1, <3>2
      <4> QED  BY <1>5, <3>2, <4>1
    <3> QED  BY <3>1, <3>2
  <2>2. g = [i \in 1 .. n |-> IF i = 1 THEN seqs[i] ELSE g[i - 1] \o seqs[i]]
    <3> HIDE DEF n
    <3> QED  BY <2>1, Zenon
  <2> HIDE DEF g
  <2>3. flatten = [i \in 1 .. n |-> IF i = 1 THEN seqs[i] ELSE flatten[i - 1] \o seqs[i]]
    <3> HIDE DEF flatten
    <3> QED  BY <2>2, Zenon DEF flatten
  <2>4. FlattenSeq(seqs) = flatten[n]
    BY <1>7, Zenon DEF FlattenSeq
  <2> HIDE DEF flatten
  <2> DEFINE Same == {i \in Nat : i \in 1 .. n => flatten[i] = f[i]}
  <2>5. 0 \in Same
    OBVIOUS
  <2>6. ASSUME NEW i \in Same
        PROVE  i + 1 \in Same
    <3> SUFFICES ASSUME i + 1 \in 1 .. n
                 PROVE  flatten[i + 1] = f[i + 1]
      OBVIOUS
    <3>1. i \in Nat /\ (i + 1) - 1 = i
      OBVIOUS
    <3>2. flatten[i + 1] = IF i + 1 = 1 THEN seqs[i + 1] ELSE flatten[i] \o seqs[i + 1]
      <4> HIDE DEF n
      <4> QED  BY <2>3, <3>1
    <3>3. f[i + 1] = f[i] \o seqs[i + 1]
      BY <1>5, <3>1
    <3>4. i \in 1 .. n => flatten[i] = f[i]
      OBVIOUS
    <3> HIDE DEF Same
    <3>5. CASE i = 0
      <4>1. seqs[i + 1] \in Seq(X)
        BY <1>1
      <4>2. <<>> \o seqs[i + 1] = seqs[i + 1]
        BY <4>1, ConcatEmptySeq
      <4>3. f[i] = <<>> /\ i + 1 = 1
        BY <1>4, <3>5
      <4> QED  BY <3>2, <3>3, <4>2, <4>3, Zenon
    <3>6. CASE i # 0
      <4>1. i \in 1 .. n /\ i + 1 # 1
        BY <1>1, <3>1, <3>6
      <4> QED  BY <3>2, <3>3, <3>4, <4>1, Zenon
    <3> QED  BY <3>5, <3>6
  <2>7. Same = Nat
    <3> HIDE DEF Same
    <3>1. Same \subseteq Nat
      BY DEF Same
    <3> QED  BY <2>5, <2>6, <3>1, SetInduction
  <2>8. n \in 1 .. n
    BY <1>1, <1>7
  <2>9. flatten[n] = f[n]
    BY <1>1, <2>7, <2>8
  <2> QED  BY <1>4, <1>5, <2>4, <2>9
<1> QED  BY <1>6, <1>7

(* It contains what they contain, and is in order if each of them is and   *)
(* what is in one comes before what is in a later one.                     *)
LEMMA FlattenProperties ==
    ASSUME NEW X, NEW seqs \in Seq(Seq(X)), NEW R,
           \A i \in 1 .. Len(seqs) : InOrder(seqs[i], R),
           \A i, j \in 1 .. Len(seqs) : i < j =>
              \A x \in Range(seqs[i]), y \in Range(seqs[j]) : <<x, y>> \in R
    PROVE  /\ FlattenSeq(seqs) \in Seq(X)
           /\ InOrder(FlattenSeq(seqs), R)
           /\ \A x : x \in Range(FlattenSeq(seqs)) <=> \E i \in 1 .. Len(seqs) : x \in Range(seqs[i])
<1> DEFINE n == Len(seqs)
<1>1. n \in Nat /\ \A i \in 1 .. n : seqs[i] \in Seq(X)
  BY LenProperties, ElementOfSeq
<1>2. PICK f \in [0 .. n -> Seq(X)] :
         /\ f[0] = <<>>
         /\ \A i \in 1 .. n : f[i] = f[i - 1] \o seqs[i]
         /\ FlattenSeq(seqs) = f[n]
  BY FlattenSteps
<1>3. /\ \A i \in 1 .. n : InOrder(seqs[i], R)
      /\ \A i, j \in 1 .. n : i < j =>
            \A x \in Range(seqs[i]), y \in Range(seqs[j]) : <<x, y>> \in R
  OBVIOUS
<1> HIDE DEF n
<1> DEFINE Holds(i) ==
              /\ InOrder(f[i], R)
              /\ \A x : x \in Range(f[i]) <=> \E k \in 1 .. i : x \in Range(seqs[k])
           Good == {i \in Nat : i <= n => Holds(i)}
<1>4. Holds(0)
  BY <1>2, EmptySeq DEF InOrder, Range
<1>5. ASSUME NEW i \in Nat, i + 1 <= n, Holds(i)
      PROVE  Holds(i + 1)
  <2>1. f[i + 1] = f[i] \o seqs[i + 1] /\ f[i] \in Seq(X) /\ seqs[i + 1] \in Seq(X)
    <3>1. i + 1 \in 1 .. n /\ i \in 0 .. n /\ (i + 1) - 1 = i
      BY <1>1, <1>5
    <3> QED  BY <1>1, <1>2, <3>1
  <2>2. Range(f[i + 1]) = Range(f[i]) \union Range(seqs[i + 1])
    BY <2>1, RangeOfConcatenation
  <2>3. \A x \in Range(f[i]), y \in Range(seqs[i + 1]) : <<x, y>> \in R
    <3>1. \A k \in 1 .. i : k \in 1 .. n /\ k < i + 1
      BY <1>1, <1>5
    <3>2. i + 1 \in 1 .. n
      BY <1>1, <1>5
    <3> QED  BY <1>3, <1>5, <3>1, <3>2
  <2>4. InOrder(f[i + 1], R)
    <3>1. InOrder(f[i], R) /\ InOrder(seqs[i + 1], R)
      BY <1>1, <1>3, <1>5
    <3>2. InOrder(f[i] \o seqs[i + 1], R)
      BY <2>1, <2>3, <3>1, ConcatenationInOrder
    <3> QED  BY <2>1, <3>2, Zenon
  <2>5. \A x : x \in Range(f[i + 1]) <=> \E k \in 1 .. i + 1 : x \in Range(seqs[k])
    <3>1. \A k : k \in 1 .. i + 1 <=> k \in 1 .. i \/ k = i + 1
      BY <1>5
    <3> QED  BY <1>5, <2>2, <3>1, Zenon
  <2> QED  BY <2>4, <2>5
<1> HIDE DEF Holds
<1>6. Good = Nat
  <2>1. 0 \in Good /\ Good \subseteq Nat
    BY <1>4
  <2>2. \A i \in Good : i + 1 \in Good
    BY <1>1, <1>5
  <2> HIDE DEF Good
  <2> QED  BY <2>1, <2>2, SetInduction
<1>7. Holds(n)
  BY <1>1, <1>6
<1> QED  BY <1>1, <1>2, <1>7 DEF n, Holds

=============================================================================
