---------------------------- MODULE SequenceFacts ----------------------------
(* Facts that several proofs need: the least number of a set, induction over  *)
(* a set of numbers, multiples and quotients; and what the operators of       *)
(* SequencesExt that the models use return, FlattenSeq and SetToSeq.          *)
EXTENDS SequencesExt, SequenceTheorems, FiniteSetTheorems, WellFoundedInduction, TLAPS

-----------------------------------------------------------------------------
(* Numbers. *)

\* A set of numbers that is not empty has a least one.
LEMMA LeastNumber ==
    ASSUME NEW S \in SUBSET Nat, S # {}
    PROVE  \E m \in S : \A k \in S : m <= k
  <1>1. PICK m \in S : \A k \in S : ~ (<<k, m>> \in OpToRel(<, Nat))
    BY NatLessThanWellFounded, WFMin
  <1>2. ASSUME NEW k \in S
        PROVE  k < m => <<k, m>> \in OpToRel(<, Nat)
    BY DEF OpToRel
  <1>3. \A k \in S : ~ (k < m)
    BY <1>1, <1>2, Zenon
  <1> QED
    BY <1>3

\* Induction, said of a set instead of a predicate.
LEMMA SetInduction ==
    ASSUME NEW S, 0 \in S, \A n \in Nat : n \in S => n + 1 \in S
    PROVE  Nat \subseteq S
  <1> SUFFICES ASSUME Nat \ S # {}
               PROVE  FALSE
    OBVIOUS
  <1>1. PICK m \in Nat \ S : \A k \in Nat \ S : m <= k
    BY LeastNumber
  <1>2. m \in Nat /\ m # 0 /\ m - 1 \in Nat
    OBVIOUS
  <1>3. m - 1 \in S
    BY <1>1, <1>2
  <1> QED
    BY <1>2, <1>3

\* Two multiples of m that are not the same are at least m apart.
LEMMA Multiples ==
    ASSUME NEW m \in Nat, NEW j \in Nat, NEW k \in Nat
    PROVE  /\ m * j \in Nat
           /\ m * (j + 1) = m * j + m
           /\ j <= k => m * j <= m * k
           /\ j < k => m * j + m <= m * k
  <1>1. m * j \in Nat /\ m * (j + 1) = m * j + m
    OBVIOUS
  <1>2. j <= k => m * j <= m * k
    OBVIOUS
  <1>3. j < k => m * (j + 1) <= m * k
    OBVIOUS
  <1> QED
    BY <1>1, <1>2, <1>3

\* The quotient and the remainder of a division.
LEMMA Quotient ==
    ASSUME NEW m \in Nat \ {0}, NEW x \in Nat
    PROVE  /\ x \div m \in Nat
           /\ m * (x \div m) <= x
           /\ x < m * (x \div m) + m
           /\ x % m = x - m * (x \div m)
  OBVIOUS

LEMMA QuotientIs ==
    ASSUME NEW m \in Nat \ {0}, NEW x \in Nat, NEW k \in Nat,
           m * k <= x, x < m * k + m
    PROVE  x \div m = k
  OBVIOUS

\* Divided by m, a multiple of m is added to the quotient.
LEMMA QuotientOfSum ==
    ASSUME NEW m \in Nat \ {0}, NEW k \in Nat, NEW x \in Nat
    PROVE  (m * k + x) \div m = k + x \div m
  <1> DEFINE q == x \div m
  <1>1. q \in Nat /\ m * q <= x /\ x < m * q + m
    BY Quotient
  <1> HIDE DEF q
  <1>2. m * (k + q) = m * k + m * q /\ m * k \in Nat
    BY <1>1
  <1>3. m * k + x \in Nat /\ m * (k + q) <= m * k + x /\ m * k + x < m * (k + q) + m
    BY <1>1, <1>2
  <1>4. (m * k + x) \div m = k + q
    BY <1>1, <1>3, QuotientIs
  <1> QED
    BY <1>4 DEF q

-----------------------------------------------------------------------------
(* Sequences. *)

\* The concatenations of the first m sequences, one after the other.
IsFlat(seqs, f, m) ==
    f = [i \in 1 .. m |-> IF i = 1 THEN seqs[i] ELSE f[i - 1] \o seqs[i]]

LEMMA FlatExists ==
    ASSUME NEW seqs
    PROVE  \A m \in Nat : \E f : IsFlat(seqs, f, m)
  <1> DEFINE S == {m \in Nat : \E f : IsFlat(seqs, f, m)}
  <1>1. 0 \in S
    <2> DEFINE f == [i \in 1 .. 0 |-> <<>>]
    <2>1. 1 .. 0 = {}
      OBVIOUS
    <2>2. IsFlat(seqs, f, 0)
      BY <2>1 DEF IsFlat
    <2> QED
      BY <2>2
  <1>2. ASSUME NEW m \in Nat, m \in S
        PROVE  m + 1 \in S
    <2>1. PICK f : IsFlat(seqs, f, m)
      BY <1>2
    <2> DEFINE g == [i \in 1 .. m + 1 |->
                        IF i = m + 1
                        THEN IF i = 1 THEN seqs[i] ELSE f[m] \o seqs[i]
                        ELSE f[i]]
    <2>2. \A i \in 1 .. m : f[i] = IF i = 1 THEN seqs[i] ELSE f[i - 1] \o seqs[i]
      BY <2>1 DEF IsFlat
    <2>3. ASSUME NEW i \in 1 .. m + 1
          PROVE  g[i] = IF i = 1 THEN seqs[i] ELSE g[i - 1] \o seqs[i]
      <3>1. CASE i = m + 1
        <4>1. i # 1 => g[i - 1] = f[m]
          BY <3>1
        <4> QED
          BY <3>1, <4>1
      <3>2. CASE i # m + 1
        <4>1. i \in 1 .. m /\ (i # 1 => i - 1 \in 1 .. m)
          BY <3>2
        <4>2. g[i] = f[i] /\ (i # 1 => g[i - 1] = f[i - 1])
          BY <3>2, <4>1
        <4> QED
          BY <2>2, <4>1, <4>2
      <3> QED
        BY <3>1, <3>2
    <2>4. IsFlat(seqs, g, m + 1)
      <3>1. g = [i \in 1 .. m + 1 |-> g[i]]
        OBVIOUS
      <3> HIDE DEF g
      <3> QED
        BY <2>3, <3>1 DEF IsFlat
    <2> QED
      BY <2>4
  <1> HIDE DEF S
  <1>3. Nat \subseteq S
    BY <1>1, <1>2, SetInduction
  <1> QED
    BY <1>3 DEF S

\* The concatenation of the first j of the sequences.
Prefix(seqs, j) ==
    IF j = 0 THEN <<>> ELSE (CHOOSE f : IsFlat(seqs, f, Len(seqs)))[j]

LEMMA PrefixSteps ==
    ASSUME NEW T, NEW seqs \in Seq(Seq(T))
    PROVE  /\ Prefix(seqs, 0) = <<>>
           /\ \A j \in 0 .. Len(seqs) - 1 :
                 Prefix(seqs, j + 1) = Prefix(seqs, j) \o seqs[j + 1]
           /\ \A j \in 0 .. Len(seqs) : Prefix(seqs, j) \in Seq(T)
           /\ FlattenSeq(seqs) = Prefix(seqs, Len(seqs))
  <1> DEFINE n == Len(seqs)
             F == CHOOSE f : IsFlat(seqs, f, n)
             S == {j \in Nat : j <= n => Prefix(seqs, j) \in Seq(T)}
  <1>0. n \in Nat /\ \A i \in 1 .. n : seqs[i] \in Seq(T)
    OBVIOUS
  <1>1. IsFlat(seqs, F, n)
    <2>1. \E f : IsFlat(seqs, f, n)
      BY <1>0, FlatExists
    <2> HIDE DEF n
    <2> QED
      BY <2>1
  <1>2. \A j : Prefix(seqs, j) = IF j = 0 THEN <<>> ELSE F[j]
    BY DEF Prefix
  <1>3. FlattenSeq(seqs) = Prefix(seqs, n)
    <2>1. CASE n = 0
      <3>1. seqs = <<>>
        BY <2>1
      <3> QED
        BY <2>1, <3>1 DEF FlattenSeq, Prefix
    <2>2. CASE n # 0
      BY <2>2 DEF FlattenSeq, IsFlat, Prefix
    <2> QED
      BY <2>1, <2>2
  <1> HIDE DEF F, n
  <1>4. \A i \in 1 .. n : F[i] = IF i = 1 THEN seqs[i] ELSE F[i - 1] \o seqs[i]
    BY <1>1 DEF IsFlat
  <1>5. ASSUME NEW j \in Nat, j + 1 \in 1 .. n
        PROVE  Prefix(seqs, j + 1) = Prefix(seqs, j) \o seqs[j + 1]
    <2>1. CASE j = 0
      <3>0. j + 1 = 1 /\ j + 1 # 0
        BY <2>1
      <3>1. Prefix(seqs, j + 1) = seqs[1] /\ Prefix(seqs, j) = <<>>
        BY <1>2, <1>4, <1>5, <2>1, <3>0
      <3>2. seqs[1] \in Seq(T)
        BY <1>0, <1>5, <2>1
      <3>3. <<>> \o seqs[1] = seqs[1]
        BY <3>2
      <3> QED
        BY <3>0, <3>1, <3>3, Zenon
    <2>2. CASE j # 0
      <3>1. (j + 1) - 1 = j /\ j + 1 # 1 /\ j + 1 # 0
        BY <2>2
      <3> QED
        BY <1>2, <1>4, <1>5, <2>2, <3>1
    <2> QED
      BY <2>1, <2>2
  <1>6. \A j \in 0 .. n : Prefix(seqs, j) \in Seq(T)
    <2>1. 0 \in S
      <3>1. Prefix(seqs, 0) = <<>>
        BY <1>2
      <3>2. <<>> \in Seq(T)
        OBVIOUS
      <3>3. Prefix(seqs, 0) \in Seq(T)
        BY <3>1, <3>2, Zenon
      <3> QED
        BY <3>3
    <2>2. ASSUME NEW j \in Nat, j \in S
          PROVE  j + 1 \in S
      <3> SUFFICES ASSUME j + 1 <= n
                   PROVE  Prefix(seqs, j + 1) \in Seq(T)
        OBVIOUS
      <3>1. Prefix(seqs, j) \in Seq(T) /\ j + 1 \in 1 .. n
        BY <1>0, <2>2
      <3>2. seqs[j + 1] \in Seq(T)
        BY <1>0, <3>1
      <3> QED
        BY <1>5, <3>1, <3>2, ConcatProperties
    <2>3. Nat \subseteq S
      <3> HIDE DEF S
      <3> QED
        BY <2>1, <2>2, SetInduction
    <2> QED
      BY <1>0, <2>3
  <1> QED
    BY <1>0, <1>2, <1>3, <1>5, <1>6 DEF n

\* FlattenSeq keeps the elements of the sequences.
LEMMA FlattenSeqType ==
    ASSUME NEW T, NEW seqs \in Seq(Seq(T))
    PROVE  FlattenSeq(seqs) \in Seq(T)
  <1>1. Len(seqs) \in 0 .. Len(seqs)
    OBVIOUS
  <1> QED
    BY <1>1, PrefixSteps

\* SetToSeq lists a finite set: every element, once.
LEMMA SetToSeqLists ==
    ASSUME NEW S, IsFiniteSet(S)
    PROVE  /\ SetToSeq(S) \in [1 .. Cardinality(S) -> S]
           /\ SetToSeq(S) \in Seq(S)
           /\ Cardinality(S) \in Nat
           /\ IsInjective(SetToSeq(S))
  <1>1. Cardinality(S) \in Nat /\ ExistsBijection(1 .. Cardinality(S), S)
    BY FS_CardinalityType
  <1>2. \E f \in [1 .. Cardinality(S) -> S] : IsInjective(f)
    BY <1>1 DEF ExistsBijection, Bijection, Injection
  <1>3. /\ SetToSeq(S) \in [1 .. Cardinality(S) -> S]
        /\ IsInjective(SetToSeq(S))
    BY <1>2 DEF SetToSeq
  <1> QED
    BY <1>1, <1>3

\* The image of a finite set by a function is finite.
LEMMA FiniteImage ==
    ASSUME NEW F, NEW f, IsFiniteSet(F)
    PROVE  IsFiniteSet({f[x] : x \in F})
  <1> DEFINE g == [x \in F |-> f[x]]
             T == {f[x] : x \in F}
  <1>1. g \in Surjection(F, T)
    BY DEF Surjection
  <1> HIDE DEF g, T
  <1>2. IsFiniteSet(T)
    BY <1>1, FS_Surjection
  <1> QED
    BY <1>2 DEF T
=============================================================================
