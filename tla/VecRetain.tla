------------------------------ MODULE VecRetain ------------------------------
(***************************************************************************)
(* Vec::retain, by which the detectors of rust-core (security/detector.rs, *)
(* omega/defense/mod.rs) drop the times that have left their window, and   *)
(* the removal of an entry from the read cache of fs_layer/fuse_fs.rs:     *)
(* what stays of a sequence, in its order, and what the proofs need of it. *)
(***************************************************************************)
EXTENDS Integers, Sequences, FiniteSets, FiniteSetTheorems, SequenceTheorems, TLAPS

\* The new place of what was at i, when the places in Stays are all that stays.
Rank(Stays, i) == Cardinality({j \in Stays : j <= i})

Retain(seq, Stays) ==
    [k \in 1..Cardinality(Stays) |-> seq[CHOOSE i \in Stays : Rank(Stays, i) = k]]

-----------------------------------------------------------------------------
\* What is retained of a sequence: one place for each element that stays.
LEMMA Retained ==
    ASSUME NEW n \in Nat, NEW Stays, Stays \subseteq 1..n, NEW seq
    PROVE  /\ Cardinality(Stays) \in Nat
           /\ \A i \in Stays : /\ Rank(Stays, i) \in 1..Cardinality(Stays)
                               /\ Retain(seq, Stays)[Rank(Stays, i)] = seq[i]
           /\ \A i, j \in Stays : Rank(Stays, i) = Rank(Stays, j) => i = j
<1>1. IsFiniteSet(Stays) /\ Cardinality(Stays) \in Nat
  <2>1. IsFiniteSet(1..n)
    BY FS_Interval
  <2>2. IsFiniteSet(Stays)
    BY <2>1, FS_Subset
  <2> QED
    BY <2>2, FS_CardinalityType
<1>2. ASSUME NEW i \in Stays
      PROVE  /\ Rank(Stays, i) \in 1..Cardinality(Stays)
             /\ IsFiniteSet({j \in Stays : j <= i})
  <2> DEFINE T == {j \in Stays : j <= i}
  <2>1. T \in SUBSET Stays /\ i \in T
    OBVIOUS
  <2> HIDE DEF T
  <2>2. IsFiniteSet(T) /\ Cardinality(T) <= Cardinality(Stays)
    BY <1>1, <2>1, FS_Subset
  <2>3. Cardinality(T) \in Nat /\ Cardinality(T) # 0
    BY <2>1, <2>2, FS_CardinalityType, FS_EmptySet
  <2> QED
    BY <1>1, <2>2, <2>3 DEF Rank, T
<1>3. ASSUME NEW i \in Stays, NEW j \in Stays, i < j
      PROVE  Rank(Stays, i) # Rank(Stays, j)
  <2> DEFINE T == {k \in Stays : k <= i}
             U == {k \in Stays : k <= j}
  <2>0. \A k \in Stays : k \in Int
    OBVIOUS
  <2>1. \A k \in Stays : k <= i => k <= j
    <3> SUFFICES ASSUME NEW k \in Stays, k <= i PROVE k <= j
      OBVIOUS
    <3>1. k \in Int /\ i \in Int /\ j \in Int
      BY <2>0
    <3> QED
      BY <1>3, <3>1
  <2>2. i \in Int /\ j \in Int /\ ~(j <= i) /\ j <= j
    BY <1>3, <2>0
  <2>3. T \in SUBSET U /\ j \in U /\ j \notin T
    BY <2>1, <2>2
  <2>4. IsFiniteSet(U)
    BY <1>2
  <2> HIDE DEF T, U
  <2>5. Cardinality(U) # Cardinality(T)
    BY <2>3, <2>4, FS_Subset
  <2> QED
    BY <2>5 DEF Rank, T, U
<1>4. ASSUME NEW i \in Stays, NEW j \in Stays, Rank(Stays, i) = Rank(Stays, j) PROVE i = j
  <2>1. i \in Int /\ j \in Int
    OBVIOUS
  <2>2. ~(i < j) /\ ~(j < i)
    BY <1>3, <1>4
  <2> QED
    BY <2>1, <2>2
<1>5. ASSUME NEW i \in Stays PROVE Retain(seq, Stays)[Rank(Stays, i)] = seq[i]
  <2>1. (CHOOSE j \in Stays : Rank(Stays, j) = Rank(Stays, i)) = i
    BY <1>4
  <2>2. Rank(Stays, i) \in 1..Cardinality(Stays)
    BY <1>2
  <2> QED
    BY <2>1, <2>2 DEF Retain
<1> QED
  BY <1>1, <1>2, <1>4, <1>5

\* And it is as long as what stays, and of the same kind.
LEMMA RetainedShape ==
    ASSUME NEW S, NEW seq \in Seq(S), NEW Stays, Stays \subseteq DOMAIN seq
    PROVE  /\ Retain(seq, Stays) \in Seq(S)
           /\ Len(Retain(seq, Stays)) = Cardinality(Stays)
           /\ Cardinality(Stays) \in Nat
           /\ \A i \in Stays : /\ Rank(Stays, i) \in 1..Cardinality(Stays)
                               /\ Retain(seq, Stays)[Rank(Stays, i)] = seq[i]
           /\ \A i, j \in Stays : Rank(Stays, i) = Rank(Stays, j) => i = j
           /\ \A k \in 1..Cardinality(Stays) : \E i \in Stays : Rank(Stays, i) = k
<1>1. Len(seq) \in Nat /\ DOMAIN seq = 1..Len(seq) /\ Stays \subseteq 1..Len(seq)
  OBVIOUS
<1>2. PICK c \in Nat : c = Cardinality(Stays)
  BY <1>1, Retained
<1>3. /\ \A i \in Stays : /\ Rank(Stays, i) \in 1..c
                          /\ Retain(seq, Stays)[Rank(Stays, i)] = seq[i]
      /\ \A i, j \in Stays : Rank(Stays, i) = Rank(Stays, j) => i = j
  <2>1. PICK n \in Nat : n = Len(seq)
    BY <1>1
  <2>2. Stays \subseteq 1..n
    BY <1>1, <2>1
  <2> QED
    BY <1>2, <2>2, Retained
<1>4. ASSUME NEW k \in 1..c PROVE \E i \in Stays : Rank(Stays, i) = k
  <2> DEFINE ranks == [i \in Stays |-> Rank(Stays, i)]
  <2>1. ranks \in Injection(Stays, 1..c)
    BY <1>3 DEF Injection, IsInjective
  <2>2. IsFiniteSet(1..c) /\ Cardinality(1..c) = c
    BY FS_Interval
  <2>3. ranks \in Surjection(Stays, 1..c)
    BY <2>1, <1>2, <2>2, FS_Injection
  <2> QED
    BY <2>3 DEF Surjection
<1> DEFINE e(k) == seq[CHOOSE i \in Stays : Rank(Stays, i) = k]
<1>5. \A k \in 1..c : e(k) \in S
  <2> SUFFICES ASSUME NEW k \in 1..c PROVE e(k) \in S
    OBVIOUS
  <2>1. (CHOOSE i \in Stays : Rank(Stays, i) = k) \in Stays
    BY <1>4
  <2> QED
    BY <1>1, <2>1, ElementOfSeq
<1>6. Retain(seq, Stays) = [k \in 1..c |-> e(k)]
  BY <1>2 DEF Retain
<1> HIDE DEF e
<1>7. [k \in 1..c |-> e(k)] \in Seq(S) /\ Len([k \in 1..c |-> e(k)]) = c
  BY <1>2, <1>5
<1> QED
  BY <1>2, <1>3, <1>4, <1>6, <1>7

=============================================================================
