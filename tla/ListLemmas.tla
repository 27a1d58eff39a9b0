----------------------------- MODULE ListLemmas -----------------------------
(***************************************************************************)
(* What the proofs need to know of numbers and lists: induction over the   *)
(* positions of a queue, of a list or of the slots of a table, with the    *)
(* claim given as the set S of the numbers it holds of; the positions of a *)
(* list that is extended or loses its head; the elements of SetToSeq.      *)
(***************************************************************************)
EXTENDS Integers, SequencesExt, WellFoundedInduction, SequenceTheorems, FiniteSetTheorems, TLAPS

\* A non-empty set of naturals has a smallest element.
LEMMA LeastNatural ==
  ASSUME NEW T, T \subseteq Nat, T # {}
  PROVE  \E m \in T : \A n \in T : m <= n
<1> DEFINE R == { ss \in Nat \X Nat : ss[1] < ss[2] }
<1>1. IsWellFoundedOn(R, Nat)
  BY NatLessThanWellFounded DEF OpToRel
<1>2. PICK m \in T : \A y \in T : ~ (<<y, m>> \in R)
  BY <1>1, WFMin
<1>3. ASSUME NEW n \in T PROVE m <= n
  <2>1. m \in Nat /\ n \in Nat
    OBVIOUS
  <2>2. n < m => <<n, m>> \in R
    BY <2>1
  <2> QED BY <2>1, <2>2, <1>2
<1> QED BY <1>3

\* What holds of 0, and of n + 1 whenever it holds of n < N, holds up to N.
LEMMA IntervalInduction ==
  ASSUME NEW N \in Nat, NEW S, 0 \in S,
         \A n \in 0..(N - 1) : n \in S => n + 1 \in S
  PROVE  \A n \in 0..N : n \in S
<1> DEFINE T == { n \in 0..N : n \notin S }
<1>0. SUFFICES T = {}
  OBVIOUS
<1>1. SUFFICES ASSUME T # {} PROVE FALSE
  OBVIOUS
<1>2. T \subseteq Nat
  OBVIOUS
<1>3. PICK m \in T : \A n \in T : m <= n
  BY <1>1, <1>2, LeastNatural
<1>4. m \in 0..N /\ m \notin S /\ m # 0
  OBVIOUS
<1>5. m - 1 \in 0..(N - 1) /\ m - 1 \in 0..N /\ ~ (m <= m - 1) /\ (m - 1) + 1 = m
  BY <1>4
<1>6. m - 1 \in S
  BY <1>3, <1>5
<1> QED BY <1>4, <1>5, <1>6

\* The positions of a list followed by another.
LEMMA ConcatPositions ==
  ASSUME NEW S, NEW q \in Seq(S), NEW r \in Seq(S)
  PROVE  LET u == q \o r
         IN  /\ u \in Seq(S) /\ DOMAIN u = 1..(Len(q) + Len(r))
             /\ \A i \in DOMAIN q : i \in DOMAIN u /\ u[i] = q[i]
             /\ \A j \in DOMAIN r : Len(q) + j \in DOMAIN u /\ u[Len(q) + j] = r[j]
             /\ \A i \in DOMAIN u : \/ i \in DOMAIN q
                                    \/ i - Len(q) \in DOMAIN r /\ u[i] = r[i - Len(q)]
<1> DEFINE u == q \o r
<1>1. /\ u \in Seq(S) /\ Len(u) = Len(q) + Len(r)
      /\ \A i \in 1..(Len(q) + Len(r)) : u[i] = IF i <= Len(q) THEN q[i] ELSE r[i - Len(q)]
  BY ConcatProperties
<1> HIDE DEF u
<1>2. /\ Len(q) \in Nat /\ Len(r) \in Nat
      /\ DOMAIN q = 1..Len(q) /\ DOMAIN r = 1..Len(r) /\ DOMAIN u = 1..(Len(q) + Len(r))
  BY <1>1, LenProperties
<1>3. \A i \in DOMAIN q : i \in DOMAIN u /\ u[i] = q[i]
  BY <1>1, <1>2
<1>4. ASSUME NEW j \in DOMAIN r PROVE Len(q) + j \in DOMAIN u /\ u[Len(q) + j] = r[j]
  <2>1. Len(q) + j \in 1..(Len(q) + Len(r)) /\ ~ (Len(q) + j <= Len(q))
        /\ (Len(q) + j) - Len(q) = j
    BY <1>2
  <2> QED BY <1>1, <1>2, <2>1
<1>5. ASSUME NEW i \in DOMAIN u, i \notin DOMAIN q
      PROVE  i - Len(q) \in DOMAIN r /\ u[i] = r[i - Len(q)]
  <2>1. i \in 1..(Len(q) + Len(r)) /\ ~ (i <= Len(q)) /\ i - Len(q) \in 1..Len(r)
    BY <1>2, <1>5
  <2> QED BY <1>1, <1>2, <2>1
<1> QED BY <1>1, <1>2, <1>3, <1>4, <1>5 DEF u

\* The positions of a list without its head.
LEMMA TailPositions ==
  ASSUME NEW S, NEW q \in Seq(S), q # << >>
  PROVE  LET r == Tail(q)
         IN  /\ r \in Seq(S) /\ Head(q) \in S /\ Head(q) = q[1] /\ 1 \in DOMAIN q
             /\ DOMAIN r \subseteq Nat \ {0}
             /\ \A i \in DOMAIN r : i + 1 \in DOMAIN q /\ r[i] = q[i + 1]
             /\ \A i \in DOMAIN q : i = 1 \/ (i - 1 \in DOMAIN r /\ q[i] = r[i - 1])
<1> DEFINE r == Tail(q)
<1>1. /\ r \in Seq(S) /\ Head(q) = q[1]
      /\ DOMAIN r = 1..(Len(q) - 1)
      /\ DOMAIN q = 1..Len(q)
      /\ Len(q) \in Nat /\ Len(q) >= 1
      /\ \A i \in DOMAIN r : i + 1 \in DOMAIN q /\ r[i] = q[i + 1]
      /\ \A i \in DOMAIN q : i = 1 \/ (i - 1 \in DOMAIN r /\ q[i] = r[i - 1])
      /\ Head(q) \in S
  OBVIOUS
<1> HIDE DEF r
<1>2. 1 \in DOMAIN q /\ DOMAIN r \subseteq Nat \ {0}
  BY <1>1
<1> QED BY <1>1, <1>2 DEF r

\* SetToSeq lists every element of a finite set once.
LEMMA SetToSeqIsListing ==
  ASSUME NEW S, IsFiniteSet(S)
  PROVE  LET q == SetToSeq(S)
         IN  /\ q \in Seq(S) /\ DOMAIN q = 1..Cardinality(S)
             /\ \A i, j \in DOMAIN q : q[i] = q[j] => i = j
             /\ \A x \in S : \E i \in DOMAIN q : q[i] = x
<1> DEFINE n == Cardinality(S)
           q == SetToSeq(S)
<1>1. n \in Nat /\ ExistsBijection(1..n, S)
  BY FS_CardinalityType
<1>2. \E f \in [1..n -> S] : IsInjective(f)
  BY <1>1 DEF ExistsBijection, Bijection, Injection
<1>3. q \in [1..n -> S] /\ IsInjective(q)
  BY <1>2 DEF SetToSeq
<1> HIDE DEF q
<1>4. IsFiniteSet(1..n) /\ Cardinality(1..n) = n
  BY <1>1, FS_Interval
<1>5. q \in Injection(1..n, S)
  BY <1>3 DEF Injection
<1>6. q \in Surjection(1..n, S)
  BY <1>4, <1>5, FS_Injection
<1>7. \A x \in S : \E i \in 1..n : q[i] = x
  BY <1>6 DEF Surjection
<1>8. q \in Seq(S)
  BY <1>1, <1>3, IsASeq
<1>9. \A i, j \in DOMAIN q : q[i] = q[j] => i = j
  BY <1>3 DEF IsInjective
<1> QED BY <1>3, <1>7, <1>8, <1>9 DEF q
=============================================================================
