--------------------------- MODULE SequenceLemmas ---------------------------
(***************************************************************************)
(* What the run queue of the runtime, the queue of the blocking pool and   *)
(* the waiters of a semaphore have in common: sequences in which nobody    *)
(* stands twice, to which an element is appended and from which the head   *)
(* or the first occurrence of an element is taken.                         *)
(***************************************************************************)
EXTENDS SequencesExt, Integers, SequenceTheorems, WellFoundedInduction, TLAPS

(* Induction: a set of numbers that is not empty has a least element. *)
LEMMA LeastNat ==
  ASSUME NEW T, T \subseteq Nat, T # {}
  PROVE  \E m \in T : \A k \in T : m <= k
  <1> DEFINE R == {x \in Nat \X Nat : x[1] < x[2]}
  <1>1. IsWellFoundedOn(R, Nat)
    BY NatLessThanWellFounded DEF OpToRel
  <1>2. PICK m \in T : \A k \in T : ~ (<<k, m>> \in R)
    <2> HIDE DEF R
    <2> QED BY <1>1, WFMin
  <1>3. \A k \in T : m <= k
    <2> SUFFICES ASSUME NEW k \in T, k < m PROVE FALSE
      OBVIOUS
    <2>1. <<k, m>> \in R
      OBVIOUS
    <2> QED
      BY <1>2, <2>1
  <1> QED
    BY <1>3

(* Nobody stands twice in s. *)
Distinct(s) == \A i, j \in 1..Len(s) : s[i] = s[j] => i = j

LEMMA ElementIndex ==
  ASSUME NEW S, NEW s \in Seq(S)
  PROVE  \A e : e \in ToSet(s) <=> \E i \in 1..Len(s) : s[i] = e
  BY DEF ToSet

LEMMA EmptySequence == ToSet(<<>>) = {} /\ Distinct(<<>>)
  <1>1. ToSet(<<>>) = {}
    BY DEF ToSet
  <1>2. Distinct(<<>>)
    BY DEF Distinct
  <1> QED
    BY <1>1, <1>2

LEMMA AppendSet ==
  ASSUME NEW S, NEW s \in Seq(S), NEW e \in S
  PROVE  /\ Append(s, e) \in Seq(S)
         /\ Len(Append(s, e)) = Len(s) + 1
         /\ ToSet(Append(s, e)) = ToSet(s) \union {e}
         /\ Append(s, e) # <<>>
  <1>1. /\ Append(s, e) \in Seq(S)
        /\ Len(Append(s, e)) = Len(s) + 1
        /\ \A i \in 1..Len(s) : Append(s, e)[i] = s[i]
        /\ Append(s, e)[Len(s) + 1] = e
    BY AppendProperties
  <1>2. \A x : (\E i \in 1..Len(Append(s, e)) : Append(s, e)[i] = x)
                  <=> (\E i \in 1..Len(s) : s[i] = x) \/ x = e
    BY <1>1
  <1>3. ASSUME NEW x PROVE x \in ToSet(Append(s, e)) <=> x \in ToSet(s) \/ x = e
    <2>1. x \in ToSet(Append(s, e)) <=> \E i \in 1..Len(Append(s, e)) : Append(s, e)[i] = x
      BY <1>1, ElementIndex
    <2>2. x \in ToSet(s) <=> \E i \in 1..Len(s) : s[i] = x
      BY ElementIndex
    <2> QED
      BY <1>2, <2>1, <2>2
  <1>4. ToSet(Append(s, e)) = ToSet(s) \union {e}
    BY <1>3
  <1> QED
    BY <1>1, <1>4

LEMMA AppendDistinct ==
  ASSUME NEW S, NEW s \in Seq(S), NEW e \in S, Distinct(s), e \notin ToSet(s)
  PROVE  Distinct(Append(s, e))
  <1>1. /\ Len(Append(s, e)) = Len(s) + 1
        /\ \A i \in 1..Len(s) : Append(s, e)[i] = s[i]
        /\ Append(s, e)[Len(s) + 1] = e
    BY AppendProperties
  <1>2. \A i \in 1..Len(s) : s[i] # e
    BY ElementIndex
  <1> QED
    BY <1>1, <1>2 DEF Distinct

LEMMA TailSet ==
  ASSUME NEW S, NEW s \in Seq(S), s # <<>>, Distinct(s)
  PROVE  /\ Head(s) \in S
         /\ Head(s) \in ToSet(s)
         /\ Tail(s) \in Seq(S)
         /\ Len(s) \in Nat \ {0}
         /\ Len(Tail(s)) = Len(s) - 1
         /\ ToSet(Tail(s)) = ToSet(s) \ {Head(s)}
         /\ Distinct(Tail(s))
  <1>1. /\ Tail(s) \in Seq(S)
        /\ Len(Tail(s)) = Len(s) - 1
        /\ \A i \in 1..Len(Tail(s)) : Tail(s)[i] = s[i + 1]
        /\ Head(s) = s[1]
        /\ Len(s) \in Nat \ {0}
        /\ Head(s) \in S
    BY HeadTailProperties
  <1>2. ASSUME NEW x, x \in ToSet(s), x # Head(s) PROVE \E i \in 1..Len(Tail(s)) : Tail(s)[i] = x
    <2>1. PICK i \in 1..Len(s) : s[i] = x
      BY <1>2, ElementIndex
    <2>2. i - 1 \in 1..Len(Tail(s))
      BY <1>1, <1>2, <2>1
    <2> QED
      BY <1>1, <2>1, <2>2
  <1>3. \A i \in 1..Len(Tail(s)) : Tail(s)[i] \in ToSet(s) /\ Tail(s)[i] # Head(s)
    BY <1>1, ElementIndex DEF Distinct
  <1>4. ToSet(Tail(s)) = ToSet(s) \ {Head(s)}
    <2>1. ASSUME NEW x, x \in ToSet(Tail(s)) PROVE x \in ToSet(s) /\ x # Head(s)
      <3>1. PICK i \in 1..Len(Tail(s)) : Tail(s)[i] = x
        BY <1>1, <2>1, ElementIndex
      <3> QED
        BY <1>3, <3>1
    <2>2. ASSUME NEW x, x \in ToSet(s), x # Head(s) PROVE x \in ToSet(Tail(s))
      BY <1>1, <1>2, <2>2, ElementIndex
    <2> QED
      BY <2>1, <2>2
  <1>5. Distinct(Tail(s))
    BY <1>1 DEF Distinct
  <1>6. Head(s) \in ToSet(s)
    BY <1>1, ElementIndex
  <1> QED
    BY <1>1, <1>4, <1>5, <1>6

LEMMA RemoveAtIndex ==
  ASSUME NEW S, NEW s \in Seq(S), NEW k \in 1..Len(s)
  PROVE  /\ RemoveAt(s, k) \in Seq(S)
         /\ Len(RemoveAt(s, k)) = Len(s) - 1
         /\ \A i \in 1..(Len(s) - 1) : RemoveAt(s, k)[i] = IF i < k THEN s[i] ELSE s[i + 1]
  <1> DEFINE a == SubSeq(s, 1, k - 1)
             b == SubSeq(s, k + 1, Len(s))
  <1>1. /\ a \in Seq(S) /\ Len(a) = k - 1
        /\ \A i \in 1..(k - 1) : a[i] = s[i]
    BY SubSeqProperties
  <1>2. /\ b \in Seq(S) /\ Len(b) = Len(s) - k
        /\ \A i \in 1..(Len(s) - k) : b[i] = s[k + i]
    BY SubSeqProperties
  <1>3. RemoveAt(s, k) = a \o b
    BY DEF RemoveAt
  <1> HIDE DEF a, b
  <1>4. /\ a \o b \in Seq(S)
        /\ Len(a \o b) = Len(s) - 1
        /\ \A i \in 1..(Len(s) - 1) : (a \o b)[i] = IF i <= k - 1 THEN a[i] ELSE b[i - (k - 1)]
    BY <1>1, <1>2, ConcatProperties
  <1>5. \A i \in 1..(Len(s) - 1) : (a \o b)[i] = IF i < k THEN s[i] ELSE s[i + 1]
    BY <1>1, <1>2, <1>4
  <1> QED
    BY <1>3, <1>4, <1>5

LEMMA RemoveAtHead ==
  ASSUME NEW S, NEW s \in Seq(S), s # <<>>
  PROVE  RemoveAt(s, 1) = Tail(s)
  <1> DEFINE r == RemoveAt(s, 1)
             u == Tail(s)
  <1>1. Len(s) \in Nat \ {0} /\ 1 \in 1..Len(s)
    BY EmptySeq
  <1>2. /\ u \in Seq(S) /\ Len(u) = Len(s) - 1
        /\ \A i \in 1..Len(u) : u[i] = s[i + 1]
    BY HeadTailProperties
  <1>3. /\ r \in Seq(S) /\ Len(r) = Len(s) - 1
        /\ \A i \in 1..(Len(s) - 1) : r[i] = IF i < 1 THEN s[i] ELSE s[i + 1]
    BY <1>1, RemoveAtIndex
  <1> HIDE DEF r, u
  <1>4. r = u
    BY <1>1, <1>2, <1>3, SeqEqual
  <1> QED
    BY <1>4 DEF r, u

(* A part of a sequence. *)
LEMMA Cut ==
  ASSUME NEW S, NEW s \in Seq(S), NEW m \in Int, NEW n \in Int, 1 <= m, n <= Len(s)
  PROVE  /\ SubSeq(s, m, n) \in Seq(S)
         /\ Len(SubSeq(s, m, n)) = IF m <= n THEN n - m + 1 ELSE 0
         /\ \A i \in 1..(n - m + 1) : SubSeq(s, m, n)[i] = s[m + i - 1]
         /\ SubSeq(s, m, n) = <<>> <=> n < m
         /\ \A x : x \in ToSet(SubSeq(s, m, n)) <=> \E i \in m..n : s[i] = x
  <1> DEFINE d == SubSeq(s, m, n)
  <1>1. /\ d \in Seq(S)
        /\ Len(d) = IF m <= n THEN n - m + 1 ELSE 0
        /\ \A i \in 1..(n - m + 1) : d[i] = s[m + i - 1]
    BY SubSeqProperties
  <1>2. d = <<>> <=> n < m
    BY <1>1, EmptySeq, SubSeqEmpty
  <1> HIDE DEF d
  <1>3. ASSUME NEW x PROVE x \in ToSet(d) <=> \E i \in m..n : s[i] = x
    <2>1. ASSUME NEW i \in m..n, s[i] = x PROVE x \in ToSet(d)
      <3>0. m \in Int /\ n \in Int /\ i \in Int /\ m <= i /\ i <= n
        OBVIOUS
      <3>1. i - m + 1 \in 1..Len(d) /\ d[i - m + 1] = x
        <4>1. i - m + 1 \in 1..(n - m + 1) /\ m + (i - m + 1) - 1 = i /\ Len(d) = n - m + 1
          BY <1>1, <3>0
        <4> QED
          BY <1>1, <2>1, <4>1
      <3> QED
        BY <1>1, <3>1, ElementIndex
    <2>2. ASSUME NEW i \in 1..Len(d), d[i] = x PROVE \E j \in m..n : s[j] = x
      <3>1. m + i - 1 \in m..n /\ i \in 1..(n - m + 1)
        BY <1>1, <2>2
      <3> QED
        BY <1>1, <2>2, <3>1
    <2> QED
      BY <1>1, <2>1, <2>2, ElementIndex
  <1> QED
    BY <1>1, <1>2, <1>3 DEF d

(* Taking out element k of a sequence without repetitions. *)
LEMMA RemoveAtSet ==
  ASSUME NEW S, NEW s \in Seq(S), Distinct(s), NEW k \in 1..Len(s)
  PROVE  /\ ToSet(RemoveAt(s, k)) = ToSet(s) \ {s[k]}
         /\ Distinct(RemoveAt(s, k))
  <1> DEFINE r == RemoveAt(s, k)
  <1>1. /\ r \in Seq(S)
        /\ Len(r) = Len(s) - 1
        /\ \A i \in 1..(Len(s) - 1) : r[i] = IF i < k THEN s[i] ELSE s[i + 1]
    BY RemoveAtIndex
  <1> HIDE DEF r
  <1>2. ASSUME NEW x, x \in ToSet(s), x # s[k] PROVE x \in ToSet(r)
    <2>1. PICK i \in 1..Len(s) : s[i] = x
      BY <1>2, ElementIndex
    <2>2. CASE i < k
      BY <1>1, <2>1, <2>2, ElementIndex
    <2>3. CASE i > k
      <3>1. i - 1 \in 1..(Len(s) - 1) /\ r[i - 1] = x
        BY <1>1, <2>1, <2>3
      <3> QED
        BY <1>1, <3>1, ElementIndex
    <2> QED
      BY <1>2, <2>1, <2>2, <2>3
  <1>3. ASSUME NEW x, x \in ToSet(r) PROVE x \in ToSet(s) /\ x # s[k]
    <2>1. PICK i \in 1..Len(r) : r[i] = x
      BY <1>1, <1>3, ElementIndex
    <2>2. PICK j \in 1..Len(s) : j # k /\ s[j] = x
      BY <1>1, <2>1
    <2> QED
      BY <2>2, ElementIndex DEF Distinct
  <1>4. ToSet(r) = ToSet(s) \ {s[k]}
    BY <1>2, <1>3
  <1>5. ASSUME NEW i \in 1..Len(r), NEW j \in 1..Len(r), r[i] = r[j] PROVE i = j
    <2> DEFINE old(x) == IF x < k THEN x ELSE x + 1
    <2>1. \A x \in 1..Len(r) : old(x) \in 1..Len(s) /\ r[x] = s[old(x)]
      BY <1>1
    <2>2. \A x, y \in 1..Len(r) : old(x) = old(y) => x = y
      BY <1>1
    <2> HIDE DEF old
    <2>3. old(i) = old(j)
      BY <1>5, <2>1 DEF Distinct
    <2> QED
      BY <2>2, <2>3
  <1> QED
    BY <1>4, <1>5 DEF r, Distinct
=============================================================================
