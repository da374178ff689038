----------------------------- MODULE ListLemmas -----------------------------
(***************************************************************************)
(* The pointer operations of IntrusiveList on the sequence that a list     *)
(* stands for: linking a node at the head puts it before the others, and   *)
(* unlinking one, wherever it stands, takes it out and nothing else.       *)
(***************************************************************************)
EXTENDS IntrusiveList, SequenceLemmas

Lists == [head : Nodes \union {Nil}, tail : Nodes \union {Nil},
          prev : [Nodes -> Nodes \union {Nil}], next : [Nodes -> Nodes \union {Nil}]]

LEMMA EmptyListRepresents == EmptyList \in Lists /\ Represents(EmptyList, <<>>)
  BY DEF EmptyList, Lists, Represents

LEMMA RepresentsDistinct ==
  ASSUME NEW l, NEW s, Represents(l, s)
  PROVE  Distinct(s)
  BY DEF Represents, Distinct

LEMMA Prepended ==
  ASSUME NEW S, NEW s \in Seq(S), NEW g \in S
  PROVE  /\ <<g>> \o s \in Seq(S)
         /\ Len(<<g>> \o s) = Len(s) + 1
         /\ (<<g>> \o s)[1] = g
         /\ \A i \in 2..(Len(s) + 1) : (<<g>> \o s)[i] = s[i - 1]
         /\ ToSet(<<g>> \o s) = ToSet(s) \union {g}
  <1> DEFINE r == <<g>> \o s
  <1>1. <<g>> \in Seq(S) /\ Len(<<g>>) = 1 /\ <<g>>[1] = g
    OBVIOUS
  <1>2. /\ r \in Seq(S)
        /\ Len(r) = Len(s) + 1
        /\ \A i \in 1..(Len(s) + 1) : r[i] = IF i <= 1 THEN g ELSE s[i - 1]
    BY <1>1, ConcatProperties
  <1> HIDE DEF r
  <1>3. ASSUME NEW x, x \in ToSet(r) PROVE x \in ToSet(s) \union {g}
    <2>1. PICK i \in 1..Len(r) : r[i] = x
      BY <1>2, <1>3, ElementIndex
    <2>2. i > 1 => x \in ToSet(s)
      BY <1>2, <2>1, ElementIndex
    <2> QED
      BY <1>2, <2>1, <2>2
  <1>4. ASSUME NEW x, x \in ToSet(s) \union {g} PROVE x \in ToSet(r)
    <2>1. CASE x = g
      BY <1>2, <2>1, ElementIndex
    <2>2. CASE x \in ToSet(s)
      <3>1. PICK i \in 1..Len(s) : s[i] = x
        BY <2>2, ElementIndex
      <3>2. i + 1 \in 1..Len(r) /\ r[i + 1] = x
        BY <1>2, <3>1
      <3> QED
        BY <1>2, <3>2, ElementIndex
    <2> QED
      BY <1>4, <2>1, <2>2
  <1> QED
    BY <1>2, <1>3, <1>4 DEF r

LEMMA LinkHeadType ==
  ASSUME NEW l \in Lists, NEW g \in Nodes
  PROVE  /\ LinkHead(l, g) \in Lists
         /\ LinkHead(l, g).head = g
         /\ LinkHead(l, g).tail = l.tail
         /\ \A n \in Nodes : LinkHead(l, g).next[n] = IF n = g THEN l.head ELSE l.next[n]
         /\ \A n \in Nodes : LinkHead(l, g).prev[n] =
                IF n = g THEN Nil ELSE IF n = l.head THEN g ELSE l.prev[n]
  BY DEF Lists, LinkHead

LEMMA LinkHeadList ==
  ASSUME NEW l \in Lists, NEW s \in Seq(Nodes), Represents(l, s),
         NEW g \in Nodes, g \notin ToSet(s)
  PROVE  Represents(LinkHead(l, g), <<g>> \o s)
  <1> DEFINE r == <<g>> \o s
             k == LinkHead(l, g)
  <1>1. /\ r \in Seq(Nodes) /\ Len(r) = Len(s) + 1
        /\ r[1] = g /\ \A i \in 2..Len(r) : r[i] = s[i - 1]
    BY Prepended
  <1>2. /\ k.head = g
        /\ \A n \in Nodes : k.next[n] = IF n = g THEN l.head ELSE l.next[n]
        /\ \A n \in Nodes : k.prev[n] = IF n = g THEN Nil ELSE IF n = l.head THEN g ELSE l.prev[n]
    BY LinkHeadType
  <1>3. \A i \in 1..Len(s) : s[i] # g /\ s[i] \in Nodes
    BY ElementIndex
  <1> HIDE DEF r, k
  <1>4. ASSUME NEW i \in 1..Len(r), NEW j \in 1..Len(r), r[i] = r[j] PROVE i = j
    <2>1. \A x \in 2..Len(r) : x - 1 \in 1..Len(s) /\ r[x] = s[x - 1] /\ r[x] # g
      BY <1>1, <1>3
    <2>2. i = 1 \/ i \in 2..Len(r)
      OBVIOUS
    <2>3. j = 1 \/ j \in 2..Len(r)
      OBVIOUS
    <2>4. CASE i \in 2..Len(r) /\ j \in 2..Len(r)
      <3>1. /\ i - 1 \in 1..Len(s) /\ j - 1 \in 1..Len(s)
            /\ s[i - 1] = s[j - 1]
        BY <1>4, <2>1, <2>4
      <3>2. i - 1 = j - 1
        BY <3>1, Zenon DEF Represents
      <3> QED
        BY <3>2
    <2> QED
      BY <1>1, <1>4, <2>1, <2>2, <2>3, <2>4
  <1>5. ASSUME NEW i \in 1..Len(r)
        PROVE  /\ k.next[r[i]] = IF i = Len(r) THEN Nil ELSE r[i + 1]
               /\ k.prev[r[i]] = IF i = 1 THEN Nil ELSE r[i - 1]
    <2>1. CASE i = 1
      BY <1>1, <1>2, <2>1 DEF Represents
    <2>2. CASE i > 1
      <3> DEFINE j == i - 1
      <3>1. j \in 1..Len(s) /\ r[i] = s[j] /\ s[j] \in Nodes /\ s[j] # g
        BY <1>1, <1>3, <2>2
      <3>2. k.next[s[j]] = IF j = Len(s) THEN Nil ELSE s[j + 1]
        BY <1>2, <3>1 DEF Represents
      <3>3. i < Len(r) => r[i + 1] = s[j + 1]
        BY <1>1, <2>2
      <3>4. k.prev[s[j]] = IF j = 1 THEN g ELSE s[j - 1]
        BY <1>2, <3>1 DEF Represents
      <3>5. r[i - 1] = IF j = 1 THEN g ELSE s[j - 1]
        BY <1>1, <2>2
      <3> QED
        BY <1>1, <2>2, <3>1, <3>2, <3>3, <3>4, <3>5
    <2> QED
      BY <2>1, <2>2
  <1>6. ASSUME NEW n \in Nodes, \A i \in 1..Len(r) : r[i] # n
        PROVE  k.next[n] = Nil /\ k.prev[n] = Nil
    <2>1. n # g /\ \A i \in 1..Len(s) : s[i] # n
      <3>1. \A i \in 1..Len(s) : i + 1 \in 1..Len(r) /\ r[i + 1] = s[i]
        BY <1>1
      <3> QED
        BY <1>1, <1>6, <3>1
    <2>2. n # l.head
      BY <2>1, NilAssumption DEF Represents
    <2> QED
      BY <1>2, <2>1, <2>2 DEF Represents
  <1>7. k.head = r[1] /\ Len(r) # 0
    BY <1>1, <1>2
  <1> QED
    BY <1>4, <1>5, <1>6, <1>7 DEF Represents, r, k

LEMMA UnlinkType ==
  ASSUME NEW l \in Lists, NEW w \in Nodes
  PROVE  /\ Unlink(l, w) \in Lists
         /\ Unlink(l, w).tail = l.tail
         /\ Unlink(l, w).head = IF l.prev[w] = Nil THEN l.next[w] ELSE l.head
         /\ \A n \in Nodes : Unlink(l, w).next[n] =
                IF n = w THEN Nil ELSE IF n = l.prev[w] THEN l.next[w] ELSE l.next[n]
         /\ \A n \in Nodes : Unlink(l, w).prev[n] =
                IF n = w THEN Nil ELSE IF n = l.next[w] THEN l.prev[w] ELSE l.prev[n]
  BY DEF Lists, Unlink, Bypassed

LEMMA UnlinkList ==
  ASSUME NEW l \in Lists, NEW s \in Seq(Nodes), Represents(l, s), NEW k \in 1..Len(s)
  PROVE  Represents(Unlink(l, s[k]), RemoveAt(s, k))
  <1> DEFINE w == s[k]
             u == Unlink(l, w)
             r == RemoveAt(s, k)
  <1>0. w \in Nodes
    BY ElementOfSeq
  <1>1. /\ r \in Seq(Nodes) /\ Len(r) = Len(s) - 1
        /\ \A i \in 1..(Len(s) - 1) : r[i] = IF i < k THEN s[i] ELSE s[i + 1]
    BY RemoveAtIndex
  <1>2. /\ u.head = IF l.prev[w] = Nil THEN l.next[w] ELSE l.head
        /\ \A n \in Nodes : u.next[n] =
               IF n = w THEN Nil ELSE IF n = l.prev[w] THEN l.next[w] ELSE l.next[n]
        /\ \A n \in Nodes : u.prev[n] =
               IF n = w THEN Nil ELSE IF n = l.next[w] THEN l.prev[w] ELSE l.prev[n]
    BY <1>0, UnlinkType
  <1>3. /\ l.next[w] = IF k = Len(s) THEN Nil ELSE s[k + 1]
        /\ l.prev[w] = IF k = 1 THEN Nil ELSE s[k - 1]
    BY DEF Represents
  <1>4. Distinct(s) /\ \A i \in 1..Len(s) : s[i] \in Nodes /\ s[i] # Nil
    BY RepresentsDistinct, NilAssumption, ElementOfSeq
  <1> HIDE DEF w, u, r
  <1>5. \A i, j \in 1..Len(r) : r[i] = r[j] => i = j
    BY <1>4, RemoveAtSet DEF Distinct, r
  <1>6. u.head = IF Len(r) = 0 THEN Nil ELSE r[1]
    BY <1>1, <1>2, <1>3, <1>4 DEF Represents
  <1>7. ASSUME NEW i \in 1..Len(r)
        PROVE  /\ u.next[r[i]] = IF i = Len(r) THEN Nil ELSE r[i + 1]
               /\ u.prev[r[i]] = IF i = 1 THEN Nil ELSE r[i - 1]
    <2>1. \A j \in 1..Len(s) : j # k => s[j] # w
      BY <1>4 DEF Distinct, w
    <2>2. ASSUME NEW j \in 1..Len(s), j # k
          PROVE  /\ u.next[s[j]] = IF j + 1 = k THEN l.next[w] ELSE l.next[s[j]]
                 /\ u.prev[s[j]] = IF j = k + 1 THEN l.prev[w] ELSE l.prev[s[j]]
      BY <1>2, <1>3, <1>4, <2>1, <2>2 DEF Distinct
    <2>3. ASSUME NEW j \in 1..Len(s), j # k
          PROVE  /\ u.next[s[j]] = IF j + 1 = k THEN (IF k = Len(s) THEN Nil ELSE s[k + 1])
                                   ELSE IF j = Len(s) THEN Nil ELSE s[j + 1]
                 /\ u.prev[s[j]] = IF j = k + 1 THEN (IF k = 1 THEN Nil ELSE s[k - 1])
                                   ELSE IF j = 1 THEN Nil ELSE s[j - 1]
      BY <1>3, <2>2, <2>3 DEF Represents
    <2>4. CASE i < k
      <3>1. i \in 1..Len(s) /\ i # k /\ r[i] = s[i]
        BY <1>1, <2>4
      <3>2. u.next[s[i]] = IF i = Len(r) THEN Nil ELSE r[i + 1]
        <4>1. u.next[s[i]] = IF i + 1 = k THEN (IF k = Len(s) THEN Nil ELSE s[k + 1])
                             ELSE IF i = Len(s) THEN Nil ELSE s[i + 1]
          BY <2>3, <3>1
        <4> QED
          BY <1>1, <2>4, <4>1
      <3>3. u.prev[s[i]] = IF i = 1 THEN Nil ELSE r[i - 1]
        <4>1. u.prev[s[i]] = IF i = k + 1 THEN (IF k = 1 THEN Nil ELSE s[k - 1])
                             ELSE IF i = 1 THEN Nil ELSE s[i - 1]
          BY <2>3, <3>1
        <4> QED
          BY <1>1, <2>4, <4>1
      <3> QED
        BY <3>1, <3>2, <3>3
    <2>5. CASE i >= k
      <3> DEFINE j == i + 1
      <3>1. j \in 1..Len(s) /\ j # k /\ r[i] = s[j]
        BY <1>1, <2>5
      <3>2. u.next[s[j]] = IF i = Len(r) THEN Nil ELSE r[i + 1]
        <4>1. u.next[s[j]] = IF j + 1 = k THEN (IF k = Len(s) THEN Nil ELSE s[k + 1])
                             ELSE IF j = Len(s) THEN Nil ELSE s[j + 1]
          BY <2>3, <3>1
        <4> QED
          BY <1>1, <2>5, <4>1
      <3>3. u.prev[s[j]] = IF i = 1 THEN Nil ELSE r[i - 1]
        <4>1. u.prev[s[j]] = IF j = k + 1 THEN (IF k = 1 THEN Nil ELSE s[k - 1])
                             ELSE IF j = 1 THEN Nil ELSE s[j - 1]
          BY <2>3, <3>1
        <4> QED
          BY <1>1, <2>5, <4>1
      <3> QED
        BY <3>1, <3>2, <3>3
    <2> QED
      BY <2>4, <2>5, <1>1
  <1>8. ASSUME NEW n \in Nodes, \A i \in 1..Len(r) : r[i] # n
        PROVE  u.next[n] = Nil /\ u.prev[n] = Nil
    <2>1. CASE n = w
      BY <1>2, <2>1
    <2>2. CASE n # w
      <3>1. n \notin ToSet(r) /\ ToSet(r) = ToSet(s) \ {w}
        BY <1>1, <1>4, <1>8, RemoveAtSet, ElementIndex DEF r, w
      <3>2. \A i \in 1..Len(s) : s[i] # n
        BY <2>2, <3>1, ElementIndex
      <3>3. l.next[n] = Nil /\ l.prev[n] = Nil
        BY <3>2 DEF Represents
      <3>4. n # l.prev[w] /\ n # l.next[w]
        BY <1>3, <3>2, NilAssumption
      <3> QED
        BY <1>2, <2>2, <3>3, <3>4
    <2> QED
      BY <2>1, <2>2
  <1> QED
    BY <1>5, <1>6, <1>7, <1>8 DEF Represents, u, r, w

-----------------------------------------------------------------------------
(* The list with a tail, as the semaphore's waiters form it.               *)

QueueOf(l, s) ==
    /\ Represents(l, s)
    /\ l.tail = IF s = <<>> THEN Nil ELSE Last(s)

LEMMA LastElement ==
  ASSUME NEW S, NEW s \in Seq(S)
  PROVE  /\ s = <<>> <=> Len(s) = 0
         /\ s # <<>> => Len(s) \in 1..Len(s) /\ Last(s) = s[Len(s)]
  BY EmptySeq DEF Last

LEMMA LinkTailType ==
  ASSUME NEW l \in Lists, NEW w \in Nodes
  PROVE  /\ LinkTail(l, w) \in Lists
         /\ LinkTail(l, w).head = IF l.tail = Nil THEN w ELSE l.head
         /\ LinkTail(l, w).tail = w
         /\ \A n \in Nodes : LinkTail(l, w).next[n] =
                IF n = w THEN Nil ELSE IF n = l.tail THEN w ELSE l.next[n]
         /\ \A n \in Nodes : LinkTail(l, w).prev[n] = IF n = w THEN l.tail ELSE l.prev[n]
  BY DEF Lists, LinkTail

(* link_tail() appends.                                                    *)
LEMMA LinkTailQueue ==
  ASSUME NEW l \in Lists, NEW s \in Seq(Nodes), QueueOf(l, s),
         NEW w \in Nodes, w \notin ToSet(s)
  PROVE  QueueOf(LinkTail(l, w), Append(s, w))
  <1> DEFINE r == Append(s, w)
             k == LinkTail(l, w)
  <1>1. /\ r \in Seq(Nodes) /\ Len(r) = Len(s) + 1 /\ Len(s) \in Nat
        /\ r[Len(r)] = w /\ \A i \in 1..Len(s) : r[i] = s[i]
    BY AppendProperties
  <1>2. /\ k.head = IF l.tail = Nil THEN w ELSE l.head
        /\ k.tail = w
        /\ \A n \in Nodes : k.next[n] =
               IF n = w THEN Nil ELSE IF n = l.tail THEN w ELSE l.next[n]
        /\ \A n \in Nodes : k.prev[n] = IF n = w THEN l.tail ELSE l.prev[n]
    BY LinkTailType
  <1>3. \A i \in 1..Len(s) : s[i] # w /\ s[i] \in Nodes /\ s[i] # Nil
    BY ElementIndex, ElementOfSeq, NilAssumption
  <1>4. /\ Represents(l, s)
        /\ l.tail = IF Len(s) = 0 THEN Nil ELSE s[Len(s)]
    BY LastElement DEF QueueOf
  <1>5. Distinct(s)
    BY <1>4, RepresentsDistinct
  <1>6. Distinct(r)
    BY <1>5, AppendDistinct
  <1> HIDE DEF r, k
  <1>7. k.head = r[1] /\ Len(r) # 0
    BY <1>1, <1>2, <1>3, <1>4 DEF Represents
  <1>8. ASSUME NEW i \in 1..Len(r)
        PROVE  /\ k.next[r[i]] = IF i = Len(r) THEN Nil ELSE r[i + 1]
               /\ k.prev[r[i]] = IF i = 1 THEN Nil ELSE r[i - 1]
    <2>1. CASE i = Len(r)
      BY <1>1, <1>2, <1>4, <2>1
    <2>2. CASE i < Len(s)
      <3>1. r[i] = s[i] /\ r[i + 1] = s[i + 1] /\ (i # 1 => r[i - 1] = s[i - 1])
        BY <1>1, <2>2
      <3>2. s[i] # l.tail
        BY <1>4, <1>5, <2>2 DEF Distinct
      <3>3. /\ l.next[s[i]] = s[i + 1]
            /\ l.prev[s[i]] = IF i = 1 THEN Nil ELSE s[i - 1]
        BY <1>4, <2>2 DEF Represents
      <3> QED
        BY <1>1, <1>2, <1>3, <2>2, <3>1, <3>2, <3>3
    <2>3. CASE i = Len(s)
      <3>1. r[i] = s[i] /\ r[i + 1] = w /\ (i # 1 => r[i - 1] = s[i - 1])
        BY <1>1, <2>3
      <3>2. s[i] = l.tail
        BY <1>4, <2>3
      <3>3. l.prev[s[i]] = IF i = 1 THEN Nil ELSE s[i - 1]
        BY <1>4, <2>3 DEF Represents
      <3> QED
        BY <1>1, <1>2, <1>3, <2>3, <3>1, <3>2, <3>3
    <2> QED
      BY <1>1, <2>1, <2>2, <2>3
  <1>9. ASSUME NEW n \in Nodes, \A i \in 1..Len(r) : r[i] # n
        PROVE  k.next[n] = Nil /\ k.prev[n] = Nil
    <2>1. n # w /\ \A i \in 1..Len(s) : s[i] # n
      <3>1. Len(r) \in 1..Len(r) /\ \A i \in 1..Len(s) : i \in 1..Len(r)
        BY <1>1
      <3> QED
        BY <1>1, <1>9, <3>1
    <2>2. n # l.tail
      BY <1>1, <1>4, <2>1, NilAssumption
    <2> QED
      BY <1>2, <1>4, <2>1, <2>2 DEF Represents
  <1>10. Represents(k, r)
    BY <1>6, <1>7, <1>8, <1>9 DEF Represents, Distinct
  <1>11. k.tail = Last(r) /\ r # <<>>
    BY <1>1, <1>2, LastElement
  <1> QED
    BY <1>10, <1>11 DEF QueueOf, k, r

LEMMA UnlinkQueuedType ==
  ASSUME NEW l \in Lists, NEW w \in Nodes
  PROVE  /\ UnlinkQueued(l, w) \in Lists
         /\ UnlinkQueued(l, w).head = Unlink(l, w).head
         /\ UnlinkQueued(l, w).next = Unlink(l, w).next
         /\ UnlinkQueued(l, w).prev = Unlink(l, w).prev
         /\ UnlinkQueued(l, w).tail = IF l.next[w] = Nil THEN l.prev[w] ELSE l.tail
  <1> DEFINE u == Unlink(l, w)
             e == IF l.next[w] = Nil THEN l.prev[w] ELSE l.tail
  <1>1. u \in Lists
    BY UnlinkType
  <1>2. e \in Nodes \union {Nil}
    BY DEF Lists
  <1>3. UnlinkQueued(l, w) = [u EXCEPT !.tail = e]
    BY DEF UnlinkQueued
  <1> HIDE DEF u, e
  <1>4. /\ [u EXCEPT !.tail = e] \in Lists
        /\ [u EXCEPT !.tail = e].head = u.head
        /\ [u EXCEPT !.tail = e].next = u.next
        /\ [u EXCEPT !.tail = e].prev = u.prev
        /\ [u EXCEPT !.tail = e].tail = e
    BY <1>1, <1>2 DEF Lists
  <1> QED
    BY <1>3, <1>4 DEF u, e

(* state::unlink() takes out one waiter, wherever he stands.               *)
LEMMA UnlinkQueue ==
  ASSUME NEW l \in Lists, NEW s \in Seq(Nodes), QueueOf(l, s), NEW k \in 1..Len(s)
  PROVE  QueueOf(UnlinkQueued(l, s[k]), RemoveAt(s, k))
  <1> DEFINE w == s[k]
             u == UnlinkQueued(l, w)
             r == RemoveAt(s, k)
  <1>1. w \in Nodes /\ Len(s) \in Nat \ {0}
    BY ElementOfSeq
  <1>2. /\ r \in Seq(Nodes) /\ Len(r) = Len(s) - 1
        /\ \A i \in 1..(Len(s) - 1) : r[i] = IF i < k THEN s[i] ELSE s[i + 1]
    BY RemoveAtIndex
  <1>3. /\ Represents(l, s)
        /\ l.tail = s[Len(s)]
        /\ \A i \in 1..Len(s) : s[i] # Nil
    BY <1>1, LastElement, ElementOfSeq, NilAssumption DEF QueueOf
  <1>4. Represents(u, r)
    <2>1. Represents(Unlink(l, w), r)
      BY <1>3, UnlinkList
    <2>2. /\ u.head = Unlink(l, w).head
          /\ u.next = Unlink(l, w).next
          /\ u.prev = Unlink(l, w).prev
      BY <1>1, UnlinkQueuedType
    <2> HIDE DEF u, r, w
    <2> QED
      BY <2>1, <2>2 DEF Represents
  <1>5. u.tail = IF l.next[w] = Nil THEN l.prev[w] ELSE l.tail
    BY <1>1, UnlinkQueuedType
  <1>6. /\ l.next[w] = IF k = Len(s) THEN Nil ELSE s[k + 1]
        /\ l.prev[w] = IF k = 1 THEN Nil ELSE s[k - 1]
    BY <1>3 DEF Represents
  <1>7. /\ r = <<>> <=> Len(r) = 0
        /\ r # <<>> => Last(r) = r[Len(r)]
    BY <1>2, LastElement
  <1> HIDE DEF u, r, w
  <1>8. u.tail = IF Len(s) < 2 THEN Nil
                 ELSE IF k = Len(s) THEN s[k - 1] ELSE s[Len(s)]
    <2>1. CASE k = Len(s)
      BY <1>5, <1>6, <2>1
    <2>2. CASE k < Len(s)
      <3>1. Len(s) \in Nat /\ k \in Nat /\ 1 <= k
        BY <1>1
      <3>2. k + 1 \in 1..Len(s)
        BY <2>2, <3>1
      <3>3. ~(Len(s) < 2)
        BY <2>2, <3>1
      <3> QED
        BY <1>3, <1>5, <1>6, <2>2, <3>2, <3>3
    <2> QED
      BY <2>1, <2>2
  <1>9. u.tail = IF Len(r) = 0 THEN Nil ELSE r[Len(r)]
    BY <1>1, <1>2, <1>8
  <1> QED
    BY <1>4, <1>7, <1>9 DEF QueueOf, u, r, w
=============================================================================
