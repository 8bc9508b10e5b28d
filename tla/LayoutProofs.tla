----------------------------- MODULE LayoutProofs -----------------------------
(***************************************************************************)
(* Proofs about the function layout, for every set of blocks and           *)
(* instructions: the links always represent the recorded sequences, the    *)
(* cursor always points into the layout, and the linked layout implements  *)
(* the layout of sequences.                                                *)
(***************************************************************************)
EXTENDS LayoutHistory, SequenceTheorems, TLAPS

-----------------------------------------------------------------------------
(***************************************************************************)
(* Inserting into and removing from a sequence, position by position.      *)
(***************************************************************************)

IsInsertion(t, s, k, e) ==
  /\ Len(t) = Len(s) + 1
  /\ \A j \in 1..Len(t) :
       t[j] = IF j < k THEN s[j] ELSE IF j = k THEN e ELSE s[j - 1]

IsRemoval(t, s, k) ==
  /\ Len(t) = Len(s) - 1
  /\ \A j \in 1..Len(t) : t[j] = IF j < k THEN s[j] ELSE s[j + 1]

\* InsertAt shifts the elements from position k on by one.
LEMMA InsertAtLemma ==
  ASSUME NEW S, NEW s \in Seq(S), NEW k \in 1..Len(s) + 1, NEW e \in S
  PROVE  InsertAt(s, k, e) \in Seq(S) /\ IsInsertion(InsertAt(s, k, e), s, k, e)
<1> DEFINE l == SubSeq(s, 1, k - 1)
           r == SubSeq(s, k, Len(s))
           m == l \o <<e>>
           t == m \o r
<1>1. Len(s) \in Nat /\ k \in Int /\ k - 1 \in Int /\ \A j \in 1..Len(s) : s[j] \in S
  BY LenProperties
<1>2. /\ l \in Seq(S)
      /\ Len(l) = k - 1
      /\ \A j \in 1..k - 1 : l[j] = s[j]
  BY <1>1, SubSeqProperties
<1>3. /\ r \in Seq(S)
      /\ Len(r) = Len(s) - k + 1
      /\ \A j \in 1..Len(s) - k + 1 : r[j] = s[k + j - 1]
  BY <1>1, SubSeqProperties
<1>4. <<e>> \in Seq(S) /\ Len(<<e>>) = 1 /\ <<e>>[1] = e
  OBVIOUS
<1> HIDE DEF l, r
<1>5. /\ m \in Seq(S)
      /\ Len(m) = k
      /\ \A j \in 1..k : m[j] = IF j < k THEN s[j] ELSE e
  BY <1>1, <1>2, <1>4, ConcatProperties
<1> HIDE DEF m
<1>6. /\ t \in Seq(S)
      /\ Len(t) = Len(m) + Len(r)
      /\ \A j \in 1..Len(m) + Len(r) : t[j] = IF j <= Len(m) THEN m[j] ELSE r[j - Len(m)]
  BY <1>3, <1>5, ConcatProperties
<1> HIDE DEF t
<1>7. Len(t) = Len(s) + 1
  BY <1>1, <1>3, <1>5, <1>6
<1>8. ASSUME NEW j \in 1..Len(t)
      PROVE  t[j] = IF j < k THEN s[j] ELSE IF j = k THEN e ELSE s[j - 1]
  <2>1. CASE j <= k
    BY <2>1, <1>1, <1>3, <1>5, <1>6, <1>8
  <2>2. CASE j > k
    <3>1. j - k \in 1..Len(s) - k + 1 /\ k + (j - k) - 1 = j - 1
      BY <2>2, <1>1, <1>7, <1>8
    <3>2. t[j] = r[j - k]
      BY <2>2, <1>1, <1>3, <1>5, <1>6, <1>8
    <3> QED BY <3>1, <3>2, <1>3, <2>2, <1>1, <1>8
  <2> QED BY <2>1, <2>2, <1>1, <1>7, <1>8
<1>9. InsertAt(s, k, e) = t
  BY DEF InsertAt, m, l, r, t
<1> QED BY <1>6, <1>7, <1>8, <1>9 DEF IsInsertion

\* RemoveAt shifts the elements after position k back by one.
LEMMA RemoveAtLemma ==
  ASSUME NEW S, NEW s \in Seq(S), NEW k \in 1..Len(s)
  PROVE  RemoveAt(s, k) \in Seq(S) /\ IsRemoval(RemoveAt(s, k), s, k)
<1> DEFINE l == SubSeq(s, 1, k - 1)
           r == SubSeq(s, k + 1, Len(s))
           t == l \o r
<1>1. Len(s) \in Nat /\ k \in Int /\ k - 1 \in Int /\ k + 1 \in Int
        /\ \A j \in 1..Len(s) : s[j] \in S
  BY LenProperties
<1>2. /\ l \in Seq(S)
      /\ Len(l) = k - 1
      /\ \A j \in 1..k - 1 : l[j] = s[j]
  BY <1>1, SubSeqProperties
<1>3. /\ r \in Seq(S)
      /\ Len(r) = Len(s) - k
      /\ \A j \in 1..Len(s) - k : r[j] = s[k + j]
  BY <1>1, SubSeqProperties
<1> HIDE DEF l, r
<1>4. /\ t \in Seq(S)
      /\ Len(t) = Len(l) + Len(r)
      /\ \A j \in 1..Len(l) + Len(r) : t[j] = IF j <= Len(l) THEN l[j] ELSE r[j - Len(l)]
  BY <1>2, <1>3, ConcatProperties
<1> HIDE DEF t
<1>5. Len(t) = Len(s) - 1
  BY <1>1, <1>2, <1>3, <1>4
<1>6. ASSUME NEW j \in 1..Len(t)
      PROVE  t[j] = IF j < k THEN s[j] ELSE s[j + 1]
  <2>1. CASE j < k
    BY <2>1, <1>1, <1>2, <1>3, <1>4, <1>6
  <2>2. CASE j >= k
    <3>1. j - (k - 1) \in 1..Len(s) - k /\ k + (j - (k - 1)) = j + 1
      BY <2>2, <1>1, <1>5, <1>6
    <3>2. t[j] = r[j - (k - 1)]
      BY <2>2, <1>1, <1>2, <1>3, <1>4, <1>6
    <3> QED BY <3>1, <3>2, <1>3, <2>2, <1>1, <1>6
  <2> QED BY <2>1, <2>2, <1>1, <1>5, <1>6
<1>7. RemoveAt(s, k) = t
  BY DEF RemoveAt, l, r, t
<1> QED BY <1>4, <1>5, <1>6, <1>7 DEF IsRemoval

\* In a sequence without repetitions PosIn finds the one position of an element.
LEMMA PosInLemma ==
  ASSUME NEW S, NEW s \in Seq(S), Distinct(s), NEW k \in 1..Len(s)
  PROVE  PosIn(s, s[k]) = k
  BY DEF PosIn, Distinct

-----------------------------------------------------------------------------
(***************************************************************************)
(* Doubly linked lists.  Linked(nodes, s) says that the prev and next      *)
(* links of the nodes of s follow the sequence s.                          *)
(***************************************************************************)
Linked(nodes, s) ==
  \A k \in 1..Len(s) : /\ nodes[s[k]].prev = Elem(s, k - 1)
                       /\ nodes[s[k]].next = Elem(s, k + 1)

Among(s, x) == \E k \in 1..Len(s) : s[k] = x

\* new is old with the node e linked in between positions k - 1 and k of s.
LinksIn(new, old, S, s, k, e) ==
  /\ new[e].prev = Elem(s, k - 1)
  /\ new[e].next = Elem(s, k)
  /\ \A x \in S : x # e =>
       /\ new[x].prev = IF x = Elem(s, k) THEN e ELSE old[x].prev
       /\ new[x].next = IF x = Elem(s, k - 1) THEN e ELSE old[x].next

\* new is old with the neighbours of position k of s linked to each other.
LinksOut(new, old, S, s, k) ==
  \A x \in S : x # s[k] =>
    /\ new[x].prev = IF x = Elem(s, k + 1) THEN Elem(s, k - 1) ELSE old[x].prev
    /\ new[x].next = IF x = Elem(s, k - 1) THEN Elem(s, k + 1) ELSE old[x].next

\* t is a list of the elements of s and e, with the ends that follow from k.
ListWith(new, t, s, k, e) ==
  /\ Linked(new, t)
  /\ Distinct(t)
  /\ \A x : Among(t, x) <=> x = e \/ Among(s, x)
  /\ Elem(t, 1) = IF k = 1 THEN e ELSE Elem(s, 1)
  /\ Elem(t, Len(t)) = IF k = Len(s) + 1 THEN e ELSE Elem(s, Len(s))

\* t is a list of the elements of s but the one at position k.
ListWithout(new, t, s, k) ==
  /\ Linked(new, t)
  /\ Distinct(t)
  /\ \A x : Among(t, x) <=> x # s[k] /\ Among(s, x)
  /\ Elem(t, 1) = IF k = 1 THEN Elem(s, k + 1) ELSE Elem(s, 1)
  /\ Elem(t, Len(t)) = IF k = Len(s) THEN Elem(s, k - 1) ELSE Elem(s, Len(s))

\* Linking a new node between its neighbours inserts it into the sequence.
LEMMA InsertLinked ==
  ASSUME NEW S, None \notin S, NEW s \in Seq(S), Distinct(s),
         NEW e \in S, ~Among(s, e), NEW k \in 1..Len(s) + 1,
         NEW t \in Seq(S), IsInsertion(t, s, k, e),
         NEW old, NEW new, Linked(old, s), LinksIn(new, old, S, s, k, e)
  PROVE  ListWith(new, t, s, k, e)
<1> USE DEF LinksIn
<1> DEFINE n == Len(s)
<1>1. /\ Len(t) = n + 1
      /\ \A j \in 1..n + 1 : t[j] = IF j < k THEN s[j] ELSE IF j = k THEN e ELSE s[j - 1]
  BY DEF IsInsertion
<1>2. n \in Nat /\ k \in 1..n + 1 /\ \A j \in 1..n : s[j] \in S /\ s[j] # e
  BY LenProperties DEF Among
<1>3. \A i, j \in 1..n : s[i] = s[j] => i = j
  BY DEF Distinct
<1>4. \A j \in 1..n : /\ old[s[j]].prev = IF j = 1 THEN None ELSE s[j - 1]
                      /\ old[s[j]].next = IF j = n THEN None ELSE s[j + 1]
  BY <1>2 DEF Linked, Elem
<1>5. /\ Elem(s, k - 1) = IF k = 1 THEN None ELSE s[k - 1]
      /\ Elem(s, k) = IF k = n + 1 THEN None ELSE s[k]
      /\ Elem(s, 1) = IF n = 0 THEN None ELSE s[1]
      /\ Elem(s, n) = IF n = 0 THEN None ELSE s[n]
  BY <1>2 DEF Elem
<1>6. /\ \A j \in 1..n + 1 : j > 1 => Elem(t, j - 1) = t[j - 1]
      /\ \A j \in 1..n + 1 : j < n + 1 => Elem(t, j + 1) = t[j + 1]
      /\ Elem(t, 0) = None /\ Elem(t, n + 2) = None
      /\ Elem(t, 1) = t[1] /\ Elem(t, n + 1) = t[n + 1]
  BY <1>1, <1>2 DEF Elem
<1> HIDE DEF n
<1>7. Distinct(t)
  <2> SUFFICES ASSUME NEW i \in 1..n + 1, NEW j \in 1..n + 1, t[i] = t[j] PROVE i = j
    BY <1>1 DEF Distinct
  <2>1. CASE i < k
    BY <2>1, <1>1, <1>2, <1>3
  <2>2. CASE i = k
    BY <2>2, <1>1, <1>2, <1>3
  <2>3. CASE i > k
    <3>1. i - 1 \in 1..n /\ t[i] = s[i - 1]
      BY <2>3, <1>1, <1>2
    <3>2. t[j] = s[i - 1]
      BY <3>1
    <3>3. CASE j < k
      <4>1. j \in 1..n /\ t[j] = s[j]
        BY <3>3, <1>1, <1>2
      <4>2. i - 1 = j
        BY <4>1, <3>1, <3>2, <1>3
      <4> QED BY <4>2, <3>3, <2>3, <1>2
    <3>4. CASE j = k
      <4>1. t[j] = e
        BY <3>4, <1>1
      <4> QED BY <4>1, <3>1, <3>2, <1>2
    <3>5. CASE j > k
      <4>1. j - 1 \in 1..n /\ t[j] = s[j - 1]
        BY <3>5, <1>1, <1>2
      <4>2. i - 1 = j - 1
        BY <4>1, <3>1, <3>2, <1>3
      <4> QED BY <4>2, <1>2
    <3> QED BY <3>3, <3>4, <3>5, <1>2
  <2> QED BY <2>1, <2>2, <2>3, <1>2
<1>8. \A x : Among(t, x) <=> x = e \/ Among(s, x)
  <2> TAKE x
  <2>1. Among(t, x) => x = e \/ Among(s, x)
    BY <1>1, <1>2, SMTT(40) DEF Among, n
  <2>2. t[k] = e
    BY <1>1, <1>2
  <2>3. \A j \in 1..n : \E m \in 1..n + 1 : t[m] = s[j]
    <3> TAKE j \in 1..n
    <3>1. CASE j < k
      BY <3>1, <1>1, <1>2
    <3>2. CASE ~(j < k)
      <4>1. j + 1 \in 1..n + 1 /\ t[j + 1] = s[j]
        BY <3>2, <1>1, <1>2
      <4> QED BY <4>1
    <3> QED BY <3>1, <3>2
  <2> QED BY <2>1, <2>2, <2>3, <1>1, <1>2 DEF Among, n
<1>9. Linked(new, t)
  <2> SUFFICES ASSUME NEW j \in 1..n + 1
               PROVE  /\ new[t[j]].prev = Elem(t, j - 1)
                      /\ new[t[j]].next = Elem(t, j + 1)
    BY <1>1 DEF Linked
  <2>1. CASE j < k
    <3>1. t[j] = s[j] /\ j \in 1..n /\ s[j] \in S /\ s[j] # e
      BY <2>1, <1>1, <1>2
    <3>2. Elem(t, j - 1) = old[s[j]].prev
      BY <2>1, <1>1, <1>2, <1>4, <1>6, SMTT(40)
    <3>3. Elem(t, j + 1) = IF j = k - 1 THEN e ELSE old[s[j]].next
      BY <2>1, <1>1, <1>2, <1>4, <1>6, SMTT(40)
    <3>4. s[j] # Elem(s, k)
      <4>1. CASE k = n + 1
        BY <4>1, <3>1, <1>5
      <4>2. CASE k < n + 1
        <5>1. k \in 1..n /\ k # j
          BY <4>2, <2>1, <1>2
        <5>2. Elem(s, k) = s[k]
          BY <4>2, <1>2, <1>5
        <5> QED BY <5>1, <5>2, <3>1, <1>3
      <4> QED BY <4>1, <4>2, <1>2
    <3>5. s[j] = Elem(s, k - 1) <=> j = k - 1
      BY <2>1, <3>1, <1>2, <1>3, <1>5
    <3> QED BY <3>1, <3>2, <3>3, <3>4, <3>5
  <2>2. CASE j = k
    BY <2>2, <1>1, <1>2, <1>5, <1>6
  <2>3. CASE j > k
    <3> DEFINE i == j - 1
    <3>1. t[j] = s[i] /\ i \in 1..n /\ s[i] \in S /\ s[i] # e /\ i >= k
      BY <2>3, <1>1, <1>2
    <3>2. Elem(t, j - 1) = IF i = k THEN e ELSE old[s[i]].prev
      <4>1. Elem(t, j - 1) = t[i] /\ i \in 1..n + 1
        BY <2>3, <1>2, <1>6
      <4>2. i # k => i > k /\ i # 1
        BY <3>1, <1>2
      <4> QED BY <3>1, <4>1, <4>2, <1>1, <1>4
    <3>3. Elem(t, j + 1) = old[s[i]].next
      BY <2>3, <1>1, <1>2, <1>4, <1>6
    <3> HIDE DEF i
    <3>4. s[i] # Elem(s, k - 1)
      BY <3>1, <1>2, <1>3, <1>5
    <3>5. s[i] = Elem(s, k) <=> i = k
      BY <3>1, <1>2, <1>3, <1>5
    <3> QED BY <3>1, <3>2, <3>3, <3>4, <3>5
  <2> QED BY <2>1, <2>2, <2>3, <1>2
<1>10. Elem(t, 1) = IF k = 1 THEN e ELSE Elem(s, 1)
  BY <1>1, <1>2, <1>5, <1>6
<1>11. Elem(t, n + 1) = IF k = n + 1 THEN e ELSE Elem(s, n)
  BY <1>1, <1>2, <1>5, <1>6
<1> QED BY <1>1, <1>7, <1>8, <1>9, <1>10, <1>11 DEF n, ListWith

\* Linking the neighbours of a node to each other removes it from the sequence.
LEMMA RemoveLinked ==
  ASSUME NEW S, None \notin S, NEW s \in Seq(S), Distinct(s),
         NEW k \in 1..Len(s), NEW t \in Seq(S), IsRemoval(t, s, k),
         NEW old, NEW new, Linked(old, s), LinksOut(new, old, S, s, k)
  PROVE  ListWithout(new, t, s, k)
<1> USE DEF LinksOut
<1> DEFINE n == Len(s)
<1>1. /\ Len(t) = n - 1
      /\ \A j \in 1..n - 1 : t[j] = IF j < k THEN s[j] ELSE s[j + 1]
  BY DEF IsRemoval
<1>2. n \in Nat /\ k \in 1..n /\ \A j \in 1..n : s[j] \in S
  BY LenProperties
<1>3. \A i, j \in 1..n : s[i] = s[j] => i = j
  BY DEF Distinct
<1>4. \A j \in 1..n : /\ old[s[j]].prev = IF j = 1 THEN None ELSE s[j - 1]
                      /\ old[s[j]].next = IF j = n THEN None ELSE s[j + 1]
  BY <1>2 DEF Linked, Elem
<1>5. /\ Elem(s, k - 1) = IF k = 1 THEN None ELSE s[k - 1]
      /\ Elem(s, k + 1) = IF k = n THEN None ELSE s[k + 1]
      /\ Elem(s, 1) = s[1]
      /\ Elem(s, n) = s[n]
  BY <1>2 DEF Elem
<1>6. /\ \A j \in 1..n - 1 : Elem(t, j - 1) = IF j = 1 THEN None ELSE t[j - 1]
      /\ \A j \in 1..n - 1 : Elem(t, j + 1) = IF j = n - 1 THEN None ELSE t[j + 1]
      /\ Elem(t, 1) = IF n = 1 THEN None ELSE t[1]
      /\ Elem(t, n - 1) = IF n = 1 THEN None ELSE t[n - 1]
  BY <1>1, <1>2 DEF Elem
<1> HIDE DEF n
<1>7. Distinct(t)
  <2> SUFFICES ASSUME NEW i \in 1..n - 1, NEW j \in 1..n - 1, t[i] = t[j] PROVE i = j
    BY <1>1 DEF Distinct
  <2>1. CASE i < k
    BY <2>1, <1>1, <1>2, <1>3
  <2>2. CASE i >= k
    BY <2>2, <1>1, <1>2, <1>3
  <2> QED BY <2>1, <2>2, <1>2
<1>8. \A x : Among(t, x) <=> x # s[k] /\ Among(s, x)
  <2> TAKE x
  <2>1. ASSUME NEW j \in 1..n - 1
        PROVE  t[j] # s[k] /\ \E m \in 1..n : s[m] = t[j]
    <3>1. CASE j < k
      BY <3>1, <1>1, <1>2, <1>3
    <3>2. CASE j >= k
      <4>1. j + 1 \in 1..n /\ t[j] = s[j + 1] /\ j + 1 # k
        BY <3>2, <1>1, <1>2
      <4> QED BY <4>1, <1>2, <1>3
    <3> QED BY <3>1, <3>2, <1>2
  <2>2. ASSUME NEW j \in 1..n, j # k
        PROVE  \E m \in 1..n - 1 : t[m] = s[j]
    <3>1. CASE j < k
      BY <3>1, <1>1, <1>2
    <3>2. CASE j > k
      <4>1. j - 1 \in 1..n - 1 /\ t[j - 1] = s[j]
        BY <3>2, <1>1, <1>2
      <4> QED BY <4>1
    <3> QED BY <3>1, <3>2, <2>2, <1>2
  <2>3. Among(t, x) <=> \E j \in 1..n - 1 : t[j] = x
    BY <1>1 DEF Among
  <2>4. Among(s, x) <=> \E j \in 1..n : s[j] = x
    BY DEF Among, n
  <2>5. ASSUME Among(t, x) PROVE x # s[k] /\ Among(s, x)
    BY <2>1, <2>3, <2>4, <2>5
  <2>6. ASSUME x # s[k], Among(s, x) PROVE Among(t, x)
    <3>1. PICK j \in 1..n : s[j] = x
      BY <2>4, <2>6
    <3> QED BY <3>1, <2>2, <2>3, <2>6
  <2> QED BY <2>5, <2>6
<1>9. Linked(new, t)
  <2> SUFFICES ASSUME NEW j \in 1..n - 1
               PROVE  /\ new[t[j]].prev = Elem(t, j - 1)
                      /\ new[t[j]].next = Elem(t, j + 1)
    BY <1>1 DEF Linked
  <2>1. CASE j < k
    <3>1. t[j] = s[j] /\ j \in 1..n /\ s[j] \in S /\ s[j] # s[k]
      BY <2>1, <1>1, <1>2, <1>3
    <3>2. Elem(t, j - 1) = old[s[j]].prev
      BY <2>1, <1>1, <1>2, <1>4, <1>6
    <3>3. j # k - 1 => Elem(t, j + 1) = old[s[j]].next
      BY <2>1, <1>1, <1>2, <1>4, <1>6
    <3>4. j = k - 1 => Elem(t, j + 1) = Elem(s, k + 1)
      BY <2>1, <1>1, <1>2, <1>5, <1>6
    <3>5. s[j] # Elem(s, k + 1)
      <4>1. CASE k = n
        BY <4>1, <3>1, <1>5
      <4>2. CASE k # n
        <5>1. k + 1 \in 1..n /\ k + 1 # j
          BY <4>2, <2>1, <1>2
        <5> QED BY <4>2, <5>1, <3>1, <1>3, <1>5
      <4> QED BY <4>1, <4>2
    <3>6. s[j] = Elem(s, k - 1) <=> j = k - 1
      BY <2>1, <3>1, <1>2, <1>3, <1>5
    <3> QED BY <3>1, <3>2, <3>3, <3>4, <3>5, <3>6
  <2>2. CASE j >= k
    <3> DEFINE i == j + 1
    <3>1. t[j] = s[i] /\ i \in 1..n /\ s[i] \in S /\ s[i] # s[k] /\ i > k
      BY <2>2, <1>1, <1>2, <1>3
    <3>2. Elem(t, j + 1) = old[s[i]].next
      BY <2>2, <1>1, <1>2, <1>4, <1>6
    <3>3. i # k + 1 => Elem(t, j - 1) = old[s[i]].prev
      <4> HAVE i # k + 1
      <4>1. Elem(t, j - 1) = t[j - 1] /\ t[j - 1] = s[j] /\ j = i - 1
        BY <2>2, <1>1, <1>2, <1>6
      <4> QED BY <4>1, <3>1, <1>2, <1>4
    <3>4. i = k + 1 => Elem(t, j - 1) = Elem(s, k - 1)
      <4> HAVE i = k + 1
      <4>1. j = k
        BY <1>2
      <4> QED BY <4>1, <1>1, <1>2, <1>5, <1>6
    <3> HIDE DEF i
    <3>5. s[i] # Elem(s, k - 1)
      <4>1. CASE k = 1
        BY <4>1, <3>1, <1>5
      <4>2. CASE k # 1
        <5>1. k - 1 \in 1..n /\ k - 1 # i
          BY <4>2, <3>1, <1>2
        <5> QED BY <4>2, <5>1, <3>1, <1>3, <1>5
      <4> QED BY <4>1, <4>2
    <3>6. s[i] = Elem(s, k + 1) <=> i = k + 1
      BY <3>1, <1>2, <1>3, <1>5
    <3> QED BY <3>1, <3>2, <3>3, <3>4, <3>5, <3>6
  <2> QED BY <2>1, <2>2, <1>2
<1>10. Elem(t, 1) = IF k = 1 THEN Elem(s, k + 1) ELSE Elem(s, 1)
  BY <1>1, <1>2, <1>5, <1>6
<1>11. Elem(t, n - 1) = IF k = n THEN Elem(s, k - 1) ELSE Elem(s, n)
  BY <1>1, <1>2, <1>5, <1>6
<1> QED BY <1>1, <1>7, <1>8, <1>9, <1>10, <1>11 DEF n, ListWithout

-----------------------------------------------------------------------------
(***************************************************************************)
(* The invariant, and what being inserted means under it.                  *)
(***************************************************************************)
HInv == HTypeOK /\ Represents /\ CursorValid /\ RemovalEmpties

\* Setting one link of a node changes that link of that node only.
BlockNextSet(new, old, x, y) ==
  /\ new \in [Block -> BlockNode]
  /\ \A z \in Block : /\ new[z].next = IF z = x THEN y ELSE old[z].next
                   /\ new[z].prev = old[z].prev
                   /\ new[z].first_inst = old[z].first_inst
                   /\ new[z].last_inst = old[z].last_inst

\* Setting the next link of one block changes that link and no other field.
LEMMA SetNextBlock ==
  ASSUME NEW nodes \in [Block -> BlockNode],
         NEW x \in Block \cup {None}, NEW y \in Block \cup {None}
  PROVE  BlockNextSet(SetNext(nodes, x, y), nodes, x, y)
<1>1. CASE x = None
  BY <1>1, NoneAssumption DEF SetNext, BlockNextSet
<1>2. CASE x \in Block
  <2>1. SetNext(nodes, x, y) = [nodes EXCEPT ![x] = [nodes[x] EXCEPT !.next = y]]
    BY <1>2, NoneAssumption DEF SetNext
  <2>2. nodes[x] \in BlockNode /\ [nodes[x] EXCEPT !.next = y] \in BlockNode
    BY <1>2 DEF BlockNode
  <2>3. /\ [nodes[x] EXCEPT !.next = y].next = y
        /\ [nodes[x] EXCEPT !.next = y].prev = nodes[x].prev
        /\ [nodes[x] EXCEPT !.next = y].first_inst = nodes[x].first_inst
        /\ [nodes[x] EXCEPT !.next = y].last_inst = nodes[x].last_inst
    BY <2>2 DEF BlockNode
  <2> QED BY <1>2, <2>1, <2>2, <2>3 DEF BlockNextSet
<1> QED BY <1>1, <1>2

BlockPrevSet(new, old, x, y) ==
  /\ new \in [Block -> BlockNode]
  /\ \A z \in Block : /\ new[z].prev = IF z = x THEN y ELSE old[z].prev
                   /\ new[z].next = old[z].next
                   /\ new[z].first_inst = old[z].first_inst
                   /\ new[z].last_inst = old[z].last_inst

\* Setting the prev link of one block changes that link and no other field.
LEMMA SetPrevBlock ==
  ASSUME NEW nodes \in [Block -> BlockNode],
         NEW x \in Block \cup {None}, NEW y \in Block \cup {None}
  PROVE  BlockPrevSet(SetPrev(nodes, x, y), nodes, x, y)
<1>1. CASE x = None
  BY <1>1, NoneAssumption DEF SetPrev, BlockPrevSet
<1>2. CASE x \in Block
  <2>1. SetPrev(nodes, x, y) = [nodes EXCEPT ![x] = [nodes[x] EXCEPT !.prev = y]]
    BY <1>2, NoneAssumption DEF SetPrev
  <2>2. nodes[x] \in BlockNode /\ [nodes[x] EXCEPT !.prev = y] \in BlockNode
    BY <1>2 DEF BlockNode
  <2>3. /\ [nodes[x] EXCEPT !.prev = y].prev = y
        /\ [nodes[x] EXCEPT !.prev = y].next = nodes[x].next
        /\ [nodes[x] EXCEPT !.prev = y].first_inst = nodes[x].first_inst
        /\ [nodes[x] EXCEPT !.prev = y].last_inst = nodes[x].last_inst
    BY <2>2 DEF BlockNode
  <2> QED BY <1>2, <2>1, <2>2, <2>3 DEF BlockPrevSet
<1> QED BY <1>1, <1>2

InstNextSet(new, old, x, y) ==
  /\ new \in [Inst -> InstNode]
  /\ \A z \in Inst : /\ new[z].next = IF z = x THEN y ELSE old[z].next
                   /\ new[z].prev = old[z].prev
                   /\ new[z].block = old[z].block

\* Setting the next link of one instruction changes that link and no other.
LEMMA SetNextInst ==
  ASSUME NEW nodes \in [Inst -> InstNode],
         NEW x \in Inst \cup {None}, NEW y \in Inst \cup {None}
  PROVE  InstNextSet(SetNext(nodes, x, y), nodes, x, y)
<1>1. CASE x = None
  BY <1>1, NoneAssumption DEF SetNext, InstNextSet
<1>2. CASE x \in Inst
  <2>1. SetNext(nodes, x, y) = [nodes EXCEPT ![x] = [nodes[x] EXCEPT !.next = y]]
    BY <1>2, NoneAssumption DEF SetNext
  <2>2. nodes[x] \in InstNode /\ [nodes[x] EXCEPT !.next = y] \in InstNode
    BY <1>2 DEF InstNode
  <2>3. /\ [nodes[x] EXCEPT !.next = y].next = y
        /\ [nodes[x] EXCEPT !.next = y].prev = nodes[x].prev
        /\ [nodes[x] EXCEPT !.next = y].block = nodes[x].block
    BY <2>2 DEF InstNode
  <2> QED BY <1>2, <2>1, <2>2, <2>3 DEF InstNextSet
<1> QED BY <1>1, <1>2

InstPrevSet(new, old, x, y) ==
  /\ new \in [Inst -> InstNode]
  /\ \A z \in Inst : /\ new[z].prev = IF z = x THEN y ELSE old[z].prev
                   /\ new[z].next = old[z].next
                   /\ new[z].block = old[z].block

\* Setting the prev link of one instruction changes that link and no other.
LEMMA SetPrevInst ==
  ASSUME NEW nodes \in [Inst -> InstNode],
         NEW x \in Inst \cup {None}, NEW y \in Inst \cup {None}
  PROVE  InstPrevSet(SetPrev(nodes, x, y), nodes, x, y)
<1>1. CASE x = None
  BY <1>1, NoneAssumption DEF SetPrev, InstPrevSet
<1>2. CASE x \in Inst
  <2>1. SetPrev(nodes, x, y) = [nodes EXCEPT ![x] = [nodes[x] EXCEPT !.prev = y]]
    BY <1>2, NoneAssumption DEF SetPrev
  <2>2. nodes[x] \in InstNode /\ [nodes[x] EXCEPT !.prev = y] \in InstNode
    BY <1>2 DEF InstNode
  <2>3. /\ [nodes[x] EXCEPT !.prev = y].prev = y
        /\ [nodes[x] EXCEPT !.prev = y].next = nodes[x].next
        /\ [nodes[x] EXCEPT !.prev = y].block = nodes[x].block
    BY <2>2 DEF InstNode
  <2> QED BY <1>2, <2>1, <2>2, <2>3 DEF InstPrevSet
<1> QED BY <1>1, <1>2

\* The element at a position of a sequence over S is in S, or there is none.
LEMMA ElemType ==
  ASSUME NEW S, NEW s \in Seq(S), NEW k \in Int
  PROVE  /\ Elem(s, k) \in S \cup {None}
         /\ k \in 1..Len(s) => Elem(s, k) = s[k] /\ s[k] \in S
         /\ k \notin 1..Len(s) => Elem(s, k) = None
  BY LenProperties DEF Elem

\* The empty sequence has no first and no last element.
LEMMA ElemEmpty == Elem(<<>>, 1) = None /\ Elem(<<>>, Len(<<>>)) = None
  BY DEF Elem

\* is_block_inserted holds exactly of the blocks of the order.
LEMMA BlockInserted ==
  ASSUME HTypeOK, BlockLinks, InstLinks, NEW b \in Block
  PROVE  /\ IsBlockInserted(b) <=> Among(order, b)
         /\ ~IsBlockInserted(b) => blocks[b] = NoBlockNode /\ body[b] = <<>>
<1> USE NoneAssumption DEF HTypeOK, BlockLinks
<1>1. Len(order) \in Nat /\ \A k \in 1..Len(order) : order[k] \in Block
  BY LenProperties
<1>2. ASSUME NEW k \in 1..Len(order), order[k] = b
      PROVE  IsBlockInserted(b)
  <2>1. CASE Len(order) = 1
    BY <2>1, <1>1, <1>2 DEF IsBlockInserted, Elem
  <2>2. CASE k > 1
    <3>1. blocks[b].prev = order[k - 1] /\ order[k - 1] \in Block
      BY <2>2, <1>1, <1>2, SMTT(40) DEF Elem
    <3> QED BY <3>1 DEF IsBlockInserted, NoBlockNode
  <2>3. CASE k = 1 /\ Len(order) > 1
    <3>1. blocks[b].next = Elem(order, k + 1)
      BY <1>2
    <3>2. k + 1 \in 1..Len(order)
      BY <2>3, <1>1
    <3>3. Elem(order, k + 1) \in Block
      BY <3>2, <1>1 DEF Elem
    <3> QED BY <3>1, <3>3 DEF IsBlockInserted, NoBlockNode
  <2>4. Len(order) = 1 \/ k > 1 \/ (k = 1 /\ Len(order) > 1)
    BY ONLY <1>1, k \in 1..Len(order)
  <2> QED BY ONLY <2>1, <2>2, <2>3, <2>4
<1>3. ASSUME ~Among(order, b)
      PROVE  b # entry_block /\ blocks[b] = NoBlockNode /\ body[b] = <<>>
  <2>1. b # Elem(order, 1)
    BY <1>1, <1>3 DEF Elem, Among
  <2> QED BY <2>1, <1>3 DEF Among
<1> QED BY <1>2, <1>3 DEF Among, IsBlockInserted

\* is_inst_inserted holds exactly of the instructions of some body, and the
\* block of an instruction is the one whose body it is in.
LEMMA InstInserted ==
  ASSUME HTypeOK, BlockLinks, InstLinks, NEW i \in Inst
  PROVE  /\ IsInstInserted(i) => /\ insts[i].block \in Block
                                 /\ Among(body[insts[i].block], i)
                                 /\ IsBlockInserted(insts[i].block)
         /\ \A b \in Block : Among(body[b], i) => IsInstInserted(i) /\ insts[i].block = b
<1> USE NoneAssumption DEF HTypeOK
<1>1. ASSUME NEW b \in Block, Among(body[b], i)
      PROVE  IsInstInserted(i) /\ insts[i].block = b
  <2>1. PICK k \in 1..Len(body[b]) : body[b][k] = i
    BY <1>1 DEF Among
  <2>2. insts[i] = InstOf(b, Elem(body[b], k - 1), Elem(body[b], k + 1))
    BY <2>1 DEF InstLinks
  <2>3. insts[i].block = b /\ NoInstNode.block = None
    BY <2>2 DEF InstOf, NoInstNode
  <2> QED BY <2>3 DEF IsInstInserted
<1>2. ASSUME IsInstInserted(i)
      PROVE  insts[i].block \in Block /\ Among(body[insts[i].block], i)
  BY <1>2 DEF InstLinks, Among, IsInstInserted
<1>3. ASSUME IsInstInserted(i)
      PROVE  IsBlockInserted(insts[i].block)
  <2>1. body[insts[i].block] # <<>>
    BY <1>2, <1>3 DEF Among
  <2> QED BY <2>1, <1>2, <1>3, BlockInserted
<1> QED BY <1>1, <1>2, <1>3

-----------------------------------------------------------------------------
(***************************************************************************)
(* Each kind of edit keeps the representation.                             *)
(***************************************************************************)

\* InstLinks depends on the blocks by their first and last instruction only.
LEMMA InstLinksKept ==
  ASSUME InstLinks, insts' = insts, body' = body,
         \A x \in Block : /\ blocks'[x].first_inst = Elem(body[x], 1)
                          /\ blocks'[x].last_inst = Elem(body[x], Len(body[x]))
  PROVE  InstLinks'
<1>1. ASSUME NEW x \in Block
      PROVE  /\ Distinct(body'[x])
             /\ blocks'[x].first_inst = Elem(body'[x], 1)
             /\ blocks'[x].last_inst = Elem(body'[x], Len(body'[x]))
             /\ \A k \in 1..Len(body'[x]) :
                  insts'[body'[x][k]] = InstOf(x, Elem(body'[x], k - 1), Elem(body'[x], k + 1))
  BY DEF InstLinks
<1>2. ASSUME NEW i \in Inst, insts'[i] # NoInstNode
      PROVE  /\ insts'[i].block \in Block
             /\ \E k \in 1..Len(body'[insts'[i].block]) : body'[insts'[i].block][k] = i
  BY <1>2 DEF InstLinks
<1> QED BY <1>1, <1>2 DEF InstLinks

\* new is blocks with the node e replaced, and with at most two more links
\* set: the prev link of p to pv and the next link of n to nv.
BlocksEdited(new, e, node, p, pv, n, nv) ==
  /\ new \in [Block -> BlockNode]
  /\ new[e] = node
  /\ \A x \in Block : x # e =>
       /\ new[x].prev = IF x = p THEN pv ELSE blocks[x].prev
       /\ new[x].next = IF x = n THEN nv ELSE blocks[x].next
       /\ new[x].first_inst = blocks[x].first_inst
       /\ new[x].last_inst = blocks[x].last_inst

InstsEdited(new, e, node, p, pv, n, nv) ==
  /\ new \in [Inst -> InstNode]
  /\ new[e] = node
  /\ \A x \in Inst : x # e =>
       /\ new[x].block = insts[x].block
       /\ new[x].prev = IF x = p THEN pv ELSE insts[x].prev
       /\ new[x].next = IF x = n THEN nv ELSE insts[x].next

\* A block node is determined by its four fields.
LEMMA BlockNodeEqual ==
  ASSUME NEW m \in BlockNode, NEW n \in BlockNode, m.prev = n.prev, m.next = n.next,
         m.first_inst = n.first_inst, m.last_inst = n.last_inst
  PROVE  m = n
  BY DEF BlockNode

\* An instruction node is determined by its three fields.
LEMMA InstNodeEqual ==
  ASSUME NEW m \in InstNode, NEW n \in InstNode,
         m.block = n.block, m.prev = n.prev, m.next = n.next
  PROVE  m = n
  BY DEF InstNode

\* Blocks an edit does not link are unchanged.
LEMMA BlockUntouched ==
  ASSUME HTypeOK, NEW new, NEW e, NEW node, NEW p, NEW pv, NEW n, NEW nv,
         BlocksEdited(new, e, node, p, pv, n, nv),
         NEW x \in Block, x # e, x # p, x # n
  PROVE  new[x] = blocks[x]
<1>1. new[x] \in BlockNode /\ blocks[x] \in BlockNode
  BY DEF BlocksEdited, HTypeOK, TypeOK
<1>2. /\ new[x].prev = blocks[x].prev
      /\ new[x].next = blocks[x].next
      /\ new[x].first_inst = blocks[x].first_inst
      /\ new[x].last_inst = blocks[x].last_inst
  BY DEF BlocksEdited
<1> QED BY ONLY <1>1, <1>2, BlockNodeEqual

\* Instructions an edit does not link are unchanged.
LEMMA InstUntouched ==
  ASSUME HTypeOK, NEW new, NEW e, NEW node, NEW p, NEW pv, NEW n, NEW nv,
         InstsEdited(new, e, node, p, pv, n, nv),
         NEW x \in Inst, x # e, x # p, x # n
  PROVE  new[x] = insts[x]
<1>1. new[x] \in InstNode /\ insts[x] \in InstNode
  BY DEF InstsEdited, HTypeOK, TypeOK
<1>2. /\ new[x].block = insts[x].block
      /\ new[x].prev = insts[x].prev
      /\ new[x].next = insts[x].next
  BY DEF InstsEdited
<1> QED BY ONLY <1>1, <1>2, InstNodeEqual

\* A block is linked in at position k of the order.
LEMMA BlockInsertion ==
  ASSUME HTypeOK, BlockLinks, InstLinks,
         NEW b \in Block, ~IsBlockInserted(b), NEW k \in 1..Len(order) + 1,
         BlocksEdited(blocks', b, EmptyNode(Elem(order, k - 1), Elem(order, k)),
                      Elem(order, k), b, Elem(order, k - 1), b),
         entry_block' = IF k = 1 THEN b ELSE entry_block,
         last_block' = IF k = Len(order) + 1 THEN b ELSE last_block,
         insts' = insts, RecordBlock(b, k)
  PROVE  /\ order' \in Seq(Block) /\ body' = body
         /\ BlockLinks' /\ InstLinks'
         /\ \A x : Among(order', x) <=> x = b \/ Among(order, x)
<1> USE NoneAssumption
<1>1. /\ order' \in Seq(Block)
      /\ IsInsertion(order', order, k, b)
      /\ body' = body
  BY InsertAtLemma DEF RecordBlock, HTypeOK
<1>2. ~Among(order, b) /\ blocks[b] = NoBlockNode /\ body[b] = <<>>
  BY BlockInserted
<1>3. Linked(blocks, order) /\ Distinct(order)
  BY DEF BlockLinks, Linked
<1>4. /\ blocks'[b].prev = Elem(order, k - 1)
      /\ blocks'[b].next = Elem(order, k)
      /\ blocks'[b].first_inst = None
      /\ blocks'[b].last_inst = None
  BY DEF BlocksEdited, EmptyNode
<1>5. \A x \in Block : x # b =>
        /\ blocks'[x].prev = IF x = Elem(order, k) THEN b ELSE blocks[x].prev
        /\ blocks'[x].next = IF x = Elem(order, k - 1) THEN b ELSE blocks[x].next
        /\ blocks'[x].first_inst = blocks[x].first_inst
        /\ blocks'[x].last_inst = blocks[x].last_inst
        /\ x # Elem(order, k) /\ x # Elem(order, k - 1) => blocks'[x] = blocks[x]
  <2>1. ASSUME NEW x \in Block, x # b
        PROVE  /\ blocks'[x].prev = IF x = Elem(order, k) THEN b ELSE blocks[x].prev
               /\ blocks'[x].next = IF x = Elem(order, k - 1) THEN b ELSE blocks[x].next
               /\ blocks'[x].first_inst = blocks[x].first_inst
               /\ blocks'[x].last_inst = blocks[x].last_inst
    BY <2>1 DEF BlocksEdited
  <2>2. ASSUME NEW x \in Block, x # b, x # Elem(order, k), x # Elem(order, k - 1)
        PROVE  blocks'[x] = blocks[x]
    BY <2>2, BlockUntouched
  <2> QED BY <2>1, <2>2
<1>6. ListWith(blocks', order', order, k, b)
  <2>1. order \in Seq(Block)
    BY DEF HTypeOK
  <2>2. LinksIn(blocks', blocks, Block, order, k, b)
    BY <1>4, <1>5 DEF LinksIn
  <2> QED BY <1>1, <1>2, <1>3, <2>1, <2>2, InsertLinked
<1>7. BlockLinks'
  <2>1. ASSUME NEW x \in Block, ~Among(order', x)
        PROVE  blocks'[x] = NoBlockNode /\ body'[x] = <<>>
    <3>1. x # b /\ ~Among(order, x)
      BY <1>6, <2>1 DEF ListWith
    <3>2. x # Elem(order, k) /\ x # Elem(order, k - 1)
      BY <3>1 DEF Among, Elem
    <3> QED BY <1>1, <1>5, <3>1, <3>2 DEF BlockLinks, Among
  <2> QED BY <1>6, <2>1 DEF BlockLinks, Linked, Among, ListWith
<1>8. InstLinks'
  <2>1. ASSUME NEW x \in Block
        PROVE  /\ blocks'[x].first_inst = Elem(body[x], 1)
               /\ blocks'[x].last_inst = Elem(body[x], Len(body[x]))
    <3>1. CASE x = b
      <4>1. Elem(body[x], 1) = None /\ Elem(body[x], Len(body[x])) = None
        BY <3>1, <1>2, ElemEmpty
      <4> QED BY <4>1, <3>1, <1>4
    <3>2. CASE x # b
      <4>1. /\ blocks[x].first_inst = Elem(body[x], 1)
            /\ blocks[x].last_inst = Elem(body[x], Len(body[x]))
        BY DEF InstLinks
      <4> QED BY <4>1, <3>2, <1>5
    <3> QED BY <3>1, <3>2
  <2> QED BY <1>1, <2>1, InstLinksKept
<1> QED BY <1>1, <1>6, <1>7, <1>8 DEF ListWith

\* The block at position k of the order, whose body is empty, is unlinked.
LEMMA BlockRemoval ==
  ASSUME HTypeOK, BlockLinks, InstLinks,
         NEW k \in 1..Len(order), NEW b \in Block, order[k] = b, body[b] = <<>>,
         BlocksEdited(blocks', b, NoBlockNode,
                      Elem(order, k + 1), Elem(order, k - 1),
                      Elem(order, k - 1), Elem(order, k + 1)),
         entry_block' = IF k = 1 THEN Elem(order, k + 1) ELSE entry_block,
         last_block' = IF k = Len(order) THEN Elem(order, k - 1) ELSE last_block,
         insts' = insts, order' = RemoveAt(order, k), body' = body
  PROVE  /\ order' \in Seq(Block)
         /\ BlockLinks' /\ InstLinks'
         /\ \A x : Among(order', x) <=> x # b /\ Among(order, x)
<1> USE NoneAssumption
<1>1. order' \in Seq(Block) /\ IsRemoval(order', order, k)
  BY RemoveAtLemma DEF HTypeOK
<1>2. Linked(blocks, order) /\ Distinct(order)
  BY DEF BlockLinks, Linked
<1>3. \A x \in Block : x # b =>
        /\ blocks'[x].prev = IF x = Elem(order, k + 1) THEN Elem(order, k - 1) ELSE blocks[x].prev
        /\ blocks'[x].next = IF x = Elem(order, k - 1) THEN Elem(order, k + 1) ELSE blocks[x].next
        /\ blocks'[x].first_inst = blocks[x].first_inst
        /\ blocks'[x].last_inst = blocks[x].last_inst
        /\ x # Elem(order, k + 1) /\ x # Elem(order, k - 1) => blocks'[x] = blocks[x]
  <2>1. ASSUME NEW x \in Block, x # b
        PROVE  /\ blocks'[x].prev = IF x = Elem(order, k + 1) THEN Elem(order, k - 1) ELSE blocks[x].prev
               /\ blocks'[x].next = IF x = Elem(order, k - 1) THEN Elem(order, k + 1) ELSE blocks[x].next
               /\ blocks'[x].first_inst = blocks[x].first_inst
               /\ blocks'[x].last_inst = blocks[x].last_inst
    BY <2>1 DEF BlocksEdited
  <2>2. ASSUME NEW x \in Block, x # b, x # Elem(order, k + 1), x # Elem(order, k - 1)
        PROVE  blocks'[x] = blocks[x]
    BY <2>2, BlockUntouched
  <2> QED BY <2>1, <2>2
<1>4. ListWithout(blocks', order', order, k)
  <2>1. order \in Seq(Block)
    BY DEF HTypeOK
  <2>2. LinksOut(blocks', blocks, Block, order, k)
    BY <1>3 DEF LinksOut
  <2> QED BY <1>1, <1>2, <2>1, <2>2, RemoveLinked
<1>5. BlockLinks'
  <2>1. ASSUME NEW x \in Block, ~Among(order', x)
        PROVE  blocks'[x] = NoBlockNode /\ body'[x] = <<>>
    <3>1. CASE x = b
      BY <3>1 DEF BlocksEdited
    <3>2. CASE x # b
      <4>1. ~Among(order, x)
        BY <1>4, <2>1, <3>2 DEF ListWithout
      <4>2. x # Elem(order, k + 1) /\ x # Elem(order, k - 1)
        BY <4>1 DEF Among, Elem
      <4> QED BY <1>3, <3>2, <4>1, <4>2 DEF BlockLinks, Among
    <3> QED BY <3>1, <3>2
  <2> QED BY <1>4, <2>1 DEF BlockLinks, Linked, Among, ListWithout
<1>6. InstLinks'
  <2>1. ASSUME NEW x \in Block
        PROVE  /\ blocks'[x].first_inst = Elem(body[x], 1)
               /\ blocks'[x].last_inst = Elem(body[x], Len(body[x]))
    <3>1. CASE x = b
      <4>1. Elem(body[x], 1) = None /\ Elem(body[x], Len(body[x])) = None
        BY <3>1, ElemEmpty
      <4>2. blocks'[x] = NoBlockNode
        BY <3>1 DEF BlocksEdited
      <4>3. NoBlockNode.first_inst = None /\ NoBlockNode.last_inst = None
        BY DEF NoBlockNode
      <4> QED BY ONLY <4>1, <4>2, <4>3
    <3>2. CASE x # b
      <4>1. /\ blocks[x].first_inst = Elem(body[x], 1)
            /\ blocks[x].last_inst = Elem(body[x], Len(body[x]))
        BY DEF InstLinks
      <4> QED BY <4>1, <3>2, <1>3
    <3> QED BY <3>1, <3>2
  <2> QED BY <2>1, InstLinksKept
<1> QED BY <1>1, <1>4, <1>5, <1>6 DEF ListWithout

\* What an instruction edit of block b leaves alone among the blocks.
BlocksKept(b) ==
  /\ order' = order
  /\ blocks' \in [Block -> BlockNode]
  /\ entry_block' = entry_block /\ last_block' = last_block
  /\ \A x \in Block : /\ blocks'[x].prev = blocks[x].prev
                      /\ blocks'[x].next = blocks[x].next
                      /\ x # b => blocks'[x] = blocks[x] /\ body'[x] = body[x]

\* BlockLinks depends on the blocks by their prev and next links only.
LEMMA BlockLinksKept ==
  ASSUME HTypeOK, BlockLinks, NEW b \in Block, Among(order, b), BlocksKept(b)
  PROVE  BlockLinks'
<1> USE DEF BlocksKept
<1>1. \A k \in 1..Len(order) : order[k] \in Block
  BY LenProperties DEF HTypeOK
<1>2. ASSUME NEW k \in 1..Len(order')
      PROVE  /\ blocks'[order'[k]].prev = Elem(order', k - 1)
             /\ blocks'[order'[k]].next = Elem(order', k + 1)
  BY <1>1 DEF BlockLinks
<1>3. ASSUME NEW x \in Block, ~Among(order', x)
      PROVE  blocks'[x] = NoBlockNode /\ body'[x] = <<>>
  <2>1. x # b /\ ~Among(order, x)
    BY <1>3
  <2> QED BY <2>1 DEF BlockLinks, Among
<1> QED BY <1>2, <1>3 DEF BlockLinks, Among

\* The instructions of a body are a doubly linked list.
LEMMA InstLinksLinked ==
  ASSUME InstLinks, NEW b \in Block
  PROVE  Linked(insts, body[b]) /\ Distinct(body[b])
<1>1. Distinct(body[b])
  BY DEF InstLinks
<1>2. \A k \in 1..Len(body[b]) :
        insts[body[b][k]] = InstOf(b, Elem(body[b], k - 1), Elem(body[b], k + 1))
  BY DEF InstLinks
<1>3. \A c, p, n : InstOf(c, p, n).prev = p /\ InstOf(c, p, n).next = n
  BY DEF InstOf
<1> QED BY ONLY <1>1, <1>2, <1>3 DEF Linked

\* An instruction is linked in at position k of the body of block b.
LEMMA InstInsertion ==
  ASSUME HTypeOK, BlockLinks, InstLinks,
         NEW b \in Block, IsBlockInserted(b), NEW i \in Inst, ~IsInstInserted(i),
         NEW k \in 1..Len(body[b]) + 1,
         InstsEdited(insts', i, InstOf(b, Elem(body[b], k - 1), Elem(body[b], k)),
                     Elem(body[b], k), i, Elem(body[b], k - 1), i),
         BlocksKept(b),
         blocks'[b].first_inst = IF k = 1 THEN i ELSE blocks[b].first_inst,
         blocks'[b].last_inst = IF k = Len(body[b]) + 1 THEN i ELSE blocks[b].last_inst,
         RecordInst(i, b, k)
  PROVE  /\ body' \in [Block -> Seq(Inst)]
         /\ BlockLinks' /\ InstLinks'
<1> USE NoneAssumption
<1> DEFINE s == body[b]
           t == body'[b]
<1>1. s \in Seq(Inst) /\ body \in [Block -> Seq(Inst)] /\ insts \in [Inst -> InstNode]
  BY DEF HTypeOK, TypeOK
<1>2. /\ body' = [body EXCEPT ![b] = InsertAt(s, k, i)]
      /\ InsertAt(s, k, i) \in Seq(Inst)
      /\ IsInsertion(InsertAt(s, k, i), s, k, i)
  BY <1>1, InsertAtLemma DEF RecordInst
<1>3. /\ t \in Seq(Inst)
      /\ IsInsertion(t, s, k, i)
      /\ body' \in [Block -> Seq(Inst)]
      /\ \A c \in Block : c # b => body'[c] = body[c]
  BY <1>1, <1>2
<1>4. ~Among(s, i)
  BY InstInserted
<1>5. Linked(insts, s) /\ Distinct(s)
  BY InstLinksLinked
<1>6. ListWith(insts', t, s, k, i)
  <2>1. LinksIn(insts', insts, Inst, s, k, i)
    BY DEF InstsEdited, InstOf, LinksIn
  <2> QED BY <2>1, <1>1, <1>3, <1>4, <1>5, InsertLinked
<1>7. BlockLinks'
  BY BlockInserted, BlockLinksKept
<1>8. \A x \in Inst : ~Among(s, x) /\ x # i => insts'[x] = insts[x]
  <2> TAKE x \in Inst
  <2> HAVE ~Among(s, x) /\ x # i
  <2>1. x # Elem(s, k) /\ x # Elem(s, k - 1)
    BY DEF Among, Elem
  <2> QED BY <2>1, InstUntouched
<1>9. ASSUME NEW c \in Block
      PROVE  /\ Distinct(body'[c])
             /\ blocks'[c].first_inst = Elem(body'[c], 1)
             /\ blocks'[c].last_inst = Elem(body'[c], Len(body'[c]))
             /\ \A j \in 1..Len(body'[c]) :
                  insts'[body'[c][j]] = InstOf(c, Elem(body'[c], j - 1), Elem(body'[c], j + 1))
  <2>1. CASE c = b
    <3>1. ASSUME NEW j \in 1..Len(t)
          PROVE  insts'[t[j]] = InstOf(b, Elem(t, j - 1), Elem(t, j + 1))
      <4>1. t[j] \in Inst /\ Among(t, t[j]) /\ j - 1 \in Int /\ j + 1 \in Int
        BY <1>3, LenProperties DEF Among
      <4>2. insts'[t[j]].block = b
        <5>1. t[j] = i \/ Among(s, t[j])
          BY <4>1, <1>6 DEF ListWith
        <5> QED BY <5>1, <4>1, InstInserted DEF InstsEdited, InstOf
      <4>3. /\ insts'[t[j]].prev = Elem(t, j - 1)
            /\ insts'[t[j]].next = Elem(t, j + 1)
        BY <1>6 DEF ListWith, Linked
      <4>4. InstOf(b, Elem(t, j - 1), Elem(t, j + 1)) \in InstNode
        <5>1. Elem(t, j - 1) \in Inst \cup {None} /\ Elem(t, j + 1) \in Inst \cup {None}
          BY <4>1, <1>3, ElemType
        <5> QED BY <5>1 DEF InstOf, InstNode
      <4>5. insts'[t[j]] \in InstNode
        BY <4>1 DEF InstsEdited
      <4> QED BY ONLY <4>2, <4>3, <4>4, <4>5, InstNodeEqual DEF InstOf
    <3>2. /\ blocks[b].first_inst = Elem(s, 1)
          /\ blocks[b].last_inst = Elem(s, Len(s))
      BY DEF InstLinks
    <3>3. /\ blocks'[b].first_inst = Elem(t, 1)
          /\ blocks'[b].last_inst = Elem(t, Len(t))
          /\ Distinct(t)
      BY <3>2, <1>6 DEF ListWith
    <3> QED BY <2>1, <3>1, <3>3
  <2>2. CASE c # b
    <3>1. body'[c] = body[c] /\ blocks'[c] = blocks[c]
      BY <2>2, <1>3 DEF BlocksKept
    <3>2. ASSUME NEW j \in 1..Len(body[c])
          PROVE  insts'[body[c][j]] = insts[body[c][j]]
      <4>1. body[c][j] \in Inst /\ Among(body[c], body[c][j])
        BY <1>1, LenProperties DEF Among
      <4>2. ~Among(s, body[c][j]) /\ body[c][j] # i
        BY <4>1, <2>2, InstInserted
      <4> QED BY <4>1, <4>2, <1>8
    <3> QED BY <3>1, <3>2 DEF InstLinks
  <2> QED BY <2>1, <2>2
<1>10. ASSUME NEW x \in Inst, insts'[x] # NoInstNode
       PROVE  insts'[x].block \in Block /\ Among(body'[insts'[x].block], x)
  <2>1. CASE x = i
    <3>1. insts'[x].block = b /\ Among(t, x)
      BY <2>1, <1>6 DEF ListWith, InstsEdited, InstOf
    <3> QED BY <3>1
  <2>2. CASE x # i /\ Among(s, x)
    <3>1. insts'[x].block = b
      BY <2>2, InstInserted DEF InstsEdited
    <3>2. Among(t, x)
      BY <2>2, <1>6 DEF ListWith
    <3> QED BY <3>1, <3>2
  <2>3. CASE x # i /\ ~Among(s, x)
    <3>1. insts'[x] = insts[x]
      BY <2>3, <1>8
    <3>2. insts[x].block \in Block /\ Among(body[insts[x].block], x)
      BY <3>1, <1>10, InstInserted DEF IsInstInserted
    <3>3. insts[x].block # b
      BY <3>2, <2>3
    <3> QED BY <3>1, <3>2, <3>3, <1>3
  <2> QED BY <2>1, <2>2, <2>3
<1> QED BY <1>3, <1>7, <1>9, <1>10 DEF InstLinks, Among

\* The instruction at position k of the body of block b is unlinked.
LEMMA InstRemoval ==
  ASSUME HTypeOK, BlockLinks, InstLinks,
         NEW b \in Block, NEW i \in Inst, NEW k \in 1..Len(body[b]), body[b][k] = i,
         InstsEdited(insts', i, NoInstNode,
                     Elem(body[b], k + 1), Elem(body[b], k - 1),
                     Elem(body[b], k - 1), Elem(body[b], k + 1)),
         BlocksKept(b),
         blocks'[b].first_inst = IF k = 1 THEN Elem(body[b], k + 1) ELSE blocks[b].first_inst,
         blocks'[b].last_inst =
           IF k = Len(body[b]) THEN Elem(body[b], k - 1) ELSE blocks[b].last_inst,
         body' = [body EXCEPT ![b] = RemoveAt(@, k)]
  PROVE  /\ body' \in [Block -> Seq(Inst)]
         /\ BlockLinks' /\ InstLinks'
<1> USE NoneAssumption
<1> DEFINE s == body[b]
           t == body'[b]
<1>1. s \in Seq(Inst) /\ body \in [Block -> Seq(Inst)] /\ insts \in [Inst -> InstNode]
  BY DEF HTypeOK, TypeOK
<1>2. /\ body' = [body EXCEPT ![b] = RemoveAt(s, k)]
      /\ RemoveAt(s, k) \in Seq(Inst)
      /\ IsRemoval(RemoveAt(s, k), s, k)
  BY <1>1, RemoveAtLemma
<1>3. /\ t \in Seq(Inst)
      /\ IsRemoval(t, s, k)
      /\ body' \in [Block -> Seq(Inst)]
      /\ \A c \in Block : c # b => body'[c] = body[c]
  BY <1>1, <1>2
<1>4. Among(s, i) /\ IsInstInserted(i) /\ insts[i].block = b
  BY InstInserted DEF Among
<1>5. Linked(insts, s) /\ Distinct(s)
  BY InstLinksLinked
<1>6. ListWithout(insts', t, s, k)
  <2>1. LinksOut(insts', insts, Inst, s, k)
    BY DEF InstsEdited, LinksOut
  <2> QED BY <2>1, <1>1, <1>3, <1>5, RemoveLinked
<1>7. BlockLinks'
  BY <1>4, InstInserted, BlockInserted, BlockLinksKept
<1>8. \A x \in Inst : ~Among(s, x) => insts'[x] = insts[x]
  <2> TAKE x \in Inst
  <2> HAVE ~Among(s, x)
  <2>1. x # Elem(s, k + 1) /\ x # Elem(s, k - 1) /\ x # i
    BY <1>4 DEF Among, Elem
  <2> QED BY <2>1, InstUntouched
<1>9. ASSUME NEW c \in Block
      PROVE  /\ Distinct(body'[c])
             /\ blocks'[c].first_inst = Elem(body'[c], 1)
             /\ blocks'[c].last_inst = Elem(body'[c], Len(body'[c]))
             /\ \A j \in 1..Len(body'[c]) :
                  insts'[body'[c][j]] = InstOf(c, Elem(body'[c], j - 1), Elem(body'[c], j + 1))
  <2>1. CASE c = b
    <3>1. ASSUME NEW j \in 1..Len(t)
          PROVE  insts'[t[j]] = InstOf(b, Elem(t, j - 1), Elem(t, j + 1))
      <4>1. t[j] \in Inst /\ Among(t, t[j]) /\ j - 1 \in Int /\ j + 1 \in Int
        BY <1>3, LenProperties DEF Among
      <4>2. insts'[t[j]].block = b
        <5>1. t[j] # i /\ Among(s, t[j])
          BY <4>1, <1>6 DEF ListWithout
        <5> QED BY <5>1, <4>1, InstInserted DEF InstsEdited, InstOf
      <4>3. /\ insts'[t[j]].prev = Elem(t, j - 1)
            /\ insts'[t[j]].next = Elem(t, j + 1)
        BY <1>6 DEF ListWithout, Linked
      <4>4. InstOf(b, Elem(t, j - 1), Elem(t, j + 1)) \in InstNode
        <5>1. Elem(t, j - 1) \in Inst \cup {None} /\ Elem(t, j + 1) \in Inst \cup {None}
          BY <4>1, <1>3, ElemType
        <5> QED BY <5>1 DEF InstOf, InstNode
      <4>5. insts'[t[j]] \in InstNode
        BY <4>1 DEF InstsEdited
      <4> QED BY ONLY <4>2, <4>3, <4>4, <4>5, InstNodeEqual DEF InstOf
    <3>2. /\ blocks[b].first_inst = Elem(s, 1)
          /\ blocks[b].last_inst = Elem(s, Len(s))
      BY DEF InstLinks
    <3>3. /\ blocks'[b].first_inst = Elem(t, 1)
          /\ blocks'[b].last_inst = Elem(t, Len(t))
          /\ Distinct(t)
      BY <3>2, <1>6 DEF ListWithout
    <3> QED BY <2>1, <3>1, <3>3
  <2>2. CASE c # b
    <3>1. body'[c] = body[c] /\ blocks'[c] = blocks[c]
      BY <2>2, <1>3 DEF BlocksKept
    <3>2. ASSUME NEW j \in 1..Len(body[c])
          PROVE  insts'[body[c][j]] = insts[body[c][j]]
      <4>1. body[c][j] \in Inst /\ Among(body[c], body[c][j])
        BY <1>1, LenProperties DEF Among
      <4>2. ~Among(s, body[c][j])
        BY <4>1, <2>2, InstInserted
      <4> QED BY <4>1, <4>2, <1>8
    <3> QED BY <3>1, <3>2 DEF InstLinks
  <2> QED BY <2>1, <2>2
<1>10. ASSUME NEW x \in Inst, insts'[x] # NoInstNode
       PROVE  insts'[x].block \in Block /\ Among(body'[insts'[x].block], x)
  <2>1. x # i
    BY <1>10 DEF InstsEdited
  <2>2. CASE Among(s, x)
    <3>1. insts'[x].block = b
      BY <2>1, <2>2, InstInserted DEF InstsEdited
    <3>2. Among(t, x)
      BY <2>1, <2>2, <1>6 DEF ListWithout
    <3> QED BY <3>1, <3>2
  <2>3. CASE ~Among(s, x)
    <3>1. insts'[x] = insts[x]
      BY <2>3, <1>8
    <3>2. insts[x].block \in Block /\ Among(body[insts[x].block], x)
      BY <3>1, <1>10, InstInserted DEF IsInstInserted
    <3>3. insts[x].block # b
      BY <3>2, <2>3
    <3> QED BY <3>1, <3>2, <3>3, <1>3
  <2> QED BY <2>2, <2>3
<1> QED BY <1>3, <1>7, <1>9, <1>10 DEF InstLinks, Among

-----------------------------------------------------------------------------
(***************************************************************************)
(* The link assignments of the operations are such edits.                  *)
(***************************************************************************)
\* The next block map of an edit of the block list, field by field.
LEMMA BlockEdit ==
  ASSUME blocks \in [Block -> BlockNode], NEW e \in Block, NEW node \in BlockNode,
         NEW p \in Block \cup {None}, NEW pv \in Block \cup {None},
         NEW n \in Block \cup {None}, NEW nv \in Block \cup {None}
  PROVE  /\ BlocksEdited([SetPrev(SetNext(blocks, n, nv), p, pv) EXCEPT ![e] = node],
                         e, node, p, pv, n, nv)
         /\ BlocksEdited([SetNext(SetPrev(blocks, p, pv), n, nv) EXCEPT ![e] = node],
                         e, node, p, pv, n, nv)
<1>1. BlocksEdited([SetPrev(SetNext(blocks, n, nv), p, pv) EXCEPT ![e] = node], e, node, p, pv, n, nv)
  <2> DEFINE h == SetNext(blocks, n, nv)
             f == SetPrev(h, p, pv)
  <2>1. BlockNextSet(h, blocks, n, nv)
    BY SetNextBlock
  <2>2. h \in [Block -> BlockNode]
    BY <2>1 DEF BlockNextSet
  <2> HIDE DEF h
  <2>3. BlockPrevSet(f, h, p, pv)
    BY <2>2, SetPrevBlock
  <2> HIDE DEF f
  <2> QED
    BY ONLY <2>1, <2>3, e \in Block, node \in BlockNode
    DEF BlockNextSet, BlockPrevSet, BlocksEdited, f, h
<1>2. BlocksEdited([SetNext(SetPrev(blocks, p, pv), n, nv) EXCEPT ![e] = node], e, node, p, pv, n, nv)
  <2> DEFINE h == SetPrev(blocks, p, pv)
             f == SetNext(h, n, nv)
  <2>1. BlockPrevSet(h, blocks, p, pv)
    BY SetPrevBlock
  <2>2. h \in [Block -> BlockNode]
    BY <2>1 DEF BlockPrevSet
  <2> HIDE DEF h
  <2>3. BlockNextSet(f, h, n, nv)
    BY <2>2, SetNextBlock
  <2> HIDE DEF f
  <2> QED
    BY ONLY <2>1, <2>3, e \in Block, node \in BlockNode
    DEF BlockNextSet, BlockPrevSet, BlocksEdited, f, h
<1> QED BY <1>1, <1>2

\* The next instruction map of an edit of a body, field by field.
LEMMA InstEdit ==
  ASSUME insts \in [Inst -> InstNode], NEW e \in Inst, NEW node \in InstNode,
         NEW p \in Inst \cup {None}, NEW pv \in Inst \cup {None},
         NEW n \in Inst \cup {None}, NEW nv \in Inst \cup {None}
  PROVE  /\ InstsEdited([SetPrev(SetNext(insts, n, nv), p, pv) EXCEPT ![e] = node],
                         e, node, p, pv, n, nv)
         /\ InstsEdited([SetNext(SetPrev(insts, p, pv), n, nv) EXCEPT ![e] = node],
                         e, node, p, pv, n, nv)
<1>1. InstsEdited([SetPrev(SetNext(insts, n, nv), p, pv) EXCEPT ![e] = node], e, node, p, pv, n, nv)
  <2> DEFINE h == SetNext(insts, n, nv)
             f == SetPrev(h, p, pv)
  <2>1. InstNextSet(h, insts, n, nv)
    BY SetNextInst
  <2>2. h \in [Inst -> InstNode]
    BY <2>1 DEF InstNextSet
  <2> HIDE DEF h
  <2>3. InstPrevSet(f, h, p, pv)
    BY <2>2, SetPrevInst
  <2> HIDE DEF f
  <2> QED
    BY ONLY <2>1, <2>3, e \in Inst, node \in InstNode
    DEF InstNextSet, InstPrevSet, InstsEdited, f, h
<1>2. InstsEdited([SetNext(SetPrev(insts, p, pv), n, nv) EXCEPT ![e] = node], e, node, p, pv, n, nv)
  <2> DEFINE h == SetPrev(insts, p, pv)
             f == SetNext(h, n, nv)
  <2>1. InstPrevSet(h, insts, p, pv)
    BY SetPrevInst
  <2>2. h \in [Inst -> InstNode]
    BY <2>1 DEF InstPrevSet
  <2> HIDE DEF h
  <2>3. InstNextSet(f, h, n, nv)
    BY <2>2, SetNextInst
  <2> HIDE DEF f
  <2> QED
    BY ONLY <2>1, <2>3, e \in Inst, node \in InstNode
    DEF InstNextSet, InstPrevSet, InstsEdited, f, h
<1> QED BY <1>1, <1>2

\* Setting the ends of one body changes nothing else of the blocks.
LEMMA EndsEdit ==
  ASSUME HTypeOK, NEW b \in Block,
         NEW f \in Inst \cup {None}, NEW l \in Inst \cup {None},
         blocks' = WithEnds(b, f, l),
         UNCHANGED <<entry_block, last_block, order>>,
         NEW s, body' = [body EXCEPT ![b] = s]
  PROVE  BlocksKept(b) /\ blocks'[b].first_inst = f /\ blocks'[b].last_inst = l
<1>1. blocks \in [Block -> BlockNode] /\ body \in [Block -> Seq(Inst)]
  BY DEF HTypeOK, TypeOK
<1> DEFINE node == [prev |-> blocks[b].prev, next |-> blocks[b].next,
                    first_inst |-> f, last_inst |-> l]
<1>2. blocks' = [blocks EXCEPT ![b] = node]
  <2> DEFINE first == [prev |-> blocks[b].prev, next |-> blocks[b].next,
                       first_inst |-> f, last_inst |-> blocks[b].last_inst]
  <2>1. blocks[b] \in BlockNode
    BY <1>1
  <2>2. [blocks[b] EXCEPT !.first_inst = f] = first
    BY ONLY <2>1 DEF BlockNode, first
  <2>3. [first EXCEPT !.last_inst = l] = node
    BY ONLY DEF first, node
  <2>4. blocks' = [[blocks EXCEPT ![b] = [blocks[b] EXCEPT !.first_inst = f]]
                     EXCEPT ![b] = [[blocks EXCEPT ![b] = [blocks[b] EXCEPT !.first_inst = f]][b]
                                      EXCEPT !.last_inst = l]]
    BY DEF WithEnds
  <2> HIDE DEF first, node
  <2>5. [blocks EXCEPT ![b] = first][b] = first
    BY <1>1
  <2>6. blocks' = [[blocks EXCEPT ![b] = first] EXCEPT ![b] = node]
    BY ONLY <2>2, <2>3, <2>4, <2>5
  <2> QED BY <1>1, <2>6
<1>3. node \in BlockNode /\ blocks' \in [Block -> BlockNode]
  <2>1. node \in BlockNode
    BY <1>1 DEF BlockNode
  <2> QED BY <2>1, <1>1, <1>2
<1>4. blocks'[b] = [prev |-> blocks[b].prev, next |-> blocks[b].next,
                    first_inst |-> f, last_inst |-> l]
  BY <1>1, <1>2
<1>5. \A x \in Block : x # b => blocks'[x] = blocks[x] /\ body'[x] = body[x]
  BY <1>1, <1>2
<1> QED BY ONLY <1>3, <1>4, <1>5, UNCHANGED <<entry_block, last_block, order>> DEF BlocksKept

-----------------------------------------------------------------------------
(***************************************************************************)
(* The operations of the layout are edits of these kinds.                  *)
(***************************************************************************)

\* The part of the type invariant the layout's operations change.
LayoutType ==
  /\ blocks \in [Block -> BlockNode]
  /\ insts \in [Inst -> InstNode]
  /\ entry_block \in Block \cup {None}
  /\ last_block \in Block \cup {None}
  /\ order \in Seq(Block)
  /\ body \in [Block -> Seq(Inst)]

LayoutOK == LayoutType /\ BlockLinks /\ InstLinks

\* A position k of a sequence s has a neighbour before it unless it is the
\* first, and one after it unless it is the last.
LEMMA Neighbours ==
  ASSUME NEW S, None \notin S, NEW s \in Seq(S), NEW k \in 1..Len(s) + 1
  PROVE  /\ Elem(s, k - 1) \in S \cup {None} /\ (Elem(s, k - 1) = None <=> k = 1)
         /\ Elem(s, k) \in S \cup {None} /\ (Elem(s, k) = None <=> k = Len(s) + 1)
         /\ k \in 1..Len(s) =>
              /\ Elem(s, k + 1) \in S \cup {None}
              /\ (Elem(s, k + 1) = None <=> k = Len(s))
         /\ Len(s) \in Nat
<1>1. Len(s) \in Nat /\ \A j \in 1..Len(s) : s[j] \in S
  BY LenProperties
<1> QED BY <1>1 DEF Elem

\* The position of an inserted block in the order, and its neighbours.
LEMMA BlockPosition ==
  ASSUME HTypeOK, BlockLinks, InstLinks, NEW b \in Block, IsBlockInserted(b)
  PROVE  /\ PosIn(order, b) \in 1..Len(order)
         /\ order[PosIn(order, b)] = b
         /\ blocks[b].prev = Elem(order, PosIn(order, b) - 1)
         /\ blocks[b].next = Elem(order, PosIn(order, b) + 1)
         /\ Elem(order, PosIn(order, b)) = b
<1>1. PICK k \in 1..Len(order) : order[k] = b
  BY BlockInserted DEF Among
<1>2. PosIn(order, b) = k
  BY <1>1, PosInLemma DEF HTypeOK, BlockLinks
<1> QED BY <1>1, <1>2 DEF BlockLinks, Elem

\* The position of an inserted instruction in its block, and its neighbours.
LEMMA InstPosition ==
  ASSUME HTypeOK, BlockLinks, InstLinks, NEW i \in Inst, IsInstInserted(i),
         NEW b, b = insts[i].block
  PROVE  /\ b \in Block /\ IsBlockInserted(b)
         /\ PosIn(body[b], i) \in 1..Len(body[b])
         /\ body[b][PosIn(body[b], i)] = i
         /\ insts[i].prev = Elem(body[b], PosIn(body[b], i) - 1)
         /\ insts[i].next = Elem(body[b], PosIn(body[b], i) + 1)
         /\ Elem(body[b], PosIn(body[b], i)) = i
<1>1. b \in Block /\ IsBlockInserted(b) /\ Among(body[b], i)
  BY InstInserted
<1>2. PICK k \in 1..Len(body[b]) : body[b][k] = i
  BY <1>1 DEF Among
<1>3. body[b] \in Seq(Inst) /\ Distinct(body[b]) /\ Linked(insts, body[b])
  BY <1>1, InstLinksLinked DEF HTypeOK
<1>4. PosIn(body[b], i) = k
  BY <1>2, <1>3, PosInLemma
<1> QED BY <1>1, <1>2, <1>3, <1>4 DEF Linked, Elem

\* The node of a block that enters the layout is a block node.
LEMMA EmptyNodeType ==
  ASSUME NEW prev \in Block \cup {None}, NEW next \in Block \cup {None}
  PROVE  EmptyNode(prev, next) \in BlockNode
  BY DEF EmptyNode, BlockNode

\* The nodes of what is not in the layout are nodes.
LEMMA DefaultNodeTypes == NoBlockNode \in BlockNode /\ NoInstNode \in InstNode
  BY DEF NoBlockNode, BlockNode, NoInstNode, InstNode

\* The node of an instruction that enters a body is an instruction node.
LEMMA InstOfType ==
  ASSUME NEW b \in Block, NEW prev \in Inst \cup {None}, NEW next \in Inst \cup {None}
  PROVE  InstOf(b, prev, next) \in InstNode
  BY DEF InstOf, InstNode

\* Linking a block in keeps the types and the links, recorded at its position.
LEMMA BlockInsertionOK ==
  ASSUME HTypeOK, BlockLinks, InstLinks,
         NEW b \in Block, ~IsBlockInserted(b), NEW k \in 1..Len(order) + 1,
         BlocksEdited(blocks', b, EmptyNode(Elem(order, k - 1), Elem(order, k)),
                      Elem(order, k), b, Elem(order, k - 1), b),
         entry_block' = IF k = 1 THEN b ELSE entry_block,
         last_block' = IF k = Len(order) + 1 THEN b ELSE last_block,
         insts' = insts, RecordBlock(b, k)
  PROVE  /\ LayoutOK'
         /\ \A x : Among(order', x) <=> x = b \/ Among(order, x)
<1>1. /\ order' \in Seq(Block) /\ body' = body
      /\ BlockLinks' /\ InstLinks'
      /\ \A x : Among(order', x) <=> x = b \/ Among(order, x)
  BY BlockInsertion
<1>2. blocks' \in [Block -> BlockNode]
  BY DEF BlocksEdited
<1> QED BY <1>1, <1>2 DEF LayoutOK, LayoutType, HTypeOK, TypeOK

\* Layout::append_block, insert_block_before and insert_block_after.
LEMMA AppendBlockOK ==
  ASSUME HTypeOK, BlockLinks, InstLinks, NEW b \in Block, AppendBlock(b),
         RecordBlock(b, Len(order) + 1)
  PROVE  /\ LayoutOK'
         /\ \A x : Among(order', x) <=> x = b \/ Among(order, x)
<1> USE NoneAssumption
<1> DEFINE k == Len(order) + 1
<1>1. Len(order) \in Nat /\ order \in Seq(Block)
  BY LenProperties DEF HTypeOK
<1>2. k \in 1..Len(order) + 1 /\ k - 1 = Len(order)
  BY ONLY <1>1
<1>3. /\ last_block = Elem(order, k - 1) /\ None = Elem(order, k)
      /\ last_block \in Block \cup {None}
      /\ (last_block = None <=> k = 1)
  BY <1>1, <1>2, Neighbours DEF BlockLinks
<1>4. /\ blocks' = [SetNext(SetPrev(blocks, None, b), last_block, b)
                      EXCEPT ![b] = EmptyNode(last_block, None)]
      /\ entry_block' = (IF k = 1 THEN b ELSE entry_block)
      /\ last_block' = (IF k = Len(order) + 1 THEN b ELSE last_block)
      /\ insts' = insts /\ ~IsBlockInserted(b)
  <2>1. SetPrev(blocks, None, b) = blocks
    BY DEF SetPrev
  <2> QED BY <2>1, <1>3 DEF AppendBlock
<1>5. BlocksEdited(blocks', b, EmptyNode(last_block, None), None, b, last_block, b)
  BY <1>3, <1>4, EmptyNodeType, BlockEdit DEF HTypeOK, TypeOK
<1>6. RecordBlock(b, k)
  OBVIOUS
<1> HIDE DEF k
<1> QED BY <1>2, <1>3, <1>4, <1>5, <1>6, BlockInsertionOK

\* Layout::insert_block_before links the block in where the cursor block is.
LEMMA InsertBlockBeforeOK ==
  ASSUME HTypeOK, BlockLinks, InstLinks, NEW b \in Block, NEW before \in Block,
         InsertBlockBefore(b, before), RecordBlock(b, PosIn(order, before))
  PROVE  /\ LayoutOK'
         /\ \A x : Among(order', x) <=> x = b \/ Among(order, x)
<1> USE NoneAssumption
<1> DEFINE k == PosIn(order, before)
           prev == blocks[before].prev
<1>1. /\ k \in 1..Len(order) /\ before = Elem(order, k) /\ prev = Elem(order, k - 1)
      /\ RecordBlock(b, k)
  BY BlockPosition DEF InsertBlockBefore
<1>2. /\ blocks' = [SetPrev(SetNext(blocks, prev, b), before, b)
                      EXCEPT ![b] = EmptyNode(prev, before)]
      /\ entry_block' = (IF prev = None THEN b ELSE entry_block)
      /\ last_block' = last_block /\ insts' = insts /\ ~IsBlockInserted(b)
  BY DEF InsertBlockBefore
<1> HIDE DEF k, prev
<1>3. Len(order) \in Nat /\ order \in Seq(Block)
  BY LenProperties DEF HTypeOK
<1>4. k \in 1..Len(order) + 1 /\ k # Len(order) + 1
  BY ONLY <1>1, <1>3
<1>5. prev \in Block \cup {None} /\ (prev = None <=> k = 1)
  BY <1>1, <1>3, <1>4, Neighbours
<1>6. BlocksEdited(blocks', b, EmptyNode(prev, before), before, b, prev, b)
  BY <1>2, <1>5, EmptyNodeType, BlockEdit DEF HTypeOK, TypeOK
<1> QED BY <1>1, <1>2, <1>4, <1>5, <1>6, BlockInsertionOK

\* Layout::insert_block_after links the block in behind the cursor block.
LEMMA InsertBlockAfterOK ==
  ASSUME HTypeOK, BlockLinks, InstLinks, NEW b \in Block, NEW after \in Block,
         InsertBlockAfter(b, after), RecordBlock(b, PosIn(order, after) + 1)
  PROVE  /\ LayoutOK'
         /\ \A x : Among(order', x) <=> x = b \/ Among(order, x)
<1> USE NoneAssumption
<1> DEFINE j == PosIn(order, after)
           k == j + 1
           next == blocks[after].next
<1>1. /\ j \in 1..Len(order) /\ after = Elem(order, j) /\ next = Elem(order, j + 1)
      /\ RecordBlock(b, k)
  BY BlockPosition DEF InsertBlockAfter
<1>2. /\ blocks' = [SetNext(SetPrev(blocks, next, b), after, b)
                      EXCEPT ![b] = EmptyNode(after, next)]
      /\ last_block' = (IF next = None THEN b ELSE last_block)
      /\ entry_block' = entry_block /\ insts' = insts /\ ~IsBlockInserted(b)
  BY DEF InsertBlockAfter
<1> HIDE DEF j, next
<1>3. Len(order) \in Nat /\ order \in Seq(Block)
  BY LenProperties DEF HTypeOK
<1>4. k \in 1..Len(order) + 1 /\ k # 1 /\ k - 1 = j
  BY ONLY <1>1, <1>3
<1>5. after = Elem(order, k - 1) /\ next = Elem(order, k) /\ RecordBlock(b, k)
  BY <1>1, <1>4
<1> HIDE DEF k
<1>6. next \in Block \cup {None} /\ (next = None <=> k = Len(order) + 1)
  BY <1>3, <1>4, <1>5, Neighbours
<1>7. BlocksEdited(blocks', b, EmptyNode(after, next), next, b, after, b)
  BY <1>2, <1>6, EmptyNodeType, BlockEdit DEF HTypeOK, TypeOK
<1> QED BY <1>2, <1>4, <1>5, <1>6, <1>7, BlockInsertionOK

\* Layout::remove_block, of a block whose body is empty.
LEMMA RemoveBlockOK ==
  ASSUME HTypeOK, BlockLinks, InstLinks, NEW b \in Block, RemoveBlock(b),
         body[b] = <<>>, RecordRemoveBlock(b)
  PROVE  /\ LayoutOK'
         /\ \A x : Among(order', x) <=> x # b /\ Among(order, x)
<1> USE NoneAssumption
<1> DEFINE k == PosIn(order, b)
           prev == blocks[b].prev
           next == blocks[b].next
<1>1. k \in 1..Len(order) /\ order[k] = b /\ prev = Elem(order, k - 1) /\ next = Elem(order, k + 1)
  BY BlockPosition DEF RemoveBlock
<1>2. /\ blocks' = [SetPrev(SetNext(blocks, prev, next), next, prev) EXCEPT ![b] = NoBlockNode]
      /\ entry_block' = (IF prev = None THEN next ELSE entry_block)
      /\ last_block' = (IF next = None THEN prev ELSE last_block)
      /\ insts' = insts /\ order' = RemoveAt(order, k) /\ body' = body
  BY DEF RemoveBlock, RecordRemoveBlock
<1> HIDE DEF k, prev, next
<1>3. Len(order) \in Nat /\ order \in Seq(Block)
  BY LenProperties DEF HTypeOK
<1>4. k \in 1..Len(order) + 1
  BY ONLY <1>1, <1>3
<1>5. /\ prev \in Block \cup {None} /\ (prev = None <=> k = 1)
      /\ next \in Block \cup {None} /\ (next = None <=> k = Len(order))
  BY <1>1, <1>3, <1>4, Neighbours
<1>6. BlocksEdited(blocks', b, NoBlockNode, next, prev, prev, next)
  BY <1>2, <1>5, DefaultNodeTypes, BlockEdit DEF HTypeOK, TypeOK
<1>7. /\ order' \in Seq(Block)
      /\ BlockLinks' /\ InstLinks'
      /\ \A x : Among(order', x) <=> x # b /\ Among(order, x)
  BY <1>1, <1>2, <1>5, <1>6, BlockRemoval
<1>8. blocks' \in [Block -> BlockNode]
  BY <1>6 DEF BlocksEdited
<1> QED BY <1>2, <1>5, <1>7, <1>8 DEF LayoutOK, LayoutType, HTypeOK, TypeOK

\* Linking an instruction in keeps the types and the links, recorded at its position.
LEMMA InstInsertionOK ==
  ASSUME HTypeOK, BlockLinks, InstLinks,
         NEW b \in Block, IsBlockInserted(b), NEW i \in Inst, ~IsInstInserted(i),
         NEW k \in 1..Len(body[b]) + 1,
         InstsEdited(insts', i, InstOf(b, Elem(body[b], k - 1), Elem(body[b], k)),
                     Elem(body[b], k), i, Elem(body[b], k - 1), i),
         blocks' = WithEnds(b, IF k = 1 THEN i ELSE blocks[b].first_inst,
                               IF k = Len(body[b]) + 1 THEN i ELSE blocks[b].last_inst),
         UNCHANGED <<entry_block, last_block>>,
         RecordInst(i, b, k)
  PROVE  LayoutOK' /\ order' = order
<1>1. blocks[b].first_inst \in Inst \cup {None} /\ blocks[b].last_inst \in Inst \cup {None}
  BY DEF HTypeOK, TypeOK, BlockNode
<1>2. /\ UNCHANGED <<entry_block, last_block, order>>
      /\ body' = [body EXCEPT ![b] = InsertAt(body[b], k, i)]
  BY DEF RecordInst
<1>3. /\ BlocksKept(b)
      /\ blocks'[b].first_inst = IF k = 1 THEN i ELSE blocks[b].first_inst
      /\ blocks'[b].last_inst = IF k = Len(body[b]) + 1 THEN i ELSE blocks[b].last_inst
  <2> DEFINE f == IF k = 1 THEN i ELSE blocks[b].first_inst
             l == IF k = Len(body[b]) + 1 THEN i ELSE blocks[b].last_inst
             s == InsertAt(body[b], k, i)
  <2>1. f \in Inst \cup {None} /\ l \in Inst \cup {None}
    BY <1>1
  <2>2. blocks' = WithEnds(b, f, l) /\ body' = [body EXCEPT ![b] = s]
    BY <1>2
  <2> HIDE DEF f, l, s
  <2>3. BlocksKept(b) /\ blocks'[b].first_inst = f /\ blocks'[b].last_inst = l
    BY <2>1, <2>2, <1>2, EndsEdit
  <2> QED BY <2>3 DEF f, l
<1>4. /\ body' \in [Block -> Seq(Inst)]
      /\ BlockLinks' /\ InstLinks'
  BY <1>3, InstInsertion
<1>5. insts' \in [Inst -> InstNode] /\ blocks' \in [Block -> BlockNode]
  BY <1>3 DEF InstsEdited, BlocksKept
<1> QED BY <1>2, <1>4, <1>5 DEF LayoutOK, LayoutType, HTypeOK, TypeOK

\* The ends of a body, and the typing facts the next lemmas need.
LEMMA BodyFacts ==
  ASSUME HTypeOK, BlockLinks, InstLinks, NEW b \in Block
  PROVE  /\ body[b] \in Seq(Inst) /\ Len(body[b]) \in Nat
         /\ blocks[b].first_inst = Elem(body[b], 1)
         /\ blocks[b].last_inst = Elem(body[b], Len(body[b]))
         /\ insts \in [Inst -> InstNode]
<1>1. body[b] \in Seq(Inst) /\ insts \in [Inst -> InstNode]
  BY DEF HTypeOK, TypeOK
<1> QED BY <1>1, LenProperties DEF InstLinks

\* Layout::append_inst, prepend_inst, insert_inst_before, insert_inst_after.
LEMMA AppendInstOK ==
  ASSUME HTypeOK, BlockLinks, InstLinks, NEW b \in Block, NEW i \in Inst,
         AppendInst(i, b), RecordInst(i, b, Len(body[b]) + 1)
  PROVE  LayoutOK' /\ order' = order
<1> USE NoneAssumption
<1> DEFINE s == body[b]
           k == Len(s) + 1
           last == blocks[b].last_inst
<1>1. s \in Seq(Inst) /\ Len(s) \in Nat /\ last = Elem(s, Len(s)) /\ insts \in [Inst -> InstNode]
  BY BodyFacts
<1>2. k \in 1..Len(s) + 1 /\ k - 1 = Len(s)
  BY ONLY <1>1
<1>3. /\ last = Elem(s, k - 1) /\ None = Elem(s, k)
      /\ last \in Inst \cup {None} /\ (last = None <=> k = 1)
  BY <1>1, <1>2, Neighbours
<1>4. /\ insts' = [SetNext(SetPrev(insts, None, i), last, i) EXCEPT ![i] = InstOf(b, last, None)]
      /\ blocks' = WithEnds(b, IF last = None THEN i ELSE blocks[b].first_inst, i)
      /\ UNCHANGED <<entry_block, last_block>>
      /\ IsBlockInserted(b) /\ ~IsInstInserted(i)
  BY DEF AppendInst, SetPrev
<1>5. blocks' = WithEnds(b, IF k = 1 THEN i ELSE blocks[b].first_inst,
                            IF k = Len(s) + 1 THEN i ELSE blocks[b].last_inst)
  BY <1>3, <1>4
<1>6. InstsEdited(insts', i, InstOf(b, last, None), None, i, last, i)
  BY <1>1, <1>3, <1>4, InstOfType, InstEdit
<1>7. RecordInst(i, b, k)
  OBVIOUS
<1> HIDE DEF k, last
<1> QED BY <1>2, <1>3, <1>4, <1>5, <1>6, <1>7, InstInsertionOK

\* Layout::prepend_inst links the instruction in at the start of the body.
LEMMA PrependInstOK ==
  ASSUME HTypeOK, BlockLinks, InstLinks, NEW b \in Block, NEW i \in Inst,
         PrependInst(i, b), RecordInst(i, b, 1)
  PROVE  LayoutOK' /\ order' = order
<1> USE NoneAssumption
<1> DEFINE s == body[b]
           first == blocks[b].first_inst
<1>1. s \in Seq(Inst) /\ Len(s) \in Nat /\ first = Elem(s, 1) /\ insts \in [Inst -> InstNode]
  BY BodyFacts
<1>2. 1 \in 1..Len(s) + 1
  BY ONLY <1>1
<1>3. /\ Elem(s, 1 - 1) = None
      /\ first \in Inst \cup {None} /\ (first = None <=> 1 = Len(s) + 1)
  BY <1>1, <1>2, Neighbours
<1>4. /\ insts' = [SetPrev(SetNext(insts, None, i), first, i) EXCEPT ![i] = InstOf(b, None, first)]
      /\ blocks' = WithEnds(b, i, IF first = None THEN i ELSE blocks[b].last_inst)
      /\ UNCHANGED <<entry_block, last_block>>
      /\ IsBlockInserted(b) /\ ~IsInstInserted(i)
  BY DEF PrependInst, SetNext
<1>5. blocks' = WithEnds(b, IF 1 = 1 THEN i ELSE blocks[b].first_inst,
                            IF 1 = Len(s) + 1 THEN i ELSE blocks[b].last_inst)
  BY <1>3, <1>4
<1>6. InstsEdited(insts', i, InstOf(b, None, first), first, i, None, i)
  BY <1>1, <1>3, <1>4, InstOfType, InstEdit
<1>7. InstsEdited(insts', i, InstOf(b, Elem(s, 1 - 1), Elem(s, 1)), Elem(s, 1), i, Elem(s, 1 - 1), i)
  BY <1>1, <1>3, <1>6
<1> HIDE DEF first
<1> QED BY <1>2, <1>4, <1>5, <1>7, InstInsertionOK

\* Layout::insert_inst_before links the instruction in where the other one is.
LEMMA InsertInstBeforeOK ==
  ASSUME HTypeOK, BlockLinks, InstLinks, NEW i \in Inst, NEW before \in Inst,
         NEW b, b = insts[before].block,
         InsertInstBefore(i, before), RecordInst(i, b, PosIn(body[b], before))
  PROVE  LayoutOK' /\ order' = order
<1> USE NoneAssumption
<1> DEFINE s == body[b]
           k == PosIn(s, before)
           prev == insts[before].prev
<1>1. /\ b \in Block /\ IsBlockInserted(b)
      /\ k \in 1..Len(s) /\ before = Elem(s, k) /\ prev = Elem(s, k - 1)
      /\ RecordInst(i, b, k)
  BY InstPosition DEF InsertInstBefore
<1>2. /\ insts' = [SetPrev(SetNext(insts, prev, i), before, i) EXCEPT ![i] = InstOf(b, prev, before)]
      /\ blocks' = WithEnds(b, IF prev = None THEN i ELSE blocks[b].first_inst, blocks[b].last_inst)
      /\ UNCHANGED <<entry_block, last_block>>
      /\ ~IsInstInserted(i)
  BY DEF InsertInstBefore
<1> HIDE DEF k, prev
<1>3. s \in Seq(Inst) /\ Len(s) \in Nat /\ insts \in [Inst -> InstNode]
  BY <1>1, BodyFacts
<1>4. k \in 1..Len(s) + 1 /\ k < Len(s) + 1
  BY ONLY <1>1, <1>3
<1>5. prev \in Inst \cup {None} /\ (prev = None <=> k = 1)
  <2>1. Elem(s, k - 1) \in Inst \cup {None} /\ (Elem(s, k - 1) = None <=> k = 1)
    <3>1. k \in 1..Len(s) + 1 /\ s \in Seq(Inst)
      BY <1>3, <1>4
    <3> QED BY ONLY <3>1, NoneAssumption, Neighbours
  <2> QED BY ONLY <2>1, <1>1
<1>6. blocks' = WithEnds(b, IF k = 1 THEN i ELSE blocks[b].first_inst,
                            IF k = Len(s) + 1 THEN i ELSE blocks[b].last_inst)
  BY <1>2, <1>4, <1>5
<1>7. InstsEdited(insts', i, InstOf(b, prev, before), before, i, prev, i)
  BY <1>1, <1>2, <1>3, <1>5, InstOfType, InstEdit
<1> QED BY <1>1, <1>2, <1>4, <1>6, <1>7, InstInsertionOK

\* Layout::insert_inst_after links the instruction in behind the other one.
LEMMA InsertInstAfterOK ==
  ASSUME HTypeOK, BlockLinks, InstLinks, NEW i \in Inst, NEW after \in Inst,
         NEW b, b = insts[after].block,
         InsertInstAfter(i, after), RecordInst(i, b, PosIn(body[b], after) + 1)
  PROVE  LayoutOK' /\ order' = order
<1> USE NoneAssumption
<1> DEFINE s == body[b]
           j == PosIn(s, after)
           k == j + 1
           next == insts[after].next
<1>1. /\ b \in Block /\ IsBlockInserted(b)
      /\ j \in 1..Len(s) /\ after = Elem(s, j) /\ next = Elem(s, j + 1)
      /\ RecordInst(i, b, k)
  BY InstPosition DEF InsertInstAfter
<1>2. /\ insts' = [SetNext(SetPrev(insts, next, i), after, i) EXCEPT ![i] = InstOf(b, after, next)]
      /\ blocks' = WithEnds(b, blocks[b].first_inst, IF next = None THEN i ELSE blocks[b].last_inst)
      /\ UNCHANGED <<entry_block, last_block>>
      /\ ~IsInstInserted(i)
  BY DEF InsertInstAfter
<1> HIDE DEF j, next
<1>3. s \in Seq(Inst) /\ Len(s) \in Nat /\ insts \in [Inst -> InstNode]
  BY <1>1, BodyFacts
<1>4. k \in 1..Len(s) + 1 /\ k # 1 /\ k - 1 = j
  BY ONLY <1>1, <1>3
<1>5. after = Elem(s, k - 1) /\ next = Elem(s, k) /\ RecordInst(i, b, k)
  BY <1>1, <1>4
<1> HIDE DEF k
<1>6. next \in Inst \cup {None} /\ (next = None <=> k = Len(s) + 1)
  <2>1. Elem(s, k) \in Inst \cup {None} /\ (Elem(s, k) = None <=> k = Len(s) + 1)
    BY <1>3, <1>4, Neighbours
  <2> QED BY ONLY <2>1, <1>5
<1>7. blocks' = WithEnds(b, IF k = 1 THEN i ELSE blocks[b].first_inst,
                            IF k = Len(s) + 1 THEN i ELSE blocks[b].last_inst)
  BY <1>2, <1>4, <1>6
<1>8. InstsEdited(insts', i, InstOf(b, after, next), next, i, after, i)
  BY <1>1, <1>2, <1>3, <1>6, InstOfType, InstEdit
<1> QED BY <1>1, <1>2, <1>4, <1>5, <1>7, <1>8, InstInsertionOK

\* Layout::remove_inst.
LEMMA RemoveInstOK ==
  ASSUME HTypeOK, BlockLinks, InstLinks, NEW i \in Inst,
         NEW b, b = insts[i].block,
         RemoveInst(i), RecordRemoveInst(i, b)
  PROVE  LayoutOK' /\ order' = order
<1> USE NoneAssumption
<1> DEFINE s == body[b]
           k == PosIn(s, i)
           prev == insts[i].prev
           next == insts[i].next
<1>1. /\ b \in Block /\ IsBlockInserted(b)
      /\ k \in 1..Len(s) /\ s[k] = i /\ prev = Elem(s, k - 1) /\ next = Elem(s, k + 1)
      /\ body' = [body EXCEPT ![b] = RemoveAt(s, k)] /\ order' = order
  BY InstPosition DEF RemoveInst, RecordRemoveInst
<1>2. /\ insts' = [SetPrev(SetNext(insts, prev, next), next, prev) EXCEPT ![i] = NoInstNode]
      /\ blocks' = WithEnds(b, IF prev = None THEN next ELSE blocks[b].first_inst,
                               IF next = None THEN prev ELSE blocks[b].last_inst)
      /\ UNCHANGED <<entry_block, last_block>>
  BY DEF RemoveInst
<1> HIDE DEF k, prev, next
<1>3. s \in Seq(Inst) /\ Len(s) \in Nat /\ insts \in [Inst -> InstNode]
  BY <1>1, BodyFacts
<1>4. k \in 1..Len(s) + 1
  BY ONLY <1>1, <1>3
<1>5. /\ prev \in Inst \cup {None} /\ (prev = None <=> k = 1)
      /\ next \in Inst \cup {None} /\ (next = None <=> k = Len(s))
  BY <1>1, <1>3, <1>4, Neighbours
<1>6. InstsEdited(insts', i, NoInstNode, next, prev, prev, next)
  BY <1>2, <1>3, <1>5, DefaultNodeTypes, InstEdit
<1>7. blocks[b].first_inst \in Inst \cup {None} /\ blocks[b].last_inst \in Inst \cup {None}
  BY <1>1 DEF HTypeOK, TypeOK, BlockNode
<1>8. /\ BlocksKept(b)
      /\ blocks'[b].first_inst = IF k = 1 THEN next ELSE blocks[b].first_inst
      /\ blocks'[b].last_inst = IF k = Len(s) THEN prev ELSE blocks[b].last_inst
  <2>1. UNCHANGED <<entry_block, last_block, order>>
    BY <1>1, <1>2
  <2> DEFINE first == IF k = 1 THEN next ELSE blocks[b].first_inst
             last == IF k = Len(s) THEN prev ELSE blocks[b].last_inst
  <2>2. blocks' = WithEnds(b, first, last)
    BY <1>2, <1>5
  <2>3. first \in Inst \cup {None} /\ last \in Inst \cup {None}
    BY <1>5, <1>7
  <2> HIDE DEF first, last
  <2>4. BlocksKept(b) /\ blocks'[b].first_inst = first /\ blocks'[b].last_inst = last
    BY <2>1, <2>2, <2>3, <1>1, EndsEdit
  <2> QED BY ONLY <2>4 DEF first, last
<1>9. /\ body' \in [Block -> Seq(Inst)]
      /\ BlockLinks' /\ InstLinks'
  BY <1>1, <1>6, <1>8, InstRemoval
<1>10. insts' \in [Inst -> InstNode] /\ blocks' \in [Block -> BlockNode]
  BY <1>6, <1>8 DEF InstsEdited, BlocksKept
<1> QED BY <1>1, <1>2, <1>9, <1>10 DEF LayoutOK, LayoutType, HTypeOK, TypeOK

-----------------------------------------------------------------------------
(***************************************************************************)
(* The cursor.                                                             *)
(***************************************************************************)
InsertedOK ==
  /\ \A b \in Block : IsBlockInserted(b) <=> Among(order, b)
  /\ \A i \in Inst : IsInstInserted(i) =>
       insts[i].block \in Block /\ Among(body[insts[i].block], i)
  /\ \A b \in Block, i \in Inst : Among(body[b], i) =>
       IsInstInserted(i) /\ insts[i].block = b /\ IsBlockInserted(b)

\* What is_block_inserted and is_inst_inserted answer, by the recorded sequences.
LEMMA InsertedIff == HTypeOK /\ Represents => InsertedOK
<1> SUFFICES ASSUME HTypeOK, BlockLinks, InstLinks PROVE InsertedOK
  BY DEF Represents
<1>1. ASSUME NEW b \in Block
      PROVE  IsBlockInserted(b) <=> Among(order, b)
  BY BlockInserted
<1>2. ASSUME NEW i \in Inst, IsInstInserted(i)
      PROVE  insts[i].block \in Block /\ Among(body[insts[i].block], i)
  BY <1>2, InstInserted
<1>3. ASSUME NEW b \in Block, NEW i \in Inst, Among(body[b], i)
      PROVE  IsInstInserted(i) /\ insts[i].block = b /\ IsBlockInserted(b)
  BY <1>3, InstInserted
<1> QED BY <1>1, <1>2, <1>3 DEF InsertedOK

\* The same of the next state.
LEMMA InsertedIffNext == (HTypeOK /\ Represents)' => InsertedOK'
  BY InsertedIff, PTL

\* A location the cursor may be at.
LocOK(l) ==
  /\ l \in Locations
  /\ l.at = "inst" => IsInstInserted(l.inst)
  /\ l.at \in {"top", "bottom"} => IsBlockInserted(l.block)

\* A location is at an instruction, at an end of a block, or nowhere.
LEMMA LocationCases ==
  ASSUME NEW l \in Locations
  PROVE  \/ l.at = "inst" /\ l.inst \in Inst
         \/ l.at = "top" /\ l.block \in Block
         \/ l.at = "bottom" /\ l.block \in Block
         \/ l.at = "nowhere"
  BY DEF Locations

\* The locations the cursor makes of instructions and blocks are locations.
LEMMA LocationTypes ==
  /\ \A i \in Inst : At(i) \in Locations /\ At(i).at = "inst" /\ At(i).inst = i
  /\ \A b \in Block : /\ BlockTop(b) \in Locations /\ BlockTop(b).at = "top"
                      /\ BlockTop(b).block = b
                      /\ BlockBottom(b) \in Locations /\ BlockBottom(b).at = "bottom"
                      /\ BlockBottom(b).block = b
  /\ NoWhere \in Locations /\ NoWhere.at = "nowhere"
  BY DEF Locations, At, BlockTop, BlockBottom, NoWhere

\* The kinds of location are distinct, so one of the three conditions applies.
LEMMA LocOKForms ==
  /\ \A i \in Inst : IsInstInserted(i) => LocOK(At(i))
  /\ \A b \in Block : IsBlockInserted(b) => LocOK(BlockTop(b)) /\ LocOK(BlockBottom(b))
  /\ LocOK(NoWhere)
  BY LocationTypes DEF LocOK

\* The links of what is inserted lead to what is inserted.
LEMMA LinksInserted ==
  ASSUME HTypeOK, BlockLinks, InstLinks
  PROVE  /\ \A b \in Block : IsBlockInserted(b) =>
              /\ blocks[b].next # None =>
                   blocks[b].next \in Block /\ IsBlockInserted(blocks[b].next)
              /\ blocks[b].prev # None =>
                   blocks[b].prev \in Block /\ IsBlockInserted(blocks[b].prev)
              /\ blocks[b].first_inst # None =>
                   blocks[b].first_inst \in Inst /\ IsInstInserted(blocks[b].first_inst)
              /\ blocks[b].last_inst # None =>
                   blocks[b].last_inst \in Inst /\ IsInstInserted(blocks[b].last_inst)
         /\ \A i \in Inst : IsInstInserted(i) =>
              /\ insts[i].block \in Block /\ IsBlockInserted(insts[i].block)
              /\ insts[i].next # None =>
                   insts[i].next \in Inst /\ IsInstInserted(insts[i].next)
              /\ insts[i].prev # None =>
                   insts[i].prev \in Inst /\ IsInstInserted(insts[i].prev)
         /\ entry_block # None => entry_block \in Block /\ IsBlockInserted(entry_block)
<1>1. \A k \in Int : Elem(order, k) # None =>
        Elem(order, k) \in Block /\ IsBlockInserted(Elem(order, k))
  <2> TAKE k \in Int
  <2> HAVE Elem(order, k) # None
  <2>1. Elem(order, k) \in Block /\ Among(order, Elem(order, k))
    BY ElemType DEF HTypeOK, Among, Elem
  <2> QED BY <2>1, BlockInserted
<1>2. \A b \in Block, k \in Int : Elem(body[b], k) # None =>
        Elem(body[b], k) \in Inst /\ IsInstInserted(Elem(body[b], k))
  <2> TAKE b \in Block, k \in Int
  <2> HAVE Elem(body[b], k) # None
  <2>0. body[b] \in Seq(Inst)
    BY DEF HTypeOK
  <2>1. Elem(body[b], k) \in Inst /\ Among(body[b], Elem(body[b], k))
    BY <2>0, ElemType DEF Among, Elem
  <2> QED BY <2>1, InstInserted
<1>3. ASSUME NEW b \in Block, IsBlockInserted(b)
      PROVE  \E k \in Int : /\ blocks[b].prev = Elem(order, k - 1) /\ k - 1 \in Int
                            /\ blocks[b].next = Elem(order, k + 1) /\ k + 1 \in Int
  <2>1. PosIn(order, b) \in Int /\ Len(order) \in Nat
    BY <1>3, BlockPosition, LenProperties DEF HTypeOK
  <2> QED BY <2>1, <1>3, BlockPosition
<1>4. ASSUME NEW b \in Block
      PROVE  /\ blocks[b].first_inst = Elem(body[b], 1)
             /\ blocks[b].last_inst = Elem(body[b], Len(body[b])) /\ Len(body[b]) \in Int
  BY BodyFacts
<1>5. ASSUME NEW i \in Inst, IsInstInserted(i)
      PROVE  /\ insts[i].block \in Block /\ IsBlockInserted(insts[i].block)
             /\ \E k \in Int :
                  /\ insts[i].prev = Elem(body[insts[i].block], k - 1) /\ k - 1 \in Int
                  /\ insts[i].next = Elem(body[insts[i].block], k + 1) /\ k + 1 \in Int
  <2> DEFINE b == insts[i].block
  <2>1. b \in Block /\ IsBlockInserted(b) /\ PosIn(body[b], i) \in 1..Len(body[b])
    BY <1>5, InstPosition
  <2>2. PosIn(body[b], i) \in Int
    BY <2>1, BodyFacts
  <2> QED BY <2>1, <2>2, <1>5, InstPosition
<1>6. entry_block = Elem(order, 1)
  BY DEF BlockLinks
<1>7. ASSUME NEW b \in Block, IsBlockInserted(b)
      PROVE  /\ blocks[b].next # None =>
                   blocks[b].next \in Block /\ IsBlockInserted(blocks[b].next)
             /\ blocks[b].prev # None =>
                   blocks[b].prev \in Block /\ IsBlockInserted(blocks[b].prev)
  BY <1>1, <1>3, <1>7
<1>8. ASSUME NEW b \in Block
      PROVE  /\ blocks[b].first_inst # None =>
                   blocks[b].first_inst \in Inst /\ IsInstInserted(blocks[b].first_inst)
             /\ blocks[b].last_inst # None =>
                   blocks[b].last_inst \in Inst /\ IsInstInserted(blocks[b].last_inst)
  BY <1>2, <1>4
<1>9. ASSUME NEW i \in Inst, IsInstInserted(i)
      PROVE  /\ insts[i].next # None =>
                   insts[i].next \in Inst /\ IsInstInserted(insts[i].next)
             /\ insts[i].prev # None =>
                   insts[i].prev \in Inst /\ IsInstInserted(insts[i].prev)
  BY <1>2, <1>5, <1>9
<1>10. entry_block # None => entry_block \in Block /\ IsBlockInserted(entry_block)
  BY <1>1, <1>6
<1> QED BY <1>5, <1>7, <1>8, <1>9, <1>10

\* CursorLocation::block of a valid location, and its two neighbours.
LEMMA CursorLocs ==
  ASSUME HTypeOK, BlockLinks, InstLinks, LocOK(loc)
  PROVE  /\ LocOK(NextLoc) /\ LocOK(PrevLoc)
         /\ CursorBlock # None => CursorBlock \in Block /\ IsBlockInserted(CursorBlock)
         /\ loc.at # "nowhere" => CursorBlock # None
         /\ \A b : b # None => LocOK(TopOrNoWhere(b)) <=> LocOK(BlockTop(b))
<1> USE NoneAssumption, LinksInserted, LocOKForms
<1>1. \A b : b # None => LocOK(TopOrNoWhere(b)) <=> LocOK(BlockTop(b))
  BY DEF TopOrNoWhere
<1>2. CASE loc.at = "inst" /\ loc.inst \in Inst
  <2>1. IsInstInserted(loc.inst)
    BY <1>2 DEF LocOK
  <2> DEFINE i == loc.inst
             b == insts[i].block
  <2>2. /\ NextLoc = IF insts[i].next = None THEN BlockBottom(b) ELSE At(insts[i].next)
        /\ PrevLoc = IF insts[i].prev = None THEN BlockTop(b) ELSE At(insts[i].prev)
        /\ CursorBlock = b
    BY <1>2 DEF NextLoc, PrevLoc, CursorBlock
  <2> QED BY <1>1, <1>2, <2>1, <2>2
<1>3. CASE loc.at = "top" /\ loc.block \in Block
  <2>1. IsBlockInserted(loc.block)
    BY <1>3 DEF LocOK
  <2> DEFINE b == loc.block
  <2>2. /\ NextLoc = IF blocks[b].first_inst = None THEN BlockBottom(b) ELSE At(blocks[b].first_inst)
        /\ PrevLoc = IF blocks[b].prev = None THEN NoWhere ELSE BlockBottom(blocks[b].prev)
        /\ CursorBlock = b
    BY <1>3 DEF NextLoc, PrevLoc, CursorBlock
  <2> QED BY <1>1, <1>3, <2>1, <2>2
<1>4. CASE loc.at = "bottom" /\ loc.block \in Block
  <2>1. IsBlockInserted(loc.block)
    BY <1>4 DEF LocOK
  <2> DEFINE b == loc.block
  <2>2. /\ NextLoc = IF blocks[b].next = None THEN NoWhere ELSE BlockTop(blocks[b].next)
        /\ PrevLoc = IF blocks[b].last_inst = None THEN BlockTop(b) ELSE At(blocks[b].last_inst)
        /\ CursorBlock = b
    BY <1>4 DEF NextLoc, PrevLoc, CursorBlock
  <2> QED BY <1>1, <1>4, <2>1, <2>2
<1>5. CASE loc.at = "nowhere"
  <2>1. NextLoc = NoWhere /\ PrevLoc = NoWhere /\ CursorBlock = None
    BY <1>5 DEF NextLoc, PrevLoc, CursorBlock
  <2> QED BY <1>1, <1>5, <2>1
<1> QED BY <1>2, <1>3, <1>4, <1>5, LocationCases DEF LocOK

-----------------------------------------------------------------------------
(***************************************************************************)
(* Every step keeps the invariant.                                         *)
(***************************************************************************)

\* CursorValid is LocOK and the remark about remove_block.
LEMMA CursorValidLocOK == HTypeOK /\ CursorValid => LocOK(loc)
  BY DEF HTypeOK, TypeOK, CursorValid, LocOK

CursorOK == LocOK(loc)

\* What is left to show of a step that keeps the layout consistent while no
\* block is being removed.
LEMMA IdleStep ==
  ASSUME HTypeOK, Represents, LayoutOK', removing' = None, CursorOK'
  PROVE  HInv'
<1>1. HTypeOK'
  BY DEF LayoutOK, LayoutType, HTypeOK, TypeOK, CursorOK, LocOK
<1>2. Represents'
  BY DEF LayoutOK, Represents
<1>3. CursorValid' /\ RemovalEmpties'
  BY DEF CursorValid, RemovalEmpties, CursorOK, LocOK
<1> QED BY <1>1, <1>2, <1>3 DEF HInv

\* An edit that only adds to the layout keeps the cursor where it is.
LEMMA GrowingStep ==
  ASSUME HInv, LayoutOK', removing = None, removing' = None, loc' = loc,
         \A b \in Block : Among(order, b) => Among(order', b),
         \A b \in Block, i \in Inst : Among(body[b], i) => Among(body'[b], i)
  PROVE  HInv'
<1>1. HTypeOK' /\ Represents'
  BY DEF LayoutOK, LayoutType, HInv, HTypeOK, TypeOK, Represents
<1>2. InsertedOK /\ InsertedOK'
  BY <1>1, InsertedIff, InsertedIffNext DEF HInv
<1>3. \A b \in Block : IsBlockInserted(b) => IsBlockInserted(b)'
  BY <1>2 DEF InsertedOK
<1>4. \A i \in Inst : IsInstInserted(i) => IsInstInserted(i)'
  BY <1>2 DEF InsertedOK
<1>5. LocOK(loc)
  BY CursorValidLocOK DEF HInv
<1>6. CursorOK'
  BY <1>3, <1>4, <1>5, LocationCases DEF LocOK, CursorOK, IsInstInserted, IsBlockInserted
<1> QED BY <1>6, IdleStep DEF HInv

\* In a sequence with one element more, all the old elements are still there.
LEMMA InsertionAmong ==
  ASSUME NEW S, NEW s \in Seq(S), NEW k \in 1..Len(s) + 1, NEW e \in S, NEW x, Among(s, x)
  PROVE  Among(InsertAt(s, k, e), x)
<1> DEFINE t == InsertAt(s, k, e)
<1>1. IsInsertion(t, s, k, e) /\ Len(s) \in Nat
  BY InsertAtLemma, LenProperties
<1> HIDE DEF t
<1>2. PICK j \in 1..Len(s) : s[j] = x
  BY DEF Among
<1>3. Among(t, x)
  <2>1. CASE j < k
    BY <1>1, <1>2, <2>1 DEF Among, IsInsertion
  <2>2. CASE j >= k
    <3>1. j + 1 \in 1..Len(t) /\ t[j + 1] = s[j]
      BY <1>1, <1>2, <2>2 DEF IsInsertion
    <3> QED BY <3>1, <1>2 DEF Among
  <2> QED BY <1>1, <1>2, <2>1, <2>2
<1> QED BY <1>3 DEF t

\* A body that gains an instruction keeps the others, and no other body changes.
LEMMA GrownBody ==
  ASSUME HTypeOK, NEW c \in Block, NEW j \in Inst, NEW k \in 1..Len(body[c]) + 1,
         RecordInst(j, c, k)
  PROVE  \A b \in Block, i \in Inst : Among(body[b], i) => Among(body'[b], i)
<1> TAKE b \in Block, i \in Inst
<1> HAVE Among(body[b], i)
<1>1. body \in [Block -> Seq(Inst)] /\ body' = [body EXCEPT ![c] = InsertAt(body[c], k, j)]
  BY DEF HTypeOK, RecordInst
<1>2. CASE b = c
  <2>1. body'[b] = InsertAt(body[b], k, j) /\ body[b] \in Seq(Inst)
    BY <1>1, <1>2
  <2>2. k \in 1..Len(body[b]) + 1
    BY <1>2
  <2> QED BY <2>1, <2>2, InsertionAmong
<1>3. CASE b # c
  BY <1>1, <1>3
<1> QED BY <1>2, <1>3

\* Inserting a block, by any of the three calls, preserves the invariant.
LEMMA InsertBlockStep ==
  ASSUME HInv, NEW b \in Block, HInsertBlock(b), removing = None, UNCHANGED removing
  PROVE  HInv'
<1> USE DEF HInv, Represents
<1>1. LocOK(loc) /\ (CursorBlock # None => CursorBlock \in Block)
  BY CursorValidLocOK, CursorLocs
<1>2. ASSUME LayoutOK', \A x : Among(order', x) <=> x = b \/ Among(order, x),
             body' = body, loc' = loc
      PROVE  HInv'
  BY <1>2, GrowingStep
<1>3. CASE CursorAppendBlock(b) /\ RecordBlock(b, Len(order) + 1)
  BY <1>2, <1>3, AppendBlockOK DEF CursorAppendBlock, RecordBlock
<1>4. CASE CursorInsertBlock(b) /\ RecordBlock(b, PosIn(order, CursorBlock) + 1)
  BY <1>1, <1>2, <1>4, InsertBlockAfterOK DEF CursorInsertBlock, RecordBlock
<1>5. CASE CursorInsertBlockBefore(b) /\ RecordBlock(b, PosIn(order, CursorBlock))
  BY <1>1, <1>2, <1>5, InsertBlockBeforeOK DEF CursorInsertBlockBefore, RecordBlock
<1> QED BY <1>3, <1>4, <1>5 DEF HInsertBlock

\* What inserting an instruction records, whichever call does it.
LEMMA InsertInstOK ==
  ASSUME HInv, NEW i \in Inst, HInsertInst(i)
  PROVE  /\ LayoutOK' /\ order' = order /\ loc' = loc
         /\ \E b \in Block : \E k \in 1..Len(body[b]) + 1 :
              IsBlockInserted(b) /\ ~IsInstInserted(i) /\ RecordInst(i, b, k)
<1> USE DEF HInv, Represents
<1>1. LocOK(loc) /\ (CursorBlock # None => CursorBlock \in Block)
  BY CursorValidLocOK, CursorLocs
<1> DEFINE Recorded(b, k) ==
             k \in 1..Len(body[b]) + 1 /\ b \in Block
               /\ IsBlockInserted(b) /\ ~IsInstInserted(i) /\ RecordInst(i, b, k)
<1>2. SUFFICES LayoutOK' /\ order' = order /\ loc' = loc /\ \E b, k : Recorded(b, k)
  OBVIOUS
<1>3. ASSUME NEW b \in Block, AppendInst(i, b), RecordInst(i, b, Len(body[b]) + 1), loc' = loc
      PROVE  LayoutOK' /\ order' = order /\ loc' = loc /\ \E c, k : Recorded(c, k)
  <2>1. LayoutOK' /\ order' = order
    BY <1>3, AppendInstOK
  <2>2. Len(body[b]) \in Nat
    BY BodyFacts
  <2>3. Recorded(b, Len(body[b]) + 1)
    BY <1>3, <2>2 DEF AppendInst
  <2> QED BY <1>3, <2>1, <2>3
<1>4. ASSUME NEW b \in Block, PrependInst(i, b), RecordInst(i, b, 1), loc' = loc
      PROVE  LayoutOK' /\ order' = order /\ loc' = loc /\ \E c, k : Recorded(c, k)
  <2>1. LayoutOK' /\ order' = order
    BY <1>4, PrependInstOK
  <2>2. Len(body[b]) \in Nat
    BY BodyFacts
  <2>3. Recorded(b, 1)
    BY <1>4, <2>2 DEF PrependInst
  <2> QED BY <1>4, <2>1, <2>3
<1>5. ASSUME NEW after \in Inst, InsertInstAfter(i, after), NEW b, b = insts[after].block,
             RecordInst(i, b, PosIn(body[b], after) + 1), loc' = loc
      PROVE  LayoutOK' /\ order' = order /\ loc' = loc /\ \E c, k : Recorded(c, k)
  <2>1. LayoutOK' /\ order' = order
    BY <1>5, InsertInstAfterOK
  <2>2. b \in Block /\ IsBlockInserted(b) /\ PosIn(body[b], after) \in 1..Len(body[b])
    BY <1>5, InstPosition DEF InsertInstAfter
  <2>3. Len(body[b]) \in Nat
    BY <2>2, BodyFacts
  <2>4. PosIn(body[b], after) + 1 \in 1..Len(body[b]) + 1
    BY ONLY <2>2, <2>3
  <2>5. Recorded(b, PosIn(body[b], after) + 1)
    BY <1>5, <2>2, <2>4 DEF InsertInstAfter
  <2> QED BY <1>5, <2>1, <2>5
<1>6. ASSUME NEW before \in Inst, InsertInstBefore(i, before), NEW b, b = insts[before].block,
             RecordInst(i, b, PosIn(body[b], before)), loc' = loc
      PROVE  LayoutOK' /\ order' = order /\ loc' = loc /\ \E c, k : Recorded(c, k)
  <2>1. LayoutOK' /\ order' = order
    BY <1>6, InsertInstBeforeOK
  <2>2. b \in Block /\ IsBlockInserted(b) /\ PosIn(body[b], before) \in 1..Len(body[b])
    BY <1>6, InstPosition DEF InsertInstBefore
  <2>3. Len(body[b]) \in Nat
    BY <2>2, BodyFacts
  <2>4. PosIn(body[b], before) \in 1..Len(body[b]) + 1
    BY ONLY <2>2, <2>3
  <2>5. Recorded(b, PosIn(body[b], before))
    BY <1>6, <2>2, <2>4 DEF InsertInstBefore
  <2> QED BY <1>6, <2>1, <2>5
<1> HIDE DEF Recorded
<1>7. CASE CursorInsertInst(i) /\ RecordInst(i, CursorBlock, InsertPos)
  <2>1. CASE loc.at = "inst" /\ InsertInstAfter(i, loc.inst)
    <3>1. CursorBlock = insts[loc.inst].block
            /\ InsertPos = PosIn(body[CursorBlock], loc.inst) + 1
      BY <2>1 DEF CursorBlock, InsertPos
    <3>2. loc.inst \in Inst
      BY <1>1, <2>1, LocationCases DEF LocOK
    <3> QED BY <1>5, <1>7, <2>1, <3>1, <3>2 DEF CursorInsertInst
  <2>2. CASE loc.at = "top" /\ PrependInst(i, loc.block)
    <3>1. CursorBlock = loc.block /\ InsertPos = 1
      BY <2>2 DEF CursorBlock, InsertPos
    <3>2. loc.block \in Block
      BY <1>1, <2>2, LocationCases DEF LocOK
    <3> QED BY <1>4, <1>7, <2>2, <3>1, <3>2 DEF CursorInsertInst
  <2>3. CASE loc.at = "bottom" /\ AppendInst(i, loc.block)
    <3>1. CursorBlock = loc.block /\ InsertPos = Len(body[CursorBlock]) + 1
      BY <2>3 DEF CursorBlock, InsertPos
    <3>2. loc.block \in Block
      BY <1>1, <2>3, LocationCases DEF LocOK
    <3> QED BY <1>3, <1>7, <2>3, <3>1, <3>2 DEF CursorInsertInst
  <2> QED BY <1>7, <2>1, <2>2, <2>3 DEF CursorInsertInst
<1>8. CASE CursorAppendInst(i) /\ RecordInst(i, CursorBlock, Len(body[CursorBlock]) + 1)
  BY <1>1, <1>3, <1>8 DEF CursorAppendInst
<1>9. CASE CursorPrependInst(i) /\ RecordInst(i, CursorBlock, 1)
  BY <1>1, <1>4, <1>9 DEF CursorPrependInst
<1>10. ASSUME NEW before \in Inst, LayoutInsertInstBefore(i, before), NEW b,
              b = insts[before].block, RecordInst(i, b, PosIn(body[b], before))
       PROVE  LayoutOK' /\ order' = order /\ loc' = loc /\ \E c, k : Recorded(c, k)
  BY <1>6, <1>10 DEF LayoutInsertInstBefore
<1> QED BY <1>7, <1>8, <1>9, <1>10 DEF HInsertInst

\* Inserting an instruction, by any of the calls, preserves the invariant.
LEMMA InsertInstStep ==
  ASSUME HInv, NEW i \in Inst, HInsertInst(i), removing = None, UNCHANGED removing
  PROVE  HInv'
<1>1. LayoutOK' /\ order' = order /\ loc' = loc
  BY InsertInstOK
<1>2. PICK b \in Block : \E k \in 1..Len(body[b]) + 1 : RecordInst(i, b, k)
  BY InsertInstOK
<1>3. \A c \in Block, j \in Inst : Among(body[c], j) => Among(body'[c], j)
  BY <1>2, GrownBody DEF HInv
<1> QED BY <1>1, <1>3, GrowingStep

\* Moving the cursor preserves the invariant.
LEMMA MoveStep ==
  ASSUME HInv, CursorMove, UNCHANGED <<order, body>>, removing = None, UNCHANGED removing
  PROVE  HInv'
<1> USE DEF HInv, Represents
<1>1. UNCHANGED layoutVars
  BY DEF CursorMove, SetLocation, SetToEntry, Proceed, Back, ProceedBlock
<1>2. LayoutOK'
  BY <1>1 DEF LayoutOK, LayoutType, layoutVars, HTypeOK, TypeOK, BlockLinks, InstLinks
<1>3. LocOK(loc) /\ LocOK(NextLoc) /\ LocOK(PrevLoc) /\ LocOK(NoWhere)
  BY CursorValidLocOK, CursorLocs, LocOKForms
<1>4. ASSUME NEW b \in Block \cup {None}, b # None => IsBlockInserted(b)
      PROVE  LocOK(TopOrNoWhere(b))
  BY <1>4, LocOKForms DEF TopOrNoWhere
<1>5. LocOK(loc')
  <2>1. ASSUME NEW l \in Locations, SetLocation(l)
        PROVE  LocOK(loc')
    BY <2>1 DEF SetLocation, LocOK
  <2>2. CASE SetToEntry
    <3>1. entry_block \in Block \cup {None} /\ (entry_block # None => IsBlockInserted(entry_block))
      BY LinksInserted DEF HTypeOK, TypeOK
    <3> QED BY <1>4, <2>2, <3>1 DEF SetToEntry
  <2>3. CASE Proceed
    BY <1>3, <2>3 DEF Proceed
  <2>4. CASE Back
    BY <1>3, <2>4 DEF Back
  <2>5. CASE ProceedBlock
    <3>1. CASE CursorBlock = None
      BY <1>3, <2>5, <3>1 DEF ProceedBlock
    <3>2. CASE CursorBlock # None
      <4>1. CursorBlock \in Block /\ IsBlockInserted(CursorBlock)
        BY <1>3, <3>2, CursorLocs
      <4>2. /\ blocks[CursorBlock].next \in Block \cup {None}
            /\ blocks[CursorBlock].next # None => IsBlockInserted(blocks[CursorBlock].next)
        BY <4>1, LinksInserted
      <4> QED BY <1>4, <2>5, <3>2, <4>2 DEF ProceedBlock
    <3> QED BY <3>1, <3>2
  <2> QED BY <2>1, <2>2, <2>3, <2>4, <2>5 DEF CursorMove
<1>6. CursorOK'
  BY <1>1, <1>5 DEF CursorOK, LocOK, layoutVars, IsInstInserted, IsBlockInserted
<1> QED BY <1>2, <1>6, IdleStep

\* FuncCursor::remove_inst, in the loop of remove_block or outside it.
LEMMA RemoveInstStep ==
  ASSUME HInv, HRemoveInst, UNCHANGED removing
  PROVE  HInv'
<1> USE NoneAssumption DEF HInv, Represents
<1> DEFINE i == loc.inst
           b == insts[i].block
           s == body[b]
           k == PosIn(s, i)
           next == insts[i].next
<1>1. /\ loc.at = "inst" /\ RemoveInst(i) /\ RecordRemoveInst(i, b)
      /\ loc' = IF next = None THEN BlockBottom(b) ELSE At(next)
  BY DEF HRemoveInst, CursorRemoveInst, NextLoc
<1>2. i \in Inst /\ IsInstInserted(i)
  BY <1>1, CursorValidLocOK, LocationCases DEF LocOK
<1>3. /\ b \in Block /\ IsBlockInserted(b)
      /\ k \in 1..Len(s) /\ s[k] = i /\ next = Elem(s, k + 1)
  BY <1>2, InstPosition
<1>4. LayoutOK' /\ order' = order
  BY <1>1, <1>2, RemoveInstOK
<1>5. s \in Seq(Inst) /\ Len(s) \in Nat
  BY <1>3, BodyFacts
<1>6. /\ body'[b] = RemoveAt(s, k)
      /\ \A c \in Block : c # b => body'[c] = body[c]
  BY <1>1, <1>3 DEF RecordRemoveInst, HTypeOK
<1>7. body'[b] \in Seq(Inst) /\ IsRemoval(body'[b], s, k)
  BY <1>3, <1>5, <1>6, RemoveAtLemma
<1> DEFINE t == body'[b]
<1>8. /\ Len(t) = Len(s) - 1
      /\ \A j \in 1..Len(s) - 1 : t[j] = IF j < k THEN s[j] ELSE s[j + 1]
  BY <1>7 DEF IsRemoval
<1> HIDE DEF i, b, s, k, t
<1>9. CASE k < Len(s)
  <2>1. k \in 1..Len(t) /\ t[k] = s[k + 1] /\ k + 1 \in 1..Len(s)
    BY ONLY <1>3, <1>5, <1>8, <1>9
  <2>2. next = t[k] /\ next \in Inst
    BY <1>3, <1>5, <2>1, LenProperties DEF Elem
  <2>3. next # None /\ Among(t, next)
    BY <2>1, <2>2 DEF Among
  <2>4. loc' = At(next)
    BY <1>1, <2>3 DEF i, b
  <2>5. loc' \in Locations /\ loc'.at = "inst" /\ loc'.inst = next
    BY <2>2, <2>4, LocationTypes
  <2>6. HTypeOK' /\ Represents'
    BY <1>4, <2>5 DEF LayoutOK, LayoutType, HTypeOK, TypeOK
  <2>7. (insts'[next] # NoInstNode) /\ insts'[next].block = b
    BY <2>2, <2>3, <2>6, <1>3, InsertedIffNext DEF InsertedOK, IsInstInserted, t
  <2>8. CursorBlock' = b
    BY <2>5, <2>7 DEF CursorBlock
  <2>9. CursorValid'
    <3>1. removing' # None => b = removing'
      <4>1. CursorBlock = b
        BY <1>1 DEF CursorBlock, b, i
      <4> QED BY <4>1 DEF CursorValid
    <3> QED BY <2>5, <2>7, <2>8, <3>1 DEF CursorValid, IsInstInserted
  <2>10. RemovalEmpties'
    <3> SUFFICES ASSUME removing # None
                 PROVE  body'[removing] # <<>> /\ next = body'[removing][1]
      BY <2>5 DEF RemovalEmpties
    <3>1. CursorBlock = b
      BY <1>1 DEF CursorBlock, b, i
    <3>2. removing = b
      BY <3>1 DEF CursorValid
    <3>3. i = s[1]
      BY <1>1, <3>2 DEF RemovalEmpties, s, i
    <3>4. Distinct(s) /\ 1 \in 1..Len(s)
      BY <1>3, <1>5, InstLinksLinked DEF s
    <3>5. k = 1
      BY <1>3, <3>3, <3>4 DEF Distinct
    <3> QED BY <2>1, <2>2, <3>2, <3>5 DEF t
  <2> QED BY <2>6, <2>9, <2>10
<1>10. CASE k = Len(s)
  <2>1. next = None
    BY <1>3, <1>5, <1>10 DEF Elem
  <2>2. loc' = BlockBottom(b)
    BY <1>1, <2>1 DEF i, b
  <2>3. loc' \in Locations /\ loc'.at = "bottom" /\ loc'.block = b
    BY <1>3, <2>2, LocationTypes
  <2>4. HTypeOK' /\ Represents'
    BY <1>4, <2>3 DEF LayoutOK, LayoutType, HTypeOK, TypeOK
  <2>5. b = entry_block' \/ blocks'[b] # NoBlockNode
    <3>1. Among(order', b)
      BY <1>3, <1>4, InsertedIff DEF InsertedOK
    <3>2. InsertedOK'
      BY <2>4, InsertedIffNext
    <3> QED BY <1>3, <3>1, <3>2 DEF InsertedOK, IsBlockInserted
  <2>6. CursorBlock' = b
    BY <2>3 DEF CursorBlock
  <2>7. CursorValid'
    <3>1. removing' # None => b = removing'
      <4>1. CursorBlock = b
        BY <1>1 DEF CursorBlock, b, i
      <4> QED BY <4>1 DEF CursorValid
    <3> QED BY <2>3, <2>5, <2>6, <3>1 DEF CursorValid, IsBlockInserted
  <2>8. RemovalEmpties'
    <3> SUFFICES ASSUME removing # None
                 PROVE  body'[removing] = <<>>
      BY <2>3 DEF RemovalEmpties
    <3>1. CursorBlock = b
      BY <1>1 DEF CursorBlock, b, i
    <3>2. removing = b
      BY <3>1 DEF CursorValid
    <3>3. i = s[1]
      BY <1>1, <3>2 DEF RemovalEmpties, s, i
    <3>4. Distinct(s) /\ 1 \in 1..Len(s)
      BY <1>3, <1>5, InstLinksLinked DEF s
    <3>5. k = 1
      BY <1>3, <3>3, <3>4 DEF Distinct
    <3>6. Len(t) = 0
      BY <1>5, <1>8, <1>10, <3>5
    <3> QED BY <1>7, <3>2, <3>6, EmptySeq DEF t
  <2> QED BY <2>4, <2>7, <2>8
<1> QED BY <1>3, <1>5, <1>9, <1>10

\* FuncCursor::remove_block: entering its loop.
LEMMA RemoveBlockBeginStep ==
  ASSUME HInv, RemoveBlockBegin, UNCHANGED <<order, body>>
  PROVE  HInv'
<1> USE NoneAssumption DEF HInv, Represents
<1> DEFINE b == CursorBlock
           first == blocks[b].first_inst
<1>1. /\ UNCHANGED layoutVars /\ removing' = b /\ b # None /\ removing = None
      /\ loc' = IF first = None THEN loc ELSE At(first)
  BY DEF RemoveBlockBegin
<1>2. LocOK(loc) /\ b \in Block /\ IsBlockInserted(b)
  BY <1>1, CursorValidLocOK, CursorLocs
<1>3. body[b] \in Seq(Inst) /\ Len(body[b]) \in Nat /\ first = Elem(body[b], 1)
  BY <1>2, BodyFacts
<1>4. BlockLinks' /\ InstLinks' /\ LayoutType'
  BY <1>1 DEF LayoutType, layoutVars, HTypeOK, TypeOK, BlockLinks, InstLinks
<1>5. CASE first = None
  <2>1. loc' = loc
    BY <1>1, <1>5
  <2>2. body[b] = <<>>
    <3>1. Len(body[b]) = 0
      BY <1>3, <1>5, LenProperties DEF Elem
    <3> QED BY <1>3, <3>1, EmptySeq
  <2>3. loc.at # "nowhere" /\ loc.at # "inst"
    <3>1. loc.at # "nowhere"
      BY <1>1 DEF CursorBlock
    <3>2. ASSUME loc.at = "inst" PROVE FALSE
      <4>1. loc.inst \in Inst /\ IsInstInserted(loc.inst) /\ insts[loc.inst].block = b
        BY <1>2, <3>2, LocationCases DEF LocOK, CursorBlock
      <4>2. Among(body[b], loc.inst)
        BY <4>1, InstInserted
      <4> QED BY <2>2, <4>2 DEF Among
    <3> QED BY <3>1, <3>2
  <2>4. CursorBlock' = CursorBlock
    BY <1>1, <2>1 DEF CursorBlock, layoutVars
  <2>5. HTypeOK'
    BY <1>1, <1>2, <1>4, <2>1 DEF LayoutType, HTypeOK, TypeOK
  <2>6. CursorValid'
    BY <1>1, <1>2, <2>1, <2>3, <2>4
    DEF CursorValid, LocOK, layoutVars, IsBlockInserted, IsInstInserted
  <2>7. RemovalEmpties'
    BY <1>1, <2>1, <2>2, <2>3 DEF RemovalEmpties
  <2> QED BY <1>4, <2>5, <2>6, <2>7
<1>6. CASE first # None
  <2>1. 1 \in 1..Len(body[b]) /\ first = body[b][1] /\ first \in Inst
    BY <1>3, <1>6, LenProperties DEF Elem
  <2>2. IsInstInserted(first) /\ insts[first].block = b /\ body[b] # <<>>
    BY <1>2, <2>1, InstInserted DEF Among
  <2>3. loc' \in Locations /\ loc'.at = "inst" /\ loc'.inst = first
    BY <1>1, <1>6, <2>1, LocationTypes
  <2> HIDE DEF first, b
  <2>4. CursorBlock' = b
    BY <1>1, <2>2, <2>3 DEF CursorBlock, layoutVars
  <2>5. HTypeOK'
    BY <1>1, <1>2, <1>4, <2>3 DEF LayoutType, HTypeOK, TypeOK
  <2>6. CursorValid'
    BY <1>1, <2>2, <2>3, <2>4
    DEF CursorValid, layoutVars, IsBlockInserted, IsInstInserted
  <2>7. RemovalEmpties'
    BY <1>1, <2>1, <2>2, <2>3 DEF RemovalEmpties
  <2> QED BY <1>4, <2>5, <2>6, <2>7
<1> QED BY <1>5, <1>6

\* FuncCursor::remove_block: unlinking the emptied block.
LEMMA RemoveBlockEndStep ==
  ASSUME HInv, RemoveBlockEnd, RecordRemoveBlock(removing)
  PROVE  HInv'
<1> USE NoneAssumption DEF HInv, Represents
<1> DEFINE b == removing
           next == blocks[b].next
<1>1. /\ b # None /\ loc.at # "inst" /\ RemoveBlock(b) /\ removing' = None
      /\ loc' = TopOrNoWhere(next)
  BY DEF RemoveBlockEnd
<1>2. b \in Block /\ body[b] = <<>> /\ IsBlockInserted(b)
  BY <1>1 DEF HTypeOK, TypeOK, RemovalEmpties, RemoveBlock
<1>3. LayoutOK' /\ \A x : Among(order', x) <=> x # b /\ Among(order, x)
  BY <1>1, <1>2, RemoveBlockOK
<1>4. next # None => next \in Block /\ IsBlockInserted(next)
  BY <1>2, LinksInserted
<1>5. next # b
  <2> DEFINE k == PosIn(order, b)
  <2>1. k \in 1..Len(order) /\ order[k] = b /\ next = Elem(order, k + 1)
    BY <1>2, BlockPosition
  <2>2. Len(order) \in Nat /\ Distinct(order)
    BY LenProperties DEF HTypeOK, BlockLinks
  <2> HIDE DEF k, next
  <2> QED BY <1>2, <2>1, <2>2 DEF Elem, Distinct
<1>6. loc' \in Locations
  BY <1>1, <1>4, LocationTypes DEF TopOrNoWhere
<1>7. HTypeOK' /\ Represents'
  BY <1>1, <1>3, <1>6 DEF LayoutOK, LayoutType, HTypeOK, TypeOK
<1>8. CursorOK'
  <2>1. CASE next = None
    <3>1. loc' = NoWhere
      BY <1>1, <2>1 DEF TopOrNoWhere
    <3> QED BY <1>6, <3>1, LocationTypes DEF CursorOK, LocOK
  <2>2. CASE next # None
    <3>1. loc'.at = "top" /\ loc'.block = next
      BY <1>1, <1>4, <2>2, LocationTypes DEF TopOrNoWhere
    <3>2. Among(order, next)
      BY <1>4, <2>2, InsertedIff DEF InsertedOK
    <3>3. Among(order', next)
      BY <1>3, <1>5, <3>2
    <3>4. next = entry_block' \/ blocks'[next] # NoBlockNode
      BY <1>4, <1>7, <2>2, <3>3, InsertedIffNext DEF InsertedOK, IsBlockInserted
    <3> QED BY <1>6, <3>1, <3>4 DEF CursorOK, LocOK, IsBlockInserted
  <2> QED BY <2>1, <2>2
<1> QED BY <1>1, <1>3, <1>8, IdleStep

-----------------------------------------------------------------------------
(***************************************************************************)
(* The theorems.                                                           *)
(***************************************************************************)
\* The empty layout satisfies the invariant.
LEMMA InvInit == HInit => HInv
<1> SUFFICES ASSUME HInit PROVE HInv
  OBVIOUS
<1> USE NoneAssumption DEF HInit, Init
<1>1. Len(order) = 0 /\ order = <<>> /\ \A b \in Block : body[b] = <<>> /\ Len(body[b]) = 0
  OBVIOUS
<1>2. HTypeOK
  <2>1. order \in Seq(Block) /\ body \in [Block -> Seq(Inst)]
    BY EmptySeq
  <2>2. blocks \in [Block -> BlockNode] /\ insts \in [Inst -> InstNode]
    BY DefaultNodeTypes
  <2> QED BY <2>1, <2>2, LocationTypes DEF HTypeOK, TypeOK
<1>3. BlockLinks
  BY <1>1, ElemEmpty DEF BlockLinks, Distinct
<1>4. InstLinks
  <2>1. \A b \in Block : blocks[b].first_inst = None /\ blocks[b].last_inst = None
    BY DEF NoBlockNode
  <2>2. \A b \in Block : Elem(body[b], 1) = None /\ Elem(body[b], Len(body[b])) = None
    BY <1>1, ElemEmpty
  <2> QED BY <1>1, <2>1, <2>2 DEF InstLinks, Distinct
<1>5. CursorValid /\ RemovalEmpties
  BY LocationTypes DEF CursorValid, RemovalEmpties
<1> QED BY <1>2, <1>3, <1>4, <1>5 DEF HInv, Represents

\* Every step of the cursor preserves the invariant.
LEMMA InvNext == HInv /\ [HNext]_hvars => HInv'
<1> SUFFICES ASSUME HInv, [HNext]_hvars PROVE HInv'
  OBVIOUS
<1>1. ASSUME removing = None, UNCHANGED removing, NEW b \in Block, HInsertBlock(b)
      PROVE  HInv'
  BY <1>1, InsertBlockStep
<1>2. ASSUME removing = None, UNCHANGED removing, NEW i \in Inst, HInsertInst(i)
      PROVE  HInv'
  BY <1>2, InsertInstStep
<1>3. ASSUME UNCHANGED removing, HRemoveInst
      PROVE  HInv'
  BY <1>3, RemoveInstStep
<1>4. ASSUME removing = None, UNCHANGED removing, CursorMove, UNCHANGED <<order, body>>
      PROVE  HInv'
  BY <1>4, MoveStep
<1>5. ASSUME RemoveBlockBegin, UNCHANGED <<order, body>>
      PROVE  HInv'
  BY <1>5, RemoveBlockBeginStep
<1>6. ASSUME RemoveBlockInst, RecordRemoveInst(loc.inst, insts[loc.inst].block)
      PROVE  HInv'
  BY <1>3, <1>6 DEF RemoveBlockInst, HRemoveInst
<1>7. ASSUME RemoveBlockEnd, RecordRemoveBlock(removing)
      PROVE  HInv'
  BY <1>7, RemoveBlockEndStep
<1>8. CASE UNCHANGED hvars
  BY <1>8 DEF hvars, HInv, HTypeOK, TypeOK, Represents, BlockLinks, InstLinks, CursorValid,
              RemovalEmpties, CursorBlock, IsInstInserted, IsBlockInserted
<1> QED BY <1>1, <1>2, <1>3, <1>4, <1>5, <1>6, <1>7, <1>8 DEF HNext

\* Every state the cursor can bring a layout to satisfies the invariant.
THEOREM LayoutInvariant == HSpec => []HInv
  BY InvInit, InvNext, PTL DEF HSpec

\* The links always have their types: no link leads outside the function.
THEOREM LayoutTypes == HSpec => []HTypeOK
<1>1. HInv => HTypeOK
  BY DEF HInv
<1> QED BY <1>1, LayoutInvariant, PTL

\* Whatever edits are made, in whatever order, both linked lists represent the
\* sequences the edits asked for (layout.rs).
THEOREM LinksRepresentSequences == HSpec => []Represents
<1>1. HInv => Represents
  BY DEF HInv
<1> QED BY <1>1, LayoutInvariant, PTL

\* The cursor is never left at something it has removed (func_cursor.rs).
THEOREM CursorAlwaysValid == HSpec => []CursorValid
<1>1. HInv => CursorValid
  BY DEF HInv
<1> QED BY <1>1, LayoutInvariant, PTL

\* remove_block never unlinks a block that still holds instructions, which
\* would leave them linked to a block outside the layout (func_cursor.rs).
THEOREM RemovedBlocksAreEmpty == HSpec => []RemovalEmpties
<1>1. HInv => RemovalEmpties
  BY DEF HInv
<1> QED BY <1>1, LayoutInvariant, PTL

-----------------------------------------------------------------------------
(***************************************************************************)
(* The linked layout implements the layout of sequences.                   *)
(***************************************************************************)
\* An element of a sequence is at one of its positions.
LEMMA ToSetAmong ==
  ASSUME NEW S, NEW s \in Seq(S), NEW x
  PROVE  x \in ToSet(s) <=> Among(s, x)
<1>1. DOMAIN s = 1..Len(s)
  BY LenProperties
<1> QED BY <1>1 DEF ToSet, Among

\* The sequence operators LayoutSeq reads through INSTANCE are the same ones.
LEMMA AbstractOperators ==
  /\ \A s : Abstract!ToSet(s) = ToSet(s)
  /\ \A s, k, e : Abstract!InsertAt(s, k, e) = InsertAt(s, k, e)
  /\ \A s, k : Abstract!RemoveAt(s, k) = RemoveAt(s, k)
  BY DEF Abstract!ToSet, ToSet, Abstract!InsertAt, InsertAt, Abstract!RemoveAt, RemoveAt

\* Each step changes the sequences as one step of LayoutSeq does, or not at all.
LEMMA StepRefines == HInv /\ [HNext]_hvars => [Abstract!Next]_(Abstract!vars)
<1> SUFFICES ASSUME HInv, [HNext]_hvars
             PROVE  Abstract!Next \/ UNCHANGED <<order, body>>
  BY DEF Abstract!vars
<1> USE DEF HInv, Represents
<1>1. /\ LocOK(loc)
      /\ CursorBlock # None => CursorBlock \in Block /\ IsBlockInserted(CursorBlock)
  BY CursorValidLocOK, CursorLocs
<1>2. order \in Seq(Block) /\ Len(order) \in Nat
        /\ \A b \in Block : body[b] \in Seq(Inst) /\ Len(body[b]) \in Nat
  BY LenProperties DEF HTypeOK
<1>3. ASSUME NEW b \in Block, ~IsBlockInserted(b), NEW k \in 1..Len(order) + 1, RecordBlock(b, k)
      PROVE  Abstract!Next
  <2>1. b \notin ToSet(order)
    BY <1>2, <1>3, BlockInserted, ToSetAmong
  <2>2. Abstract!InsertBlock(b, k)
    BY <1>3, <2>1, AbstractOperators DEF Abstract!InsertBlock, RecordBlock
  <2> QED BY <2>2 DEF Abstract!Next
<1>4. ASSUME NEW b \in Block, HInsertBlock(b)
      PROVE  Abstract!Next
  <2>1. CASE CursorAppendBlock(b) /\ RecordBlock(b, Len(order) + 1)
    <3>1. Len(order) + 1 \in 1..Len(order) + 1
      BY <1>2
    <3> QED BY <1>3, <2>1, <3>1 DEF CursorAppendBlock, AppendBlock
  <2>2. CASE CursorInsertBlock(b) /\ RecordBlock(b, PosIn(order, CursorBlock) + 1)
    <3>1. ~IsBlockInserted(b) /\ PosIn(order, CursorBlock) \in 1..Len(order)
      BY <1>1, <2>2, BlockPosition DEF CursorInsertBlock, InsertBlockAfter
    <3>2. PosIn(order, CursorBlock) + 1 \in 1..Len(order) + 1
      BY ONLY <3>1, <1>2
    <3> QED BY <1>3, <2>2, <3>1, <3>2
  <2>3. CASE CursorInsertBlockBefore(b) /\ RecordBlock(b, PosIn(order, CursorBlock))
    <3>1. ~IsBlockInserted(b) /\ PosIn(order, CursorBlock) \in 1..Len(order)
      BY <1>1, <2>3, BlockPosition DEF CursorInsertBlockBefore, InsertBlockBefore
    <3>2. PosIn(order, CursorBlock) \in 1..Len(order) + 1
      BY ONLY <3>1, <1>2
    <3> QED BY <1>3, <2>3, <3>1, <3>2
  <2> QED BY <1>4, <2>1, <2>2, <2>3 DEF HInsertBlock
<1>5. ASSUME NEW i \in Inst, HInsertInst(i)
      PROVE  Abstract!Next
  <2>1. PICK b \in Block : \E k \in 1..Len(body[b]) + 1 :
               IsBlockInserted(b) /\ ~IsInstInserted(i) /\ RecordInst(i, b, k)
    BY <1>5, InsertInstOK
  <2>2. b \in ToSet(order)
    BY <1>2, <2>1, BlockInserted, ToSetAmong
  <2>3. i \notin Abstract!Placed
    <3>1. \A c \in Block : i \notin ToSet(body[c])
      BY <1>2, <2>1, InstInserted, ToSetAmong
    <3> QED BY <3>1, AbstractOperators DEF Abstract!Placed
  <2>4. PICK k \in 1..Len(body[b]) + 1 : RecordInst(i, b, k)
    BY <2>1
  <2>5. Abstract!InsertInst(i, b, k)
    BY <2>2, <2>3, <2>4, AbstractOperators DEF Abstract!InsertInst, RecordInst
  <2> QED BY <2>5 DEF Abstract!Next
<1>6. ASSUME HRemoveInst
      PROVE  Abstract!Next
  <2> DEFINE i == loc.inst
             b == insts[i].block
             k == PosIn(body[b], i)
  <2>1. loc.at = "inst" /\ RemoveInst(i) /\ RecordRemoveInst(i, b)
    BY <1>6 DEF HRemoveInst, CursorRemoveInst
  <2>2. i \in Inst /\ IsInstInserted(i)
    BY <1>1, <2>1, LocationCases DEF LocOK
  <2>3. b \in Block /\ IsBlockInserted(b) /\ k \in 1..Len(body[b])
    BY <2>2, InstPosition
  <2>4. b \in ToSet(order)
    BY <1>2, <2>3, BlockInserted, ToSetAmong
  <2>5. Abstract!RemoveInst(b, k)
    BY <2>1, <2>4, AbstractOperators DEF Abstract!RemoveInst, RecordRemoveInst
  <2> HIDE DEF i, b, k
  <2> QED BY <2>3, <2>5 DEF Abstract!Next
<1>7. ASSUME RemoveBlockEnd, RecordRemoveBlock(removing)
      PROVE  Abstract!Next
  <2> DEFINE b == removing
             k == PosIn(order, b)
  <2>1. b \in Block /\ body[b] = <<>> /\ IsBlockInserted(b)
    BY <1>7 DEF RemoveBlockEnd, HTypeOK, TypeOK, RemovalEmpties, RemoveBlock
  <2>2. k \in 1..Len(order) /\ order[k] = b
    BY <2>1, BlockPosition
  <2>3. Abstract!RemoveBlock(k)
    BY <1>7, <2>1, <2>2, AbstractOperators DEF Abstract!RemoveBlock, RecordRemoveBlock
  <2> HIDE DEF k
  <2> QED BY <2>2, <2>3 DEF Abstract!Next
<1>8. CASE UNCHANGED hvars
  BY <1>8 DEF hvars
<1> QED BY <1>4, <1>5, <1>6, <1>7, <1>8 DEF HNext, RemoveBlockInst, HRemoveInst

\* Seen through the sequences it represents, the linked layout with its cursor
\* only ever inserts one block or instruction that was not there, removes one
\* instruction, or removes one empty block (layout.rs, func_cursor.rs).
THEOREM LayoutImplementsSequences == HSpec => AbstractSpec
<1>1. HInit => Abstract!Init
  BY DEF HInit, Abstract!Init
<1> QED BY <1>1, StepRefines, LayoutInvariant, PTL DEF HSpec, AbstractSpec, Abstract!Spec

=============================================================================
