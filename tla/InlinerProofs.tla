---------------------------- MODULE InlinerProofs ----------------------------
(***************************************************************************)
(* The inliner keeps the functions of any module it is given well formed,  *)
(* their users tables exact, and what it remembers of them true.           *)
(***************************************************************************)
EXTENDS Inliner, CommonLemmas

-----------------------------------------------------------------------------
(***************************************************************************)
(* Sequences.                                                              *)
(***************************************************************************)
Distinct(s) == \A i, j \in 1..Len(s) : s[i] = s[j] => i = j

\* A function on 1..n is a sequence of what it has.
LEMMA FunctionSeq ==
  ASSUME NEW n \in Nat, NEW s, s = [k \in 1..n |-> s[k]]
  PROVE  IsSeq(s) /\ Len(s) = n /\ DOMAIN s = 1..n
<1>1. DOMAIN s = 1..n
  OBVIOUS
<1>2. \A k \in 1..n : s[k] \in ToSet(s)
  BY <1>1 DEF ToSet
<1>3. s \in [1..n -> ToSet(s)]
  BY <1>2
<1>4. s \in Seq(ToSet(s))
  BY <1>3
<1>5. Len(s) \in Nat /\ DOMAIN s = 1..Len(s)
  BY <1>4, LenProperties
<1>6. Len(s) = n
  BY <1>1, <1>5
<1> QED BY <1>1, <1>4, <1>6 DEF IsSeq

\* What a sequence is.
LEMMA SeqFacts ==
  ASSUME NEW s, IsSeq(s)
  PROVE  Len(s) \in Nat /\ DOMAIN s = 1..Len(s) /\ ToSet(s) = {s[k] : k \in 1..Len(s)} /\ s = [k \in 1..Len(s) |-> s[k]]
  BY LenProperties DEF IsSeq, ToSet

\* A sequence of a set is one of its elements.
LEMMA SeqIsSeq ==
  ASSUME NEW S, NEW s \in Seq(S)
  PROVE  IsSeq(s) /\ Len(s) \in Nat /\ DOMAIN s = 1..Len(s) /\ ToSet(s) \subseteq S
<1>1. Len(s) \in Nat /\ s \in [1..Len(s) -> S] /\ DOMAIN s = 1..Len(s)
  BY LenProperties
<1>2. s = [k \in 1..Len(s) |-> s[k]]
  BY <1>1
<1>3. IsSeq(s)
  BY <1>1, <1>2, FunctionSeq
<1> QED BY <1>1, <1>3, ToSetLemma

\* t in the place of what stands from p on and before q.
Spliced(s, p, t, q) == SubSeq(s, 1, p - 1) \o t \o SubSeq(s, q, Len(s))
SplicedAt(u, S, s, p, t, q) ==
  /\ u \in Seq(S) /\ Len(u) = p - 1 + Len(t) + (Len(s) - q + 1)
  /\ \A i \in 1..Len(u) : u[i] = IF i < p THEN s[i] ELSE IF i < p + Len(t) THEN t[i - p + 1]
                                 ELSE s[i - p - Len(t) + q]

\* What stands where in it.
LEMMA SplicedLemma ==
  ASSUME NEW S, NEW s \in Seq(S), NEW t \in Seq(S), NEW p \in 1..(Len(s) + 1), NEW q \in p..(Len(s) + 1)
  PROVE  SplicedAt(Spliced(s, p, t, q), S, s, p, t, q)
<1> DEFINE l == SubSeq(s, 1, p - 1)
           r == SubSeq(s, q, Len(s))
<1>1. Len(s) \in Nat /\ Len(t) \in Nat /\ p \in Int /\ q \in Int /\ 1 <= p /\ p <= q /\ q <= Len(s) + 1
  BY LenProperties
<1>2. \A i \in 1..Len(s) : s[i] \in S
  BY ElementOfSeq
<1>3. l \in Seq(S) /\ Len(l) = p - 1 /\ \A i \in 1..(p - 1) : l[i] = s[i]
  <2>1. 1 \in Int /\ p - 1 \in Int /\ \A i \in 1..(p - 1) : s[i] \in S
    BY <1>1, <1>2
  <2>2. /\ SubSeq(s, 1, p - 1) \in Seq(S)
        /\ Len(SubSeq(s, 1, p - 1)) = IF 1 <= p - 1 THEN p - 1 - 1 + 1 ELSE 0
        /\ \A i \in 1..(p - 1 - 1 + 1) : SubSeq(s, 1, p - 1)[i] = s[1 + i - 1]
    BY <2>1, SubSeqProperties
  <2> QED BY <2>2, <1>1
<1>4. r \in Seq(S) /\ Len(r) = Len(s) - q + 1 /\ \A i \in 1..(Len(s) - q + 1) : r[i] = s[q + i - 1]
  <2>1. q \in Int /\ Len(s) \in Int /\ \A i \in q..Len(s) : s[i] \in S
    BY <1>1, <1>2
  <2>2. /\ SubSeq(s, q, Len(s)) \in Seq(S)
        /\ Len(SubSeq(s, q, Len(s))) = IF q <= Len(s) THEN Len(s) - q + 1 ELSE 0
        /\ \A i \in 1..(Len(s) - q + 1) : SubSeq(s, q, Len(s))[i] = s[q + i - 1]
    BY <2>1, SubSeqProperties
  <2> QED BY <2>2, <1>1
<1> HIDE DEF l, r
<1>5. /\ l \o t \in Seq(S) /\ Len(l \o t) = Len(l) + Len(t)
      /\ \A i \in 1..(Len(l) + Len(t)) : (l \o t)[i] = IF i <= Len(l) THEN l[i] ELSE t[i - Len(l)]
  BY <1>3, ConcatProperties
<1> DEFINE lt == l \o t
<1>6a. lt \in Seq(S)
  BY <1>5
<1> HIDE DEF lt
<1> DEFINE u == lt \o r
<1>6. /\ u \in Seq(S) /\ Len(u) = Len(lt) + Len(r)
      /\ \A i \in 1..(Len(lt) + Len(r)) : u[i] = IF i <= Len(lt) THEN lt[i] ELSE r[i - Len(lt)]
  BY <1>4, <1>6a, ConcatProperties
<1> HIDE DEF u
<1>7. u \in Seq(S) /\ Len(u) = p - 1 + Len(t) + (Len(s) - q + 1)
  BY <1>1, <1>3, <1>4, <1>5, <1>6 DEF lt
<1>8. ASSUME NEW i \in 1..Len(u)
      PROVE  u[i] = IF i < p THEN s[i] ELSE IF i < p + Len(t) THEN t[i - p + 1] ELSE s[i - p - Len(t) + q]
  <2>0. Len(lt) = p - 1 + Len(t) /\ i \in 1..(Len(lt) + Len(r)) /\ i \in Int
    BY <1>1, <1>3, <1>4, <1>5, <1>6 DEF lt
  <2>1. CASE i < p
    <3>1. i <= Len(lt) /\ i \in 1..(Len(l) + Len(t)) /\ i <= Len(l) /\ i \in 1..(p - 1)
      BY <2>0, <2>1, <1>1, <1>3
    <3>2. u[i] = lt[i]
      BY <2>0, <3>1, <1>6
    <3>3. lt[i] = l[i]
      BY <3>1, <1>5 DEF lt
    <3> QED BY <3>1, <3>2, <3>3, <1>3, <2>1
  <2>2. CASE ~(i < p) /\ i < p + Len(t)
    <3>1. i <= Len(lt) /\ i \in 1..(Len(l) + Len(t)) /\ ~(i <= Len(l)) /\ i - Len(l) = i - p + 1
      BY <2>0, <2>2, <1>1, <1>3
    <3>2. u[i] = lt[i]
      BY <2>0, <3>1, <1>6
    <3>3. lt[i] = t[i - Len(l)]
      BY <3>1, <1>5 DEF lt
    <3> QED BY <3>1, <3>2, <3>3, <2>2
  <2>3. CASE ~(i < p) /\ ~(i < p + Len(t))
    <3>1. /\ ~(i <= Len(lt)) /\ i - Len(lt) \in 1..(Len(s) - q + 1)
          /\ q + (i - Len(lt)) - 1 = i - p - Len(t) + q
      BY <2>0, <2>3, <1>1, <1>4
    <3>2. u[i] = r[i - Len(lt)]
      BY <2>0, <3>1, <1>6
    <3>3. r[i - Len(lt)] = s[q + (i - Len(lt)) - 1]
      BY <3>1, <1>4
    <3> QED BY <3>1, <3>2, <3>3, <2>3
  <2> QED BY <2>1, <2>2, <2>3
<1>9. Spliced(s, p, t, q) = u
  BY DEF Spliced, u, lt, l, r
<1> QED BY <1>7, <1>8, <1>9 DEF SplicedAt

\* What stands in it, when t is new.
DistinctAt(u, S, s, p, t, q) ==
  /\ u \in Seq(S) /\ Distinct(u)
  /\ ToSet(u) = {s[i] : i \in 1..(p - 1)} \cup ToSet(t) \cup {s[i] : i \in q..Len(s)}
  /\ q <= Len(s) => u # <<>> /\ Last(u) = Last(s)
\* It has nothing twice, and what stood before p and from q on, and t.
LEMMA SplicedDistinct ==
  ASSUME NEW S, NEW s \in Seq(S), NEW t \in Seq(S), NEW p \in 1..(Len(s) + 1), NEW q \in p..(Len(s) + 1),
         Distinct(s), Distinct(t), ToSet(s) \cap ToSet(t) = {}
  PROVE  DistinctAt(Spliced(s, p, t, q), S, s, p, t, q)
<1> DEFINE u == Spliced(s, p, t, q)
<1>1. Len(s) \in Nat /\ Len(t) \in Nat /\ p \in Int /\ q \in Int /\ 1 <= p /\ p <= q /\ q <= Len(s) + 1
  BY LenProperties
<1>2. /\ u \in Seq(S) /\ Len(u) = p - 1 + Len(t) + (Len(s) - q + 1)
      /\ \A i \in 1..Len(u) : u[i] = IF i < p THEN s[i] ELSE IF i < p + Len(t) THEN t[i - p + 1]
                                     ELSE s[i - p - Len(t) + q]
  <2>1. SplicedAt(u, S, s, p, t, q)
    BY SplicedLemma
  <2> QED BY <2>1 DEF SplicedAt
<1>3. /\ ToSet(s) = {s[i] : i \in 1..Len(s)} /\ ToSet(t) = {t[i] : i \in 1..Len(t)}
      /\ ToSet(u) = {u[i] : i \in 1..Len(u)}
  BY <1>2, ToSetLemma
<1> HIDE DEF u
<1>4. \A i \in 1..Len(s), j \in 1..Len(t) : s[i] # t[j]
  BY <1>3
<1>5. Distinct(u)
  <2> SUFFICES ASSUME NEW i \in 1..Len(u), NEW j \in 1..Len(u), u[i] = u[j] PROVE i = j
    BY DEF Distinct
  <2>1. i \in Int /\ j \in Int /\ 1 <= i /\ 1 <= j /\ i <= Len(u) /\ j <= Len(u)
    BY <1>1, <1>2
  <2> DEFINE At(k) == IF k < p THEN k ELSE k - p - Len(t) + q
             Old(k) == k < p \/ p + Len(t) <= k
  <2>2. ASSUME NEW k \in 1..Len(u)
        PROVE  /\ Old(k) => At(k) \in 1..Len(s) /\ u[k] = s[At(k)]
               /\ ~Old(k) => k - p + 1 \in 1..Len(t) /\ u[k] = t[k - p + 1]
    BY <1>1, <1>2, SMTT(40) DEF At, Old
  <2> HIDE DEF At, Old
  <2>3. CASE Old(i) /\ Old(j)
    <3>1. At(i) \in 1..Len(s) /\ At(j) \in 1..Len(s) /\ s[At(i)] = s[At(j)]
      BY <2>2, <2>3
    <3>2. At(i) = At(j)
      BY <3>1 DEF Distinct
    <3> QED BY <3>2, <2>1, <2>3, <1>1 DEF At, Old
  <2>4. CASE ~Old(i) /\ ~Old(j)
    <3>1. i - p + 1 \in 1..Len(t) /\ j - p + 1 \in 1..Len(t) /\ t[i - p + 1] = t[j - p + 1]
      BY <2>2, <2>4
    <3>2. i - p + 1 = j - p + 1
      BY <3>1 DEF Distinct
    <3> QED BY <3>2, <2>1, <1>1
  <2>5. ~(Old(i) /\ ~Old(j)) /\ ~(~Old(i) /\ Old(j))
    BY <2>2, <1>4, ZenonT(60)
  <2> QED BY <2>3, <2>4, <2>5
<1>6. ToSet(u) = {s[i] : i \in 1..(p - 1)} \cup ToSet(t) \cup {s[i] : i \in q..Len(s)}
  <2>1. ASSUME NEW k \in 1..Len(u)
        PROVE  u[k] \in {s[i] : i \in 1..(p - 1)} \cup ToSet(t) \cup {s[i] : i \in q..Len(s)}
    <3>1. CASE k < p
      BY <1>1, <1>2, <3>1
    <3>2. CASE ~(k < p) /\ k < p + Len(t)
      <4>1. k - p + 1 \in 1..Len(t)
        BY <1>1, <3>2
      <4> QED BY <1>2, <1>3, <3>2, <4>1
    <3>3. CASE ~(k < p) /\ ~(k < p + Len(t))
      <4>1. k - p - Len(t) + q \in q..Len(s)
        BY <1>1, <1>2, <3>3
      <4> QED BY <1>2, <3>3, <4>1
    <3> QED BY <3>1, <3>2, <3>3
  <2>2. ASSUME NEW i \in 1..(p - 1) PROVE s[i] \in ToSet(u)
    <3>1. i \in 1..Len(u) /\ i < p
      BY <1>1, <1>2
    <3> QED BY <3>1, <1>2, <1>3
  <2>3. ASSUME NEW i \in 1..Len(t) PROVE t[i] \in ToSet(u)
    <3>1. /\ i + p - 1 \in 1..Len(u) /\ ~(i + p - 1 < p) /\ i + p - 1 < p + Len(t)
          /\ i + p - 1 - p + 1 = i
      BY <1>1, <1>2
    <3>2. u[i + p - 1] = t[i]
      BY <3>1, <1>2, SMTT(40)
    <3> QED BY <3>1, <3>2, <1>3
  <2>4. ASSUME NEW i \in q..Len(s) PROVE s[i] \in ToSet(u)
    <3> DEFINE k == i + p + Len(t) - q
    <3>1. k \in 1..Len(u) /\ ~(k < p) /\ ~(k < p + Len(t)) /\ k - p - Len(t) + q = i
      BY <1>1, <1>2
    <3> HIDE DEF k
    <3>2. u[k] = s[i]
      BY <3>1, <1>2
    <3> QED BY <3>1, <3>2, <1>3
  <2> QED BY <2>1, <2>2, <2>3, <2>4, <1>3, ZenonT(60)
<1>7. ASSUME q <= Len(s) PROVE u # <<>> /\ Last(u) = Last(s)
  <2>1. /\ Len(u) \in 1..Len(u) /\ ~(Len(u) < p) /\ ~(Len(u) < p + Len(t))
        /\ Len(u) - p - Len(t) + q = Len(s)
    BY <1>1, <1>2, <1>7
  <2>2. u[Len(u)] = s[Len(s)]
    BY <2>1, <1>2
  <2>3. u # <<>>
    BY <2>1, <1>2, EmptyIff
  <2> QED BY <2>2, <2>3 DEF Last
<1> QED BY <1>2, <1>5, <1>6, <1>7 DEF u, DistinctAt

\* The empty sequence has nothing twice.
LEMMA EmptyDistinct == Distinct(<<>>) /\ ToSet(<<>>) = {}
<1>1. Len(<<>>) = 0 /\ <<>> \in Seq({})
  BY EmptySeq
<1>2. 1..0 = {}
  OBVIOUS
<1> QED BY <1>1, <1>2, ToSetLemma DEF Distinct

\* One place is taken out.
LEMMA RemovedPlace ==
  ASSUME NEW S, NEW s \in Seq(S), Distinct(s), NEW p \in 1..Len(s)
  PROVE  /\ RemoveAt(s, p) \in Seq(S) /\ Distinct(RemoveAt(s, p))
         /\ ToSet(RemoveAt(s, p)) = ToSet(s) \ {s[p]}
         /\ p # Len(s) => RemoveAt(s, p) # <<>> /\ Last(RemoveAt(s, p)) = Last(s)
<1>1. Len(s) \in Nat /\ ToSet(s) = {s[i] : i \in 1..Len(s)} /\ \A i \in 1..Len(s) : s[i] \in S
  BY LenProperties, ToSetLemma
<1>2. p \in 1..(Len(s) + 1) /\ p + 1 \in p..(Len(s) + 1) /\ p \in Int
  BY <1>1
<1>3. SubSeq(s, 1, p - 1) \in Seq(S)
  <2>1. 1 \in Int /\ p - 1 \in Int /\ \A i \in 1..(p - 1) : s[i] \in S
    BY <1>1, <1>2
  <2> QED BY <2>1, SubSeqProperties
<1>4. RemoveAt(s, p) = Spliced(s, p, <<>>, p + 1)
  <2>1. SubSeq(s, 1, p - 1) \o <<>> = SubSeq(s, 1, p - 1)
    BY <1>3, ConcatEmptySeq
  <2> QED BY <2>1 DEF RemoveAt, Spliced
<1>5. <<>> \in Seq(S) /\ Distinct(<<>>) /\ ToSet(<<>>) = {}
  BY EmptySeq, EmptyDistinct
<1> DEFINE u == RemoveAt(s, p)
<1>6. /\ u \in Seq(S) /\ Distinct(u)
      /\ ToSet(u) = {s[i] : i \in 1..(p - 1)} \cup ToSet(<<>>) \cup {s[i] : i \in (p + 1)..Len(s)}
      /\ p + 1 <= Len(s) => u # <<>> /\ Last(u) = Last(s)
  <2>1. ToSet(s) \cap ToSet(<<>>) = {}
    BY <1>5
  <2>2. DistinctAt(Spliced(s, p, <<>>, p + 1), S, s, p, <<>>, p + 1)
    BY <1>2, <1>5, <2>1, SplicedDistinct
  <2> QED BY <1>4, <2>2 DEF DistinctAt
<1> HIDE DEF u
<1>7. ToSet(u) = ToSet(s) \ {s[p]}
  <2>1. \A i \in 1..Len(s) : i \in 1..(p - 1) \/ i = p \/ i \in (p + 1)..Len(s)
    BY <1>1, <1>2
  <2>2. \A i \in 1..(p - 1) : i \in 1..Len(s) /\ i # p
    BY <1>1, <1>2
  <2>3. \A i \in (p + 1)..Len(s) : i \in 1..Len(s) /\ i # p
    BY <1>1, <1>2
  <2>4. \A i \in 1..Len(s) : s[i] = s[p] => i = p
    BY DEF Distinct
  <2> QED BY <2>1, <2>2, <2>3, <2>4, <1>1, <1>5, <1>6
<1>8. p # Len(s) => p + 1 <= Len(s)
  BY <1>1, <1>2
<1> QED BY <1>6, <1>7, <1>8 DEF u

\* Everything from a place on is taken out.
LEMMA CutOff ==
  ASSUME NEW S, NEW s \in Seq(S), Distinct(s), NEW p \in 1..Len(s)
  PROVE  /\ SubSeq(s, 1, p - 1) \in Seq(S) /\ Distinct(SubSeq(s, 1, p - 1))
         /\ Len(SubSeq(s, 1, p - 1)) = p - 1
         /\ ToSet(SubSeq(s, 1, p - 1)) = ToSet(s) \ ToSet(SubSeq(s, p, Len(s)))
         /\ ToSet(SubSeq(s, p, Len(s))) \subseteq ToSet(s)
<1>1. Len(s) \in Nat /\ ToSet(s) = {s[i] : i \in 1..Len(s)} /\ \A i \in 1..Len(s) : s[i] \in S
  BY LenProperties, ToSetLemma
<1>2. p \in Int /\ 1 <= p /\ p <= Len(s)
  BY <1>1
<1> DEFINE l == SubSeq(s, 1, p - 1)
           r == SubSeq(s, p, Len(s))
<1>3. l \in Seq(S) /\ Len(l) = p - 1 /\ \A i \in 1..(p - 1) : l[i] = s[i]
  <2>1. 1 \in Int /\ p - 1 \in Int /\ \A i \in 1..(p - 1) : s[i] \in S
    BY <1>1, <1>2
  <2>2. /\ SubSeq(s, 1, p - 1) \in Seq(S)
        /\ Len(SubSeq(s, 1, p - 1)) = IF 1 <= p - 1 THEN p - 1 - 1 + 1 ELSE 0
        /\ \A i \in 1..(p - 1 - 1 + 1) : SubSeq(s, 1, p - 1)[i] = s[1 + i - 1]
    BY <2>1, SubSeqProperties
  <2> QED BY <2>2, <1>1, <1>2
<1>4. r \in Seq(S) /\ Len(r) = Len(s) - p + 1 /\ \A i \in 1..(Len(s) - p + 1) : r[i] = s[p + i - 1]
  <2>1. p \in Int /\ Len(s) \in Int /\ \A i \in p..Len(s) : s[i] \in S
    BY <1>1, <1>2
  <2>2. /\ SubSeq(s, p, Len(s)) \in Seq(S)
        /\ Len(SubSeq(s, p, Len(s))) = IF p <= Len(s) THEN Len(s) - p + 1 ELSE 0
        /\ \A i \in 1..(Len(s) - p + 1) : SubSeq(s, p, Len(s))[i] = s[p + i - 1]
    BY <2>1, SubSeqProperties
  <2> QED BY <2>2, <1>1, <1>2
<1> HIDE DEF l, r
<1>5. ToSet(l) = {l[i] : i \in 1..Len(l)} /\ ToSet(r) = {r[i] : i \in 1..Len(r)}
  BY <1>3, <1>4, ToSetLemma
<1>6. ToSet(l) = {s[i] : i \in 1..(p - 1)}
  BY <1>3, <1>5
<1>7. ToSet(r) = {s[i] : i \in p..Len(s)}
  <2>1. \A i \in 1..Len(r) : p + i - 1 \in p..Len(s) /\ r[i] = s[p + i - 1]
    BY <1>1, <1>2, <1>4
  <2>2. ASSUME NEW i \in p..Len(s) PROVE s[i] \in ToSet(r)
    <3>1. i - p + 1 \in 1..Len(r) /\ p + (i - p + 1) - 1 = i
      BY <1>1, <1>2, <1>4
    <3>2. r[i - p + 1] = s[p + (i - p + 1) - 1]
      BY <3>1, <1>4
    <3>3. r[i - p + 1] = s[i]
      BY <3>1, <3>2
    <3> QED BY <3>1, <3>3, <1>5
  <2> QED BY <2>1, <2>2, <1>5, ZenonT(60)
<1>8. Distinct(l)
  <2>1. \A i \in 1..Len(l) : i \in 1..Len(s) /\ l[i] = s[i]
    BY <1>1, <1>2, <1>3
  <2> QED BY <2>1 DEF Distinct
<1>9. ToSet(l) = ToSet(s) \ ToSet(r)
  <2>1. \A i \in 1..Len(s) : i \in 1..(p - 1) \/ i \in p..Len(s)
    BY <1>1, <1>2
  <2>2. \A i \in 1..(p - 1), j \in p..Len(s) : i \in 1..Len(s) /\ j \in 1..Len(s) /\ i # j
    BY <1>1, <1>2
  <2>3. \A i \in 1..(p - 1), j \in p..Len(s) : s[i] # s[j]
    BY <2>2 DEF Distinct
  <2>4. \A i \in 1..(p - 1) : i \in 1..Len(s)
    BY <1>1, <1>2
  <2> QED BY <2>1, <2>3, <2>4, <1>1, <1>6, <1>7
<1>10. ToSet(r) \subseteq ToSet(s)
  <2>1. \A i \in p..Len(s) : i \in 1..Len(s)
    BY <1>1, <1>2
  <2> QED BY <2>1, <1>1, <1>7
<1> QED BY <1>3, <1>8, <1>9, <1>10 DEF l, r

\* One element is put at the end.
LEMMA PutLast ==
  ASSUME NEW S, NEW s \in Seq(S), Distinct(s), NEW x \in S, x \notin ToSet(s)
  PROVE  /\ Append(s, x) \in Seq(S) /\ Distinct(Append(s, x))
         /\ ToSet(Append(s, x)) = ToSet(s) \cup {x}
         /\ Append(s, x) # <<>> /\ Last(Append(s, x)) = x
<1> DEFINE u == Append(s, x)
<1>1. Len(s) \in Nat /\ ToSet(s) = {s[i] : i \in 1..Len(s)}
  BY LenProperties, ToSetLemma
<1>2. /\ u \in Seq(S) /\ u # <<>> /\ Len(u) = Len(s) + 1 /\ \A i \in 1..Len(s) : u[i] = s[i]
      /\ u[Len(s) + 1] = x
  BY AppendProperties
<1>3. ToSet(u) = ToSet(s) \cup {x}
  BY AppendSetLemma
<1> HIDE DEF u
<1>4. Distinct(u)
  <2> SUFFICES ASSUME NEW i \in 1..Len(u), NEW j \in 1..Len(u), u[i] = u[j] PROVE i = j
    BY DEF Distinct
  <2>1. (i \in 1..Len(s) \/ i = Len(s) + 1) /\ (j \in 1..Len(s) \/ j = Len(s) + 1)
    BY <1>1, <1>2
  <2>2. \A k \in 1..Len(s) : u[k] = s[k] /\ s[k] # x
    BY <1>1, <1>2
  <2> QED BY <2>1, <2>2, <1>2 DEF Distinct
<1>5. Last(u) = x
  BY <1>2 DEF Last
<1> QED BY <1>2, <1>3, <1>4, <1>5 DEF u

-----------------------------------------------------------------------------
(***************************************************************************)
(* Blocks and users.                                                       *)
(***************************************************************************)
AllOf(blocks) == UNION {ToSet(blocks[b]) : b \in DOMAIN blocks}
Placed(blocks) == blocks \in Seq(Seq(Nat)) /\ Once(blocks)
Uses(code, insts) == UNION {{<<v, i>> : v \in ToSet(code[i].args)} : i \in insts}

\* Every block is a list without repetition, and no two share an instruction.
LEMMA PlacedFacts ==
  ASSUME NEW blocks, Placed(blocks)
  PROVE  /\ Len(blocks) \in Nat /\ DOMAIN blocks = 1..Len(blocks)
         /\ \A b \in DOMAIN blocks :
              /\ blocks[b] \in Seq(Nat) /\ Distinct(blocks[b]) /\ DOMAIN blocks[b] = 1..Len(blocks[b])
              /\ ToSet(blocks[b]) \subseteq AllOf(blocks) /\ ToSet(blocks[b]) \subseteq Nat
         /\ \A b, c \in DOMAIN blocks : b # c => ToSet(blocks[b]) \cap ToSet(blocks[c]) = {}
<1>1. Len(blocks) \in Nat /\ DOMAIN blocks = 1..Len(blocks) /\ blocks \in [1..Len(blocks) -> Seq(Nat)]
  BY LenProperties DEF Placed
<1>2. ASSUME NEW b \in DOMAIN blocks
      PROVE  /\ blocks[b] \in Seq(Nat) /\ DOMAIN blocks[b] = 1..Len(blocks[b])
             /\ ToSet(blocks[b]) \subseteq Nat /\ ToSet(blocks[b]) = {blocks[b][k] : k \in DOMAIN blocks[b]}
  <2>1. blocks[b] \in Seq(Nat)
    BY <1>1
  <2> QED BY <2>1, LenProperties, ToSetLemma
<1>3. \A b \in DOMAIN blocks : Distinct(blocks[b])
  BY <1>2 DEF Placed, Once, Distinct
<1>4. \A b, c \in DOMAIN blocks : b # c => ToSet(blocks[b]) \cap ToSet(blocks[c]) = {}
  BY <1>2 DEF Placed, Once
<1> QED BY <1>1, <1>2, <1>3, <1>4 DEF AllOf

\* A block gets other instructions, of its own or new.
LEMMA BlockChange ==
  ASSUME NEW blocks, Placed(blocks), NEW b \in DOMAIN blocks, NEW s \in Seq(Nat), Distinct(s),
         \A x \in ToSet(s) : x \in ToSet(blocks[b]) \/ x \notin AllOf(blocks)
  PROVE  /\ Placed([blocks EXCEPT ![b] = s])
         /\ DOMAIN [blocks EXCEPT ![b] = s] = DOMAIN blocks
         /\ AllOf([blocks EXCEPT ![b] = s]) = (AllOf(blocks) \ ToSet(blocks[b])) \cup ToSet(s)
         /\ [blocks EXCEPT ![b] = s][b] = s
         /\ \A c \in DOMAIN blocks : c # b => [blocks EXCEPT ![b] = s][c] = blocks[c]
<1> DEFINE n == [blocks EXCEPT ![b] = s]
<1>1. /\ Len(blocks) \in Nat /\ DOMAIN blocks = 1..Len(blocks)
      /\ \A c \in DOMAIN blocks :
           /\ blocks[c] \in Seq(Nat) /\ Distinct(blocks[c]) /\ DOMAIN blocks[c] = 1..Len(blocks[c])
           /\ ToSet(blocks[c]) \subseteq AllOf(blocks)
      /\ \A c, d \in DOMAIN blocks : c # d => ToSet(blocks[c]) \cap ToSet(blocks[d]) = {}
  BY PlacedFacts
<1>2. DOMAIN n = DOMAIN blocks /\ n[b] = s /\ \A c \in DOMAIN blocks : c # b => n[c] = blocks[c]
  OBVIOUS
<1>3. n \in Seq(Seq(Nat))
  <2>1. blocks \in Seq(Seq(Nat)) /\ b \in 1..Len(blocks)
    BY <1>1 DEF Placed
  <2> QED BY <2>1, ExceptSeq
<1> HIDE DEF n
<1>4. ToSet(s) = {s[k] : k \in 1..Len(s)} /\ DOMAIN s = 1..Len(s)
  BY ToSetLemma, LenProperties
<1>5. \A c \in DOMAIN n : Distinct(n[c]) /\ DOMAIN n[c] = 1..Len(n[c]) /\ \A k \in DOMAIN n[c] : n[c][k] \in ToSet(n[c])
  BY <1>1, <1>2, <1>4 DEF ToSet
<1>6. \A c, d \in DOMAIN n : c # d => ToSet(n[c]) \cap ToSet(n[d]) = {}
  <2> SUFFICES ASSUME NEW c \in DOMAIN n, NEW d \in DOMAIN n, c # d PROVE ToSet(n[c]) \cap ToSet(n[d]) = {}
    OBVIOUS
  <2>1. CASE c # b /\ d # b
    BY <2>1, <1>1, <1>2
  <2>2. \A e \in DOMAIN blocks : e # b => ToSet(s) \cap ToSet(blocks[e]) = {}
    BY <1>1
  <2> QED BY <2>1, <2>2, <1>2
<1>7. Once(n)
  <2> SUFFICES ASSUME NEW c \in DOMAIN n, NEW d \in DOMAIN n, NEW j \in DOMAIN n[c], NEW k \in DOMAIN n[d],
                      n[c][j] = n[d][k]
               PROVE  c = d /\ j = k
    BY DEF Once
  <2>1. c = d
    BY <1>5, <1>6
  <2>2. j = k
    BY <2>1, <1>5 DEF Distinct
  <2> QED BY <2>1, <2>2
<1>8. AllOf(n) = (AllOf(blocks) \ ToSet(blocks[b])) \cup ToSet(s)
  <2>1. ASSUME NEW x \in AllOf(n) PROVE x \in (AllOf(blocks) \ ToSet(blocks[b])) \cup ToSet(s)
    <3>1. PICK c \in DOMAIN n : x \in ToSet(n[c])
      BY DEF AllOf
    <3>2. CASE c # b
      BY <3>1, <3>2, <1>1, <1>2
    <3>3. CASE c = b
      BY <3>1, <3>3, <1>2
    <3> QED BY <3>2, <3>3
  <2>2. ASSUME NEW x \in AllOf(blocks), x \notin ToSet(blocks[b]) PROVE x \in AllOf(n)
    <3>1. PICK c \in DOMAIN blocks : x \in ToSet(blocks[c])
      BY DEF AllOf
    <3>2. c # b /\ n[c] = blocks[c] /\ c \in DOMAIN n
      BY <3>1, <2>2, <1>2
    <3> QED BY <3>1, <3>2 DEF AllOf
  <2>3. ToSet(s) \subseteq AllOf(n)
    BY <1>2 DEF AllOf
  <2> QED BY <2>1, <2>2, <2>3
<1> QED BY <1>2, <1>3, <1>7, <1>8 DEF n, Placed

\* The uses of fewer instructions, of more, and of changed ones.
Without(users, code, gone) == {u \in users : u[2] \notin gone \/ u[1] \notin ToSet(code[u[2]].args)}
\* Instructions that go take their uses with them.
LEMMA UsesLess ==
  ASSUME NEW code, NEW insts, NEW gone
  PROVE  Without(Uses(code, insts), code, gone) = Uses(code, insts \ gone)
<1>1. ASSUME NEW u \in Uses(code, insts), u[2] \notin gone \/ u[1] \notin ToSet(code[u[2]].args)
      PROVE  u \in Uses(code, insts \ gone)
  <2>1. PICK i \in insts : \E v \in ToSet(code[i].args) : u = <<v, i>>
    BY DEF Uses
  <2>2. PICK v \in ToSet(code[i].args) : u = <<v, i>>
    BY <2>1
  <2>3. i \notin gone
    BY <2>2, <1>1
  <2> QED BY <2>2, <2>3 DEF Uses
<1>2. ASSUME NEW u \in Uses(code, insts \ gone) PROVE u \in Uses(code, insts) /\ u[2] \notin gone
  <2>1. PICK i \in insts \ gone : \E v \in ToSet(code[i].args) : u = <<v, i>>
    BY DEF Uses
  <2> QED BY <2>1 DEF Uses
<1> QED BY <1>1, <1>2 DEF Without

\* New instructions bring theirs.
LEMMA UsesMore ==
  ASSUME NEW code, NEW old, NEW insts, NEW more, \A i \in insts : code[i].args = old[i].args
  PROVE  Uses(code, insts \cup more) = Uses(old, insts) \cup Uses(code, more)
<1>1. Uses(code, insts \cup more) = Uses(code, insts) \cup Uses(code, more)
  BY DEF Uses
<1>2. Uses(code, insts) = Uses(old, insts)
  BY DEF Uses
<1> QED BY <1>1, <1>2

\* An instruction that changes has the uses of what it is now.
LEMMA UsesOne ==
  ASSUME NEW code, NEW i
  PROVE  Uses(code, {i}) = {<<v, i>> : v \in ToSet(code[i].args)}
  BY DEF Uses

-----------------------------------------------------------------------------
(***************************************************************************)
(* The edits.                                                              *)
(***************************************************************************)
\* What holds of a function in the middle of an edit: all but that its blocks are ended.
Core(funcs, f) ==
  /\ f = [args |-> f.args, code |-> f.code, blocks |-> f.blocks, users |-> f.users]
  /\ IsSeq(f.code) /\ \A i \in DOMAIN f.code : IsInst(funcs, f.code[i])
  /\ Placed(f.blocks) /\ AllOf(f.blocks) \subseteq DOMAIN f.code
  /\ f.users = Uses(f.code, AllOf(f.blocks))
AllTerminated(f) == \A b \in DOMAIN f.blocks : Terminated(f, b)

\* What no edit changes.
Kept(f, g) ==
  /\ g.args = f.args /\ DOMAIN f.code \subseteq DOMAIN g.code
  /\ \A i \in DOMAIN f.code : g.code[i].op = f.code[i].op
  /\ DOMAIN g.blocks = DOMAIN f.blocks
KeptBut(f, g, b) == Kept(f, g) /\ \A c \in DOMAIN f.blocks : c # b => g.blocks[c] = f.blocks[c]

\* One edit after the other keeps what both keep.
LEMMA KeptMore ==
  ASSUME NEW f, NEW g, NEW h, Kept(f, g), Kept(g, h)
  PROVE  Kept(f, h)
  BY DEF Kept

\* The inserted instructions are those of the blocks.
LEMMA InsertedAll == \A f : Inserted(f) = AllOf(f.blocks)
  BY DEF Inserted, AllOf

\* What makes a function, in the parts the edits are about.
LEMMA FunctionCore ==
  ASSUME NEW funcs, NEW f
  PROVE  IsFunction(funcs, f) <=> Core(funcs, f) /\ AllTerminated(f)
<1>1. ASSUME IsSeq(f.code)
      PROVE  f.blocks \in Seq(Seq(DOMAIN f.code)) <=> f.blocks \in Seq(Seq(Nat)) /\ AllOf(f.blocks) \subseteq DOMAIN f.code
  <2>1. DOMAIN f.code \subseteq Nat
    BY <1>1, SeqFacts
  <2>2. ASSUME f.blocks \in Seq(Seq(DOMAIN f.code))
        PROVE  f.blocks \in Seq(Seq(Nat)) /\ AllOf(f.blocks) \subseteq DOMAIN f.code
    <3>1. /\ Len(f.blocks) \in Nat /\ f.blocks \in [1..Len(f.blocks) -> Seq(DOMAIN f.code)]
          /\ DOMAIN f.blocks = 1..Len(f.blocks)
      BY <2>2, LenProperties
    <3>2. ASSUME NEW b \in DOMAIN f.blocks PROVE f.blocks[b] \in Seq(Nat) /\ ToSet(f.blocks[b]) \subseteq DOMAIN f.code
      <4>1. f.blocks[b] \in Seq(DOMAIN f.code)
        BY <3>1
      <4>2. /\ Len(f.blocks[b]) \in Nat /\ f.blocks[b] \in [1..Len(f.blocks[b]) -> DOMAIN f.code]
        BY <4>1, LenProperties
      <4>3. f.blocks[b] \in [1..Len(f.blocks[b]) -> Nat]
        BY <4>2, <2>1
      <4> QED BY <4>1, <4>2, <4>3, ToSetLemma
    <3>3. f.blocks \in [1..Len(f.blocks) -> Seq(Nat)]
      BY <3>1, <3>2
    <3> QED BY <3>1, <3>2, <3>3 DEF AllOf
  <2>3. ASSUME f.blocks \in Seq(Seq(Nat)), AllOf(f.blocks) \subseteq DOMAIN f.code
        PROVE  f.blocks \in Seq(Seq(DOMAIN f.code))
    <3>1. /\ Len(f.blocks) \in Nat /\ f.blocks \in [1..Len(f.blocks) -> Seq(Nat)]
          /\ DOMAIN f.blocks = 1..Len(f.blocks)
      BY <2>3, LenProperties
    <3>2. ASSUME NEW b \in DOMAIN f.blocks PROVE f.blocks[b] \in Seq(DOMAIN f.code)
      <4>1. f.blocks[b] \in Seq(Nat)
        BY <3>1
      <4>2. ToSet(f.blocks[b]) \subseteq DOMAIN f.code
        BY <2>3 DEF AllOf
      <4>3. Len(f.blocks[b]) \in Nat /\ f.blocks[b] \in [1..Len(f.blocks[b]) -> Nat] /\ ToSet(f.blocks[b]) = {f.blocks[b][k] : k \in 1..Len(f.blocks[b])}
        BY <4>1, LenProperties, ToSetLemma
      <4>4. f.blocks[b] \in [1..Len(f.blocks[b]) -> DOMAIN f.code]
        BY <4>2, <4>3
      <4> QED BY <4>3, <4>4
    <3>3. f.blocks \in [1..Len(f.blocks) -> Seq(DOMAIN f.code)]
      BY <3>1, <3>2
    <3> QED BY <3>1, <3>3
  <2> QED BY <2>2, <2>3
<1>2. UsersExact(f) <=> f.users = Uses(f.code, AllOf(f.blocks))
  BY InsertedAll DEF UsersExact, Uses, Operands
<1> QED BY <1>1, <1>2 DEF IsFunction, Core, AllTerminated, Placed

\* Where an inserted instruction stands.
LEMMA WhereInserted ==
  ASSUME NEW funcs, NEW f, Core(funcs, f), NEW i \in Inserted(f)
  PROVE  /\ BlockOf(f, i) \in DOMAIN f.blocks /\ i \in ToSet(f.blocks[BlockOf(f, i)])
         /\ PlaceOf(f, i) \in 1..Len(f.blocks[BlockOf(f, i)])
         /\ f.blocks[BlockOf(f, i)][PlaceOf(f, i)] = i
         /\ i \in DOMAIN f.code /\ IsInst(funcs, f.code[i])
<1>1. Placed(f.blocks) /\ Inserted(f) \subseteq DOMAIN f.code /\ \A j \in DOMAIN f.code : IsInst(funcs, f.code[j])
  BY InsertedAll DEF Core
<1>2. \E b \in DOMAIN f.blocks : i \in ToSet(f.blocks[b])
  BY DEF Inserted
<1>3. BlockOf(f, i) \in DOMAIN f.blocks /\ i \in ToSet(f.blocks[BlockOf(f, i)])
  BY <1>2 DEF BlockOf
<1>4. f.blocks[BlockOf(f, i)] \in Seq(Nat) /\ DOMAIN f.blocks[BlockOf(f, i)] = 1..Len(f.blocks[BlockOf(f, i)])
  BY <1>1, <1>3, PlacedFacts
<1>5. \E k \in DOMAIN f.blocks[BlockOf(f, i)] : f.blocks[BlockOf(f, i)][k] = i
  BY <1>3 DEF ToSet
<1>6. PlaceOf(f, i) \in DOMAIN f.blocks[BlockOf(f, i)] /\ f.blocks[BlockOf(f, i)][PlaceOf(f, i)] = i
  BY <1>5 DEF PlaceOf
<1> QED BY <1>1, <1>3, <1>4, <1>6

\* A record with another field.
IsRecord(f) == f = [args |-> f.args, code |-> f.code, blocks |-> f.blocks, users |-> f.users]
\* Other code.
LEMMA CodeField ==
  ASSUME NEW f, IsRecord(f), NEW x
  PROVE  [f EXCEPT !.code = x] = [args |-> f.args, code |-> x, blocks |-> f.blocks, users |-> f.users]
<1> DEFINE a == f.args
           c == f.code
           b == f.blocks
           u == f.users
<1>1. f = [args |-> a, code |-> c, blocks |-> b, users |-> u]
  BY DEF IsRecord
<1> HIDE DEF a, c, b, u
<1>2. [f EXCEPT !.code = x] = [args |-> a, code |-> x, blocks |-> b, users |-> u]
  BY <1>1
<1> QED BY <1>2 DEF a, c, b, u

\* Other blocks.
LEMMA BlocksField ==
  ASSUME NEW f, IsRecord(f), NEW x
  PROVE  [f EXCEPT !.blocks = x] = [args |-> f.args, code |-> f.code, blocks |-> x, users |-> f.users]
<1> DEFINE a == f.args
           c == f.code
           b == f.blocks
           u == f.users
<1>1. f = [args |-> a, code |-> c, blocks |-> b, users |-> u]
  BY DEF IsRecord
<1> HIDE DEF a, c, b, u
<1>2. [f EXCEPT !.blocks = x] = [args |-> a, code |-> c, blocks |-> x, users |-> u]
  BY <1>1
<1> QED BY <1>2 DEF a, c, b, u

\* Other users.
LEMMA UsersField ==
  ASSUME NEW f, IsRecord(f), NEW x
  PROVE  [f EXCEPT !.users = x] = [args |-> f.args, code |-> f.code, blocks |-> f.blocks, users |-> x]
<1> DEFINE a == f.args
           c == f.code
           b == f.blocks
           u == f.users
<1>1. f = [args |-> a, code |-> c, blocks |-> b, users |-> u]
  BY DEF IsRecord
<1> HIDE DEF a, c, b, u
<1>2. [f EXCEPT !.users = x] = [args |-> a, code |-> c, blocks |-> b, users |-> x]
  BY <1>1
<1> QED BY <1>2 DEF a, c, b, u

\* A function is a record of those fields.
LEMMA CoreRecord ==
  ASSUME NEW funcs, NEW f, Core(funcs, f)
  PROVE  IsRecord(f)
  BY DEF Core, IsRecord

\* An instruction is removed.
LEMMA UntrackLemma ==
  ASSUME NEW f, NEW i
  PROVE  Untrack(f, i) = [f EXCEPT !.users = Without(f.users, f.code, {i})]
<1>1. {u \in f.users : u[2] # i \/ u[1] \notin Operands(f, i)} = Without(f.users, f.code, {i})
  BY DEF Without, Operands
<1> QED BY <1>1 DEF Untrack

\* remove_inst takes the instruction, and its uses, out of its block.
LEMMA RemoveKeeps ==
  ASSUME NEW funcs, NEW f, Core(funcs, f), NEW i \in Inserted(f)
  PROVE  /\ Core(funcs, RemoveInst(f, i)) /\ Kept(f, RemoveInst(f, i))
         /\ (AllTerminated(f) /\ ~IsTerminator(f, i)) => AllTerminated(RemoveInst(f, i))
<1> DEFINE b == BlockOf(f, i)
           p == PlaceOf(f, i)
           s == RemoveAt(f.blocks[b], p)
           us == Without(f.users, f.code, {i})
           bs == [f.blocks EXCEPT ![b] = s]
           g == [args |-> f.args, code |-> f.code, blocks |-> bs, users |-> us]
<1>1. /\ b \in DOMAIN f.blocks /\ i \in ToSet(f.blocks[b]) /\ p \in 1..Len(f.blocks[b]) /\ f.blocks[b][p] = i
  BY WhereInserted
<1>2. Placed(f.blocks) /\ f.blocks[b] \in Seq(Nat) /\ Distinct(f.blocks[b])
  BY <1>1, PlacedFacts DEF Core
<1>3. /\ s \in Seq(Nat) /\ Distinct(s) /\ ToSet(s) = ToSet(f.blocks[b]) \ {i}
      /\ p # Len(f.blocks[b]) => s # <<>> /\ Last(s) = Last(f.blocks[b])
  BY <1>1, <1>2, RemovedPlace
<1>a. Untrack(f, i) = [f EXCEPT !.users = us]
  BY UntrackLemma
<1>b. \A t : t.blocks = f.blocks => [t EXCEPT !.blocks[BlockOf(f, i)] = RemoveAt(@, PlaceOf(f, i))] = [t EXCEPT !.blocks = bs]
  OBVIOUS
<1> HIDE DEF us, bs
<1>4. RemoveInst(f, i) = g
  <2>1. IsRecord(f)
    BY CoreRecord
  <2>2. Untrack(f, i) = [args |-> f.args, code |-> f.code, blocks |-> f.blocks, users |-> us]
    BY <2>1, <1>a, UsersField
  <2>3. PICK t : t = Untrack(f, i)
    OBVIOUS
  <2>4. IsRecord(t) /\ t.args = f.args /\ t.code = f.code /\ t.blocks = f.blocks /\ t.users = us
    BY <2>2, <2>3 DEF IsRecord
  <2>5. [t EXCEPT !.blocks = bs] = [args |-> f.args, code |-> f.code, blocks |-> bs, users |-> us]
    BY <2>4, BlocksField
  <2>6. RemoveInst(f, i) = [t EXCEPT !.blocks = bs]
    BY <2>3, <2>4, <1>b DEF RemoveInst
  <2> QED BY <2>5, <2>6
<1> HIDE DEF b, p, s
<1>5. /\ Placed(bs) /\ DOMAIN bs = DOMAIN f.blocks
      /\ AllOf(bs) = (AllOf(f.blocks) \ ToSet(f.blocks[b])) \cup ToSet(s)
      /\ bs[b] = s /\ \A c \in DOMAIN f.blocks : c # b => bs[c] = f.blocks[c]
  <2>1. \A x \in ToSet(s) : x \in ToSet(f.blocks[b]) \/ x \notin AllOf(f.blocks)
    BY <1>3
  <2> QED BY <1>1, <1>2, <1>3, <2>1, BlockChange DEF bs
<1>6. AllOf(bs) = AllOf(f.blocks) \ {i}
  <2>1. ToSet(f.blocks[b]) \subseteq AllOf(f.blocks)
    BY <1>1, <1>2, PlacedFacts
  <2> QED BY <1>1, <1>3, <1>5, <2>1
<1>7. us = Uses(f.code, AllOf(bs))
  <2>1. f.users = Uses(f.code, AllOf(f.blocks))
    BY DEF Core
  <2> QED BY <2>1, <1>6, UsesLess DEF us
<1>8. Core(funcs, g)
  BY <1>5, <1>6, <1>7 DEF Core
<1>9. Kept(f, g)
  BY <1>5 DEF Kept
<1>10. ASSUME AllTerminated(f), ~IsTerminator(f, i) PROVE AllTerminated(g)
  <2> SUFFICES ASSUME NEW c \in DOMAIN f.blocks PROVE Terminated(g, c)
    BY <1>5 DEF AllTerminated
  <2>1. Terminated(f, c)
    BY <1>10 DEF AllTerminated
  <2>2. CASE c # b
    BY <2>1, <2>2, <1>5 DEF Terminated, IsTerminator
  <2>3. CASE c = b
    <3>1. p # Len(f.blocks[b])
      BY <2>1, <2>3, <1>1, <1>10 DEF Terminated, Last
    <3> QED BY <2>1, <2>3, <3>1, <1>3, <1>5 DEF Terminated, IsTerminator
  <2> QED BY <2>2, <2>3
<1> QED BY <1>4, <1>8, <1>9, <1>10

\* An instruction is replaced by one of its kind.
LEMMA ReplaceKeeps ==
  ASSUME NEW funcs, NEW f, Core(funcs, f), NEW i \in Inserted(f),
         NEW inst, IsInst(funcs, inst), inst.op = f.code[i].op
  PROVE  /\ Core(funcs, ReplaceInst(f, i, inst)) /\ Kept(f, ReplaceInst(f, i, inst))
         /\ AllTerminated(f) => AllTerminated(ReplaceInst(f, i, inst))
<1> DEFINE us == Without(f.users, f.code, {i})
           code == [f.code EXCEPT ![i] = inst]
           more == {<<v, i>> : v \in ToSet(inst.args)}
           g == [args |-> f.args, code |-> code, blocks |-> f.blocks, users |-> us \cup more]
<1>1. i \in DOMAIN f.code /\ IsSeq(f.code) /\ i \in AllOf(f.blocks)
  BY WhereInserted, InsertedAll DEF Core
<1>2. /\ DOMAIN code = DOMAIN f.code /\ code[i] = inst
      /\ \A j \in DOMAIN f.code : j # i => code[j] = f.code[j]
  BY <1>1 DEF code
<1>3. IsSeq(code)
  <2>1. Len(f.code) \in Nat /\ DOMAIN f.code = 1..Len(f.code)
    BY <1>1, SeqFacts
  <2>2. code = [k \in 1..Len(f.code) |-> code[k]]
    BY <2>1, <1>2
  <2> QED BY <2>1, <2>2, FunctionSeq
<1>a. Untrack(f, i) = [f EXCEPT !.users = us]
  BY UntrackLemma
<1>b. \A t : t.code = f.code => [t EXCEPT !.code[i] = inst] = [t EXCEPT !.code = code]
  OBVIOUS
<1>c. \A t : (t.code[i] = inst /\ t.users = us) => Attach(t, i) = [t EXCEPT !.users = us \cup more]
  BY DEF Attach, Operands
<1> DEFINE all == us \cup more
<1> HIDE DEF us, code, more, all
<1>4. ReplaceInst(f, i, inst) = g
  <2>1. IsRecord(f)
    BY CoreRecord
  <2>2. Untrack(f, i) = [args |-> f.args, code |-> f.code, blocks |-> f.blocks, users |-> us]
    BY <2>1, <1>a, UsersField
  <2>3. PICK t : t = Untrack(f, i)
    OBVIOUS
  <2>4. IsRecord(t) /\ t.args = f.args /\ t.code = f.code /\ t.blocks = f.blocks /\ t.users = us
    BY <2>2, <2>3 DEF IsRecord
  <2>5. [t EXCEPT !.code = code] = [args |-> f.args, code |-> code, blocks |-> f.blocks, users |-> us]
    BY <2>4, CodeField
  <2>6. PICK r : r = [t EXCEPT !.code = code]
    OBVIOUS
  <2>7. IsRecord(r) /\ r.args = f.args /\ r.code = code /\ r.blocks = f.blocks /\ r.users = us
    BY <2>5, <2>6 DEF IsRecord
  <2>8. [r EXCEPT !.users = all] = [args |-> f.args, code |-> code, blocks |-> f.blocks, users |-> all]
    BY <2>7, UsersField
  <2>9. Attach(r, i) = [r EXCEPT !.users = all]
    BY <2>7, <1>2, <1>c DEF all
  <2>10. ReplaceInst(f, i, inst) = Attach(r, i)
    BY <2>3, <2>4, <2>6, <1>b DEF ReplaceInst
  <2> QED BY <2>8, <2>9, <2>10 DEF all
<1>5. us \cup more = Uses(code, AllOf(f.blocks))
  <2>1. f.users = Uses(f.code, AllOf(f.blocks))
    BY DEF Core
  <2>3. us = Uses(f.code, AllOf(f.blocks) \ {i})
    BY <2>1, UsesLess DEF us
  <2>4. more = Uses(code, {i})
    BY <1>2, UsesOne DEF more
  <2>5. \A j \in AllOf(f.blocks) \ {i} : code[j].args = f.code[j].args
    BY <1>2 DEF Core
  <2>6. Uses(code, (AllOf(f.blocks) \ {i}) \cup {i}) = Uses(f.code, AllOf(f.blocks) \ {i}) \cup Uses(code, {i})
    BY <2>5, UsesMore
  <2>7. (AllOf(f.blocks) \ {i}) \cup {i} = AllOf(f.blocks)
    BY <1>1
  <2> QED BY <2>3, <2>4, <2>6, <2>7
<1>6. Core(funcs, g)
  <2>1. \A j \in DOMAIN code : IsInst(funcs, code[j])
    BY <1>2 DEF Core
  <2> QED BY <1>2, <1>3, <1>5, <2>1 DEF Core
<1>7. Kept(f, g)
  BY <1>2 DEF Kept
<1>8. ASSUME AllTerminated(f) PROVE AllTerminated(g)
  <2> SUFFICES ASSUME NEW c \in DOMAIN f.blocks PROVE Terminated(g, c)
    BY DEF AllTerminated
  <2>1. Terminated(f, c) /\ Last(f.blocks[c]) \in DOMAIN f.code
    <3>1. f.blocks[c] \in Seq(Nat) /\ f.blocks[c] # <<>> /\ ToSet(f.blocks[c]) \subseteq DOMAIN f.code /\ Terminated(f, c)
      BY <1>8, PlacedFacts DEF Core, AllTerminated, Terminated
    <3>2. Len(f.blocks[c]) \in 1..Len(f.blocks[c]) /\ ToSet(f.blocks[c]) = {f.blocks[c][k] : k \in 1..Len(f.blocks[c])}
      BY <3>1, NotEmpty, ToSetLemma
    <3> QED BY <3>1, <3>2 DEF Last
  <2>2. code[Last(f.blocks[c])].op = f.code[Last(f.blocks[c])].op
    BY <2>1, <1>2
  <2> QED BY <2>1, <2>2 DEF Terminated, IsTerminator
<1> QED BY <1>4, <1>6, <1>7, <1>8

\* A block that is left alone stays ended, and so does one with the same last instruction.
LEMMA TerminatedKept ==
  ASSUME NEW funcs, NEW f, Core(funcs, f), NEW g, Kept(f, g), NEW b \in DOMAIN f.blocks, Terminated(f, b),
         g.blocks[b] # <<>>, Last(g.blocks[b]) = Last(f.blocks[b])
  PROVE  Terminated(g, b) /\ Last(f.blocks[b]) \in DOMAIN f.code
<1>1. f.blocks[b] \in Seq(Nat) /\ f.blocks[b] # <<>> /\ ToSet(f.blocks[b]) \subseteq DOMAIN f.code
  BY PlacedFacts DEF Core, Terminated
<1>2. Len(f.blocks[b]) \in 1..Len(f.blocks[b]) /\ ToSet(f.blocks[b]) = {f.blocks[b][k] : k \in 1..Len(f.blocks[b])}
  BY <1>1, NotEmpty, ToSetLemma
<1>3. Last(f.blocks[b]) \in DOMAIN f.code
  BY <1>1, <1>2 DEF Last
<1> QED BY <1>3 DEF Kept, Terminated, IsTerminator

\* A block gets new instructions.
Grown(f, g, code, b, s) ==
  g = [args |-> f.args, code |-> code, blocks |-> [f.blocks EXCEPT ![b] = s],
       users |-> f.users \cup Uses(code, DOMAIN code \ DOMAIN f.code)]
Growth(funcs, f, code, b, s) ==
  /\ IsSeq(code) /\ \A i \in DOMAIN code : IsInst(funcs, code[i])
  /\ DOMAIN f.code \subseteq DOMAIN code /\ \A i \in DOMAIN f.code : code[i] = f.code[i]
  /\ s \in Seq(Nat) /\ Distinct(s) /\ ToSet(s) = ToSet(f.blocks[b]) \cup (DOMAIN code \ DOMAIN f.code)
\* New instructions in a block, with their uses, leave a function.
LEMMA GrowKeeps ==
  ASSUME NEW funcs, NEW f, Core(funcs, f), NEW b \in DOMAIN f.blocks, NEW code, NEW s, NEW g,
         Grown(f, g, code, b, s), Growth(funcs, f, code, b, s)
  PROVE  /\ Core(funcs, g) /\ KeptBut(f, g, b) /\ g.blocks[b] = s
         /\ \A i \in Inserted(f) : i \in Inserted(g) /\ g.code[i] = f.code[i]
<1> DEFINE bs == [f.blocks EXCEPT ![b] = s]
           new == DOMAIN code \ DOMAIN f.code
           us == f.users \cup Uses(code, new)
<1>0. g = [args |-> f.args, code |-> code, blocks |-> bs, users |-> us]
  BY DEF Grown
<1> USE DEF Growth
<1>1. Placed(f.blocks) /\ AllOf(f.blocks) \subseteq DOMAIN f.code /\ f.users = Uses(f.code, AllOf(f.blocks))
  BY DEF Core
<1>2. /\ Placed(bs) /\ DOMAIN bs = DOMAIN f.blocks
      /\ AllOf(bs) = (AllOf(f.blocks) \ ToSet(f.blocks[b])) \cup ToSet(s)
      /\ bs[b] = s /\ \A c \in DOMAIN f.blocks : c # b => bs[c] = f.blocks[c]
  <2>1. \A x \in ToSet(s) : x \in ToSet(f.blocks[b]) \/ x \notin AllOf(f.blocks)
    BY <1>1
  <2> QED BY <1>1, <2>1, BlockChange
<1> HIDE DEF bs
<1>3. AllOf(bs) = AllOf(f.blocks) \cup new
  <2>1. ToSet(f.blocks[b]) \subseteq AllOf(f.blocks)
    BY <1>1, PlacedFacts
  <2> QED BY <1>2, <2>1
<1>4. us = Uses(code, AllOf(bs))
  <2>1. \A i \in AllOf(f.blocks) : code[i].args = f.code[i].args
    BY <1>1
  <2>2. Uses(code, AllOf(f.blocks) \cup new) = Uses(f.code, AllOf(f.blocks)) \cup Uses(code, new)
    BY <2>1, UsesMore
  <2> QED BY <2>2, <1>1, <1>3
<1>5. AllOf(bs) \subseteq DOMAIN code
  BY <1>1, <1>3
<1> HIDE DEF us, new
<1>6. Core(funcs, g)
  BY <1>0, <1>2, <1>4, <1>5 DEF Core
<1>7. KeptBut(f, g, b) /\ g.blocks[b] = s
  BY <1>0, <1>2 DEF KeptBut, Kept
<1>8. \A i \in Inserted(f) : i \in Inserted(g) /\ g.code[i] = f.code[i]
  BY <1>0, <1>1, <1>3, InsertedAll
<1> QED BY <1>6, <1>7, <1>8

\* An instruction is appended to a block.
LEMMA AppendKeeps ==
  ASSUME NEW funcs, NEW f, Core(funcs, f), NEW b \in DOMAIN f.blocks, NEW inst, IsInst(funcs, inst)
  PROVE  /\ Core(funcs, AppendInst(f, b, inst)) /\ KeptBut(f, AppendInst(f, b, inst), b)
         /\ inst.op \in {"ret", "exit", "br"} => Terminated(AppendInst(f, b, inst), b)
<1> DEFINE n == Len(f.code) + 1
           code == Append(f.code, inst)
           s == Append(f.blocks[b], n)
           bs == [f.blocks EXCEPT ![b] = s]
           us == f.users \cup {<<v, n>> : v \in ToSet(inst.args)}
           g == AppendInst(f, b, inst)
<1>1. /\ IsSeq(f.code) /\ Len(f.code) \in Nat /\ DOMAIN f.code = 1..Len(f.code) /\ n \in Nat
      /\ \A i \in DOMAIN f.code : IsInst(funcs, f.code[i])
  BY SeqFacts DEF Core
<1>2. /\ IsSeq(code) /\ DOMAIN code = 1..n /\ code[n] = inst /\ \A i \in DOMAIN f.code : code[i] = f.code[i]
  <2> DEFINE S == ToSet(f.code) \cup {inst}
  <2>1. f.code \in Seq(ToSet(f.code)) /\ f.code \in [1..Len(f.code) -> ToSet(f.code)]
    BY <1>1, LenProperties DEF IsSeq
  <2>2. f.code \in Seq(S)
    BY <2>1, <1>1
  <2>3. code \in Seq(S) /\ Len(code) = n /\ (\A i \in 1..Len(f.code) : code[i] = f.code[i]) /\ code[n] = inst
    BY <2>2, AppendProperties
  <2> QED BY <2>3, <1>1, SeqIsSeq
<1>3. /\ f.blocks[b] \in Seq(Nat) /\ Distinct(f.blocks[b]) /\ ToSet(f.blocks[b]) \subseteq DOMAIN f.code
  BY PlacedFacts DEF Core
<1>4. n \notin DOMAIN f.code /\ DOMAIN code \ DOMAIN f.code = {n} /\ DOMAIN f.code \subseteq DOMAIN code
  BY <1>1, <1>2
<1>5. s \in Seq(Nat) /\ Distinct(s) /\ ToSet(s) = ToSet(f.blocks[b]) \cup {n} /\ s # <<>> /\ Last(s) = n
  <2>1. n \notin ToSet(f.blocks[b])
    BY <1>3, <1>4
  <2> QED BY <1>1, <1>3, <2>1, PutLast
<1>6. us = f.users \cup Uses(code, {n})
  BY <1>2, UsesOne
<1>7. \A t : t.blocks = f.blocks => [t EXCEPT !.blocks[b] = Append(@, n)] = [t EXCEPT !.blocks = bs]
  OBVIOUS
<1>8. \A t : (t.code = code /\ t.users = f.users) => Attach(t, n) = [t EXCEPT !.users = us]
  BY <1>2 DEF Attach, Operands
<1> HIDE DEF n, code, s, bs, us
<1>9. g = [args |-> f.args, code |-> code, blocks |-> bs, users |-> us]
  <2>1. IsRecord(f)
    BY CoreRecord
  <2>2. PICK t : t = [f EXCEPT !.code = code]
    OBVIOUS
  <2>3. IsRecord(t) /\ t.args = f.args /\ t.code = code /\ t.blocks = f.blocks /\ t.users = f.users
    BY <2>1, <2>2, CodeField DEF IsRecord
  <2>4. PICK r : r = [t EXCEPT !.blocks = bs]
    OBVIOUS
  <2>5. IsRecord(r) /\ r.args = f.args /\ r.code = code /\ r.blocks = bs /\ r.users = f.users
    BY <2>3, <2>4, BlocksField DEF IsRecord
  <2>6. [r EXCEPT !.users = us] = [args |-> f.args, code |-> code, blocks |-> bs, users |-> us]
    BY <2>5, UsersField
  <2>7. g = Attach([t EXCEPT !.blocks[b] = Append(@, n)], n)
    BY <2>2 DEF AppendInst, n, code
  <2>8. g = Attach(r, n)
    BY <2>3, <2>4, <2>7, <1>7
  <2> QED BY <2>5, <2>6, <2>8, <1>8
<1> HIDE DEF g
<1>10. Grown(f, g, code, b, s)
  BY <1>4, <1>6, <1>9 DEF Grown, bs
<1>11. \A i \in DOMAIN code : IsInst(funcs, code[i])
  <2>1. \A i \in 1..n : i \in DOMAIN f.code \/ i = n
    BY <1>1 DEF n
  <2> QED BY <2>1, <1>1, <1>2
<1>12. ToSet(s) = ToSet(f.blocks[b]) \cup (DOMAIN code \ DOMAIN f.code)
  BY <1>4, <1>5
<1>13. Core(funcs, g) /\ KeptBut(f, g, b) /\ g.blocks[b] = s
  <2>1. Growth(funcs, f, code, b, s)
    BY <1>2, <1>4, <1>5, <1>11, <1>12 DEF Growth
  <2> QED BY <1>10, <2>1, GrowKeeps
<1>14. inst.op \in {"ret", "exit", "br"} => Terminated(g, b)
  BY <1>2, <1>5, <1>9, <1>13 DEF Terminated, IsTerminator
<1> QED BY <1>13, <1>14 DEF g

\* What an instruction is stays, whatever its operands become.
LEMMA RewrittenLemma ==
  ASSUME NEW funcs, NEW inst, IsInst(funcs, inst), NEW map, NEW args
  PROVE  IsInst(funcs, Rewritten(inst, map, args)) /\ Rewritten(inst, map, args).op = inst.op
<1> DEFINE o == inst.op
           n == inst.n
           a == inst.args
           x == [k \in DOMAIN inst.args |-> Mapped(inst.args[k], map, args)]
<1>1. inst = [op |-> o, args |-> a, n |-> n] /\ IsSeq(a) /\ (o \in {"call", "do"} => n \in funcs)
  BY DEF IsInst
<1>2. IsSeq(x)
  <2>1. Len(inst.args) \in Nat /\ DOMAIN inst.args = 1..Len(inst.args)
    BY <1>1, SeqFacts
  <2>2. x = [k \in 1..Len(inst.args) |-> x[k]]
    BY <2>1
  <2> QED BY <2>1, <2>2, FunctionSeq
<1>3. Rewritten(inst, map, args) = [inst EXCEPT !.args = x]
  BY DEF Rewritten
<1> HIDE DEF o, n, a, x
<1>4. [inst EXCEPT !.args = x] = [op |-> o, args |-> x, n |-> n]
  BY <1>1
<1> QED BY <1>1, <1>2, <1>3, <1>4 DEF IsInst, o

\* The body of the callee is put in.
LEMMA SpliceKeeps ==
  ASSUME NEW funcs, NEW f, Core(funcs, f), NEW b \in DOMAIN f.blocks, NEW at \in 1..(Len(f.blocks[b]) + 1),
         NEW callee, \A i \in DOMAIN callee.code : IsInst(funcs, callee.code[i]),
         NEW body \in Seq(DOMAIN callee.code), NEW map, NEW args, NEW g, g = SpliceBody(f, b, at, callee, body, map, args)
  PROVE  /\ Core(funcs, g) /\ KeptBut(f, g, b)
         /\ \A i \in Inserted(f) : i \in Inserted(g) /\ g.code[i] = f.code[i]
         /\ (at <= Len(f.blocks[b]) /\ Terminated(f, b)) => Terminated(g, b)
<1> DEFINE made == [k \in DOMAIN body |-> Rewritten(callee.code[body[k]], map, args)]
           new == [k \in DOMAIN body |-> Len(f.code) + k]
           code == f.code \o made
           s == Spliced(f.blocks[b], at, new, at)
           bs == [f.blocks EXCEPT ![b] = s]
           more == UNION {{<<v, new[k]>> : v \in ToSet(made[k].args)} : k \in DOMAIN body}
           us == f.users \cup more
<1>1. /\ IsSeq(f.code) /\ Len(f.code) \in Nat /\ DOMAIN f.code = 1..Len(f.code)
      /\ \A i \in DOMAIN f.code : IsInst(funcs, f.code[i])
  BY SeqFacts DEF Core
<1>2. Len(body) \in Nat /\ DOMAIN body = 1..Len(body) /\ \A k \in DOMAIN body : body[k] \in DOMAIN callee.code
  BY LenProperties
<1>3. /\ IsSeq(made) /\ Len(made) = Len(body) /\ DOMAIN made = 1..Len(body)
      /\ \A k \in DOMAIN made : IsInst(funcs, made[k])
  <2>1. made = [k \in 1..Len(body) |-> made[k]]
    BY <1>2
  <2>2. \A k \in DOMAIN body : IsInst(funcs, made[k])
    BY <1>2, RewrittenLemma
  <2> QED BY <1>2, <2>1, <2>2, FunctionSeq
<1>4. /\ new \in Seq(Nat) /\ Len(new) = Len(body) /\ DOMAIN new = 1..Len(body)
      /\ \A k \in 1..Len(body) : new[k] = Len(f.code) + k
  <2>1. new = [k \in 1..Len(body) |-> new[k]]
    BY <1>2
  <2>2. new \in [1..Len(body) -> Nat]
    BY <1>1, <1>2
  <2>3. new \in Seq(Nat)
    BY <1>2, <2>2
  <2> QED BY <1>2, <2>1, <2>3, FunctionSeq
<1>5. g = [f EXCEPT !.code = code, !.blocks[b] = SubSeq(@, 1, at - 1) \o new \o SubSeq(@, at, Len(@)), !.users = @ \cup more]
  BY DEF SpliceBody
<1>6. \A t : t.blocks = f.blocks =>
        [t EXCEPT !.blocks[b] = SubSeq(@, 1, at - 1) \o new \o SubSeq(@, at, Len(@))] = [t EXCEPT !.blocks = bs]
  BY DEF Spliced
<1>7. \A k \in 1..Len(body) : code[Len(f.code) + k] = made[k]
  <2> HIDE DEF made, new
  <2>1. PICK S : f.code \in Seq(S) /\ made \in Seq(S)
    <3> DEFINE S == ToSet(f.code) \cup ToSet(made)
    <3>1. f.code \in [1..Len(f.code) -> ToSet(f.code)] /\ made \in [1..Len(made) -> ToSet(made)]
      BY <1>1, <1>3, LenProperties DEF IsSeq
    <3>2. f.code \in Seq(S) /\ made \in Seq(S)
      BY <3>1, <1>1, <1>2, <1>3, SMTT(40)
    <3> QED BY <3>2
  <2>2. /\ code \in Seq(S) /\ Len(code) = Len(f.code) + Len(made)
        /\ \A i \in 1..(Len(f.code) + Len(made)) : code[i] = IF i <= Len(f.code) THEN f.code[i] ELSE made[i - Len(f.code)]
    BY <2>1, ConcatProperties
  <2> QED BY <2>2, <1>1, <1>2, <1>3
<1>8. /\ IsSeq(code) /\ DOMAIN code = 1..(Len(f.code) + Len(body)) /\ \A i \in DOMAIN f.code : code[i] = f.code[i]
  <2> HIDE DEF made, new
  <2>1. PICK S : f.code \in Seq(S) /\ made \in Seq(S)
    <3> DEFINE S == ToSet(f.code) \cup ToSet(made)
    <3>1. f.code \in [1..Len(f.code) -> ToSet(f.code)] /\ made \in [1..Len(made) -> ToSet(made)]
      BY <1>1, <1>3, LenProperties DEF IsSeq
    <3>2. f.code \in Seq(S) /\ made \in Seq(S)
      BY <3>1, <1>1, <1>2, <1>3, SMTT(40)
    <3> QED BY <3>2
  <2>2. /\ code \in Seq(S) /\ Len(code) = Len(f.code) + Len(made)
        /\ \A i \in 1..(Len(f.code) + Len(made)) : code[i] = IF i <= Len(f.code) THEN f.code[i] ELSE made[i - Len(f.code)]
    BY <2>1, ConcatProperties
  <2>3. IsSeq(code) /\ DOMAIN code = 1..Len(code)
    BY <2>2, SeqIsSeq
  <2> QED BY <2>2, <2>3, <1>1, <1>2, <1>3
<1> HIDE DEF made, new, code
<1>9. /\ f.blocks[b] \in Seq(Nat) /\ Distinct(f.blocks[b]) /\ ToSet(f.blocks[b]) \subseteq DOMAIN f.code
  BY PlacedFacts DEF Core
<1>10. DOMAIN f.code \subseteq DOMAIN code /\ DOMAIN code \ DOMAIN f.code = {Len(f.code) + k : k \in 1..Len(body)}
  <2>1. \A i \in DOMAIN code : i \notin DOMAIN f.code => i - Len(f.code) \in 1..Len(body) /\ i = Len(f.code) + (i - Len(f.code))
    BY <1>1, <1>2, <1>8
  <2>2. \A k \in 1..Len(body) : Len(f.code) + k \in DOMAIN code /\ Len(f.code) + k \notin DOMAIN f.code
    BY <1>1, <1>2, <1>8
  <2>3. DOMAIN f.code \subseteq DOMAIN code
    BY <1>1, <1>2, <1>8
  <2> QED BY <2>1, <2>2, <2>3
<1>11. Distinct(new) /\ ToSet(new) = DOMAIN code \ DOMAIN f.code
  <2>1. ToSet(new) = {new[k] : k \in 1..Len(new)}
    BY <1>4, ToSetLemma
  <2>2. Distinct(new)
    BY <1>1, <1>4 DEF Distinct
  <2> QED BY <1>4, <1>10, <2>1, <2>2
<1>12. /\ s \in Seq(Nat) /\ Distinct(s) /\ ToSet(s) = ToSet(f.blocks[b]) \cup (DOMAIN code \ DOMAIN f.code)
       /\ at <= Len(f.blocks[b]) => s # <<>> /\ Last(s) = Last(f.blocks[b])
  <2>1. at \in at..(Len(f.blocks[b]) + 1)
    BY <1>9, LenProperties
  <2>2. ToSet(f.blocks[b]) \cap ToSet(new) = {}
    BY <1>9, <1>11
  <2>3. DistinctAt(s, Nat, f.blocks[b], at, new, at)
    BY <1>4, <1>9, <1>11, <2>1, <2>2, SplicedDistinct
  <2>4. ToSet(f.blocks[b]) = {f.blocks[b][i] : i \in 1..(at - 1)} \cup {f.blocks[b][i] : i \in at..Len(f.blocks[b])}
    <3>1. Len(f.blocks[b]) \in Nat /\ ToSet(f.blocks[b]) = {f.blocks[b][i] : i \in 1..Len(f.blocks[b])}
      BY <1>9, LenProperties, ToSetLemma
    <3>2. \A i \in 1..Len(f.blocks[b]) : i \in 1..(at - 1) \/ i \in at..Len(f.blocks[b])
      BY <3>1
    <3>3. \A i \in 1..(at - 1) : i \in 1..Len(f.blocks[b])
      BY <3>1
    <3>4. \A i \in at..Len(f.blocks[b]) : i \in 1..Len(f.blocks[b])
      BY <3>1
    <3> QED BY <3>1, <3>2, <3>3, <3>4
  <2> QED BY <2>3, <2>4, <1>11 DEF DistinctAt
<1> HIDE DEF s, bs
<1>13. us = f.users \cup Uses(code, DOMAIN code \ DOMAIN f.code)
  <2>1. more = Uses(code, DOMAIN code \ DOMAIN f.code)
    <3>1. \A k \in 1..Len(body) : new[k] = Len(f.code) + k /\ code[new[k]] = made[k]
      BY <1>4, <1>7
    <3>2. DOMAIN code \ DOMAIN f.code = {new[k] : k \in 1..Len(body)}
      BY <1>4, <1>10
    <3>3. more = UNION {{<<v, new[k]>> : v \in ToSet(code[new[k]].args)} : k \in 1..Len(body)}
      BY <3>1, <1>2, SMTT(40)
    <3>4. Uses(code, {new[k] : k \in 1..Len(body)}) = UNION {{<<v, new[k]>> : v \in ToSet(code[new[k]].args)} : k \in 1..Len(body)}
      BY DEF Uses
    <3> QED BY <3>2, <3>3, <3>4
  <2> QED BY <2>1
<1> HIDE DEF more, us
<1>14. g = [args |-> f.args, code |-> code, blocks |-> bs, users |-> us]
  <2>1. IsRecord(f)
    BY CoreRecord
  <2>2. PICK t : t = [f EXCEPT !.code = code]
    OBVIOUS
  <2>3. IsRecord(t) /\ t.args = f.args /\ t.code = code /\ t.blocks = f.blocks /\ t.users = f.users
    BY <2>1, <2>2, CodeField DEF IsRecord
  <2>4. PICK r : r = [t EXCEPT !.blocks = bs]
    OBVIOUS
  <2>5. IsRecord(r) /\ r.args = f.args /\ r.code = code /\ r.blocks = bs /\ r.users = f.users
    BY <2>3, <2>4, BlocksField DEF IsRecord
  <2>6. [r EXCEPT !.users = us] = [args |-> f.args, code |-> code, blocks |-> bs, users |-> us]
    BY <2>5, UsersField
  <2>7. g = [[t EXCEPT !.blocks[b] = SubSeq(@, 1, at - 1) \o new \o SubSeq(@, at, Len(@))] EXCEPT !.users = @ \cup more]
    BY <2>2, <1>5
  <2>8. g = [r EXCEPT !.users = @ \cup more]
    BY <2>3, <2>4, <2>7, <1>6
  <2> QED BY <2>5, <2>6, <2>8 DEF us
<1>15. Grown(f, g, code, b, s)
  BY <1>13, <1>14 DEF Grown, bs
<1>16. \A i \in DOMAIN code : IsInst(funcs, code[i])
  <2>1. ASSUME NEW i \in DOMAIN code, i \notin DOMAIN f.code PROVE IsInst(funcs, code[i])
    <3>1. PICK k \in 1..Len(body) : i = Len(f.code) + k
      BY <2>1, <1>10
    <3> QED BY <3>1, <1>3, <1>7
  <2> QED BY <2>1, <1>1, <1>8
<1>17. /\ Core(funcs, g) /\ KeptBut(f, g, b) /\ g.blocks[b] = s
       /\ \A i \in Inserted(f) : i \in Inserted(g) /\ g.code[i] = f.code[i]
  <2>1. Growth(funcs, f, code, b, s)
    BY <1>8, <1>10, <1>12, <1>16 DEF Growth
  <2> QED BY <1>15, <2>1, GrowKeeps
<1>18. ASSUME at <= Len(f.blocks[b]), Terminated(f, b) PROVE Terminated(g, b)
  <2>1. g.blocks[b] # <<>> /\ Last(g.blocks[b]) = Last(f.blocks[b]) /\ Kept(f, g)
    BY <1>12, <1>17, <1>18 DEF KeptBut
  <2> QED BY <2>1, <1>18, TerminatedKept
<1> QED BY <1>17, <1>18

\* The rest of a block is cut off.
LEMMA TruncateKeeps ==
  ASSUME NEW funcs, NEW f, Core(funcs, f), NEW i \in Inserted(f)
  PROVE  /\ Core(funcs, TruncateFrom(f, i)) /\ KeptBut(f, TruncateFrom(f, i), BlockOf(f, i))
         /\ TruncateFrom(f, i).blocks[BlockOf(f, i)] \in Seq(Nat)
         /\ Len(TruncateFrom(f, i).blocks[BlockOf(f, i)]) = PlaceOf(f, i) - 1
<1> DEFINE b == BlockOf(f, i)
           p == PlaceOf(f, i)
           s == SubSeq(f.blocks[b], 1, p - 1)
           rest == ToSet(SubSeq(f.blocks[b], p, Len(f.blocks[b])))
           bs == [f.blocks EXCEPT ![b] = s]
           us == Without(f.users, f.code, rest)
           g == TruncateFrom(f, i)
<1>1. b \in DOMAIN f.blocks /\ p \in 1..Len(f.blocks[b])
  BY WhereInserted
<1>2. /\ Placed(f.blocks) /\ f.blocks[b] \in Seq(Nat) /\ Distinct(f.blocks[b])
      /\ ToSet(f.blocks[b]) \subseteq AllOf(f.blocks) /\ f.users = Uses(f.code, AllOf(f.blocks))
  BY <1>1, PlacedFacts DEF Core
<1>3. /\ s \in Seq(Nat) /\ Distinct(s) /\ Len(s) = p - 1 /\ ToSet(s) = ToSet(f.blocks[b]) \ rest
      /\ rest \subseteq ToSet(f.blocks[b])
  BY <1>1, <1>2, CutOff
<1>4. g = [[f EXCEPT !.blocks = bs] EXCEPT !.users = us]
  <2>1. [f EXCEPT !.blocks[b] = SubSeq(@, 1, p - 1)] = [f EXCEPT !.blocks = bs]
    OBVIOUS
  <2>2. {u \in f.users : u[2] \notin rest \/ u[1] \notin Operands(f, u[2])} = us
    BY DEF Operands, Without
  <2> HIDE DEF us, bs, rest
  <2>3. g = [[f EXCEPT !.blocks[b] = SubSeq(@, 1, p - 1)] EXCEPT
               !.users = {u \in f.users : u[2] \notin rest \/ u[1] \notin Operands(f, u[2])}]
    BY DEF TruncateFrom, rest
  <2> QED BY <2>1, <2>2, <2>3
<1> HIDE DEF b, p, s, g, rest
<1>5. /\ Placed(bs) /\ DOMAIN bs = DOMAIN f.blocks
      /\ AllOf(bs) = (AllOf(f.blocks) \ ToSet(f.blocks[b])) \cup ToSet(s)
      /\ bs[b] = s /\ \A c \in DOMAIN f.blocks : c # b => bs[c] = f.blocks[c]
  <2>1. \A x \in ToSet(s) : x \in ToSet(f.blocks[b]) \/ x \notin AllOf(f.blocks)
    BY <1>3
  <2> QED BY <1>1, <1>2, <1>3, <2>1, BlockChange
<1> HIDE DEF bs
<1>6. AllOf(bs) = AllOf(f.blocks) \ rest
  BY <1>2, <1>3, <1>5
<1>7. us = Uses(f.code, AllOf(bs))
  BY <1>2, <1>6, UsesLess
<1> HIDE DEF us
<1>8. g = [args |-> f.args, code |-> f.code, blocks |-> bs, users |-> us]
  <2>1. IsRecord(f)
    BY CoreRecord
  <2>2. PICK r : r = [f EXCEPT !.blocks = bs]
    OBVIOUS
  <2>3. IsRecord(r) /\ r.args = f.args /\ r.code = f.code /\ r.blocks = bs
    BY <2>1, <2>2, BlocksField DEF IsRecord
  <2>4. [r EXCEPT !.users = us] = [args |-> f.args, code |-> f.code, blocks |-> bs, users |-> us]
    BY <2>3, UsersField
  <2> QED BY <2>2, <2>4, <1>4
<1>9. Core(funcs, g)
  BY <1>5, <1>6, <1>7, <1>8 DEF Core
<1>10. KeptBut(f, g, b)
  BY <1>5, <1>8 DEF KeptBut, Kept
<1>11. g.blocks[b] = s
  BY <1>5, <1>8
<1>12. g.blocks[b] \in Seq(Nat) /\ Len(g.blocks[b]) = p - 1
  BY <1>3, <1>11
<1> QED BY <1>9, <1>10, <1>12 DEF b, p, g

\* A value is replaced by its alias.
LEMMA AliasKeeps ==
  ASSUME NEW funcs, NEW f, Core(funcs, f), NEW v, NEW alias
  PROVE  /\ Core(funcs, ChangeToAlias(f, v, alias)) /\ Kept(f, ChangeToAlias(f, v, alias))
         /\ ChangeToAlias(f, v, alias).blocks = f.blocks
<1> DEFINE swap(args) == [k \in DOMAIN args |-> IF args[k] = v THEN alias ELSE args[k]]
           code == [i \in DOMAIN f.code |-> IF <<v, i>> \in f.users
                                            THEN [f.code[i] EXCEPT !.args = swap(f.code[i].args)] ELSE f.code[i]]
           us == {IF u[1] = v THEN <<alias, u[2]>> ELSE u : u \in f.users}
           g == ChangeToAlias(f, v, alias)
           ins == AllOf(f.blocks)
<1>1. /\ IsSeq(f.code) /\ \A i \in DOMAIN f.code : IsInst(funcs, f.code[i])
      /\ ins \subseteq DOMAIN f.code /\ f.users = Uses(f.code, ins)
  BY DEF Core
<1>2. ASSUME NEW i \in DOMAIN f.code
      PROVE  /\ IsInst(funcs, code[i]) /\ code[i].op = f.code[i].op
             /\ code[i].args = IF <<v, i>> \in f.users THEN swap(f.code[i].args) ELSE f.code[i].args
  <2> DEFINE inst == f.code[i]
             o == inst.op
             n == inst.n
             a == inst.args
             x == swap(a)
  <2>1. inst = [op |-> o, args |-> a, n |-> n] /\ IsSeq(a) /\ (o \in {"call", "do"} => n \in funcs)
    BY <1>1 DEF IsInst
  <2>2. IsSeq(x)
    <3>1. Len(a) \in Nat /\ DOMAIN a = 1..Len(a)
      BY <2>1, SeqFacts
    <3>2. x = [k \in 1..Len(a) |-> x[k]]
      BY <3>1
    <3> QED BY <3>1, <3>2, FunctionSeq
  <2>3. code[i] = IF <<v, i>> \in f.users THEN [inst EXCEPT !.args = x] ELSE inst
    OBVIOUS
  <2> HIDE DEF inst, o, n, a, x, code
  <2>4. [inst EXCEPT !.args = x] = [op |-> o, args |-> x, n |-> n]
    BY <2>1
  <2>5. IsInst(funcs, code[i]) /\ code[i].op = o /\ code[i].args = IF <<v, i>> \in f.users THEN x ELSE a
    BY <2>1, <2>2, <2>3, <2>4 DEF IsInst
  <2> QED BY <2>5 DEF x, a, o, inst
<1>3. DOMAIN code = DOMAIN f.code /\ IsSeq(code)
  <2>1. Len(f.code) \in Nat /\ DOMAIN f.code = 1..Len(f.code)
    BY <1>1, SeqFacts
  <2>2. code = [k \in 1..Len(f.code) |-> code[k]]
    BY <2>1
  <2> QED BY <2>1, <2>2, FunctionSeq
<1>4. g = [[f EXCEPT !.code = code] EXCEPT !.users = us]
  BY DEF ChangeToAlias
<1> HIDE DEF code, g
<1>5. ASSUME NEW u \in Uses(code, ins) PROVE u \in us
  <2>1. PICK i \in ins : \E w \in ToSet(code[i].args) : u = <<w, i>>
    BY DEF Uses
  <2>2. PICK w \in ToSet(code[i].args) : u = <<w, i>>
    BY <2>1
  <2>3. CASE <<v, i>> \in f.users
    <3>1. PICK k \in DOMAIN f.code[i].args : w = IF f.code[i].args[k] = v THEN alias ELSE f.code[i].args[k]
      BY <2>2, <2>3, <1>1, <1>2 DEF ToSet
    <3>2. CASE f.code[i].args[k] = v
      <4>1. PICK u0 \in f.users : u0 = <<v, i>>
        BY <2>3
      <4>2. u0[1] = v /\ u = <<alias, u0[2]>>
        BY <4>1, <2>2, <3>1, <3>2
      <4> QED BY <4>2
    <3>3. CASE f.code[i].args[k] # v
      <4>1. <<w, i>> \in f.users
        BY <3>1, <3>3, <1>1 DEF Uses, ToSet
      <4> QED BY <2>2, <3>1, <3>3, <4>1
    <3> QED BY <3>2, <3>3
  <2>4. CASE <<v, i>> \notin f.users
    <3>1. w \in ToSet(f.code[i].args)
      BY <2>2, <2>4, <1>1, <1>2
    <3>2. <<w, i>> \in f.users
      BY <3>1, <1>1 DEF Uses
    <3>3. w # v
      BY <2>4, <3>2
    <3> QED BY <2>2, <3>2, <3>3
  <2> QED BY <2>3, <2>4
<1>6. ASSUME NEW u \in us PROVE u \in Uses(code, ins)
  <2>1. PICK u0 \in f.users : u = IF u0[1] = v THEN <<alias, u0[2]>> ELSE u0
    OBVIOUS
  <2>2. PICK i \in ins : \E w \in ToSet(f.code[i].args) : u0 = <<w, i>>
    BY <1>1 DEF Uses
  <2>3. PICK k \in DOMAIN f.code[i].args : u0 = <<f.code[i].args[k], i>>
    BY <2>2 DEF ToSet
  <2>4. i \in DOMAIN f.code
    BY <1>1
  <2>5. CASE <<v, i>> \in f.users
    <3>1. code[i].args = swap(f.code[i].args)
      BY <2>4, <2>5, <1>2
    <3>2. (IF f.code[i].args[k] = v THEN alias ELSE f.code[i].args[k]) \in ToSet(code[i].args)
      BY <3>1 DEF ToSet
    <3>3. u = <<IF f.code[i].args[k] = v THEN alias ELSE f.code[i].args[k], i>>
      BY <2>1, <2>3
    <3> QED BY <3>2, <3>3 DEF Uses
  <2>6. CASE <<v, i>> \notin f.users
    <3>1. code[i].args = f.code[i].args
      BY <2>4, <2>6, <1>2
    <3>2. u = <<f.code[i].args[k], i>>
      BY <2>1, <2>3, <2>6
    <3>3. f.code[i].args[k] \in ToSet(code[i].args)
      BY <3>1 DEF ToSet
    <3> QED BY <3>2, <3>3 DEF Uses
  <2> QED BY <2>5, <2>6
<1>7. us = Uses(code, ins)
  BY <1>5, <1>6
<1> HIDE DEF us
<1>8. g = [args |-> f.args, code |-> code, blocks |-> f.blocks, users |-> us]
  <2>1. IsRecord(f)
    BY CoreRecord
  <2>2. PICK r : r = [f EXCEPT !.code = code]
    OBVIOUS
  <2>3. IsRecord(r) /\ r.args = f.args /\ r.code = code /\ r.blocks = f.blocks
    BY <2>1, <2>2, CodeField DEF IsRecord
  <2>4. [r EXCEPT !.users = us] = [args |-> f.args, code |-> code, blocks |-> f.blocks, users |-> us]
    BY <2>3, UsersField
  <2> QED BY <2>2, <2>4, <1>4
<1>9. Core(funcs, g)
  BY <1>1, <1>2, <1>3, <1>7, <1>8 DEF Core
<1>10. Kept(f, g) /\ g.blocks = f.blocks
  BY <1>2, <1>3, <1>8 DEF Kept
<1> QED BY <1>9, <1>10 DEF g

-----------------------------------------------------------------------------
(***************************************************************************)
(* The plans.                                                              *)
(***************************************************************************)
\* What an edit of a function leaves.
Edited(funcs, f, g) == IsFunction(funcs, g) /\ Kept(f, g)

\* A call that is dropped leaves a function.
LEMMA DropSound ==
  ASSUME NEW funcs, NEW f, IsFunction(funcs, f), NEW call \in Inserted(f), IsCall(f, call), NEW alias
  PROVE  Edited(funcs, f, DropCall(f, call, alias))
<1> DEFINE g == IF HasResult(f, call) THEN ChangeToAlias(f, Result(call), alias) ELSE f
<1>1. Core(funcs, f) /\ AllTerminated(f) /\ call \in DOMAIN f.code
  BY FunctionCore, WhereInserted
<1>2. Core(funcs, g) /\ Kept(f, g) /\ g.blocks = f.blocks
  <2>1. Kept(f, f)
    BY DEF Kept
  <2> QED BY <1>1, <2>1, AliasKeeps
<1> HIDE DEF g
<1>3. call \in Inserted(g) /\ ~IsTerminator(g, call)
  BY <1>1, <1>2, InsertedAll DEF Kept, IsTerminator, IsCall
<1>4. AllTerminated(g)
  <2> SUFFICES ASSUME NEW b \in DOMAIN f.blocks PROVE Terminated(g, b)
    BY <1>2 DEF AllTerminated
  <2>1. Terminated(f, b)
    BY <1>1 DEF AllTerminated
  <2>2. g.blocks[b] # <<>> /\ Last(g.blocks[b]) = Last(f.blocks[b])
    BY <2>1, <1>2 DEF Terminated
  <2> QED BY <1>1, <1>2, <2>1, <2>2, TerminatedKept
<1> DEFINE h == RemoveInst(g, call)
<1>5. Core(funcs, h) /\ Kept(g, h) /\ AllTerminated(h)
  BY <1>2, <1>3, <1>4, RemoveKeeps
<1> HIDE DEF h
<1>6. IsFunction(funcs, h) /\ Kept(f, h)
  BY <1>2, <1>5, FunctionCore, KeptMore
<1>7. DropCall(f, call, alias) = h
  BY DEF DropCall, g, h
<1> QED BY <1>6, <1>7 DEF Edited

\* What a plan says of the function it was made of.
PlanSound(funcs, callee, plan) ==
  /\ plan.kind \in {"remove", "rewrite", "splice", "exit"}
  /\ plan.kind = "rewrite" => plan.callee \in funcs /\ IsSeq(plan.args)
  /\ plan.kind \in {"splice", "exit"} => plan.body \in Seq(DOMAIN callee.code)
  /\ plan.kind = "exit" => plan.term \in DOMAIN callee.code /\ IsTerminator(callee, plan.term)

\* So does a call that is removed,
LEMMA RemoveSound ==
  ASSUME NEW funcs, NEW f, IsFunction(funcs, f), NEW call \in Inserted(f), IsCall(f, call), NEW plan,
         NEW g \in ApplyRemove(f, call, plan)
  PROVE  Edited(funcs, f, g)
<1>1. \E alias : g = DropCall(f, call, alias)
  BY DEF ApplyRemove
<1> QED BY <1>1, DropSound

\* one that is sent to another function,
LEMMA RewriteSound ==
  ASSUME NEW funcs, NEW f, IsFunction(funcs, f), NEW call \in Inserted(f), IsCall(f, call),
         NEW plan, plan.callee \in funcs, IsSeq(plan.args), NEW g \in ApplyRewrite(f, call, plan)
  PROVE  Edited(funcs, f, g)
<1> DEFINE old == f.code[call]
           o == old.op
           a == old.args
           n == old.n
           x == [k \in DOMAIN plan.args |-> Materialize(plan.args[k], old.args)]
           t == [old EXCEPT !.n = plan.callee]
           new == [t EXCEPT !.args = x]
<1>1. Core(funcs, f) /\ AllTerminated(f) /\ IsInst(funcs, old)
  BY FunctionCore, WhereInserted
<1>2. old = [op |-> o, args |-> a, n |-> n]
  BY <1>1 DEF IsInst
<1>3. IsSeq(x)
  <2>1. Len(plan.args) \in Nat /\ DOMAIN plan.args = 1..Len(plan.args)
    BY SeqFacts
  <2>2. x = [k \in 1..Len(plan.args) |-> x[k]]
    BY <2>1
  <2> QED BY <2>1, <2>2, FunctionSeq
<1>4. g = ReplaceInst(f, call, new)
  BY DEF ApplyRewrite
<1> HIDE DEF old, o, a, n, x, new, t
<1>5. t = [op |-> o, args |-> a, n |-> plan.callee]
  BY <1>2 DEF t
<1>6. new = [op |-> o, args |-> x, n |-> plan.callee]
  BY <1>5 DEF new
<1>7. IsInst(funcs, new) /\ new.op = f.code[call].op
  BY <1>3, <1>6 DEF IsInst, o, old
<1>8. Core(funcs, g) /\ Kept(f, g) /\ AllTerminated(g)
  BY <1>1, <1>4, <1>7, ReplaceKeeps
<1> QED BY <1>8, FunctionCore DEF Edited

\* one that is replaced by the body,
LEMMA SpliceSound ==
  ASSUME NEW funcs, NEW f, IsFunction(funcs, f), NEW call \in Inserted(f), IsCall(f, call),
         NEW callee, IsFunction(funcs, callee), NEW plan, plan.body \in Seq(DOMAIN callee.code),
         NEW g \in ApplySplice(f, call, callee, plan)
  PROVE  Edited(funcs, f, g)
<1> DEFINE b == BlockOf(f, call)
           at == PlaceOf(f, call)
           s == SpliceBody(f, b, at, callee, plan.body, ValueMap(f, plan.body), f.code[call].args)
<1>1. \E alias : g = DropCall(s, call, alias)
  BY DEF ApplySplice
<1>2. Core(funcs, f) /\ AllTerminated(f) /\ b \in DOMAIN f.blocks /\ at \in 1..Len(f.blocks[b])
  BY FunctionCore, WhereInserted
<1>3. at \in 1..(Len(f.blocks[b]) + 1) /\ at <= Len(f.blocks[b])
  <2>1. Len(f.blocks[b]) \in Nat
    BY <1>2, PlacedFacts, LenProperties DEF Core
  <2> QED BY <2>1, <1>2
<1>4. \A i \in DOMAIN callee.code : IsInst(funcs, callee.code[i])
  BY DEF IsFunction
<1>5. PICK map : map = ValueMap(f, plan.body)
  OBVIOUS
<1>6. s = SpliceBody(f, b, at, callee, plan.body, map, f.code[call].args)
  BY <1>5
<1>7. Terminated(f, b)
  BY <1>2 DEF AllTerminated
<1> HIDE DEF b, at, s
<1>8. /\ Core(funcs, s) /\ KeptBut(f, s, b) /\ Terminated(s, b)
      /\ \A i \in Inserted(f) : i \in Inserted(s) /\ s.code[i] = f.code[i]
  BY <1>2, <1>3, <1>4, <1>6, <1>7, SpliceKeeps
<1>9. AllTerminated(s)
  <2> SUFFICES ASSUME NEW c \in DOMAIN f.blocks PROVE Terminated(s, c)
    BY <1>8 DEF AllTerminated, KeptBut, Kept
  <2>1. CASE c = b
    BY <2>1, <1>8
  <2>2. CASE c # b
    <3>1. Terminated(f, c) /\ s.blocks[c] # <<>> /\ Last(s.blocks[c]) = Last(f.blocks[c]) /\ Kept(f, s)
      BY <2>2, <1>2, <1>8 DEF AllTerminated, KeptBut, Terminated
    <3> QED BY <1>2, <3>1, TerminatedKept
  <2> QED BY <2>1, <2>2
<1>10. call \in Inserted(s) /\ IsCall(s, call) /\ IsFunction(funcs, s) /\ Kept(f, s)
  BY <1>8, <1>9, FunctionCore DEF IsCall, KeptBut
<1>11. Edited(funcs, s, g)
  BY <1>1, <1>10, DropSound
<1> QED BY <1>10, <1>11, KeptMore DEF Edited

\* and one that is replaced by a body that does not return.
LEMMA ExitSound ==
  ASSUME NEW funcs, NEW f, IsFunction(funcs, f), NEW call \in Inserted(f), IsCall(f, call),
         NEW callee, IsFunction(funcs, callee), NEW plan, plan.body \in Seq(DOMAIN callee.code),
         plan.term \in DOMAIN callee.code, IsTerminator(callee, plan.term),
         NEW g \in ApplyExit(f, call, callee, plan)
  PROVE  Edited(funcs, f, g)
<1> DEFINE b == BlockOf(f, call)
           at == PlaceOf(f, call)
           t == TruncateFrom(f, call)
           s == SpliceBody(t, b, at, callee, plan.body, ValueMap(f, plan.body), f.code[call].args)
           last == Rewritten(callee.code[plan.term], ValueMap(f, plan.body), f.code[call].args)
<1>1. g = AppendInst(s, b, last)
  BY DEF ApplyExit
<1>2. Core(funcs, f) /\ AllTerminated(f) /\ b \in DOMAIN f.blocks /\ at \in 1..Len(f.blocks[b])
  BY FunctionCore, WhereInserted
<1>3. /\ Core(funcs, t) /\ KeptBut(f, t, b) /\ t.blocks[b] \in Seq(Nat) /\ Len(t.blocks[b]) = at - 1
  BY <1>2, TruncateKeeps
<1>4. at \in 1..(Len(t.blocks[b]) + 1) /\ b \in DOMAIN t.blocks
  <2>1. Len(f.blocks[b]) \in Nat
    BY <1>2, PlacedFacts, LenProperties DEF Core
  <2> QED BY <2>1, <1>2, <1>3 DEF KeptBut, Kept
<1>5. \A i \in DOMAIN callee.code : IsInst(funcs, callee.code[i])
  BY DEF IsFunction
<1>6. IsInst(funcs, last) /\ last.op \in {"ret", "exit", "br"}
  BY <1>5, RewrittenLemma DEF IsTerminator
<1>7. PICK map : map = ValueMap(f, plan.body)
  OBVIOUS
<1>8. s = SpliceBody(t, b, at, callee, plan.body, map, f.code[call].args)
  BY <1>7
<1> HIDE DEF b, at, t, s, last
<1>9. Core(funcs, s) /\ KeptBut(t, s, b)
  BY <1>3, <1>4, <1>5, <1>8, SpliceKeeps
<1>10. b \in DOMAIN s.blocks
  BY <1>4, <1>9 DEF KeptBut, Kept
<1>11. Core(funcs, g) /\ KeptBut(s, g, b) /\ Terminated(g, b)
  BY <1>1, <1>6, <1>9, <1>10, AppendKeeps
<1>12. KeptBut(f, g, b)
  <2>1. Kept(f, g)
    BY <1>3, <1>9, <1>11, KeptMore DEF KeptBut
  <2>2. DOMAIN t.blocks = DOMAIN f.blocks /\ DOMAIN s.blocks = DOMAIN f.blocks
    BY <1>3, <1>9 DEF KeptBut, Kept
  <2> QED BY <2>1, <2>2, <1>3, <1>9, <1>11 DEF KeptBut
<1>13. AllTerminated(g)
  <2> SUFFICES ASSUME NEW c \in DOMAIN f.blocks PROVE Terminated(g, c)
    BY <1>12 DEF AllTerminated, KeptBut, Kept
  <2>1. CASE c = b
    BY <2>1, <1>11
  <2>2. CASE c # b
    <3>1. Terminated(f, c) /\ g.blocks[c] # <<>> /\ Last(g.blocks[c]) = Last(f.blocks[c]) /\ Kept(f, g)
      BY <2>2, <1>2, <1>12 DEF AllTerminated, KeptBut, Terminated
    <3> QED BY <1>2, <3>1, TerminatedKept
  <2> QED BY <2>1, <2>2
<1> QED BY <1>11, <1>12, <1>13, FunctionCore DEF Edited, KeptBut

\* Whatever is done with a call, the caller stays a function.
LEMMA PlanKeeps ==
  ASSUME NEW funcs, NEW f, IsFunction(funcs, f), NEW call, call \in DOMAIN f.code, IsCall(f, call),
         NEW callee, IsFunction(funcs, callee), NEW plan, PlanSound(funcs, callee, plan),
         NEW g \in ApplyPlan(f, call, callee, plan)
  PROVE  Edited(funcs, f, g)
<1>1. call \in Inserted(f)
  BY DEF ApplyPlan
<1>2. CASE plan.kind = "remove"
  <2>1. g \in ApplyRemove(f, call, plan)
    BY <1>1, <1>2 DEF ApplyPlan
  <2> QED BY <1>1, <2>1, RemoveSound
<1>3. CASE plan.kind = "rewrite"
  <2>1. g \in ApplyRewrite(f, call, plan) /\ plan.callee \in funcs /\ IsSeq(plan.args)
    BY <1>1, <1>3 DEF ApplyPlan, PlanSound
  <2> QED BY <1>1, <2>1, RewriteSound
<1>4. CASE plan.kind = "splice"
  <2>1. g \in ApplySplice(f, call, callee, plan) /\ plan.body \in Seq(DOMAIN callee.code)
    BY <1>1, <1>4 DEF ApplyPlan, PlanSound
  <2> QED BY <1>1, <2>1, SpliceSound
<1>5. CASE plan.kind = "exit"
  <2>1. /\ g \in ApplyExit(f, call, callee, plan) /\ plan.body \in Seq(DOMAIN callee.code)
        /\ plan.term \in DOMAIN callee.code /\ IsTerminator(callee, plan.term)
    BY <1>1, <1>5 DEF ApplyPlan, PlanSound
  <2> QED BY <1>1, <2>1, ExitSound
<1> QED BY <1>2, <1>3, <1>4, <1>5 DEF PlanSound

-----------------------------------------------------------------------------
(***************************************************************************)
(* What analyze_callee finds out.                                          *)
(***************************************************************************)
\* The only block of a function.
LEMMA OnlyBlock ==
  ASSUME NEW funcs, NEW f, IsFunction(funcs, f), Len(f.blocks) = 1, NEW insts, insts = f.blocks[1]
  PROVE  /\ Front(insts) \in Seq(DOMAIN f.code) /\ insts[1] \in DOMAIN f.code
         /\ Last(insts) \in DOMAIN f.code /\ IsTerminator(f, Last(insts))
<1>1. /\ f.blocks \in Seq(Seq(DOMAIN f.code)) /\ \A b \in DOMAIN f.blocks : Terminated(f, b)
  BY DEF IsFunction
<1>2. f.blocks \in [1..1 -> Seq(DOMAIN f.code)]
  BY <1>1, LenProperties
<1>3. 1 \in DOMAIN f.blocks /\ insts \in Seq(DOMAIN f.code)
  BY <1>2
<1>4. insts # <<>> /\ IsTerminator(f, Last(insts))
  BY <1>1, <1>3 DEF Terminated
<1>5. Front(insts) \in Seq(DOMAIN f.code)
  BY <1>3, <1>4, FrontLemma
<1>6. Len(insts) \in Nat \ {0} /\ insts[Len(insts)] \in DOMAIN f.code
  BY <1>3, <1>4, NotEmpty
<1>7. 1 \in 1..Len(insts)
  BY <1>6
<1>8. insts[1] \in DOMAIN f.code
  BY <1>3, <1>7, ElementOfSeq
<1> QED BY <1>4, <1>5, <1>6, <1>8 DEF Last

\* Its plans say what is true of it.
LEMMA PlansSound ==
  ASSUME NEW m, NEW g \in DOMAIN m, IsFunction(DOMAIN m, m[g]), NEW plan \in AnalyzeCallee(m, g)
  PROVE  PlanSound(DOMAIN m, m[g], plan)
<1> DEFINE f == m[g]
           insts == f.blocks[1]
           ret == f.code[Last(insts)].args
<1>1. Len(f.blocks) = 1
  BY DEF AnalyzeCallee
<1>2. /\ Front(insts) \in Seq(DOMAIN f.code) /\ insts[1] \in DOMAIN f.code
      /\ Last(insts) \in DOMAIN f.code /\ IsTerminator(f, Last(insts))
  BY <1>1, OnlyBlock
<1>3. IsInst(DOMAIN m, f.code[insts[1]])
  BY <1>2 DEF IsFunction
<1>4. \/ plan \in AnalyzeTerminatorSplice(f, counts[g], insts) \/ plan \in AnalyzeReturn(ret)
      \/ IsCall(f, insts[1]) /\ plan \in AnalyzeWrapper(m, g, insts[1], ret)
      \/ plan \in AnalyzeSplice(f, counts[g], insts)
  BY <1>1 DEF AnalyzeCallee
<1>5. CASE plan \in AnalyzeTerminatorSplice(f, counts[g], insts)
  <2>1. plan = [kind |-> "exit", body |-> Front(insts), term |-> Last(insts)]
    BY <1>5 DEF AnalyzeTerminatorSplice, CollectSpliceBody
  <2> QED BY <2>1, <1>2 DEF PlanSound
<1>6. CASE plan \in AnalyzeReturn(ret)
  <2>1. plan.kind = "remove"
    BY <1>6 DEF AnalyzeReturn
  <2> QED BY <2>1 DEF PlanSound
<1>7. CASE IsCall(f, insts[1]) /\ plan \in AnalyzeWrapper(m, g, insts[1], ret)
  <2>1. plan = [kind |-> "rewrite", callee |-> f.code[insts[1]].n, args |-> f.code[insts[1]].args]
    BY <1>7 DEF AnalyzeWrapper
  <2>2. f.code[insts[1]].n \in DOMAIN m /\ IsSeq(f.code[insts[1]].args)
    BY <1>3, <1>7 DEF IsInst, IsCall
  <2> QED BY <2>1, <2>2 DEF PlanSound
<1>8. CASE plan \in AnalyzeSplice(f, counts[g], insts)
  <2>1. plan.kind = "splice" /\ plan.body = Front(insts)
    BY <1>8 DEF AnalyzeSplice, CollectSpliceBody
  <2> QED BY <2>1, <1>2 DEF PlanSound
<1> QED BY <1>4, <1>5, <1>6, <1>7, <1>8

\* It depends on the function, on how often it is called, and on the signatures.
LEMMA AnalyzeSame ==
  ASSUME NEW m, NEW g \in DOMAIN m, IsFunction(DOMAIN m, m[g]), NEW n, DOMAIN n = DOMAIN m, n[g] = m[g],
         \A h \in DOMAIN m : n[h].args = m[h].args
  PROVE  AnalyzeCallee(n, g) = AnalyzeCallee(m, g)
<1> DEFINE f == m[g]
           insts == f.blocks[1]
           ret == f.code[Last(insts)].args
<1>1. ASSUME Len(f.blocks) = 1, IsCall(f, insts[1])
      PROVE  AnalyzeWrapper(n, g, insts[1], ret) = AnalyzeWrapper(m, g, insts[1], ret)
  <2>1. insts[1] \in DOMAIN f.code
    BY <1>1, OnlyBlock
  <2>2. f.code[insts[1]].n \in DOMAIN m
    BY <2>1, <1>1 DEF IsFunction, IsInst, IsCall
  <2> QED BY <2>2 DEF AnalyzeWrapper
<1> QED BY <1>1 DEF AnalyzeCallee

-----------------------------------------------------------------------------
(***************************************************************************)
(* The call sites.                                                         *)
(***************************************************************************)
CallSites(m) ==
  {s \in [caller : DOMAIN m, inst : Nat, callee : DOMAIN m] :
     s.inst \in DOMAIN m[s.caller].code /\ IsCall(m[s.caller], s.inst)}

\* What is collected of one function, and of all.
LEMMA CollectedOfOne ==
  ASSUME NEW m, IsModule(m), NEW g \in DOMAIN m
  PROVE  CollectCallSites(m, g) \in Seq(CallSites(m))
<1> DEFINE f == m[g]
           S == CallSites(m)
           insts == FlattenSeq(f.blocks)
           site(i) == [caller |-> g, inst |-> i, callee |-> f.code[i].n]
           made == [k \in DOMAIN insts |-> IF IsCall(f, insts[k]) THEN <<site(insts[k])>> ELSE <<>>]
<1>1. /\ IsSeq(f.code) /\ f.blocks \in Seq(Seq(DOMAIN f.code))
      /\ \A i \in DOMAIN f.code : IsInst(DOMAIN m, f.code[i])
  BY DEF IsModule, IsFunction
<1>2. insts \in Seq(DOMAIN f.code)
  BY <1>1, FlattenLemma
<1>3. \A i \in DOMAIN f.code : i \in Nat
  BY <1>1, SeqFacts
<1>4. ASSUME NEW i \in DOMAIN f.code, IsCall(f, i)
      PROVE  site(i) \in S
  <2>1. f.code[i].n \in DOMAIN m /\ i \in Nat
    BY <1>1, <1>3, <1>4 DEF IsInst, IsCall
  <2> QED BY <2>1, <1>4 DEF CallSites
<1> HIDE DEF S, insts, site
<1>5. Len(insts) \in Nat /\ DOMAIN insts = 1..Len(insts) /\ \A k \in 1..Len(insts) : insts[k] \in DOMAIN f.code
  BY <1>2, LenProperties, ElementOfSeq
<1>6. \A k \in 1..Len(insts) : made[k] \in Seq(S)
  BY <1>4, <1>5
<1>7. made \in Seq(Seq(S))
  BY <1>5, <1>6
<1> HIDE DEF made
<1>8. FlattenSeq(made) \in Seq(S)
  BY <1>7, FlattenLemma
<1> QED BY <1>8 DEF CollectCallSites, made, site, insts, S

\* What collect_call_sites gathers of all functions are calls.
LEMMA CollectedOfAll ==
  ASSUME NEW m, IsModule(m)
  PROVE  FlattenSeq([g \in DOMAIN m |-> CollectCallSites(m, g)]) \in Seq(CallSites(m))
<1> DEFINE s == [g \in DOMAIN m |-> CollectCallSites(m, g)]
<1>1. Len(m) \in Nat /\ DOMAIN m = 1..Len(m)
  BY SeqFacts DEF IsModule
<1>2. \A g \in DOMAIN m : CollectCallSites(m, g) \in Seq(CallSites(m))
  BY CollectedOfOne
<1>3. s \in Seq(Seq(CallSites(m)))
  BY <1>1, <1>2
<1> HIDE DEF s
<1>4. FlattenSeq(s) \in Seq(CallSites(m))
  BY <1>3, FlattenLemma
<1> QED BY <1>4 DEF s

\* A function is edited.
EditedAt(m, n, c) ==
  /\ IsModule(n) /\ DOMAIN n = DOMAIN m /\ \A g \in DOMAIN m : n[g].args = m[g].args
  /\ \A g \in DOMAIN m \ {c} : n[g] = m[g]
  /\ CallSites(m) \subseteq CallSites(n)

\* An edited function leaves a module, with the call sites it had.
LEMMA EditOne ==
  ASSUME NEW m, IsModule(m), NEW c \in DOMAIN m, NEW f, Edited(DOMAIN m, m[c], f)
  PROVE  EditedAt(m, [m EXCEPT ![c] = f], c)
<1> DEFINE n == [m EXCEPT ![c] = f]
<1>1. IsFunction(DOMAIN m, f) /\ Kept(m[c], f)
  BY DEF Edited
<1>2. DOMAIN n = DOMAIN m /\ n[c] = f /\ \A g \in DOMAIN m \ {c} : n[g] = m[g]
  OBVIOUS
<1>3. IsSeq(n)
  <2>1. Len(m) \in Nat /\ DOMAIN m = 1..Len(m)
    BY SeqFacts DEF IsModule
  <2>2. n = [k \in 1..Len(m) |-> n[k]]
    BY <2>1
  <2> QED BY <2>1, <2>2, FunctionSeq
<1> HIDE DEF n
<1>4. IsModule(n)
  BY <1>1, <1>2, <1>3 DEF IsModule
<1>5. \A g \in DOMAIN m : n[g].args = m[g].args
  BY <1>1, <1>2 DEF Kept
<1>6. ASSUME NEW s \in CallSites(m)
      PROVE  s \in CallSites(n)
  <2>1. /\ s \in [caller : DOMAIN n, inst : Nat, callee : DOMAIN n]
        /\ s.inst \in DOMAIN m[s.caller].code /\ IsCall(m[s.caller], s.inst)
    BY <1>2 DEF CallSites
  <2>2. s.inst \in DOMAIN n[s.caller].code /\ IsCall(n[s.caller], s.inst)
    <3>1. CASE s.caller = c
      BY <2>1, <3>1, <1>1, <1>2 DEF Kept, IsCall
    <3>2. CASE s.caller # c
      BY <2>1, <3>2, <1>2 DEF IsCall
    <3> QED BY <3>1, <3>2
  <2> QED BY <2>1, <2>2 DEF CallSites
<1>7. EditedAt(m, n, c)
  BY <1>2, <1>4, <1>5, <1>6 DEF EditedAt
<1> QED BY <1>7 DEF n

-----------------------------------------------------------------------------
(***************************************************************************)
(* The inductive invariant: the module is well formed, what is left of the *)
(* call sites are calls of it, and what is remembered is true.             *)
(***************************************************************************)
SitesAreCalls == pc = "inline" => sites \in Seq(CallSites(mod)) /\ DOMAIN cache \subseteq DOMAIN mod
InlineInv == IsModule(mod) /\ SitesAreCalls /\ CacheFresh

\* What was found out stays true where nothing that it depends on changed.
LEMMA FindingsStay ==
  ASSUME IsModule(mod), UNCHANGED <<config, counts>>, DOMAIN mod' = DOMAIN mod,
         \A h \in DOMAIN mod : mod'[h].args = mod[h].args,
         NEW g \in DOMAIN mod, mod'[g] = mod[g]
  PROVE  AnalyzeCallee(mod, g)' = AnalyzeCallee(mod, g)
<1>1. PICK m : m = mod
  OBVIOUS
<1>2. PICK n : n = mod'
  OBVIOUS
<1>3. AnalyzeCallee(n, g) = AnalyzeCallee(m, g)
  BY <1>1, <1>2, AnalyzeSame DEF IsModule
<1>4. AnalyzeCallee(mod, g)' = AnalyzeCallee(mod', g)
  BY DEF AnalyzeCallee, AnalyzeTerminatorSplice, AnalyzeSplice, AnalyzeReturn, AnalyzeWrapper, CollectSpliceBody
<1> QED BY <1>1, <1>2, <1>3, <1>4

\* A collection begins an iteration.
LEMMA CollectStep ==
  ASSUME InlineInv, CollectIteration
  PROVE  InlineInv'
<1>1. PICK m : m = mod
  OBVIOUS
<1>2. FlattenSeq([g \in DOMAIN m |-> CollectCallSites(m, g)]) \in Seq(CallSites(m))
  BY <1>1, CollectedOfAll DEF InlineInv
<1>3. mod' = m /\ sites' = FlattenSeq([g \in DOMAIN m |-> CollectCallSites(m, g)]) /\ cache' = <<>>
  BY <1>1 DEF CollectIteration
<1>4. CallSites(mod)' = CallSites(m)
  BY <1>3 DEF CallSites, IsCall
<1>5. DOMAIN cache' = {}
  BY <1>3
<1>6. SitesAreCalls'
  BY <1>2, <1>3, <1>4, <1>5 DEF SitesAreCalls
<1>7. CacheFresh'
  BY <1>5 DEF CacheFresh
<1>8. IsModule(mod)'
  BY <1>1, <1>3 DEF InlineInv, IsModule, IsFunction, IsInst, IsSeq, Once, Terminated, IsTerminator, UsersExact, Operands, Inserted
<1> QED BY <1>6, <1>7, <1>8 DEF InlineInv

\* What is done with one call site.
LEMMA InlineStep ==
  ASSUME InlineInv, InlineSite
  PROVE  InlineInv'
<1> DEFINE site == Head(sites)
           callee == site.callee
           caller == site.caller
           summary == IF callee \in DOMAIN cache THEN cache[callee] ELSE AnalyzeCallee(mod, callee)
           known == [g \in DOMAIN cache \cup {callee} |-> IF g = callee THEN summary ELSE cache[g]]
           edited == UNION {ApplyPlan(mod[caller], site.inst, mod[callee], plan) : plan \in summary}
<1>1. /\ pc = "inline" /\ sites # <<>> /\ sites' = Tail(sites) /\ pc' = pc
      /\ config' = config /\ counts' = counts
  BY DEF InlineSite
<1>2. IsModule(mod) /\ sites \in Seq(CallSites(mod)) /\ DOMAIN cache \subseteq DOMAIN mod
  BY <1>1 DEF InlineInv, SitesAreCalls
<1>3. site \in CallSites(mod) /\ Tail(sites) \in Seq(CallSites(mod))
  <2>1. PICK S : S = CallSites(mod)
    OBVIOUS
  <2> QED BY <2>1, <1>1, <1>2, TailLemma
<1>4. /\ caller \in DOMAIN mod /\ callee \in DOMAIN mod
      /\ site.inst \in DOMAIN mod[caller].code /\ IsCall(mod[caller], site.inst)
  BY <1>3 DEF CallSites
<1>5. summary = AnalyzeCallee(mod, callee)
  BY <1>1 DEF InlineInv, CacheFresh
<1>6. /\ DOMAIN known = {callee} \cup DOMAIN cache
      /\ \A g \in DOMAIN known : known[g] = AnalyzeCallee(mod, g)
  <2> HIDE DEF summary, callee
  <2>1. DOMAIN known = {callee} \cup DOMAIN cache
    OBVIOUS
  <2>2. ASSUME NEW g \in DOMAIN known PROVE known[g] = AnalyzeCallee(mod, g)
    <3>1. CASE g = callee
      <4>1. known[callee] = summary
        OBVIOUS
      <4> QED BY <4>1, <3>1, <1>5
    <3>2. CASE g # callee
      <4>1. g \in DOMAIN cache /\ known[g] = cache[g]
        BY <3>2, <2>1
      <4> QED BY <4>1, <1>1 DEF InlineInv, CacheFresh
    <3> QED BY <3>1, <3>2
  <2> QED BY <2>1, <2>2
<1>7. \/ UNCHANGED <<mod, cache>>
      \/ cache' = known /\ UNCHANGED mod
      \/ /\ \E f \in edited : mod' = [mod EXCEPT ![caller] = f]
         /\ cache' = Forget(known, caller)
  BY DEF InlineSite
<1> HIDE DEF site, callee, caller, summary, known, edited
<1>8. CASE mod' = mod
  <2>1. PICK m : m = mod
    OBVIOUS
  <2>2. IsModule(mod)' /\ CallSites(mod)' = CallSites(mod)
    BY <1>2, <1>8 DEF CallSites, IsCall, IsModule, IsFunction, IsInst, IsSeq, Once, Terminated, IsTerminator, UsersExact, Operands, Inserted
  <2>3. \A g \in DOMAIN mod : AnalyzeCallee(mod, g)' = AnalyzeCallee(mod, g)
    BY <1>1, <1>2, <1>8, FindingsStay
  <2>4. SitesAreCalls'
    <3>1. DOMAIN cache' \subseteq DOMAIN mod
      BY <1>2, <1>4, <1>6, <1>7 DEF Forget
    <3> QED BY <3>1, <2>2, <1>1, <1>3, <1>8 DEF SitesAreCalls
  <2>5. CacheFresh'
    <3> SUFFICES ASSUME NEW g \in DOMAIN cache'
                 PROVE  g \in DOMAIN mod /\ cache'[g] = AnalyzeCallee(mod, g)
      BY <2>3 DEF CacheFresh
    <3>1. CASE cache' = cache
      BY <3>1, <1>1, <1>2 DEF InlineInv, CacheFresh
    <3>2. CASE cache' = known
      BY <3>2, <1>2, <1>4, <1>6
    <3>3. CASE cache' = Forget(known, caller)
      BY <3>3, <1>2, <1>4, <1>6 DEF Forget
    <3> QED BY <3>1, <3>2, <3>3, <1>7
  <2> QED BY <2>2, <2>4, <2>5 DEF InlineInv
<1>9. CASE (\E f \in edited : mod' = [mod EXCEPT ![caller] = f]) /\ cache' = Forget(known, caller)
  <2>1. PICK f \in edited : mod' = [mod EXCEPT ![caller] = f]
    BY <1>9
  <2>2. PICK m : m = mod
    OBVIOUS
  <2>3. PICK i : i = site.inst
    OBVIOUS
  <2>4. PICK plan \in AnalyzeCallee(m, callee) : f \in ApplyPlan(m[caller], i, m[callee], plan)
    BY <1>5, <2>2, <2>3 DEF edited
  <2>5. PICK g : g = callee
    OBVIOUS
  <2>6. PICK c : c = caller
    OBVIOUS
  <2>7. /\ IsModule(m) /\ c \in DOMAIN m /\ g \in DOMAIN m
        /\ i \in DOMAIN m[c].code /\ IsCall(m[c], i)
        /\ plan \in AnalyzeCallee(m, g) /\ f \in ApplyPlan(m[c], i, m[g], plan)
    BY <1>2, <1>4, <2>2, <2>3, <2>4, <2>5, <2>6 DEF IsCall
  <2>8. IsFunction(DOMAIN m, m[c]) /\ IsFunction(DOMAIN m, m[g])
    BY <2>7 DEF IsModule
  <2>9. PlanSound(DOMAIN m, m[g], plan)
    BY <2>7, <2>8, PlansSound
  <2>10. Edited(DOMAIN m, m[c], f)
    BY <2>7, <2>8, <2>9, PlanKeeps
  <2>11. PICK n : n = mod'
    OBVIOUS
  <2>12. n = [m EXCEPT ![c] = f]
    BY <2>1, <2>2, <2>6, <2>11
  <2>13. EditedAt(m, n, c)
    BY <2>7, <2>10, <2>12, EditOne
  <2>14. IsModule(mod)' /\ CallSites(mod)' = CallSites(n)
    BY <2>11, <2>13 DEF EditedAt, CallSites, IsCall, IsModule, IsFunction, IsInst, IsSeq, Once, Terminated, IsTerminator, UsersExact, Operands, Inserted
  <2>15. \A h \in DOMAIN mod \ {caller} : AnalyzeCallee(mod, h)' = AnalyzeCallee(mod, h)
    <3> SUFFICES ASSUME NEW h \in DOMAIN mod \ {caller} PROVE AnalyzeCallee(mod, h)' = AnalyzeCallee(mod, h)
      OBVIOUS
    <3>1. /\ DOMAIN mod' = DOMAIN mod /\ mod'[h] = mod[h]
          /\ \A k \in DOMAIN mod : mod'[k].args = mod[k].args
      BY <2>2, <2>6, <2>11, <2>13 DEF EditedAt
    <3> QED BY <3>1, <1>1, <1>2, FindingsStay
  <2>16. SitesAreCalls'
    <3>1. sites' \in Seq(CallSites(n)) /\ DOMAIN mod' = DOMAIN mod
      BY <1>1, <1>3, <2>2, <2>11, <2>13 DEF EditedAt
    <3>2. DOMAIN cache' \subseteq DOMAIN mod'
      BY <1>2, <1>4, <1>6, <1>9, <3>1 DEF Forget
    <3> QED BY <3>1, <3>2, <2>14 DEF SitesAreCalls
  <2>17. CacheFresh'
    <3> SUFFICES ASSUME NEW h \in DOMAIN cache'
                 PROVE  h \in DOMAIN mod \ {caller} /\ cache'[h] = AnalyzeCallee(mod, h)
      BY <2>15 DEF CacheFresh
    <3> QED BY <1>2, <1>4, <1>6, <1>9 DEF Forget
  <2> QED BY <2>14, <2>16, <2>17 DEF InlineInv
<1> QED BY <1>7, <1>8, <1>9

\* Every step keeps the inductive invariant.
LEMMA InlineInvStep == InlineInv /\ [Next]_inlineVars => InlineInv'
<1> SUFFICES ASSUME InlineInv, [Next]_inlineVars PROVE InlineInv'
  OBVIOUS
<1>1. CASE CollectIteration
  BY <1>1, CollectStep
<1>2. CASE InlineSite
  BY <1>2, InlineStep
<1>3. CASE EndIteration
  <2>1. UNCHANGED mod /\ pc' # "inline"
    BY <1>3 DEF EndIteration
  <2>2. IsModule(mod)'
    BY <2>1, SMTT(40) DEF InlineInv, IsModule, IsFunction, IsInst, IsSeq, Once, Terminated, IsTerminator, UsersExact, Operands, Inserted
  <2> QED BY <2>1, <2>2 DEF InlineInv, SitesAreCalls, CacheFresh
<1>4. CASE UNCHANGED inlineVars
  <2>1. UNCHANGED <<mod, pc, sites, cache, config, counts>>
    BY <1>4 DEF inlineVars
  <2>2. IsModule(mod)' /\ CallSites(mod)' = CallSites(mod)
    BY <2>1 DEF InlineInv, CallSites, IsCall, IsModule, IsFunction, IsInst, IsSeq, Once, Terminated, IsTerminator, UsersExact, Operands, Inserted
  <2>3. SitesAreCalls'
    BY <2>1, <2>2 DEF InlineInv, SitesAreCalls
  <2>4. CacheFresh'
    BY <2>1, FindingsStay DEF InlineInv, SitesAreCalls, CacheFresh
  <2> QED BY <2>2, <2>3, <2>4 DEF InlineInv
<1> QED BY <1>1, <1>2, <1>3, <1>4 DEF Next

-----------------------------------------------------------------------------
(***************************************************************************)
(* The theorems.                                                           *)
(***************************************************************************)
\* Whatever the inliner removes, redirects, splices and cuts off, every function stays one:
\* its calls are of functions of the module, no instruction is in it twice, and every block
\* ends with a terminator, so that analyze_callee never panics on an edited function; what
\* is left of the collected call sites are calls.
THEOREM FunctionsKept == Spec => []InlineInv
<1>1. Init => InlineInv
  <2> SUFFICES ASSUME Init PROVE InlineInv
    OBVIOUS
  <2>1. IsModule(mod) /\ pc # "inline"
    BY ModulesAssumption DEF Init
  <2> QED BY <2>1 DEF InlineInv, SitesAreCalls, CacheFresh
<1> QED BY <1>1, InlineInvStep, PTL DEF Spec

\* The users table of every function names exactly the inserted instructions that use a value
\* (the updates of Dfg's users in replace_inst, change_to_alias, the splice and the removals).
THEOREM UsersTables == Spec => []UsersKept
<1>1. InlineInv => UsersKept
  BY DEF InlineInv, IsModule, IsFunction, UsersKept
<1> QED BY <1>1, FunctionsKept, PTL

\* callee_summary_cache answers what analyze_callee would: a caller that was edited is
\* forgotten, and no other function's summary depends on it.
THEOREM SummariesFresh == Spec => []CacheFresh
<1>1. InlineInv => CacheFresh
  BY DEF InlineInv
<1> QED BY <1>1, FunctionsKept, PTL
=============================================================================
