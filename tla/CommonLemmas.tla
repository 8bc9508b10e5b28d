---------------------------- MODULE CommonLemmas ----------------------------
(***************************************************************************)
(* Facts about sequences, recursive functions and what paths reach that    *)
(* the proofs about the components share.                                  *)
(***************************************************************************)
EXTENDS Naturals, Sequences, SequencesExt, Paths, SequenceTheorems, FiniteSetTheorems,
        WellFoundedInduction, TLAPS

-----------------------------------------------------------------------------
(***************************************************************************)
(* Counting up: what recursive functions on numbers compute is shown from  *)
(* the least number at which it would fail.                                *)
(***************************************************************************)
NatLess == {ss \in Nat \X Nat : ss[1] < ss[2]}

\* A set of numbers has a least element.
LEMMA LeastNat ==
  ASSUME NEW T, T \subseteq Nat, T # {}
  PROVE  \E n \in T : \A m \in T : n <= m
<1>1. IsWellFoundedOn(NatLess, Nat)
  BY NatLessThanWellFounded DEF OpToRel, NatLess
<1>2. PICK n \in T : \A m \in T : <<m, n>> \notin NatLess
  BY <1>1, WFMin
<1>3. ASSUME NEW m \in T PROVE n <= m
  <2>1. ~(m < n)
    BY <1>2 DEF NatLess
  <2> QED BY <2>1
<1> QED BY <1>3

\* A set that holds a number lo and, with each number below N, the next one.
LEMMA CountUp ==
  ASSUME NEW lo \in Nat, NEW N \in Nat, NEW G, lo \in G,
         \A n \in lo..(N - 1) : n \in G => n + 1 \in G
  PROVE  \A n \in lo..N : n \in G
<1> DEFINE Bad == (lo..N) \ G
<1>1. Bad \subseteq Nat
  OBVIOUS
<1> SUFFICES ASSUME Bad # {} PROVE FALSE
  OBVIOUS
<1> HIDE DEF Bad
<1>2. PICK n \in Bad : \A m \in Bad : n <= m
  BY <1>1, LeastNat
<1>3. n \in lo..N /\ n \notin G /\ n # lo
  BY DEF Bad
<1>4. n - 1 \in lo..(N - 1) /\ n - 1 \notin Bad
  BY <1>2, <1>3
<1>5. n - 1 \in G
  BY <1>4, <1>3 DEF Bad
<1> QED BY <1>3, <1>4, <1>5

\* f is computed by recursion: the concatenation of the first sequences of s, or what
\* becomes of v when it is followed along g.
JoinsUp(f, s, n) == f = [k \in 1..n |-> IF k = 1 THEN s[k] ELSE f[k - 1] \o s[k]]
FollowsUp(f, g, v, n) == f = [k \in 0..n |-> IF k = 0 THEN v ELSE g[f[k - 1]]]

\* Joining the sequences of s one after the other is a recursion that ends.
LEMMA JoinsUpExists ==
  ASSUME NEW s, NEW N \in Nat \ {0}
  PROVE  \E f : JoinsUp(f, s, N)
<1> DEFINE G == {k \in Nat : \E f : JoinsUp(f, s, k)}
<1>1. 1 \in G
  <2> DEFINE f == [j \in 1..1 |-> s[j]]
  <2>1. JoinsUp(f, s, 1)
    BY DEF JoinsUp
  <2> QED BY <2>1
<1>2. ASSUME NEW n \in 1..(N - 1), n \in G
      PROVE  n + 1 \in G
  <2>1. PICK g : JoinsUp(g, s, n)
    BY <1>2
  <2> DEFINE last == g[n] \o s[n + 1]
             f == [j \in 1..(n + 1) |-> IF j = n + 1 THEN last ELSE g[j]]
  <2> HIDE DEF last
  <2>2. \A j \in 1..n : g[j] = IF j = 1 THEN s[j] ELSE g[j - 1] \o s[j]
    BY <2>1 DEF JoinsUp
  <2>3. n \in Nat /\ n # 0 /\ n + 1 \in Nat
    OBVIOUS
  <2>4. \A j \in 1..n : f[j] = g[j]
    BY <2>3
  <2>5. f[n + 1] = f[n] \o s[n + 1]
    <3>1. f[n + 1] = last /\ f[n] = g[n]
      BY <2>3, <2>4
    <3> QED BY <3>1, Zenon DEF last
  <2>6. f = [j \in 1..(n + 1) |-> f[j]]
    OBVIOUS
  <2> HIDE DEF f
  <2>7. ASSUME NEW j \in 1..(n + 1)
        PROVE  f[j] = IF j = 1 THEN s[j] ELSE f[j - 1] \o s[j]
    <3>1. CASE j = n + 1
      <4>1. j # 1 /\ j - 1 = n
        BY <3>1, <2>3
      <4> QED BY <3>1, <4>1, <2>5
    <3>2. CASE j # n + 1
      <4>1. j \in 1..n /\ (j # 1 => j - 1 \in 1..n)
        BY <3>2, <2>3
      <4> QED BY <4>1, <2>2, <2>4
    <3> QED BY <3>1, <3>2
  <2>8. JoinsUp(f, s, n + 1)
    BY <2>6, <2>7 DEF JoinsUp
  <2> QED BY <2>8, <2>3
<1> HIDE DEF G
<1>3. \A n \in 1..N : n \in G
  BY <1>1, <1>2, CountUp
<1> QED BY <1>3 DEF G

\* So is following g from v.
LEMMA FollowsUpExists ==
  ASSUME NEW g, NEW v, NEW N \in Nat
  PROVE  \E f : FollowsUp(f, g, v, N)
<1> DEFINE G == {k \in Nat : \E f : FollowsUp(f, g, v, k)}
<1>1. 0 \in G
  <2> DEFINE f == [j \in 0..0 |-> v]
  <2>1. FollowsUp(f, g, v, 0)
    BY DEF FollowsUp
  <2> QED BY <2>1
<1>2. ASSUME NEW n \in 0..(N - 1), n \in G
      PROVE  n + 1 \in G
  <2>1. PICK h : FollowsUp(h, g, v, n)
    BY <1>2
  <2> DEFINE f == [j \in 0..(n + 1) |-> IF j = n + 1 THEN g[h[n]] ELSE h[j]]
  <2>2. \A j \in 0..n : h[j] = IF j = 0 THEN v ELSE g[h[j - 1]]
    BY <2>1 DEF FollowsUp
  <2>3. n \in Nat /\ n + 1 \in Nat
    OBVIOUS
  <2>4. \A j \in 0..n : f[j] = h[j]
    BY <2>3
  <2>5. f[n + 1] = g[f[n]]
    BY <2>3, <2>4
  <2>6. f = [j \in 0..(n + 1) |-> f[j]]
    OBVIOUS
  <2> HIDE DEF f
  <2>7. ASSUME NEW j \in 0..(n + 1)
        PROVE  f[j] = IF j = 0 THEN v ELSE g[f[j - 1]]
    <3>1. CASE j = n + 1
      BY <3>1, <2>5, <2>3
    <3>2. CASE j # n + 1
      <4>1. j \in 0..n /\ (j # 0 => j - 1 \in 0..n)
        BY <3>2, <2>3
      <4> QED BY <4>1, <2>2, <2>4
    <3> QED BY <3>1, <3>2
  <2>8. FollowsUp(f, g, v, n + 1)
    BY <2>6, <2>7 DEF FollowsUp
  <2> QED BY <2>8, <2>3
<1> HIDE DEF G
<1>3. \A n \in 0..N : n \in G
  BY <1>1, <1>2, CountUp
<1> QED BY <1>3 DEF G

-----------------------------------------------------------------------------
(***************************************************************************)
(* Sequences: what Keep and Scan leave of the elements, and the stack.     *)
(***************************************************************************)

\* Flattening keeps the elements of all the sequences and adds none.
LEMMA FlattenLemma ==
  ASSUME NEW S, NEW s \in Seq(Seq(S))
  PROVE  /\ FlattenSeq(s) \in Seq(S)
         /\ ToSet(FlattenSeq(s)) = UNION {ToSet(s[k]) : k \in 1..Len(s)}
<1>0. Len(s) \in Nat /\ DOMAIN s = 1..Len(s) /\ \A k \in 1..Len(s) : s[k] \in Seq(S)
  BY LenProperties
<1>1. \A t \in Seq(S) : ToSet(t) = {t[k] : k \in 1..Len(t)}
  BY LenProperties DEF ToSet
<1>2. CASE Len(s) = 0
  <2>1. FlattenSeq(s) = <<>>
    BY <1>2, EmptySeq DEF FlattenSeq
  <2>2. <<>> \in Seq(S) /\ ToSet(<<>>) = {} /\ {ToSet(s[k]) : k \in 1..Len(s)} = {}
    BY <1>2 DEF ToSet
  <2> QED BY <2>1, <2>2
<1>3. CASE Len(s) # 0
  <2> DEFINE f == CHOOSE f : JoinsUp(f, s, Len(s))
             First(n) == UNION {ToSet(s[k]) : k \in 1..n}
             G == {n \in 1..Len(s) : f[n] \in Seq(S) /\ ToSet(f[n]) = First(n)}
  <2>1. JoinsUp(f, s, Len(s))
    BY <1>0, <1>3, JoinsUpExists
  <2>2. FlattenSeq(s) = f[Len(s)]
    BY <1>3 DEF FlattenSeq, JoinsUp
  <2> HIDE DEF f
  <2>3. \A n \in 1..Len(s) : f[n] = IF n = 1 THEN s[n] ELSE f[n - 1] \o s[n]
    BY <2>1 DEF JoinsUp
  <2>4. 1 \in G
    <3>1. 1 \in 1..Len(s) /\ f[1] = s[1] /\ s[1] \in Seq(S)
      BY <1>0, <1>3, <2>3
    <3>2. First(1) = ToSet(s[1])
      OBVIOUS
    <3> QED BY <3>1, <3>2
  <2>5. ASSUME NEW n \in 1..(Len(s) - 1), n \in G
        PROVE  n + 1 \in G
    <3> DEFINE t == f[n]
               u == s[n + 1]
    <3>1. n + 1 \in 1..Len(s) /\ n + 1 # 1 /\ (n + 1) - 1 = n /\ u \in Seq(S)
      BY <1>0
    <3>2. f[n + 1] = t \o u
      BY <3>1, <2>3
    <3>3. t \in Seq(S) /\ ToSet(t) = First(n)
      BY <2>5
    <3>4. First(n + 1) = First(n) \cup ToSet(u)
      <4>1. 1..(n + 1) = (1..n) \cup {n + 1}
        BY <3>1
      <4> QED BY <4>1
    <3> HIDE DEF t, u, First
    <3>5. /\ t \o u \in Seq(S)
          /\ ToSet(t \o u) = ToSet(t) \cup ToSet(u)
      <4>1. /\ t \o u \in Seq(S) /\ Len(t \o u) = Len(t) + Len(u)
            /\ \A i \in 1..Len(t) + Len(u) :
                 (t \o u)[i] = IF i <= Len(t) THEN t[i] ELSE u[i - Len(t)]
        BY <3>1, <3>3, ConcatProperties
      <4>2. Len(t) \in Nat /\ Len(u) \in Nat
        BY <3>1, <3>3, LenProperties
      <4>3. ASSUME NEW k \in 1..Len(u) PROVE (t \o u)[Len(t) + k] = u[k]
        <5>1. Len(t) + k \in 1..Len(t) + Len(u) /\ ~(Len(t) + k <= Len(t)) /\ (Len(t) + k) - Len(t) = k
          BY <4>2
        <5> QED BY <5>1, <4>1
      <4>4. {(t \o u)[k] : k \in 1..Len(t \o u)} \subseteq
              {t[k] : k \in 1..Len(t)} \cup {u[k] : k \in 1..Len(u)}
        <5> SUFFICES ASSUME NEW k \in 1..Len(t) + Len(u)
                     PROVE  (t \o u)[k] \in {t[i] : i \in 1..Len(t)} \cup {u[i] : i \in 1..Len(u)}
          BY <4>1
        <5>1. CASE k <= Len(t)
          <6>1. k \in 1..Len(t)
            BY <5>1, <4>2
          <6>2. (t \o u)[k] = t[k]
            BY <5>1, <4>1
          <6> QED BY <6>1, <6>2
        <5>2. CASE k > Len(t)
          <6>1. k - Len(t) \in 1..Len(u) /\ (t \o u)[k] = u[k - Len(t)]
            BY <5>2, <4>1, <4>2
          <6> QED BY <6>1
        <5> QED BY <5>1, <5>2, <4>2, SMTT(40)
      <4>5. {t[k] : k \in 1..Len(t)} \cup {u[k] : k \in 1..Len(u)} \subseteq
              {(t \o u)[k] : k \in 1..Len(t \o u)}
        <5>1. ASSUME NEW k \in 1..Len(t) PROVE t[k] \in {(t \o u)[i] : i \in 1..Len(t \o u)}
          <6>1. k \in 1..Len(t \o u) /\ (t \o u)[k] = t[k]
            BY <4>1, <4>2
          <6> QED BY <6>1
        <5>2. ASSUME NEW k \in 1..Len(u) PROVE u[k] \in {(t \o u)[i] : i \in 1..Len(t \o u)}
          <6>1. Len(t) + k \in 1..Len(t \o u) /\ (t \o u)[Len(t) + k] = u[k]
            BY <4>1, <4>2, <4>3
          <6> QED BY <6>1
        <5> QED BY <5>1, <5>2
      <4> QED BY <4>1, <4>4, <4>5, <1>1, <3>1, <3>3
    <3> QED BY <3>1, <3>2, <3>3, <3>4, <3>5
  <2> HIDE DEF G
  <2>6. \A n \in 1..Len(s) : n \in G
    BY <1>0, <2>4, <2>5, CountUp
  <2>7. Len(s) \in G
    BY <2>6, <1>0, <1>3
  <2>8. f[Len(s)] \in Seq(S) /\ ToSet(f[Len(s)]) = First(Len(s))
    BY <2>7 DEF G
  <2> QED BY <2>2, <2>8
<1> QED BY <1>2, <1>3

-----------------------------------------------------------------------------
(***************************************************************************)
(* Stacks and lists, position by position.                                 *)
(***************************************************************************)
Pushed(t, s, x) ==
  Len(t) = Len(s) + 1 /\ t[Len(s) + 1] = x /\ \A k \in 1..Len(s) : t[k] = s[k]
Popped(t, s) ==
  Len(t) = Len(s) - 1 /\ \A k \in 1..(Len(s) - 1) : t[k] = s[k]
Replaced(t, s, x) ==
  Len(t) = Len(s) /\ t[Len(s)] = x /\ \A k \in 1..(Len(s) - 1) : t[k] = s[k]

\* A stack that is not empty has a top.
LEMMA NotEmpty ==
  ASSUME NEW S, NEW s \in Seq(S), s # <<>>
  PROVE  Len(s) \in Nat \ {0} /\ Len(s) \in 1..Len(s) /\ s[Len(s)] \in S
<1>1. Len(s) \in Nat \ {0}
  BY EmptySeq
<1> QED BY <1>1, LenProperties

\* Only the empty sequence has no length.
LEMMA EmptyIff ==
  ASSUME NEW S, NEW s \in Seq(S)
  PROVE  s = <<>> <=> Len(s) = 0
  BY EmptySeq

\* Append pushes.
LEMMA PushLemma ==
  ASSUME NEW S, NEW s \in Seq(S), NEW x \in S
  PROVE  Append(s, x) \in Seq(S) /\ Pushed(Append(s, x), s, x)
  BY AppendProperties DEF Pushed

\* Front pops.
LEMMA FrontLemma ==
  ASSUME NEW S, NEW s \in Seq(S), s # <<>>
  PROVE  Front(s) \in Seq(S) /\ Popped(Front(s), s)
<1>1. Len(s) \in Nat \ {0} /\ \A i \in 1..Len(s) : s[i] \in S
  BY NotEmpty, LenProperties
<1>2. 1 \in Int /\ Len(s) - 1 \in Int /\ \A i \in 1..(Len(s) - 1) : s[i] \in S
  BY <1>1
<1> DEFINE n == Len(s) - 1
<1> HIDE DEF n
<1>3. n \in Int /\ \A i \in 1..n : s[i] \in S
  BY <1>2 DEF n
<1>4. /\ SubSeq(s, 1, n) \in Seq(S)
      /\ Len(SubSeq(s, 1, n)) = IF 1 <= n THEN n - 1 + 1 ELSE 0
      /\ \A i \in 1..n - 1 + 1 : SubSeq(s, 1, n)[i] = s[1 + i - 1]
  BY <1>3, SubSeqProperties
<1>5. n \in Nat /\ n = Len(s) - 1
  BY <1>1 DEF n
<1>6. Front(s) = SubSeq(s, 1, n)
  BY DEF Front, n
<1>7. Len(SubSeq(s, 1, n)) = n
  BY <1>4, <1>5
<1>8. ASSUME NEW i \in 1..n
      PROVE  SubSeq(s, 1, n)[i] = s[i]
  <2>1. i \in 1..n - 1 + 1 /\ 1 + i - 1 = i
    BY <1>5
  <2> QED BY <2>1, <1>4
<1> QED BY <1>4, <1>5, <1>6, <1>7, <1>8 DEF Popped

\* Popping and pushing replaces the top.
LEMMA ReplaceLemma ==
  ASSUME NEW S, NEW s \in Seq(S), s # <<>>, NEW x \in S
  PROVE  Append(Front(s), x) \in Seq(S) /\ Replaced(Append(Front(s), x), s, x)
<1>1. Len(s) \in Nat \ {0}
  BY NotEmpty
<1>2. Front(s) \in Seq(S) /\ Popped(Front(s), s)
  BY FrontLemma
<1>3. Append(Front(s), x) \in Seq(S) /\ Pushed(Append(Front(s), x), Front(s), x)
  BY <1>2, PushLemma
<1> QED BY <1>1, <1>2, <1>3 DEF Popped, Pushed, Replaced

\* The tail of a list, and its elements.
LEMMA TailLemma ==
  ASSUME NEW S, NEW s \in Seq(S), s # <<>>
  PROVE  /\ Len(s) \in Nat \ {0} /\ Head(s) = s[1] /\ Head(s) \in S
         /\ Tail(s) \in Seq(S) /\ Len(Tail(s)) = Len(s) - 1
         /\ \A k \in 1..(Len(s) - 1) : Tail(s)[k] = s[k + 1]
         /\ ToSet(s) = {Head(s)} \cup ToSet(Tail(s))
<1>1. Len(s) \in Nat \ {0} /\ Head(s) = s[1]
  BY EmptySeq
<1>2. /\ Head(s) \in S /\ Tail(s) \in Seq(S) /\ Len(Tail(s)) = Len(s) - 1
      /\ \A k \in 1..(Len(s) - 1) : Tail(s)[k] = s[k + 1]
  BY HeadTailProperties
<1>3. ToSet(s) = {s[k] : k \in 1..Len(s)} /\ ToSet(Tail(s)) = {Tail(s)[k] : k \in 1..(Len(s) - 1)}
  BY <1>2, LenProperties DEF ToSet
<1>4. ASSUME NEW k \in 1..Len(s)
      PROVE  s[k] \in {Head(s)} \cup ToSet(Tail(s))
  <2>1. CASE k = 1
    BY <2>1, <1>1
  <2>2. CASE k # 1
    <3>1. k - 1 \in 1..(Len(s) - 1) /\ (k - 1) + 1 = k
      BY <2>2, <1>1
    <3> QED BY <3>1, <1>2, <1>3
  <2> QED BY <2>1, <2>2
<1>5. ASSUME NEW k \in 1..(Len(s) - 1)
      PROVE  Tail(s)[k] \in ToSet(s)
  <2>1. k + 1 \in 1..Len(s)
    BY <1>1
  <2> QED BY <2>1, <1>2, <1>3
<1>6. Head(s) \in ToSet(s)
  BY <1>1, <1>3
<1> QED BY <1>1, <1>2, <1>3, <1>4, <1>5, <1>6

\* The elements of a sequence are what stands at its positions.
LEMMA ToSetLemma ==
  ASSUME NEW S, NEW s \in Seq(S)
  PROVE  ToSet(s) = {s[k] : k \in 1..Len(s)} /\ ToSet(s) \subseteq S
  BY LenProperties DEF ToSet

\* Appending to a list adds one element.
LEMMA AppendSetLemma ==
  ASSUME NEW S, NEW s \in Seq(S), NEW x \in S
  PROVE  Append(s, x) \in Seq(S) /\ ToSet(Append(s, x)) = ToSet(s) \cup {x}
<1>1. Len(s) \in Nat /\ ToSet(s) = {s[k] : k \in 1..Len(s)}
  BY LenProperties, ToSetLemma
<1>2. Append(s, x) \in Seq(S) /\ Pushed(Append(s, x), s, x)
  BY PushLemma
<1>3. ToSet(Append(s, x)) = {Append(s, x)[k] : k \in 1..(Len(s) + 1)}
  BY <1>2, ToSetLemma DEF Pushed
<1>4. ToSet(Append(s, x)) = ToSet(s) \cup {x}
  BY <1>1, <1>2, <1>3 DEF Pushed
<1> QED BY <1>2, <1>4

\* So does prepending to it.
LEMMA PrependSetLemma ==
  ASSUME NEW S, NEW s \in Seq(S), NEW x \in S
  PROVE  <<x>> \o s \in Seq(S) /\ ToSet(<<x>> \o s) = ToSet(s) \cup {x}
<1>1. Len(s) \in Nat /\ ToSet(s) = {s[k] : k \in 1..Len(s)}
  BY LenProperties, ToSetLemma
<1>5. <<x>> \in Seq(S) /\ Len(<<x>>) = 1 /\ <<x>>[1] = x
  OBVIOUS
<1>6. /\ <<x>> \o s \in Seq(S) /\ Len(<<x>> \o s) = 1 + Len(s)
      /\ \A i \in 1..1 + Len(s) : (<<x>> \o s)[i] = IF i <= 1 THEN x ELSE s[i - 1]
  BY <1>5, ConcatProperties
<1>7. ToSet(<<x>> \o s) = {(<<x>> \o s)[k] : k \in 1..1 + Len(s)}
  BY <1>6, ToSetLemma
<1> DEFINE t == <<x>> \o s
<1> HIDE DEF t
<1>8. t[1] = x /\ \A k \in 1..Len(s) : t[k + 1] = s[k]
  <2>1. 1 \in 1..1 + Len(s) /\ 1 <= 1
    BY <1>1
  <2>2. ASSUME NEW k \in 1..Len(s) PROVE t[k + 1] = s[k]
    <3>1. k + 1 \in 1..1 + Len(s) /\ ~(k + 1 <= 1) /\ (k + 1) - 1 = k
      BY <1>1
    <3> QED BY <3>1, <1>6 DEF t
  <2> QED BY <2>1, <2>2, <1>6 DEF t
<1>9. {t[k] : k \in 1..1 + Len(s)} = ToSet(s) \cup {x}
  <2>1. ASSUME NEW k \in 1..1 + Len(s) PROVE t[k] \in ToSet(s) \cup {x}
    <3>1. CASE k = 1
      BY <3>1, <1>8
    <3>2. CASE k # 1
      <4>1. k - 1 \in 1..Len(s) /\ (k - 1) + 1 = k
        BY <3>2, <1>1
      <4> QED BY <4>1, <1>8, <1>1
    <3> QED BY <3>1, <3>2
  <2>2. ASSUME NEW k \in 1..Len(s) PROVE s[k] \in {t[i] : i \in 1..1 + Len(s)}
    <3>1. k + 1 \in 1..1 + Len(s)
      BY <1>1
    <3> QED BY <3>1, <1>8
  <2>3. x \in {t[i] : i \in 1..1 + Len(s)}
    <3>1. 1 \in 1..1 + Len(s)
      BY <1>1
    <3> QED BY <3>1, <1>8
  <2> QED BY <2>1, <2>2, <2>3, <1>1
<1> QED BY <1>6, <1>7, <1>9 DEF t

-----------------------------------------------------------------------------
(***************************************************************************)
(* Where the elements of a flattened sequence come from.                   *)
(***************************************************************************)
\* The element at i of t is the one at col[i] of the sequence row[i] of s: t has every
\* element of the first n sequences, in their order.
Places(row, col, t, s, n) ==
  /\ row \in [1..Len(t) -> 1..n] /\ col \in [1..Len(t) -> Nat]
  /\ \A i \in 1..Len(t) : col[i] \in 1..Len(s[row[i]]) /\ t[i] = s[row[i]][col[i]]
  /\ \A m \in 1..n : \A k \in 1..Len(s[m]) : \E i \in 1..Len(t) : row[i] = m /\ col[i] = k
  /\ \A i, j \in 1..Len(t) : i < j => row[i] < row[j] \/ (row[i] = row[j] /\ col[i] < col[j])

\* One sequence more.
LEMMA JoinPlaces ==
  ASSUME NEW S, NEW s \in Seq(Seq(S)), NEW n \in Nat, n + 1 \in 1..Len(s),
         NEW t \in Seq(S), NEW row, NEW col, Places(row, col, t, s, n)
  PROVE  \E r, c : Places(r, c, t \o s[n + 1], s, n + 1)
<1> DEFINE u == s[n + 1]
           w == t \o u
           r == [i \in 1..Len(w) |-> IF i <= Len(t) THEN row[i] ELSE n + 1]
           c == [i \in 1..Len(w) |-> IF i <= Len(t) THEN col[i] ELSE i - Len(t)]
<1>1. u \in Seq(S)
  BY ElementOfSeq
<1>2. PICK a \in Nat, b \in Nat : a = Len(t) /\ b = Len(u)
  BY <1>1, LenProperties
<1> HIDE DEF u
<1>3. /\ Len(w) = a + b
      /\ \A i \in 1..(a + b) : w[i] = IF i <= a THEN t[i] ELSE u[i - a]
  BY <1>1, <1>2, ConcatProperties
<1> HIDE DEF w
<1>4. \A i \in 1..(a + b) : i \in 1..a \/ (i > a /\ i - a \in 1..b)
  BY <1>2
<1>5. \A i \in 1..a : i \in 1..(a + b) /\ i <= a
  BY <1>2
<1>6. /\ row \in [1..a -> 1..n] /\ col \in [1..a -> Nat]
      /\ \A i \in 1..a : col[i] \in 1..Len(s[row[i]]) /\ t[i] = s[row[i]][col[i]]
      /\ \A m \in 1..n : \A k \in 1..Len(s[m]) : \E i \in 1..a : row[i] = m /\ col[i] = k
      /\ \A i, j \in 1..a : i < j => row[i] < row[j] \/ (row[i] = row[j] /\ col[i] < col[j])
  <2>1. Places(row, col, t, s, n) /\ Len(t) = a
    BY <1>2
  <2>2. row \in [1..a -> 1..n] /\ col \in [1..a -> Nat]
    BY <2>1 DEF Places
  <2>3. \A i \in 1..a : col[i] \in 1..Len(s[row[i]]) /\ t[i] = s[row[i]][col[i]]
    BY <2>1 DEF Places
  <2>4. \A m \in 1..n : \A k \in 1..Len(s[m]) : \E i \in 1..a : row[i] = m /\ col[i] = k
    BY <2>1 DEF Places
  <2>5. \A i, j \in 1..a : i < j => row[i] < row[j] \/ (row[i] = row[j] /\ col[i] < col[j])
    BY <2>1 DEF Places
  <2> QED BY <2>2, <2>3, <2>4, <2>5
<1>7. /\ \A i \in 1..a : r[i] = row[i] /\ c[i] = col[i] /\ w[i] = t[i]
      /\ \A i \in 1..(a + b) : i > a => r[i] = n + 1 /\ c[i] = i - a /\ w[i] = u[i - a]
  <2>1. \A i \in 1..(a + b) : i > a => ~(i <= a)
    BY <1>2
  <2> QED BY <1>2, <1>3, <1>5, <2>1
<1>8. DOMAIN r = 1..(a + b) /\ DOMAIN c = 1..(a + b) /\ r = [i \in 1..(a + b) |-> r[i]] /\ c = [i \in 1..(a + b) |-> c[i]]
  BY <1>3
<1> HIDE DEF r, c
<1>9. ASSUME NEW i \in 1..(a + b)
      PROVE  r[i] \in 1..(n + 1) /\ c[i] \in Nat /\ c[i] \in 1..Len(s[r[i]]) /\ w[i] = s[r[i]][c[i]]
  <2>1. CASE i \in 1..a
    <3>1. row[i] \in 1..n /\ col[i] \in Nat
      BY <1>6, <2>1
    <3>2. row[i] \in 1..(n + 1)
      BY <3>1
    <3> QED BY <1>6, <1>7, <2>1, <3>1, <3>2
  <2>2. CASE i > a /\ i - a \in 1..b
    <3>1. n + 1 \in 1..(n + 1) /\ i - a \in Nat
      BY <2>2, <1>2
    <3> QED BY <1>2, <1>7, <2>2, <3>1 DEF u
  <2> QED BY <1>4, <2>1, <2>2
<1>10. ASSUME NEW m \in 1..(n + 1), NEW k \in 1..Len(s[m])
       PROVE  \E i \in 1..(a + b) : r[i] = m /\ c[i] = k
  <2>1. CASE m \in 1..n
    <3>1. PICK i \in 1..a : row[i] = m /\ col[i] = k
      BY <1>6, <2>1
    <3> QED BY <1>5, <1>7, <3>1
  <2>2. CASE m = n + 1
    <3>1. k \in 1..b
      BY <1>2, <2>2 DEF u
    <3>2. a + k \in 1..(a + b) /\ a + k > a /\ (a + k) - a = k
      BY <1>2, <3>1
    <3> QED BY <1>7, <2>2, <3>2
  <2> QED BY <2>1, <2>2
<1>11. ASSUME NEW i \in 1..(a + b), NEW j \in 1..(a + b), i < j
       PROVE  r[i] < r[j] \/ (r[i] = r[j] /\ c[i] < c[j])
  <2>1. CASE j \in 1..a
    <3>1. i \in 1..a
      BY <1>2, <1>11, <2>1
    <3>2. row[i] < row[j] \/ (row[i] = row[j] /\ col[i] < col[j])
      BY <1>6, <1>11, <2>1, <3>1
    <3>3. r[i] = row[i] /\ c[i] = col[i] /\ r[j] = row[j] /\ c[j] = col[j]
      BY <1>7, <2>1, <3>1
    <3> QED BY <3>2, <3>3
  <2>2. CASE j > a
    <3>1. CASE i \in 1..a
      <4>1. row[i] \in 1..n
        BY <1>6, <3>1
      <4>2. row[i] < n + 1
        BY <4>1
      <4> QED BY <1>7, <2>2, <3>1, <4>2
    <3>2. CASE i > a
      <4>1. r[i] = n + 1 /\ r[j] = n + 1 /\ c[i] = i - a /\ c[j] = j - a
        BY <1>7, <2>2, <3>2
      <4>2. i - a < j - a
        BY <1>2, <1>11
      <4> QED BY <4>1, <4>2
    <3> QED BY <1>4, <3>1, <3>2
  <2> QED BY <1>4, <2>1, <2>2
<1>12. Len(w) = a + b /\ r \in [1..(a + b) -> 1..(n + 1)] /\ c \in [1..(a + b) -> Nat]
  BY <1>3, <1>8, <1>9
<1>13. Places(r, c, w, s, n + 1)
  BY <1>9, <1>10, <1>11, <1>12 DEF Places
<1> QED BY <1>13 DEF w, u

\* A flattened sequence has all elements of all sequences, in order.
LEMMA FlattenPlaces ==
  ASSUME NEW S, NEW s \in Seq(Seq(S))
  PROVE  \E row, col : Places(row, col, FlattenSeq(s), s, Len(s))
<1>0. Len(s) \in Nat /\ DOMAIN s = 1..Len(s) /\ \A k \in 1..Len(s) : s[k] \in Seq(S)
  BY LenProperties
<1>1. CASE Len(s) = 0
  <2>1. FlattenSeq(s) = <<>> /\ Len(<<>>) = 0
    BY <1>1, EmptySeq DEF FlattenSeq
  <2>2. 1..0 = {}
    OBVIOUS
  <2> DEFINE e == [i \in 1..0 |-> 0]
  <2>3. e \in [1..0 -> 1..0] /\ e \in [1..0 -> Nat]
    BY <2>2
  <2> HIDE DEF e
  <2>4. Places(e, e, <<>>, s, 0)
    BY <2>1, <2>2, <2>3 DEF Places
  <2> QED BY <1>1, <2>1, <2>4
<1>2. CASE Len(s) # 0
  <2> DEFINE f == CHOOSE f : JoinsUp(f, s, Len(s))
             G == {n \in 1..Len(s) : f[n] \in Seq(S) /\ \E row, col : Places(row, col, f[n], s, n)}
  <2>1. JoinsUp(f, s, Len(s))
    BY <1>0, <1>2, JoinsUpExists
  <2>2. FlattenSeq(s) = f[Len(s)]
    BY <1>2 DEF FlattenSeq, JoinsUp
  <2> HIDE DEF f
  <2>3. \A n \in 1..Len(s) : f[n] = IF n = 1 THEN s[n] ELSE f[n - 1] \o s[n]
    BY <2>1 DEF JoinsUp
  <2>4. 1 \in G
    <3>1. 1 \in 1..Len(s) /\ f[1] = s[1] /\ s[1] \in Seq(S)
      BY <1>0, <1>2, <2>3
    <3>2. PICK n \in Nat : n = Len(s[1])
      BY <3>1, LenProperties
    <3> DEFINE row == [i \in 1..n |-> 1]
               col == [i \in 1..n |-> i]
    <3>3. Places(row, col, s[1], s, 1)
      <4>1. row \in [1..n -> 1..1] /\ col \in [1..n -> Nat] /\ \A m \in 1..1 : m = 1
        OBVIOUS
      <4>2. \A i \in 1..n : row[i] = 1 /\ col[i] = i
        OBVIOUS
      <4> HIDE DEF row, col
      <4> QED BY <3>2, <4>1, <4>2 DEF Places
    <3> QED BY <3>1, <3>3
  <2>5. ASSUME NEW n \in 1..(Len(s) - 1), n \in G PROVE n + 1 \in G
    <3>1. n + 1 \in 1..Len(s) /\ n + 1 # 1 /\ (n + 1) - 1 = n /\ n \in Nat /\ s[n + 1] \in Seq(S)
      BY <1>0
    <3>2. f[n + 1] = f[n] \o s[n + 1]
      BY <3>1, <2>3
    <3>3. f[n] \in Seq(S) /\ \E row, col : Places(row, col, f[n], s, n)
      BY <2>5
    <3>4. \E r, c : Places(r, c, f[n] \o s[n + 1], s, n + 1)
      BY <3>1, <3>3, JoinPlaces
    <3>5. f[n] \o s[n + 1] \in Seq(S)
      BY <3>1, <3>3, ConcatProperties
    <3> QED BY <3>1, <3>2, <3>4, <3>5
  <2> HIDE DEF G
  <2>6. \A n \in 1..Len(s) : n \in G
    BY <1>0, <2>4, <2>5, CountUp
  <2>7. Len(s) \in G
    BY <2>6, <1>0, <1>2
  <2> QED BY <2>2, <2>7 DEF G
<1> QED BY <1>1, <1>2

-----------------------------------------------------------------------------
(***************************************************************************)
(* ReachSteps, which takes as many steps as the graph has nodes, finds     *)
(* what paths of any length reach: the least set that holds the start and  *)
(* what its nodes lead to.                                                 *)
(***************************************************************************)
\* f[n] is what is reached from S in at most n steps.
StepsUp(f, next, S, avoid, N) ==
  f = [n \in 0..N |-> IF n = 0 THEN S \ avoid
                      ELSE f[n - 1] \cup ((UNION {next[b] : b \in f[n - 1]}) \ avoid)]
NextReached(next, avoid, R) == R \cup ((UNION {next[b] : b \in R}) \ avoid)

\* Taking one step after the other is a recursion that ends.
LEMMA StepsUpExists ==
  ASSUME NEW next, NEW S, NEW avoid, NEW N \in Nat
  PROVE  \E f : StepsUp(f, next, S, avoid, N)
<1> DEFINE G == {k \in Nat : \E f : StepsUp(f, next, S, avoid, k)}
<1>1. 0 \in G
  <2> DEFINE f == [k \in 0..0 |-> S \ avoid]
  <2>1. \A k \in 0..0 : k = 0
    OBVIOUS
  <2>2. f = [n \in 0..0 |-> IF n = 0 THEN S \ avoid ELSE NextReached(next, avoid, f[n - 1])]
    BY <2>1
  <2>3. StepsUp(f, next, S, avoid, 0)
    BY <2>2 DEF StepsUp, NextReached
  <2> QED BY <2>3
<1>2. ASSUME NEW n \in 0..(N - 1), n \in G PROVE n + 1 \in G
  <2>1. PICK g : StepsUp(g, next, S, avoid, n)
    BY <1>2
  <2> DEFINE f == [k \in 0..(n + 1) |-> IF k = n + 1 THEN NextReached(next, avoid, g[n]) ELSE g[k]]
  <2>2. \A k \in 0..n : g[k] = IF k = 0 THEN S \ avoid ELSE NextReached(next, avoid, g[k - 1])
    BY <2>1 DEF StepsUp, NextReached
  <2>3. n \in Nat /\ n + 1 # 0 /\ (n + 1) - 1 = n /\ n # n + 1 /\ n \in 0..(n + 1)
    OBVIOUS
  <2>4. \A k \in 0..(n + 1) : f[k] = IF k = 0 THEN S \ avoid ELSE NextReached(next, avoid, f[k - 1])
    <3> TAKE k \in 0..(n + 1)
    <3>1. CASE k = n + 1
      BY <2>3, <3>1
    <3>2. CASE k # n + 1
      <4>1. k \in 0..n
        BY <3>2, <2>3
      <4>2. k # 0 => k - 1 \in 0..(n + 1) /\ k - 1 # n + 1
        BY <4>1, <2>3
      <4> QED BY <2>2, <4>1, <4>2, <3>2
    <3> QED BY <3>1, <3>2
  <2>5. f = [k \in 0..(n + 1) |-> IF k = 0 THEN S \ avoid ELSE NextReached(next, avoid, f[k - 1])]
    BY <2>4
  <2> HIDE DEF f
  <2>6. StepsUp(f, next, S, avoid, n + 1)
    BY <2>5 DEF StepsUp, NextReached
  <2> QED BY <2>6, <2>3
<1> HIDE DEF G
<1>3. \A n \in 0..N : n \in G
  BY <1>1, <1>2, CountUp
<1> QED BY <1>3 DEF G

\* R is the least set of nodes that holds what is not avoided of S and of what its nodes
\* lead to.
LeastClosed(R, D, next, S, avoid) ==
  /\ R \subseteq D /\ R \cap avoid = {}
  /\ S \ avoid \subseteq R
  /\ \A b \in R : next[b] \ avoid \subseteq R
  /\ \A T : /\ S \ avoid \subseteq T
            /\ \A b \in T \cap R : next[b] \ avoid \subseteq T
            => R \subseteq T

\* What ReachSteps computes is that set: each step that is not the last adds a node.
LEMMA ReachLemma ==
  ASSUME NEW D, IsFiniteSet(D), NEW next \in [D -> SUBSET D], NEW S \in SUBSET D, NEW avoid
  PROVE  LeastClosed(ReachSteps(next, S, avoid), D, next, S, avoid)
<1> DEFINE N == Cardinality(D)
           f == CHOOSE g : StepsUp(g, next, S, avoid, N)
           Closed(T) == \A b \in T : next[b] \ avoid \subseteq T
<1>0. N \in Nat /\ DOMAIN next = D
  BY FS_CardinalityType
<1>1. StepsUp(f, next, S, avoid, N)
  BY <1>0, StepsUpExists
<1>2. ReachSteps(next, S, avoid) = f[N]
  BY <1>0 DEF ReachSteps, StepsUp
<1> HIDE DEF f, N
<1>3. \A n \in 0..N : f[n] = IF n = 0 THEN S \ avoid ELSE NextReached(next, avoid, f[n - 1])
  BY <1>1 DEF StepsUp, NextReached
<1>4. f[0] = S \ avoid /\ \A n \in 0..(N - 1) : f[n + 1] = NextReached(next, avoid, f[n])
  <2>1. 0 \in 0..N
    BY <1>0
  <2>2. ASSUME NEW n \in 0..(N - 1) PROVE f[n + 1] = NextReached(next, avoid, f[n])
    <3>1. n + 1 \in 0..N /\ n + 1 # 0 /\ (n + 1) - 1 = n
      BY <1>0
    <3> QED BY <1>3, <3>1
  <2> QED BY <1>3, <2>1, <2>2
<1> DEFINE G == {n \in Nat : /\ f[n] \subseteq D /\ f[n] \cap avoid = {} /\ S \ avoid \subseteq f[n]
                             /\ Closed(f[n]) \/ Cardinality(f[n]) > n}
<1>5. 0 \in G
  <2>1. f[0] \subseteq D /\ f[0] \cap avoid = {} /\ S \ avoid \subseteq f[0]
    BY <1>4
  <2>2. ASSUME f[0] # {} PROVE Cardinality(f[0]) > 0
    <3>1. IsFiniteSet(f[0])
      BY <2>1, FS_Subset
    <3> QED BY <3>1, <2>2, FS_EmptySet, FS_CardinalityType
  <2> QED BY <2>1, <2>2
<1>6. ASSUME NEW n \in 0..(N - 1), n \in G PROVE n + 1 \in G
  <2>1. n \in Nat /\ n + 1 \in Nat /\ f[n + 1] = NextReached(next, avoid, f[n])
    BY <1>0, <1>4
  <2>2. /\ f[n] \subseteq D /\ f[n] \cap avoid = {} /\ S \ avoid \subseteq f[n]
        /\ Closed(f[n]) \/ Cardinality(f[n]) > n
    BY <1>6
  <2>3. /\ f[n + 1] \subseteq D /\ f[n + 1] \cap avoid = {} /\ S \ avoid \subseteq f[n + 1]
        /\ f[n] \subseteq f[n + 1]
    BY <2>1, <2>2 DEF NextReached
  <2>4. CASE Closed(f[n])
    <3>1. f[n + 1] = f[n]
      BY <2>1, <2>4 DEF NextReached
    <3> QED BY <2>1, <2>3, <2>4, <3>1
  <2>5. CASE ~Closed(f[n])
    <3>1. f[n + 1] # f[n]
      BY <2>1, <2>5 DEF NextReached
    <3>2. IsFiniteSet(f[n + 1])
      BY <2>3, FS_Subset
    <3>3. /\ Cardinality(f[n]) <= Cardinality(f[n + 1])
          /\ Cardinality(f[n + 1]) # Cardinality(f[n])
      BY <2>3, <3>1, <3>2, FS_Subset
    <3>4. Cardinality(f[n]) \in Nat /\ Cardinality(f[n + 1]) \in Nat
      BY <2>3, <3>2, FS_Subset, FS_CardinalityType
    <3>5. Cardinality(f[n + 1]) > n + 1
      BY <2>1, <2>2, <2>5, <3>3, <3>4
    <3> QED BY <2>1, <2>3, <3>5
  <2> QED BY <2>4, <2>5
<1>7. \A n \in 0..N : n \in G
  <2> HIDE DEF G
  <2> QED BY <1>0, <1>5, <1>6, CountUp
<1>8. /\ f[N] \subseteq D /\ f[N] \cap avoid = {} /\ S \ avoid \subseteq f[N] /\ Closed(f[N])
  <2>1. N \in 0..N
    BY <1>0
  <2>2. /\ f[N] \subseteq D /\ f[N] \cap avoid = {} /\ S \ avoid \subseteq f[N]
        /\ Closed(f[N]) \/ Cardinality(f[N]) > N
    BY <1>7, <2>1
  <2>3. ~(Cardinality(f[N]) > N)
    <3>1. Cardinality(f[N]) <= N /\ Cardinality(f[N]) \in Nat
      BY <2>2, FS_Subset, FS_CardinalityType DEF N
    <3> QED BY <1>0, <3>1
  <2> QED BY <2>2, <2>3
<1>9. ASSUME NEW T, S \ avoid \subseteq T, \A b \in T \cap f[N] : next[b] \ avoid \subseteq T
      PROVE  f[N] \subseteq T
  <2> DEFINE H == {n \in Nat : f[n] \subseteq T /\ f[n] \subseteq f[N]}
  <2>1. 0 \in H
    BY <1>4, <1>8, <1>9
  <2>2. ASSUME NEW n \in 0..(N - 1), n \in H PROVE n + 1 \in H
    <3>1. n + 1 \in Nat /\ f[n + 1] = NextReached(next, avoid, f[n])
      BY <1>0, <1>4
    <3> QED BY <1>8, <1>9, <2>2, <3>1 DEF NextReached
  <2> HIDE DEF H
  <2>3. \A n \in 0..N : n \in H
    BY <1>0, <2>1, <2>2, CountUp
  <2>4. N \in 0..N
    BY <1>0
  <2> QED BY <2>3, <2>4 DEF H
<1> QED BY <1>2, <1>8, <1>9 DEF LeastClosed

=============================================================================
