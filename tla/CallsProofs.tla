----------------------------- MODULE CallsProofs -----------------------------
(***************************************************************************)
(* Proofs about what the code generator assumes of functions: the          *)
(* components of every call graph call only earlier ones, and what is      *)
(* recorded of a function holds of every call of it, in every module.      *)
(***************************************************************************)
EXTENDS FuncBehavior, CommonLemmas, TLAPS

-----------------------------------------------------------------------------
(***************************************************************************)
(* The components: what holds between the steps of SccBuilder.             *)
(***************************************************************************)
IsGraph(g, n) == n \in Nat /\ DOMAIN g = 1..n /\ \A f \in 1..n : g[f] \subseteq 1..n

CallSet(n) == [func : 1..n, left : SUBSET (1..n)]
SccSet(n) == [components : SUBSET (1..n), is_cycle : BOOLEAN]
SccStates(n) == [index : [1..n -> Nat], lowlink : [1..n -> Nat], next : Nat \ {0},
                 stack : Seq(1..n), sccs : Seq(SccSet(n)), calls : Seq(CallSet(n))]

On(s) == ToSet(s.stack)
Stacked(s) == \A i, j \in 1..Len(s.stack) : i < j => s.index[s.stack[i]] < s.index[s.stack[j]]
\* A function is visited once it is on the stack or in a component.
Visited(s, n) ==
  \A f \in 1..n :
    /\ s.index[f] < s.next
    /\ s.index[f] > 0 <=> f \in On(s) \/ \E j \in 1..Len(s.sccs) : f \in s.sccs[j].components

\* Components are apart, call only earlier ones and themselves, and are cycles or one
\* function that does not call itself.
Apart(sccs) ==
  \A j, k \in 1..Len(sccs) : \A f \in sccs[j].components : f \in sccs[k].components => j = k
Downward(sccs, g) ==
  \A j \in 1..Len(sccs) : \A f \in sccs[j].components : \A c \in g[f] :
    \E i \in 1..j : c \in sccs[i].components
Cyclic(sccs, g, n) ==
  \A j \in 1..Len(sccs) :
    ~sccs[j].is_cycle => \E f \in 1..n : sccs[j].components = {f} /\ f \notin g[f]
Stored(s, g, n) ==
  /\ \A j \in 1..Len(s.sccs) : \A f \in s.sccs[j].components : f \notin On(s)
  /\ Apart(s.sccs) /\ Downward(s.sccs, g) /\ Cyclic(s.sccs, g, n)

\* The calls that have not returned go up the stack from its bottom.
Calling(s, g) ==
  /\ \A k \in 1..Len(s.calls) : s.calls[k].func \in On(s) /\ s.calls[k].left \subseteq g[s.calls[k].func]
  /\ \A k, l \in 1..Len(s.calls) : k < l => s.index[s.calls[k].func] < s.index[s.calls[l].func]
  /\ Len(s.calls) = 0 => On(s) = {}
Lowest(s) ==
  \A x \in On(s) :
    /\ s.lowlink[x] <= s.index[x]
    /\ 1 \in 1..Len(s.calls) => s.index[s.calls[1].func] <= s.lowlink[x]

\* A call has not come to the callee, or the callee has not returned.
Pending(s, x, c) ==
  \E k \in 1..Len(s.calls) :
    /\ s.calls[k].func = x
    /\ c \in s.calls[k].left \/ (k + 1 \in 1..Len(s.calls) /\ c = s.calls[k + 1].func)
Low(s, g) ==
  \A x \in On(s) : \A c \in g[x] :
    Pending(s, x, c) \/ (s.index[c] > 0 /\ (c \in On(s) => s.lowlink[x] <= s.index[c]))
\* What has returned is no lower than the call it is above.
Above(s, k, x) ==
  /\ s.index[s.calls[k].func] < s.index[x]
  /\ k + 1 \in 1..Len(s.calls) => s.index[x] < s.index[s.calls[k + 1].func]
Under(s) ==
  \A x \in On(s) : (\A k \in 1..Len(s.calls) : s.calls[k].func # x) =>
    \A k \in 1..Len(s.calls) : Above(s, k, x) => s.lowlink[s.calls[k].func] <= s.lowlink[x]

SccInv(s, g, n) ==
  /\ s \in SccStates(n)
  /\ Stacked(s) /\ Visited(s, n) /\ Stored(s, g, n)
  /\ Calling(s, g) /\ Lowest(s) /\ Low(s, g) /\ Under(s)

\* A set of numbers has its least element.
LEMMA LeastLemma ==
  ASSUME NEW T, T \subseteq Nat, T # {}
  PROVE  Least(T) \in T
  BY LeastNat DEF Least

\* The fields of what the steps make of a state.
LEMMA LowerFields ==
  ASSUME NEW n \in Nat, NEW s \in SccStates(n), NEW func \in 1..n, NEW l \in Nat
  PROVE  /\ Lower(s, func, l) \in SccStates(n)
         /\ Lower(s, func, l).index = s.index /\ Lower(s, func, l).next = s.next
         /\ Lower(s, func, l).stack = s.stack /\ Lower(s, func, l).sccs = s.sccs
         /\ Lower(s, func, l).calls = s.calls
         /\ Lower(s, func, l).lowlink = [s.lowlink EXCEPT ![func] = Smaller(s.lowlink[func], l)]
  BY DEF Lower, SccStates, Smaller

\* s with other calls, and with c come to by the last of its m calls.
WithCalls(s, calls) == [s EXCEPT !.calls = calls]
Came(s, m, c) ==
  WithCalls(s, Append(Front(s.calls), [func |-> s.calls[m].func, left |-> s.calls[m].left \ {c}]))
LEMMA CallsFields ==
  ASSUME NEW n \in Nat, NEW s \in SccStates(n), NEW calls \in Seq(CallSet(n))
  PROVE  LET t == WithCalls(s, calls)
         IN /\ t \in SccStates(n) /\ t.calls = calls
            /\ t.index = s.index /\ t.next = s.next /\ t.stack = s.stack
            /\ t.sccs = s.sccs /\ t.lowlink = s.lowlink
  BY DEF SccStates, WithCalls

\* A function that is visited goes onto the stack and is called.
LEMMA StrongFields ==
  ASSUME NEW n \in Nat, NEW g, IsGraph(g, n), NEW s \in SccStates(n), NEW c \in 1..n
  PROVE  LET t == StrongComponent(s, g, c)
         IN /\ t \in SccStates(n) /\ t.sccs = s.sccs /\ t.next = s.next + 1
            /\ t.index = [s.index EXCEPT ![c] = s.next]
            /\ t.lowlink = [s.lowlink EXCEPT ![c] = s.next]
            /\ Pushed(t.stack, s.stack, c) /\ On(t) = On(s) \cup {c}
            /\ Pushed(t.calls, s.calls, [func |-> c, left |-> g[c]])
<1> DEFINE t == StrongComponent(s, g, c)
           call == [func |-> c, left |-> g[c]]
<1>1. /\ s.stack \in Seq(1..n) /\ s.calls \in Seq(CallSet(n)) /\ s.next \in Nat \ {0} /\ s.sccs \in Seq(SccSet(n))
      /\ s.index \in [1..n -> Nat] /\ s.lowlink \in [1..n -> Nat]
  BY DEF SccStates
<1>2. call \in CallSet(n)
  BY DEF CallSet, IsGraph
<1>3. /\ Append(s.stack, c) \in Seq(1..n) /\ ToSet(Append(s.stack, c)) = ToSet(s.stack) \cup {c}
      /\ Pushed(Append(s.stack, c), s.stack, c)
  BY <1>1, AppendSetLemma, PushLemma
<1>4. Append(s.calls, call) \in Seq(CallSet(n)) /\ Pushed(Append(s.calls, call), s.calls, call)
  BY <1>1, <1>2, PushLemma
<1>5. /\ t.index = [s.index EXCEPT ![c] = s.next] /\ t.lowlink = [s.lowlink EXCEPT ![c] = s.next]
      /\ t.next = s.next + 1 /\ t.stack = Append(s.stack, c) /\ t.sccs = s.sccs
      /\ t.calls = Append(s.calls, call)
      /\ t = [index |-> t.index, lowlink |-> t.lowlink, next |-> t.next, stack |-> t.stack,
              sccs |-> t.sccs, calls |-> t.calls]
  BY DEF StrongComponent
<1> HIDE DEF t, call
<1>6. t.index \in [1..n -> Nat] /\ t.lowlink \in [1..n -> Nat] /\ t.next \in Nat \ {0}
  <2>1. s.next \in Nat /\ s.next + 1 \in Nat \ {0}
    BY <1>1
  <2>2. t.index \in [1..n -> Nat]
    BY <1>1, <1>5, <2>1
  <2>3. t.lowlink \in [1..n -> Nat]
    BY <1>1, <1>5, <2>1
  <2> QED BY <1>5, <2>1, <2>2, <2>3
<1>7. t \in SccStates(n)
  BY <1>1, <1>3, <1>4, <1>5, <1>6 DEF SccStates
<1>8. Pushed(t.calls, s.calls, call) /\ Pushed(t.stack, s.stack, c) /\ On(t) = On(s) \cup {c}
  BY <1>3, <1>4, <1>5 DEF On
<1> QED BY <1>5, <1>7, <1>8 DEF t, call

\* What stands on the stack from a function on has no smaller index, what stands below
\* has.
LEMMA StackCut ==
  ASSUME NEW n \in Nat, NEW s \in SccStates(n), Stacked(s), NEW func \in On(s)
  PROVE  LET at == CHOOSE i \in DOMAIN s.stack : s.stack[i] = func
             low == SubSeq(s.stack, 1, at - 1)
             high == SubSeq(s.stack, at, Len(s.stack))
         IN /\ low \in Seq(1..n)
            /\ ToSet(high) = {x \in On(s) : s.index[func] <= s.index[x]}
            /\ ToSet(low) = {x \in On(s) : s.index[x] < s.index[func]}
            /\ Len(low) < Len(s.stack) /\ \A i \in 1..Len(low) : low[i] = s.stack[i]
<1> DEFINE at == CHOOSE i \in DOMAIN s.stack : s.stack[i] = func
           low == SubSeq(s.stack, 1, at - 1)
           high == SubSeq(s.stack, at, Len(s.stack))
<1>1. s.stack \in Seq(1..n) /\ s.index \in [1..n -> Nat]
  BY DEF SccStates
<1>2. PICK m \in Nat : m = Len(s.stack) /\ DOMAIN s.stack = 1..m /\ On(s) = {s.stack[i] : i \in 1..m}
                       /\ \A i \in 1..m : s.stack[i] \in 1..n
  <2> HIDE DEF at, low, high
  <2>1. Len(s.stack) \in Nat /\ DOMAIN s.stack = 1..Len(s.stack)
    BY <1>1, LenProperties
  <2>2. \A i \in 1..Len(s.stack) : s.stack[i] \in 1..n
    BY <1>1, LenProperties
  <2>3. On(s) = {s.stack[i] : i \in 1..Len(s.stack)}
    BY <1>1, ToSetLemma DEF On
  <2> QED BY <2>1, <2>2, <2>3
<1>3. at \in 1..m /\ s.stack[at] = func
  BY <1>2
<1> HIDE DEF at
<1>4. 1 \in Int /\ at - 1 \in Int /\ at \in Int /\ m \in Int
  BY <1>3
<1>5. (\A i \in 1..(at - 1) : s.stack[i] \in 1..n) /\ (\A i \in at..m : s.stack[i] \in 1..n)
  BY <1>2, <1>3
<1>6. /\ low \in Seq(1..n) /\ Len(low) = (IF 1 <= at - 1 THEN at - 1 - 1 + 1 ELSE 0)
      /\ \A i \in 1..at - 1 - 1 + 1 : low[i] = s.stack[1 + i - 1]
  <2> DEFINE k == at - 1
  <2>1. k \in Int /\ \A i \in 1..k : s.stack[i] \in 1..n
    BY <1>4, <1>5
  <2> HIDE DEF k
  <2>2. /\ SubSeq(s.stack, 1, k) \in Seq(1..n)
        /\ Len(SubSeq(s.stack, 1, k)) = (IF 1 <= k THEN k - 1 + 1 ELSE 0)
        /\ \A i \in 1..k - 1 + 1 : SubSeq(s.stack, 1, k)[i] = s.stack[1 + i - 1]
    BY <2>1, <1>4, SubSeqProperties
  <2> QED BY <2>2 DEF k
<1>7. /\ high \in Seq(1..n) /\ Len(high) = (IF at <= m THEN m - at + 1 ELSE 0)
      /\ \A i \in 1..m - at + 1 : high[i] = s.stack[at + i - 1]
  BY <1>2, <1>4, <1>5, SubSeqProperties
<1> HIDE DEF low, high
<1>8. Len(low) = at - 1 /\ \A i \in 1..(at - 1) : low[i] = s.stack[i]
  <2>1. \A i \in 1..(at - 1) : i \in 1..at - 1 - 1 + 1 /\ 1 + i - 1 = i
    BY <1>3
  <2> QED BY <1>3, <1>6, <2>1
<1>9. Len(high) = m - at + 1 /\ \A i \in 1..(m - at + 1) : high[i] = s.stack[at + i - 1]
  BY <1>3, <1>7
<1>10. ToSet(low) = {low[i] : i \in 1..(at - 1)} /\ ToSet(high) = {high[i] : i \in 1..(m - at + 1)}
  BY <1>6, <1>7, <1>8, <1>9, ToSetLemma
<1>11. ASSUME NEW i \in 1..m
       PROVE  /\ i < at => s.stack[i] \in ToSet(low) /\ s.index[s.stack[i]] < s.index[func]
              /\ at <= i => s.stack[i] \in ToSet(high) /\ s.index[func] <= s.index[s.stack[i]]
  <2>1. s.index[s.stack[i]] \in Nat /\ s.index[func] \in Nat
    BY <1>1, <1>2, <1>3
  <2>2. CASE i < at
    <3>1. i \in 1..(at - 1) /\ ~(at <= i)
      BY <1>3, <2>2
    <3>2. s.index[s.stack[i]] < s.index[s.stack[at]]
      BY <1>2, <1>3, <2>2 DEF Stacked
    <3> QED BY <1>3, <1>8, <1>10, <3>1, <3>2
  <2>3. CASE at <= i
    <3>1. i - at + 1 \in 1..(m - at + 1) /\ at + (i - at + 1) - 1 = i /\ ~(i < at)
      BY <1>3, <2>3
    <3>2. s.stack[i] \in ToSet(high)
      BY <1>9, <1>10, <3>1
    <3>3. i = at \/ s.index[s.stack[at]] < s.index[s.stack[i]]
      BY <1>2, <1>3, <2>3 DEF Stacked
    <3> QED BY <1>3, <2>1, <3>1, <3>2, <3>3
  <2> QED BY <1>3, <2>2, <2>3
<1>12. ToSet(low) \subseteq {x \in On(s) : s.index[x] < s.index[func]}
  <2>1. \A i \in 1..(at - 1) : i \in 1..m /\ i < at
    BY <1>3
  <2> QED BY <1>2, <1>8, <1>10, <1>11, <2>1
<1>13. ToSet(high) \subseteq {x \in On(s) : s.index[func] <= s.index[x]}
  <2>1. \A i \in 1..(m - at + 1) : at + i - 1 \in 1..m /\ at <= at + i - 1
    BY <1>3
  <2> QED BY <1>2, <1>9, <1>10, <1>11, <2>1
<1>14. ASSUME NEW x \in On(s)
       PROVE  /\ s.index[x] < s.index[func] => x \in ToSet(low)
              /\ s.index[func] <= s.index[x] => x \in ToSet(high)
  <2>1. PICK i \in 1..m : x = s.stack[i]
    BY <1>2
  <2>2. s.index[x] \in Nat /\ s.index[func] \in Nat
    BY <1>1, <1>2, <1>3, <2>1
  <2>3. i < at \/ at <= i
    BY <1>3
  <2> QED BY <1>11, <2>1, <2>2, <2>3
<1>15. Len(low) < m
  BY <1>3, <1>8
<1>16. \A i \in 1..Len(low) : low[i] = s.stack[i]
  BY <1>8
<1> QED BY <1>2, <1>6, <1>12, <1>13, <1>14, <1>15, <1>16 DEF at, low, high

\* Functions on the stack have different indices.
LEMMA StackDistinct ==
  ASSUME NEW n \in Nat, NEW s \in SccStates(n), Stacked(s),
         NEW x \in On(s), NEW y \in On(s), s.index[x] = s.index[y]
  PROVE  x = y
<1>1. s.stack \in Seq(1..n) /\ s.index \in [1..n -> Nat]
  BY DEF SccStates
<1>2. PICK m \in Nat : m = Len(s.stack) /\ On(s) = {s.stack[i] : i \in 1..m}
                       /\ \A i \in 1..m : s.stack[i] \in 1..n
  <2>1. Len(s.stack) \in Nat /\ s.stack \in [1..Len(s.stack) -> 1..n]
    BY <1>1, LenProperties
  <2>2. \A i \in 1..Len(s.stack) : s.stack[i] \in 1..n
    BY <2>1
  <2> QED BY <1>1, <2>1, <2>2, ToSetLemma DEF On
<1>3. PICK i \in 1..m, j \in 1..m : x = s.stack[i] /\ y = s.stack[j]
  BY <1>2
<1>4. s.index[x] \in Nat
  BY <1>1, <1>2, <1>3
<1>5. ~(i < j) /\ ~(j < i)
  BY <1>2, <1>3, <1>4 DEF Stacked
<1> QED BY <1>3, <1>5

\* On(s) is among the functions.
LEMMA OnTypes ==
  ASSUME NEW n \in Nat, NEW s \in SccStates(n)
  PROVE  /\ On(s) \subseteq 1..n
         /\ \A f \in 1..n : s.index[f] \in Nat /\ s.lowlink[f] \in Nat
         /\ s.next \in Nat \ {0} /\ Len(s.calls) \in Nat /\ Len(s.stack) \in Nat /\ Len(s.sccs) \in Nat
         /\ \A k \in 1..Len(s.calls) : s.calls[k] \in CallSet(n) /\ s.calls[k].func \in 1..n
                                       /\ s.calls[k].left \subseteq 1..n
         /\ \A i \in 1..Len(s.stack) : s.stack[i] \in On(s)
         /\ \A j \in 1..Len(s.sccs) : s.sccs[j] \in SccSet(n) /\ s.sccs[j].components \subseteq 1..n
                                      /\ s.sccs[j].is_cycle \in BOOLEAN
<1>1. /\ s.stack \in Seq(1..n) /\ s.calls \in Seq(CallSet(n)) /\ s.sccs \in Seq(SccSet(n)) /\ s.next \in Nat \ {0}
      /\ s.index \in [1..n -> Nat] /\ s.lowlink \in [1..n -> Nat]
  BY DEF SccStates
<1>2. /\ Len(s.calls) \in Nat /\ \A k \in 1..Len(s.calls) : s.calls[k] \in CallSet(n)
      /\ Len(s.sccs) \in Nat /\ \A j \in 1..Len(s.sccs) : s.sccs[j] \in SccSet(n)
      /\ Len(s.stack) \in Nat
  BY <1>1, LenProperties
<1>3. ToSet(s.stack) = {s.stack[i] : i \in 1..Len(s.stack)} /\ ToSet(s.stack) \subseteq 1..n
  BY <1>1, ToSetLemma
<1>4. \A c \in CallSet(n) : c.func \in 1..n /\ c.left \subseteq 1..n
  BY DEF CallSet
<1>5. \A c \in SccSet(n) : c.components \subseteq 1..n /\ c.is_cycle \in BOOLEAN
  BY DEF SccSet
<1> QED BY <1>1, <1>2, <1>3, <1>4, <1>5 DEF On

\* A set of which two elements differ has more than one.
LEMMA OneOnly ==
  ASSUME NEW T, IsFiniteSet(T), NEW x \in T, ~(Cardinality(T) > 1)
  PROVE  T = {x}
<1>1. Cardinality(T) \in Nat /\ Cardinality(T) # 0
  BY FS_CardinalityType, FS_EmptySet
<1>2. Cardinality({x}) = 1 /\ {x} \in SUBSET T
  BY FS_Singleton
<1>3. Cardinality(T) = 1
  BY <1>1
<1> QED BY <1>2, <1>3, FS_Subset

\* A component is what stands on the stack from a function on.
LEMMA StoreFields ==
  ASSUME NEW n \in Nat, NEW g, IsGraph(g, n), NEW s \in SccStates(n), Stacked(s), NEW func \in On(s)
  PROVE  LET t == StoreScc(s, g, func)
             scc == t.sccs[Len(s.sccs) + 1]
         IN /\ t \in SccStates(n)
            /\ t.index = s.index /\ t.lowlink = s.lowlink /\ t.next = s.next /\ t.calls = s.calls
            /\ Stacked(t) /\ On(t) = {x \in On(s) : s.index[x] < s.index[func]}
            /\ Pushed(t.sccs, s.sccs, scc)
            /\ scc.components = {x \in On(s) : s.index[func] <= s.index[x]}
            /\ ~scc.is_cycle => scc.components = {func} /\ func \notin g[func]
<1> DEFINE at == CHOOSE i \in DOMAIN s.stack : s.stack[i] = func
           low == SubSeq(s.stack, 1, at - 1)
           high == SubSeq(s.stack, at, Len(s.stack))
           scc == [components |-> ToSet(high), is_cycle |-> Cardinality(ToSet(high)) > 1 \/ func \in g[func]]
           t == StoreScc(s, g, func)
<1>1. t = [s EXCEPT !.stack = low, !.sccs = Append(s.sccs, scc)]
  BY DEF StoreScc, SccStates
<1>2. /\ low \in Seq(1..n)
      /\ ToSet(high) = {x \in On(s) : s.index[func] <= s.index[x]}
      /\ ToSet(low) = {x \in On(s) : s.index[x] < s.index[func]}
      /\ Len(low) < Len(s.stack) /\ \A i \in 1..Len(low) : low[i] = s.stack[i]
  BY StackCut
<1> HIDE DEF at, low, high
<1>3. ToSet(high) \subseteq 1..n
  BY <1>2, OnTypes
<1>4. scc \in SccSet(n) /\ scc.components = ToSet(high)
      /\ (~scc.is_cycle => ~(Cardinality(ToSet(high)) > 1) /\ func \notin g[func])
  BY <1>3 DEF SccSet
<1> HIDE DEF scc
<1>5. s.sccs \in Seq(SccSet(n)) /\ Append(s.sccs, scc) \in Seq(SccSet(n)) /\ Pushed(Append(s.sccs, scc), s.sccs, scc)
  BY <1>4, PushLemma DEF SccStates
<1>6. /\ t.index = s.index /\ t.lowlink = s.lowlink /\ t.next = s.next /\ t.calls = s.calls
      /\ t.stack = low /\ t.sccs = Append(s.sccs, scc) /\ t \in SccStates(n)
  BY <1>1, <1>2, <1>5 DEF SccStates
<1>7. Stacked(t)
  <2>1. Len(low) \in Nat /\ Len(s.stack) \in Nat
    BY <1>2, LenProperties, OnTypes
  <2>2. \A i \in 1..Len(low) : i \in 1..Len(s.stack)
    BY <1>2, <2>1
  <2> QED BY <1>2, <1>6, <2>2 DEF Stacked
<1>8. t.sccs[Len(s.sccs) + 1] = scc
  BY <1>5, <1>6 DEF Pushed
<1>9. ~scc.is_cycle => ToSet(high) = {func}
  <2>1. IsFiniteSet(ToSet(high))
    BY <1>3, FS_Interval, FS_Subset
  <2>2. func \in ToSet(high)
    BY <1>2, OnTypes
  <2> QED BY <1>4, <2>1, <2>2, OneOnly
<1>10. On(t) = ToSet(low)
  BY <1>6 DEF On
<1> QED BY <1>2, <1>4, <1>5, <1>6, <1>7, <1>8, <1>9, <1>10 DEF t

-----------------------------------------------------------------------------
(***************************************************************************)
(* The invariant holds after every step.                                   *)
(***************************************************************************)
\* The calls of t are those of s and one of c, which the last of s has come to.
Entered(t, s, c, g) ==
  /\ Len(t.calls) = Len(s.calls) + 1
  /\ t.calls[Len(s.calls) + 1].func = c /\ t.calls[Len(s.calls) + 1].left = g[c]
  /\ \A k \in 1..Len(s.calls) :
       /\ t.calls[k].func = s.calls[k].func /\ t.calls[k].left \subseteq s.calls[k].left
       /\ \A y \in s.calls[k].left : y \in t.calls[k].left \/ (k = Len(s.calls) /\ y = c)
\* c is visited and goes onto the stack.
Enters(t, s, c, g) ==
  /\ t.sccs = s.sccs /\ t.next = s.next + 1
  /\ t.index = [s.index EXCEPT ![c] = s.next] /\ t.lowlink = [s.lowlink EXCEPT ![c] = s.next]
  /\ Pushed(t.stack, s.stack, c) /\ On(t) = On(s) \cup {c}
  /\ Entered(t, s, c, g)

\* A visit of a function keeps the invariant.
LEMMA EntersKeeps ==
  ASSUME NEW n \in Nat, NEW g, IsGraph(g, n), NEW s, SccInv(s, g, n), NEW t \in SccStates(n),
         NEW c \in 1..n, s.index[c] = 0, Enters(t, s, c, g)
  PROVE  SccInv(t, g, n)
<1>1. s \in SccStates(n) /\ Stacked(s) /\ Visited(s, n) /\ Stored(s, g, n) /\ Calling(s, g) /\ Lowest(s)
      /\ Low(s, g) /\ Under(s)
  BY DEF SccInv
<1>2. /\ On(s) \subseteq 1..n /\ \A f \in 1..n : s.index[f] \in Nat /\ s.lowlink[f] \in Nat
      /\ s.next \in Nat \ {0} /\ Len(s.calls) \in Nat /\ Len(s.stack) \in Nat
      /\ \A k \in 1..Len(s.calls) : s.calls[k].func \in 1..n /\ s.calls[k].left \subseteq 1..n
      /\ \A i \in 1..Len(s.stack) : s.stack[i] \in On(s)
  BY <1>1, OnTypes
<1>3. PICK m \in Nat : m = Len(s.calls)
  BY <1>2
<1>4. /\ t.index[c] = s.next /\ t.lowlink[c] = s.next
      /\ \A f \in 1..n : f # c => t.index[f] = s.index[f] /\ t.lowlink[f] = s.lowlink[f]
  BY <1>1 DEF Enters, SccStates
<1>5. t.sccs = s.sccs /\ t.next = s.next + 1 /\ Pushed(t.stack, s.stack, c) /\ On(t) = On(s) \cup {c}
  BY DEF Enters
<1>6. /\ Len(t.calls) = m + 1 /\ t.calls[m + 1].func = c /\ t.calls[m + 1].left = g[c]
      /\ \A k \in 1..m :
           /\ t.calls[k].func = s.calls[k].func /\ t.calls[k].left \subseteq s.calls[k].left
           /\ \A y \in s.calls[k].left : y \in t.calls[k].left \/ (k = m /\ y = c)
  BY <1>3 DEF Enters, Entered
<1>7. c \notin On(s) /\ \A j \in 1..Len(s.sccs) : c \notin s.sccs[j].components
  BY <1>1, <1>2 DEF Visited
<1>8. \A x \in On(s) : x \in 1..n /\ x # c /\ s.index[x] \in Nat /\ s.index[x] > 0 /\ s.index[x] < s.next
                       /\ t.index[x] = s.index[x] /\ t.lowlink[x] = s.lowlink[x] /\ s.lowlink[x] \in Nat
  BY <1>1, <1>2, <1>4, <1>7 DEF Visited
<1>9. \A k \in 1..m : s.calls[k].func \in On(s) /\ s.calls[k].left \subseteq g[s.calls[k].func]
  BY <1>1, <1>3 DEF Calling
<1>10. Stacked(t)
  <2>1. /\ Len(t.stack) = Len(s.stack) + 1 /\ t.stack[Len(s.stack) + 1] = c
        /\ \A i \in 1..Len(s.stack) : t.stack[i] = s.stack[i]
    BY <1>5 DEF Pushed
  <2>2. ASSUME NEW i \in 1..Len(s.stack) + 1, NEW j \in 1..Len(s.stack) + 1, i < j
        PROVE  t.index[t.stack[i]] < t.index[t.stack[j]]
    <3>1. i \in 1..Len(s.stack) /\ (j \in 1..Len(s.stack) \/ j = Len(s.stack) + 1)
      BY <1>2, <2>2
    <3>2. t.index[t.stack[i]] = s.index[s.stack[i]] /\ s.index[s.stack[i]] < s.next
      BY <1>2, <1>8, <2>1, <3>1
    <3>3. CASE j \in 1..Len(s.stack)
      <4>1. s.index[s.stack[i]] < s.index[s.stack[j]] /\ t.index[t.stack[j]] = s.index[s.stack[j]]
        BY <1>1, <1>2, <1>8, <2>1, <2>2, <3>1, <3>3 DEF Stacked
      <4> QED BY <3>2, <4>1
    <3>4. CASE j = Len(s.stack) + 1
      BY <1>4, <2>1, <3>2, <3>4
    <3> QED BY <3>1, <3>3, <3>4
  <2> QED BY <2>1, <2>2 DEF Stacked
<1>11. Visited(t, n)
  <2>1. ASSUME NEW f \in 1..n, f # c
        PROVE  /\ t.index[f] < t.next
               /\ t.index[f] > 0 <=> f \in On(t) \/ \E j \in 1..Len(t.sccs) : f \in t.sccs[j].components
    <3>1. s.index[f] < s.next /\ s.index[f] \in Nat /\ t.index[f] = s.index[f]
      BY <1>1, <1>2, <1>4, <2>1 DEF Visited
    <3>2. s.index[f] > 0 <=> f \in On(s) \/ \E j \in 1..Len(s.sccs) : f \in s.sccs[j].components
      BY <1>1 DEF Visited
    <3> QED BY <1>2, <1>5, <2>1, <3>1, <3>2
  <2>2. t.index[c] < t.next /\ t.index[c] > 0 /\ c \in On(t)
    BY <1>2, <1>4, <1>5
  <2> QED BY <2>1, <2>2 DEF Visited
<1>12. Stored(t, g, n)
  <2>1. \A j \in 1..Len(t.sccs) : \A f \in t.sccs[j].components : f \notin On(t)
    BY <1>1, <1>5, <1>7 DEF Stored
  <2> QED BY <1>1, <1>5, <2>1 DEF Stored
<1>13. Calling(t, g)
  <2>1. ASSUME NEW k \in 1..(m + 1)
        PROVE  t.calls[k].func \in On(t) /\ t.calls[k].left \subseteq g[t.calls[k].func]
    <3>1. k \in 1..m \/ k = m + 1
      BY <1>3
    <3> QED BY <1>5, <1>6, <1>9, <3>1
  <2>2. ASSUME NEW k \in 1..(m + 1), NEW l \in 1..(m + 1), k < l
        PROVE  t.index[t.calls[k].func] < t.index[t.calls[l].func]
    <3>1. k \in 1..m /\ (l \in 1..m \/ l = m + 1)
      BY <1>3, <2>2
    <3>2. t.index[t.calls[k].func] = s.index[s.calls[k].func] /\ s.index[s.calls[k].func] < s.next
      BY <1>6, <1>8, <1>9, <3>1
    <3>3. CASE l \in 1..m
      <4>1. s.index[s.calls[k].func] < s.index[s.calls[l].func]
        BY <1>1, <1>3, <2>2, <3>1, <3>3 DEF Calling
      <4>2. t.index[t.calls[l].func] = s.index[s.calls[l].func]
        BY <1>6, <1>8, <1>9, <3>3
      <4> QED BY <3>2, <4>1, <4>2
    <3>4. CASE l = m + 1
      BY <1>4, <1>6, <3>2, <3>4
    <3> QED BY <3>1, <3>3, <3>4
  <2>3. Len(t.calls) # 0
    BY <1>3, <1>6
  <2> QED BY <1>6, <2>1, <2>2, <2>3 DEF Calling
<1>14. Lowest(t)
  <2>1. 1 \in 1..(m + 1) /\ Len(t.calls) = m + 1 /\ (m = 0 \/ 1 \in 1..m)
    BY <1>3, <1>6
  <2>2. m = 0 => On(s) = {} /\ t.calls[1].func = c
    BY <1>1, <1>3, <1>6 DEF Calling
  <2>3. 1 \in 1..m => t.calls[1].func = s.calls[1].func /\ s.calls[1].func \in On(s)
    BY <1>6, <1>9
  <2>4. ASSUME NEW x \in On(s)
        PROVE  t.lowlink[x] <= t.index[x] /\ t.index[t.calls[1].func] <= t.lowlink[x]
    <3>1. 1 \in 1..m
      BY <2>1, <2>2
    <3>2. s.lowlink[x] <= s.index[x] /\ s.index[s.calls[1].func] <= s.lowlink[x]
      BY <1>1, <1>3, <3>1 DEF Lowest
    <3> QED BY <1>8, <2>3, <3>1, <3>2
  <2>5. t.lowlink[c] <= t.index[c] /\ t.index[t.calls[1].func] <= t.lowlink[c]
    <3>1. t.lowlink[c] <= t.index[c]
      BY <1>2, <1>4
    <3>2. CASE m = 0
      BY <1>2, <1>4, <2>2, <3>2
    <3>3. CASE 1 \in 1..m
      <4>1. t.index[t.calls[1].func] < s.next /\ t.index[t.calls[1].func] \in Nat
        BY <1>8, <2>3, <3>3
      <4> QED BY <1>2, <1>4, <3>1, <4>1
    <3> QED BY <2>1, <3>2, <3>3
  <2> QED BY <1>5, <2>4, <2>5 DEF Lowest
<1>15. Low(t, g)
  <2>1. ASSUME NEW y \in g[c] PROVE Pending(t, c, y)
    <3>1. m + 1 \in 1..Len(t.calls)
      BY <1>3, <1>6
    <3> QED BY <1>6, <2>1, <3>1 DEF Pending
  <2>2. ASSUME NEW x \in On(s), NEW y \in g[x], Pending(s, x, y) PROVE Pending(t, x, y)
    <3>1. PICK k \in 1..m : s.calls[k].func = x
                            /\ (y \in s.calls[k].left \/ (k + 1 \in 1..m /\ y = s.calls[k + 1].func))
      BY <1>3, <2>2 DEF Pending
    <3>2. k \in 1..Len(t.calls) /\ k + 1 \in 1..Len(t.calls) /\ t.calls[k].func = x
      BY <1>3, <1>6, <3>1
    <3>3. CASE y \in s.calls[k].left
      <4>1. y \in t.calls[k].left \/ (k = m /\ y = c)
        BY <1>6, <3>3
      <4>2. (k = m /\ y = c) => y = t.calls[k + 1].func
        BY <1>6
      <4> QED BY <3>2, <4>1, <4>2 DEF Pending
    <3>4. CASE k + 1 \in 1..m /\ y = s.calls[k + 1].func
      <4>1. y = t.calls[k + 1].func
        BY <1>6, <3>4
      <4> QED BY <3>2, <4>1 DEF Pending
    <3> QED BY <3>1, <3>3, <3>4
  <2>3. ASSUME NEW x \in On(s), NEW y \in g[x], s.index[y] > 0, y \in On(s) => s.lowlink[x] <= s.index[y]
        PROVE  t.index[y] > 0 /\ (y \in On(t) => t.lowlink[x] <= t.index[y])
    <3>1. y \in 1..n
      BY <1>8, <2>3 DEF IsGraph
    <3>2. y # c
      BY <2>3
    <3> QED BY <1>4, <1>5, <1>8, <2>3, <3>1, <3>2
  <2>4. ASSUME NEW x \in On(s), NEW y \in g[x]
        PROVE  Pending(t, x, y) \/ (t.index[y] > 0 /\ (y \in On(t) => t.lowlink[x] <= t.index[y]))
    <3>1. Pending(s, x, y) \/ (s.index[y] > 0 /\ (y \in On(s) => s.lowlink[x] <= s.index[y]))
      BY <1>1 DEF Low
    <3> QED BY <2>2, <2>3, <3>1
  <2> QED BY <1>5, <2>1, <2>4 DEF Low
<1>16. Under(t)
  <2>1. ASSUME NEW x \in On(t), \A k \in 1..(m + 1) : t.calls[k].func # x,
               NEW k \in 1..(m + 1), Above(t, k, x)
        PROVE  t.lowlink[t.calls[k].func] <= t.lowlink[x]
    <3>1. m + 1 \in 1..(m + 1) /\ (k \in 1..m \/ k = m + 1)
      BY <1>3
    <3>2. x # c /\ x \in On(s)
      BY <1>5, <1>6, <2>1, <3>1
    <3>3. t.index[t.calls[k].func] < t.index[x] /\ (k + 1 \in 1..(m + 1) => t.index[x] < t.index[t.calls[k + 1].func])
      BY <1>6, <2>1 DEF Above
    <3>4. k # m + 1
      <4>1. t.index[x] < t.index[c]
        BY <1>2, <1>4, <1>8, <3>2
      <4>2. t.index[x] \in Nat /\ t.index[c] \in Nat
        BY <1>2, <1>4, <3>2
      <4>3. k = m + 1 => t.index[c] < t.index[x]
        BY <1>6, <3>3
      <4> QED BY <4>1, <4>2, <4>3
    <3>5. k \in 1..m /\ t.calls[k].func = s.calls[k].func /\ s.calls[k].func \in On(s)
      BY <1>6, <1>9, <3>1, <3>4
    <3>6. \A l \in 1..m : s.calls[l].func # x
      <4>1. \A l \in 1..m : l \in 1..(m + 1)
        BY <1>3
      <4> QED BY <1>6, <2>1, <4>1
    <3>7. k + 1 \in 1..m => s.index[x] < s.index[s.calls[k + 1].func]
      <4>1. SUFFICES ASSUME k + 1 \in 1..m PROVE s.index[x] < s.index[s.calls[k + 1].func]
        OBVIOUS
      <4>2. k + 1 \in 1..(m + 1) /\ t.calls[k + 1].func = s.calls[k + 1].func /\ s.calls[k + 1].func \in On(s)
        BY <1>3, <1>6, <1>9, <4>1
      <4> QED BY <1>8, <3>2, <3>3, <4>2
    <3>8. s.index[s.calls[k].func] < s.index[x]
      BY <1>8, <3>2, <3>3, <3>5
    <3>9. Above(s, k, x)
      BY <1>3, <3>7, <3>8 DEF Above
    <3>10. s.lowlink[s.calls[k].func] <= s.lowlink[x]
      BY <1>1, <1>3, <3>2, <3>5, <3>6, <3>9 DEF Under
    <3> QED BY <1>8, <3>2, <3>5, <3>10
  <2> QED BY <1>6, <2>1 DEF Under
<1> QED BY <1>10, <1>11, <1>12, <1>13, <1>14, <1>15, <1>16 DEF SccInv

\* The innermost call, of func, has come to c, which was visited; its lowlink is lowered
\* to that of a function on the stack, if it is one.
Meets(t, s, func, c) ==
  /\ t.sccs = s.sccs /\ t.next = s.next /\ t.index = s.index /\ t.stack = s.stack
  /\ Len(s.calls) # 0 /\ s.calls[Len(s.calls)].func = func /\ Len(t.calls) = Len(s.calls)
  /\ \A k \in 1..Len(s.calls) :
       /\ t.calls[k].func = s.calls[k].func /\ t.calls[k].left \subseteq s.calls[k].left
       /\ \A y \in s.calls[k].left : y \in t.calls[k].left \/ (k = Len(s.calls) /\ y = c)
  /\ t.lowlink = [s.lowlink EXCEPT ![func] = IF c \in On(s) THEN Smaller(s.lowlink[func], s.index[c])
                                             ELSE s.lowlink[func]]

\* A call that comes to a function that was visited keeps the invariant.
LEMMA MeetsKeeps ==
  ASSUME NEW n \in Nat, NEW g, IsGraph(g, n), NEW s, SccInv(s, g, n), NEW t \in SccStates(n),
         NEW func \in 1..n, NEW c \in 1..n, s.index[c] > 0, Meets(t, s, func, c)
  PROVE  SccInv(t, g, n)
<1>1. s \in SccStates(n) /\ Stacked(s) /\ Visited(s, n) /\ Stored(s, g, n) /\ Calling(s, g) /\ Lowest(s)
      /\ Low(s, g) /\ Under(s)
  BY DEF SccInv
<1>2. /\ On(s) \subseteq 1..n /\ \A f \in 1..n : s.index[f] \in Nat /\ s.lowlink[f] \in Nat
      /\ Len(s.calls) \in Nat
  BY <1>1, OnTypes
<1>3. PICK m \in Nat : m = Len(s.calls) /\ m # 0
  BY <1>2 DEF Meets
<1>4. t.sccs = s.sccs /\ t.next = s.next /\ t.index = s.index /\ t.stack = s.stack /\ On(t) = On(s)
  BY DEF Meets, On
<1>5. /\ Len(t.calls) = m /\ s.calls[m].func = func
      /\ \A k \in 1..m : t.calls[k].func = s.calls[k].func /\ t.calls[k].left \subseteq s.calls[k].left
      /\ \A k \in 1..m : \A y \in s.calls[k].left : y \in t.calls[k].left \/ (k = m /\ y = c)
  BY <1>3 DEF Meets
<1>6. /\ t.lowlink[func] = (IF c \in On(s) THEN Smaller(s.lowlink[func], s.index[c]) ELSE s.lowlink[func])
      /\ \A f \in 1..n : f # func => t.lowlink[f] = s.lowlink[f]
  BY <1>1 DEF Meets, SccStates
<1>7. m \in 1..m /\ 1 \in 1..m
  BY <1>3
<1>8. \A k \in 1..m : s.calls[k].func \in On(s) /\ s.calls[k].left \subseteq g[s.calls[k].func]
  BY <1>1, <1>3 DEF Calling
<1>9. func \in On(s)
  BY <1>5, <1>7, <1>8
<1>10. /\ t.lowlink[func] <= s.lowlink[func] /\ t.lowlink[func] \in Nat
       /\ c \in On(s) => t.lowlink[func] <= s.index[c]
       /\ t.lowlink[func] = s.lowlink[func] \/ (c \in On(s) /\ t.lowlink[func] = s.index[c])
  BY <1>2, <1>6 DEF Smaller
<1>11. \A x \in On(s) : /\ x \in 1..n /\ s.index[x] \in Nat /\ s.lowlink[x] \in Nat
                        /\ t.lowlink[x] \in Nat /\ t.lowlink[x] <= s.lowlink[x]
                        /\ x # func => t.lowlink[x] = s.lowlink[x]
  BY <1>2, <1>6, <1>10
<1>12. Stacked(t) /\ Visited(t, n) /\ Stored(t, g, n)
  BY <1>1, <1>4 DEF Stacked, Visited, Stored
<1>13. Calling(t, g)
  <2>1. \A k \in 1..m : t.calls[k].func \in On(s) /\ t.calls[k].left \subseteq g[t.calls[k].func]
    BY <1>5, <1>8
  <2>2. \A k, l \in 1..m : k < l => t.index[t.calls[k].func] < t.index[t.calls[l].func]
    BY <1>1, <1>3, <1>4, <1>5 DEF Calling
  <2> QED BY <1>3, <1>4, <1>5, <2>1, <2>2 DEF Calling
<1>14. Lowest(t)
  <2>1. t.calls[1].func = s.calls[1].func /\ s.calls[1].func \in On(s)
    BY <1>5, <1>7, <1>8
  <2>2. \A x \in On(s) : s.lowlink[x] <= s.index[x] /\ s.index[s.calls[1].func] <= s.lowlink[x]
    BY <1>1, <1>3, <1>7 DEF Lowest
  <2>3. ASSUME NEW x \in On(s)
        PROVE  t.lowlink[x] <= t.index[x] /\ t.index[t.calls[1].func] <= t.lowlink[x]
    <3>1. t.lowlink[x] <= t.index[x]
      BY <1>4, <1>11, <2>2
    <3>2. CASE t.lowlink[x] = s.lowlink[x]
      BY <1>4, <2>1, <2>2, <3>1, <3>2
    <3>3. CASE x = func /\ c \in On(s) /\ t.lowlink[func] = s.index[c]
      <4>1. s.index[s.calls[1].func] <= s.lowlink[c] /\ s.lowlink[c] <= s.index[c]
        BY <2>2, <3>3
      <4>2. s.index[s.calls[1].func] \in Nat /\ s.index[c] \in Nat /\ s.lowlink[c] \in Nat
        BY <1>11, <2>1, <3>3
      <4>3. s.index[s.calls[1].func] <= s.index[c]
        BY <4>1, <4>2
      <4> QED BY <1>4, <2>1, <3>1, <3>3, <4>3
    <3> QED BY <1>10, <1>11, <3>2, <3>3
  <2> QED BY <1>4, <1>5, <2>3 DEF Lowest
<1>15. Low(t, g)
  <2>1. ASSUME NEW x \in On(s), NEW y \in g[x]
        PROVE  Pending(t, x, y) \/ (t.index[y] > 0 /\ (y \in On(t) => t.lowlink[x] <= t.index[y]))
    <3>1. y \in 1..n /\ s.index[y] \in Nat
      BY <1>2, <1>11, <2>1 DEF IsGraph
    <3>2. CASE s.index[y] > 0 /\ (y \in On(s) => s.lowlink[x] <= s.index[y])
      <4>1. y \in On(t) => t.lowlink[x] <= t.index[y]
        BY <1>4, <1>11, <3>1, <3>2
      <4> QED BY <1>4, <3>2, <4>1
    <3>3. CASE Pending(s, x, y)
      <4>1. PICK k \in 1..m : s.calls[k].func = x
                              /\ (y \in s.calls[k].left \/ (k + 1 \in 1..m /\ y = s.calls[k + 1].func))
        BY <1>3, <3>3 DEF Pending
      <4>2. k \in 1..Len(t.calls) /\ t.calls[k].func = x
        BY <1>5, <4>1
      <4>3. CASE k + 1 \in 1..m /\ y = s.calls[k + 1].func
        <5>1. k + 1 \in 1..Len(t.calls) /\ y = t.calls[k + 1].func
          BY <1>5, <4>3
        <5> QED BY <4>2, <5>1 DEF Pending
      <4>4. CASE y \in t.calls[k].left
        BY <4>2, <4>4 DEF Pending
      <4>5. CASE k = m /\ y = c
        <5>1. x = func
          BY <1>5, <4>1, <4>5
        <5> QED BY <1>4, <1>10, <4>5, <5>1
      <4> QED BY <1>5, <4>1, <4>3, <4>4, <4>5
    <3> QED BY <1>1, <3>2, <3>3 DEF Low
  <2> QED BY <1>4, <2>1 DEF Low
<1>16. Under(t)
  <2>1. ASSUME NEW x \in On(s), \A k \in 1..m : t.calls[k].func # x, NEW k \in 1..m, Above(t, k, x)
        PROVE  t.lowlink[t.calls[k].func] <= t.lowlink[x]
    <3>1. \A l \in 1..m : s.calls[l].func # x
      BY <1>5, <2>1
    <3>2. Above(s, k, x)
      <4>1. s.index[s.calls[k].func] < s.index[x]
        BY <1>4, <1>5, <2>1 DEF Above
      <4>2. k + 1 \in 1..m => s.index[x] < s.index[s.calls[k + 1].func]
        BY <1>4, <1>5, <2>1 DEF Above
      <4> QED BY <1>3, <4>1, <4>2 DEF Above
    <3>3. s.lowlink[s.calls[k].func] <= s.lowlink[x]
      BY <1>1, <1>3, <2>1, <3>1, <3>2 DEF Under
    <3>4. x # func /\ t.lowlink[x] = s.lowlink[x]
      BY <1>5, <1>7, <1>11, <3>1
    <3>5. t.calls[k].func = s.calls[k].func /\ s.calls[k].func \in On(s)
      BY <1>5, <1>8
    <3> QED BY <1>11, <3>3, <3>4, <3>5
  <2> QED BY <1>4, <1>5, <2>1 DEF Under
<1> QED BY <1>12, <1>13, <1>14, <1>15, <1>16 DEF SccInv

\* The innermost call, of func, has returned: what stands on the stack from func on is a
\* component if func is its own lowest, and the call it returns to is as low as func.
Leaves(t, s, g, func) ==
  /\ t.next = s.next /\ t.index = s.index
  /\ Len(s.calls) # 0 /\ s.calls[Len(s.calls)].func = func /\ s.calls[Len(s.calls)].left = {}
  /\ Popped(t.calls, s.calls)
  /\ IF s.lowlink[func] = s.index[func]
     THEN /\ Stacked(t) /\ On(t) = {x \in On(s) : s.index[x] < s.index[func]}
          /\ Pushed(t.sccs, s.sccs, t.sccs[Len(s.sccs) + 1])
          /\ t.sccs[Len(s.sccs) + 1].components = {x \in On(s) : s.index[func] <= s.index[x]}
          /\ ~t.sccs[Len(s.sccs) + 1].is_cycle =>
               t.sccs[Len(s.sccs) + 1].components = {func} /\ func \notin g[func]
     ELSE t.stack = s.stack /\ t.sccs = s.sccs
  /\ t.lowlink = IF Len(s.calls) = 1 THEN s.lowlink
                 ELSE [s.lowlink EXCEPT ![s.calls[Len(s.calls) - 1].func] =
                         Smaller(s.lowlink[s.calls[Len(s.calls) - 1].func], s.lowlink[func])]

\* The same of t, s and the number of calls, component or not.
Left(t, s, func, m, n) ==
  /\ \A k \in 1..(m - 1) :
       t.calls[k] = s.calls[k] /\ s.calls[k].func \in On(s) /\ s.index[s.calls[k].func] < s.index[func]
  /\ \A x \in On(s) : /\ x \in 1..n /\ s.index[x] \in Nat /\ s.lowlink[x] \in Nat /\ t.lowlink[x] \in Nat
                      /\ t.lowlink[x] <= s.lowlink[x]
                      /\ (\A k \in 1..(m - 1) : s.calls[k].func # x) => t.lowlink[x] = s.lowlink[x]
                      /\ t.lowlink[x] = s.lowlink[x] \/ t.lowlink[x] = s.lowlink[func]
  /\ m - 1 \in 1..(m - 1) => t.lowlink[s.calls[m - 1].func] <= s.lowlink[func]
  /\ \A x \in On(s) : s.index[func] < s.index[x] =>
       (\A k \in 1..m : s.calls[k].func # x) /\ s.lowlink[func] <= s.lowlink[x]

\* A number that is not zero is one, or is more than one.
LEMMA OneOrMore ==
  ASSUME NEW m \in Nat, m # 0
  PROVE  (m = 1 /\ ~(m - 1 \in 1..(m - 1))) \/ (m # 1 /\ m - 1 \in 1..(m - 1))
<1>1. CASE m = 1
  BY <1>1
<1>2. CASE m # 1
  <2>1. m - 1 \in 1..(m - 1)
    BY <1>2
  <2> QED BY <1>2, <2>1
<1> QED BY <1>1, <1>2

\* What can be said when the innermost call returns.
LEMMA LeavesFacts ==
  ASSUME NEW n \in Nat, NEW g, IsGraph(g, n), NEW s, SccInv(s, g, n), NEW t \in SccStates(n),
         NEW func \in 1..n, Leaves(t, s, g, func), NEW m \in Nat, m = Len(s.calls)
  PROVE  /\ func \in On(s) /\ On(t) \subseteq On(s) /\ m # 0 /\ Len(t.calls) = m - 1 /\ s.calls[m].func = func
         /\ Left(t, s, func, m, n)
<1>1. s \in SccStates(n) /\ Calling(s, g) /\ Under(s)
  BY DEF SccInv
<1>2. /\ On(s) \subseteq 1..n /\ \A f \in 1..n : s.index[f] \in Nat /\ s.lowlink[f] \in Nat
      /\ Len(s.calls) \in Nat
  BY <1>1, OnTypes
<1>3. m = Len(s.calls) /\ m # 0
  BY <1>2 DEF Leaves
<1>4. m \in 1..m /\ 1 \in 1..m /\ \A k \in 1..(m - 1) : k \in 1..m /\ k < m
  BY <1>3
<1>5. s.calls[m].func = func /\ Len(t.calls) = m - 1 /\ \A k \in 1..(m - 1) : t.calls[k] = s.calls[k]
  BY <1>3 DEF Leaves, Popped
<1>6. \A k \in 1..m : s.calls[k].func \in On(s)
  BY <1>1, <1>3 DEF Calling
<1>7. func \in On(s)
  BY <1>4, <1>5, <1>6
<1>8. On(t) \subseteq On(s)
  BY DEF Leaves, On
<1>9. \A k \in 1..(m - 1) : s.index[s.calls[k].func] < s.index[func]
  <2>1. \A k, l \in 1..m : k < l => s.index[s.calls[k].func] < s.index[s.calls[l].func]
    BY <1>1, <1>3 DEF Calling
  <2> QED BY <1>4, <1>5, <2>1
<1>10. m - 1 \in 1..(m - 1) \/ m = 1
  BY <1>3, OneOrMore
<1>11. CASE m = 1
  <2>1. t.lowlink = s.lowlink /\ ~(m - 1 \in 1..(m - 1))
    BY <1>3, <1>11 DEF Leaves
  <2>2. ASSUME NEW x \in On(s), s.index[func] < s.index[x]
        PROVE  (\A k \in 1..m : s.calls[k].func # x) /\ s.lowlink[func] <= s.lowlink[x]
    <3>1. \A k \in 1..m : k = m
      BY <1>11
    <3>2. s.index[func] \in Nat
      BY <1>2, <1>7
    <3>3. \A k \in 1..m : s.calls[k].func # x
      BY <1>5, <2>2, <3>1, <3>2
    <3>4. Above(s, m, x)
      BY <1>3, <1>5, <2>2 DEF Above
    <3> QED BY <1>1, <1>3, <1>4, <1>5, <3>3, <3>4 DEF Under
  <2>3. \A x \in On(s) : /\ x \in 1..n /\ s.index[x] \in Nat /\ s.lowlink[x] \in Nat /\ t.lowlink[x] \in Nat
                         /\ t.lowlink[x] <= s.lowlink[x] /\ t.lowlink[x] = s.lowlink[x]
    BY <1>2, <2>1
  <2>4. \A k \in 1..(m - 1) : t.calls[k] = s.calls[k] /\ s.calls[k].func \in On(s)
                              /\ s.index[s.calls[k].func] < s.index[func]
    BY <1>4, <1>5, <1>6, <1>9
  <2>5. Left(t, s, func, m, n)
    BY <2>1, <2>2, <2>3, <2>4 DEF Left
  <2> QED BY <1>3, <1>5, <1>7, <1>8, <2>5
<1>12. CASE m - 1 \in 1..(m - 1)
  <2> DEFINE back == s.calls[m - 1].func
  <2>1. back \in On(s) /\ back \in 1..n
    BY <1>2, <1>4, <1>6, <1>12
  <2>2. /\ t.lowlink[back] = Smaller(s.lowlink[back], s.lowlink[func])
        /\ \A f \in 1..n : f # back => t.lowlink[f] = s.lowlink[f]
    <3>1. m # 1
      BY <1>3, <1>12, OneOrMore
    <3>2. t.lowlink = [s.lowlink EXCEPT ![back] = Smaller(s.lowlink[back], s.lowlink[func])]
      BY <1>3, <3>1 DEF Leaves
    <3>3. s.lowlink \in [1..n -> Nat]
      BY <1>1 DEF SccStates
    <3> QED BY <2>1, <3>2, <3>3
  <2>3. /\ t.lowlink[back] \in Nat /\ t.lowlink[back] <= s.lowlink[back] /\ t.lowlink[back] <= s.lowlink[func]
        /\ t.lowlink[back] = s.lowlink[back] \/ t.lowlink[back] = s.lowlink[func]
    BY <1>2, <2>1, <2>2 DEF Smaller
  <2>4. \A x \in On(s) : /\ x \in 1..n /\ s.index[x] \in Nat /\ s.lowlink[x] \in Nat /\ t.lowlink[x] \in Nat
                         /\ t.lowlink[x] <= s.lowlink[x]
                         /\ (\A k \in 1..(m - 1) : s.calls[k].func # x) => t.lowlink[x] = s.lowlink[x]
                         /\ t.lowlink[x] = s.lowlink[x] \/ t.lowlink[x] = s.lowlink[func]
    <3>1. ASSUME NEW x \in On(s)
          PROVE  /\ x \in 1..n /\ s.index[x] \in Nat /\ s.lowlink[x] \in Nat /\ t.lowlink[x] \in Nat
                 /\ t.lowlink[x] <= s.lowlink[x]
                 /\ (\A k \in 1..(m - 1) : s.calls[k].func # x) => t.lowlink[x] = s.lowlink[x]
                 /\ t.lowlink[x] = s.lowlink[x] \/ t.lowlink[x] = s.lowlink[func]
      <4>1. x \in 1..n /\ s.index[x] \in Nat /\ s.lowlink[x] \in Nat
        BY <1>2
      <4>2. CASE x = back
        <5>1. ~(\A k \in 1..(m - 1) : s.calls[k].func # x)
          BY <1>12, <4>2
        <5> QED BY <2>3, <4>1, <4>2, <5>1
      <4>3. CASE x # back
        BY <2>2, <4>1, <4>3
      <4> QED BY <4>2, <4>3
    <3> QED BY <3>1
  <2>5. ASSUME NEW x \in On(s), s.index[func] < s.index[x]
        PROVE  (\A k \in 1..m : s.calls[k].func # x) /\ s.lowlink[func] <= s.lowlink[x]
    <3>1. \A k \in 1..m : k \in 1..(m - 1) \/ k = m
      OBVIOUS
    <3>2. s.index[func] \in Nat /\ s.index[x] \in Nat
      BY <1>2, <1>7
    <3>3. \A k \in 1..m : s.calls[k].func # x
      <4>1. ASSUME NEW k \in 1..m, s.calls[k].func = x PROVE FALSE
        <5>1. CASE k \in 1..(m - 1)
          <6>1. s.index[x] < s.index[func]
            BY <1>9, <4>1, <5>1
          <6> QED BY <2>5, <3>2, <6>1
        <5>2. CASE k = m
          BY <1>5, <2>5, <3>2, <4>1, <5>2
        <5> QED BY <3>1, <5>1, <5>2
      <4> QED BY <4>1
    <3>4. Above(s, m, x)
      BY <1>3, <1>5, <2>5 DEF Above
    <3> QED BY <1>1, <1>3, <1>4, <1>5, <3>3, <3>4 DEF Under
  <2>6. \A k \in 1..(m - 1) : t.calls[k] = s.calls[k] /\ s.calls[k].func \in On(s)
                              /\ s.index[s.calls[k].func] < s.index[func]
    BY <1>4, <1>5, <1>6, <1>9
  <2>7. Left(t, s, func, m, n)
    BY <2>3, <2>4, <2>5, <2>6 DEF Left
  <2> QED BY <1>3, <1>5, <1>7, <1>8, <2>7
<1> QED BY <1>10, <1>11, <1>12

\* A call that returns keeps the invariant.
LEMMA LeavesKeeps ==
  ASSUME NEW n \in Nat, NEW g, IsGraph(g, n), NEW s, SccInv(s, g, n), NEW t \in SccStates(n),
         NEW func \in 1..n, Leaves(t, s, g, func)
  PROVE  SccInv(t, g, n)
<1>1. s \in SccStates(n) /\ Stacked(s) /\ Visited(s, n) /\ Stored(s, g, n) /\ Calling(s, g) /\ Lowest(s)
      /\ Low(s, g) /\ Under(s)
  BY DEF SccInv
<1>2. PICK m \in Nat : m = Len(s.calls)
  BY <1>1, OnTypes
<1>3. /\ func \in On(s) /\ On(t) \subseteq On(s) /\ m # 0 /\ Len(t.calls) = m - 1 /\ s.calls[m].func = func
      /\ Left(t, s, func, m, n)
  BY <1>2, LeavesFacts
<1>4. \A k \in 1..(m - 1) :
        t.calls[k] = s.calls[k] /\ s.calls[k].func \in On(s) /\ s.index[s.calls[k].func] < s.index[func]
  BY <1>3 DEF Left
<1>5. \A x \in On(s) : /\ x \in 1..n /\ s.index[x] \in Nat /\ s.lowlink[x] \in Nat /\ t.lowlink[x] \in Nat
                       /\ t.lowlink[x] <= s.lowlink[x]
                       /\ (\A k \in 1..(m - 1) : s.calls[k].func # x) => t.lowlink[x] = s.lowlink[x]
                       /\ t.lowlink[x] = s.lowlink[x] \/ t.lowlink[x] = s.lowlink[func]
  BY <1>3 DEF Left
<1>6. m - 1 \in 1..(m - 1) => t.lowlink[s.calls[m - 1].func] <= s.lowlink[func]
  BY <1>3 DEF Left
<1>7. \A x \in On(s) : s.index[func] < s.index[x] =>
        (\A k \in 1..m : s.calls[k].func # x) /\ s.lowlink[func] <= s.lowlink[x]
  BY <1>3 DEF Left
<1>8. t.next = s.next /\ t.index = s.index /\ s.calls[m].left = {}
  BY <1>2 DEF Leaves
<1>9. 1 \in 1..m /\ m \in 1..m /\ (m = 1 \/ m - 1 \in 1..(m - 1)) /\ ~(m + 1 \in 1..m)
      /\ (m # 1 => 1 \in 1..(m - 1)) /\ \A k \in 1..m : k \in 1..(m - 1) \/ k = m
  <2>1. m = 1 \/ m - 1 \in 1..(m - 1)
    BY <1>3, OneOrMore
  <2> QED BY <1>3, <2>1
<1>10. \A x \in On(s) : s.lowlink[x] <= s.index[x] /\ s.index[s.calls[1].func] <= s.lowlink[x]
  BY <1>1, <1>2, <1>9 DEF Lowest
<1>11. \A k \in 1..(m - 1) : k + 1 \in 1..(m - 1) \/ k + 1 = m
  BY <1>9
<1>12. ASSUME NEW y, Pending(s, func, y) PROVE FALSE
  <2>1. PICK k \in 1..m : s.calls[k].func = func
                          /\ (y \in s.calls[k].left \/ (k + 1 \in 1..m /\ y = s.calls[k + 1].func))
    BY <1>2, <1>12 DEF Pending
  <2>2. CASE k = m
    BY <1>8, <1>9, <2>1, <2>2
  <2>3. CASE k \in 1..(m - 1)
    BY <1>3, <1>4, <1>5, <2>1, <2>3
  <2> QED BY <1>9, <2>1, <2>2, <2>3
<1>13. ASSUME NEW x \in On(s), NEW y, Pending(s, x, y), x # func
       PROVE  Pending(t, x, y) \/ (m - 1 \in 1..(m - 1) /\ x = s.calls[m - 1].func /\ y = func)
  <2>1. PICK k \in 1..m : s.calls[k].func = x
                          /\ (y \in s.calls[k].left \/ (k + 1 \in 1..m /\ y = s.calls[k + 1].func))
    BY <1>2, <1>13 DEF Pending
  <2>2. k \in 1..(m - 1)
    BY <1>3, <1>9, <1>13, <2>1
  <2>3. k \in 1..Len(t.calls) /\ t.calls[k] = s.calls[k]
    BY <1>3, <1>4, <2>2
  <2>4. CASE y \in s.calls[k].left
    BY <2>1, <2>3, <2>4 DEF Pending
  <2>5. CASE k + 1 \in 1..(m - 1) /\ y = s.calls[k + 1].func
    <3>1. k + 1 \in 1..Len(t.calls) /\ t.calls[k + 1] = s.calls[k + 1]
      BY <1>3, <1>4, <2>5
    <3> QED BY <2>1, <2>3, <2>5, <3>1 DEF Pending
  <2>6. CASE k + 1 = m /\ y = s.calls[k + 1].func
    <3>1. k = m - 1
      BY <2>2, <2>6
    <3> QED BY <1>3, <2>1, <2>2, <2>6, <3>1
  <2> QED BY <1>11, <2>1, <2>2, <2>4, <2>5, <2>6
<1>14. Lowest(t)
  <2>1. ASSUME NEW x \in On(t)
        PROVE  /\ t.lowlink[x] <= t.index[x]
               /\ 1 \in 1..(m - 1) => t.index[t.calls[1].func] <= t.lowlink[x]
    <3>1. x \in On(s) /\ s.index[x] \in Nat /\ s.lowlink[x] \in Nat /\ t.lowlink[x] \in Nat
          /\ t.lowlink[x] <= s.lowlink[x] /\ s.lowlink[x] <= s.index[x]
      BY <1>3, <1>5, <1>10
    <3>2. s.index[s.calls[1].func] <= s.lowlink[x] /\ s.index[s.calls[1].func] <= s.lowlink[func]
      BY <1>3, <1>10, <3>1
    <3>3. t.lowlink[x] = s.lowlink[x] \/ t.lowlink[x] = s.lowlink[func]
      BY <1>5, <3>1
    <3>4. 1 \in 1..(m - 1) => t.calls[1] = s.calls[1]
      BY <1>4
    <3> QED BY <1>8, <3>1, <3>2, <3>3, <3>4
  <2> QED BY <1>3, <2>1 DEF Lowest
<1>15. ASSUME NEW k \in 1..(m - 1), NEW l \in 1..(m - 1), k < l
       PROVE  t.index[t.calls[k].func] < t.index[t.calls[l].func]
  <2>1. k \in 1..m /\ l \in 1..m
    OBVIOUS
  <2> QED BY <1>1, <1>2, <1>4, <1>8, <1>15, <2>1 DEF Calling
<1>16. \A k \in 1..(m - 1) : t.calls[k].left \subseteq g[t.calls[k].func]
  <2>1. \A k \in 1..(m - 1) : k \in 1..m
    OBVIOUS
  <2> QED BY <1>1, <1>2, <1>4, <2>1 DEF Calling
<1>17. ASSUME NEW x \in On(s), NEW k \in 1..(m - 1), \A l \in 1..(m - 1) : t.calls[l].func # x,
              Above(t, k, x), x # func, k + 1 \in 1..(m - 1) \/ s.index[x] < s.index[func]
       PROVE  t.lowlink[t.calls[k].func] <= t.lowlink[x]
  <2>1. \A l \in 1..(m - 1) : s.calls[l].func # x
    BY <1>4, <1>17
  <2>2. \A l \in 1..m : s.calls[l].func # x
    BY <1>3, <1>9, <1>17, <2>1
  <2>3. s.index[s.calls[k].func] < s.index[x]
    BY <1>4, <1>8, <1>17 DEF Above
  <2>4. k + 1 \in 1..m => s.index[x] < s.index[s.calls[k + 1].func]
    <3>1. CASE k + 1 \in 1..(m - 1)
      BY <1>3, <1>4, <1>8, <1>17, <3>1 DEF Above
    <3>2. CASE k + 1 = m /\ ~(k + 1 \in 1..(m - 1))
      BY <1>3, <1>17, <3>2
    <3> QED BY <1>11, <3>1, <3>2
  <2>5. Above(s, k, x) /\ k \in 1..m
    BY <1>2, <2>3, <2>4 DEF Above
  <2>6. s.lowlink[s.calls[k].func] <= s.lowlink[x]
    BY <1>1, <1>2, <2>2, <2>5 DEF Under
  <2>7. t.lowlink[x] = s.lowlink[x] /\ t.calls[k] = s.calls[k] /\ s.calls[k].func \in On(s)
    BY <1>4, <1>5, <2>1
  <2>8. s.lowlink[x] \in Nat /\ s.lowlink[s.calls[k].func] \in Nat /\ t.lowlink[s.calls[k].func] \in Nat
        /\ t.lowlink[s.calls[k].func] <= s.lowlink[s.calls[k].func]
    BY <1>5, <2>7
  <2> QED BY <2>6, <2>7, <2>8
<1>18. CASE s.lowlink[func] # s.index[func]
  <2>1. t.stack = s.stack /\ t.sccs = s.sccs /\ On(t) = On(s)
    BY <1>18 DEF Leaves, On
  <2>2. Stacked(t) /\ Visited(t, n) /\ Stored(t, g, n)
    BY <1>1, <1>8, <2>1 DEF Stacked, Visited, Stored
  <2>3. m # 1
    <3>1. SUFFICES ASSUME m = 1 PROVE FALSE
      OBVIOUS
    <3>2. s.index[func] <= s.lowlink[func] /\ s.lowlink[func] <= s.index[func]
      BY <1>3, <1>10, <3>1
    <3> QED BY <1>3, <1>5, <1>18, <3>2
  <2>4. Calling(t, g)
    <3>1. m - 1 # 0
      BY <1>3, <2>3
    <3>2. \A k \in 1..(m - 1) : t.calls[k].func \in On(t)
      BY <1>4, <2>1
    <3> QED BY <1>3, <1>15, <1>16, <3>1, <3>2 DEF Calling
  <2>5. Low(t, g)
    <3>1. ASSUME NEW x \in On(s), NEW y \in g[x]
          PROVE  Pending(t, x, y) \/ (t.index[y] > 0 /\ (y \in On(t) => t.lowlink[x] <= t.index[y]))
      <4>1. CASE s.index[y] > 0 /\ (y \in On(s) => s.lowlink[x] <= s.index[y])
        <5>1. y \in On(s) => t.lowlink[x] <= s.index[y]
          BY <1>5, <4>1
        <5> QED BY <1>8, <2>1, <4>1, <5>1
      <4>2. CASE Pending(s, x, y) /\ m - 1 \in 1..(m - 1) /\ x = s.calls[m - 1].func /\ y = func
        <5>1. t.lowlink[x] <= s.lowlink[func] /\ s.lowlink[func] <= s.index[func]
          BY <1>3, <1>6, <1>10, <4>2
        <5>2. t.lowlink[x] \in Nat /\ s.lowlink[func] \in Nat /\ s.index[func] \in Nat
          BY <1>3, <1>5
        <5>3. s.index[func] > 0
          BY <1>1, <1>3, <1>5 DEF Visited
        <5> QED BY <1>8, <4>2, <5>1, <5>2, <5>3
      <4> QED BY <1>1, <1>12, <1>13, <4>1, <4>2 DEF Low
    <3> QED BY <2>1, <3>1 DEF Low
  <2>6. Under(t)
    <3>1. ASSUME NEW x \in On(s), \A l \in 1..(m - 1) : t.calls[l].func # x, NEW k \in 1..(m - 1), Above(t, k, x)
          PROVE  t.lowlink[t.calls[k].func] <= t.lowlink[x]
      <4>1. CASE k + 1 \in 1..(m - 1)
        <5>1. s.index[x] < s.index[s.calls[k + 1].func] /\ s.index[s.calls[k + 1].func] < s.index[func]
          BY <1>3, <1>4, <1>8, <3>1, <4>1 DEF Above
        <5>2. s.calls[k + 1].func \in On(s)
          BY <1>4, <4>1
        <5>3. s.index[x] \in Nat /\ s.index[func] \in Nat /\ s.index[s.calls[k + 1].func] \in Nat
          BY <1>3, <1>5, <5>2
        <5>4. x # func
          BY <5>1, <5>3
        <5> QED BY <1>17, <3>1, <4>1, <5>4
      <4>2. CASE k + 1 = m
        <5>1. s.index[x] \in Nat /\ s.index[func] \in Nat /\ s.lowlink[func] \in Nat /\ s.lowlink[x] \in Nat
          BY <1>3, <1>5
        <5>2. CASE s.index[x] < s.index[func]
          <6>1. x # func
            BY <5>1, <5>2
          <6> QED BY <1>17, <3>1, <5>2, <6>1
        <5>3. CASE ~(s.index[x] < s.index[func])
          <6>1. k = m - 1 /\ t.calls[k] = s.calls[k] /\ s.calls[k].func \in On(s)
            BY <1>4, <4>2
          <6>2. t.lowlink[s.calls[k].func] <= s.lowlink[func] /\ t.lowlink[s.calls[k].func] \in Nat
            BY <1>5, <1>6, <6>1
          <6>3. \A l \in 1..(m - 1) : s.calls[l].func # x
            BY <1>4, <3>1
          <6>4. t.lowlink[x] = s.lowlink[x]
            BY <1>5, <6>3
          <6>5. CASE s.index[x] = s.index[func]
            <7>1. x = func
              BY <1>1, <1>3, <6>5, StackDistinct
            <7> QED BY <6>1, <6>2, <6>4, <7>1
          <6>6. CASE s.index[func] < s.index[x]
            <7>1. s.lowlink[func] <= s.lowlink[x]
              BY <1>7, <6>6
            <7> QED BY <5>1, <6>1, <6>2, <6>4, <7>1
          <6> QED BY <5>1, <5>3, <6>5, <6>6
        <5> QED BY <5>2, <5>3
      <4> QED BY <1>11, <4>1, <4>2
    <3> QED BY <1>3, <2>1, <3>1 DEF Under
  <2> QED BY <1>14, <2>2, <2>4, <2>5, <2>6 DEF SccInv
<1>19. CASE s.lowlink[func] = s.index[func]
  <2> DEFINE scc == {x \in On(s) : s.index[func] <= s.index[x]}
             p == Len(s.sccs)
  <2>1. /\ Stacked(t) /\ On(t) = {x \in On(s) : s.index[x] < s.index[func]}
        /\ Len(t.sccs) = p + 1 /\ t.sccs[p + 1].components = scc
        /\ \A j \in 1..p : t.sccs[j] = s.sccs[j]
        /\ ~t.sccs[p + 1].is_cycle => t.sccs[p + 1].components = {func} /\ func \notin g[func]
    BY <1>19 DEF Leaves, Pushed
  <2>2. p \in Nat
    BY <1>1, OnTypes
  <2> HIDE DEF scc, p
  <2>3. On(s) = On(t) \cup scc /\ On(t) \cap scc = {}
    <3>1. s.index[func] \in Nat /\ \A x \in On(s) : s.index[x] \in Nat
      BY <1>3, <1>5
    <3>2. \A x \in On(s) : s.index[x] < s.index[func] <=> ~(s.index[func] <= s.index[x])
      BY <3>1
    <3> QED BY <2>1, <3>2 DEF scc
  <2>4. /\ \A j \in 1..p : \A f \in s.sccs[j].components : f \notin On(s)
        /\ Apart(s.sccs) /\ Downward(s.sccs, g) /\ Cyclic(s.sccs, g, n)
    BY <1>1 DEF Stored, p
  <2>5. p + 1 \in 1..(p + 1) /\ \A j \in 1..(p + 1) : j \in 1..p \/ j = p + 1
    BY <2>2
  <2>6. Visited(t, n)
    <3>1. ASSUME NEW f \in 1..n
          PROVE  t.index[f] > 0 <=> f \in On(t) \/ \E j \in 1..(p + 1) : f \in t.sccs[j].components
      <4>1. s.index[f] > 0 <=> f \in On(s) \/ \E j \in 1..p : f \in s.sccs[j].components
        BY <1>1 DEF Visited, p
      <4>2. (\E j \in 1..(p + 1) : f \in t.sccs[j].components)
              <=> f \in scc \/ \E j \in 1..p : f \in s.sccs[j].components
        <5>1. \A j \in 1..p : j \in 1..(p + 1)
          BY <2>2
        <5> QED BY <2>1, <2>5, <5>1
      <4> QED BY <1>8, <2>3, <4>1, <4>2
    <3>2. \A f \in 1..n : t.index[f] < t.next
      BY <1>1, <1>8 DEF Visited
    <3> QED BY <2>1, <3>1, <3>2 DEF Visited
  <2>7. ASSUME NEW f \in scc, NEW c \in g[f]
        PROVE  c \in scc \/ \E i \in 1..p : c \in s.sccs[i].components
    <3>1. f \in On(s) /\ s.index[func] <= s.index[f] /\ s.index[f] \in Nat /\ s.index[func] \in Nat
          /\ s.lowlink[func] \in Nat /\ s.lowlink[f] \in Nat /\ f \in 1..n
      BY <1>3, <1>5 DEF scc
    <3>2. f = func \/ s.index[func] < s.index[f]
      BY <1>1, <1>3, <3>1, StackDistinct
    <3>3. ~Pending(s, f, c)
      <4>1. CASE f = func
        BY <1>12, <4>1
      <4>2. CASE s.index[func] < s.index[f]
        <5>1. \A k \in 1..m : s.calls[k].func # f
          BY <1>7, <3>1, <4>2
        <5> QED BY <1>2, <5>1 DEF Pending
      <4> QED BY <3>2, <4>1, <4>2
    <3>4. s.index[c] > 0 /\ (c \in On(s) => s.lowlink[f] <= s.index[c])
      BY <1>1, <3>1, <3>3 DEF Low
    <3>5. s.index[func] <= s.lowlink[f]
      BY <1>7, <1>19, <3>1, <3>2
    <3>6. c \in 1..n
      BY <3>1, <2>7 DEF IsGraph
    <3>7. CASE c \in On(s)
      <4>1. s.index[c] \in Nat /\ s.lowlink[f] <= s.index[c]
        BY <1>5, <3>4, <3>7
      <4>2. s.index[func] <= s.index[c]
        BY <3>1, <3>5, <4>1
      <4> QED BY <3>7, <4>2 DEF scc
    <3>8. CASE c \notin On(s)
      BY <1>1, <3>4, <3>6, <3>8 DEF Visited, p
    <3> QED BY <3>7, <3>8
  <2>8. Stored(t, g, n)
    <3>1. \A j \in 1..(p + 1) : \A f \in t.sccs[j].components : f \notin On(t)
      BY <2>1, <2>3, <2>4, <2>5
    <3>2. \A j \in 1..p : \A f \in t.sccs[j].components : f \notin scc
      BY <2>1, <2>3, <2>4
    <3>3. Apart(t.sccs)
      <4>1. ASSUME NEW j \in 1..(p + 1), NEW k \in 1..(p + 1), NEW f \in t.sccs[j].components,
                   f \in t.sccs[k].components
            PROVE  j = k
        <5>1. CASE j \in 1..p /\ k \in 1..p
          BY <2>1, <2>4, <4>1, <5>1 DEF Apart, p
        <5> QED BY <2>1, <2>5, <3>2, <4>1, <5>1
      <4> QED BY <2>1, <4>1 DEF Apart
    <3>4. Downward(t.sccs, g)
      <4>1. ASSUME NEW j \in 1..(p + 1), NEW f \in t.sccs[j].components, NEW c \in g[f]
            PROVE  \E i \in 1..j : c \in t.sccs[i].components
        <5>1. CASE j \in 1..p
          <6>1. PICK i \in 1..j : c \in s.sccs[i].components
            BY <2>1, <2>4, <4>1, <5>1 DEF Downward, p
          <6>2. i \in 1..p
            BY <2>2, <5>1
          <6> QED BY <2>1, <6>1, <6>2
        <5>2. CASE j = p + 1
          <6>1. c \in scc \/ \E i \in 1..p : c \in s.sccs[i].components
            BY <2>1, <2>7, <4>1, <5>2
          <6>2. \A i \in 1..p : i \in 1..j
            BY <2>2, <5>2
          <6> QED BY <2>1, <2>5, <5>2, <6>1, <6>2
        <5> QED BY <2>5, <5>1, <5>2
      <4> QED BY <2>1, <4>1 DEF Downward
    <3>5. Cyclic(t.sccs, g, n)
      <4>1. ASSUME NEW j \in 1..(p + 1), ~t.sccs[j].is_cycle
            PROVE  \E f \in 1..n : t.sccs[j].components = {f} /\ f \notin g[f]
        <5>1. CASE j \in 1..p
          BY <2>1, <2>4, <4>1, <5>1 DEF Cyclic, p
        <5>2. CASE j = p + 1
          BY <2>1, <4>1, <5>2
        <5> QED BY <2>5, <5>1, <5>2
      <4> QED BY <2>1, <4>1 DEF Cyclic
    <3> QED BY <2>1, <3>1, <3>3, <3>4, <3>5 DEF Stored
  <2>9. Calling(t, g)
    <3>1. \A k \in 1..(m - 1) : t.calls[k].func \in On(t)
      BY <1>4, <2>1
    <3>2. m - 1 = 0 => On(t) = {}
      <4>1. SUFFICES ASSUME m = 1, NEW x \in On(t) PROVE FALSE
        BY <1>3
      <4>2. s.index[func] <= s.lowlink[x] /\ s.lowlink[x] <= s.index[x] /\ s.index[x] < s.index[func]
        BY <1>3, <1>10, <2>1, <4>1
      <4>3. s.index[func] \in Nat /\ s.lowlink[x] \in Nat /\ s.index[x] \in Nat
        BY <1>3, <1>5, <4>1
      <4> QED BY <4>2, <4>3
    <3> QED BY <1>3, <1>15, <1>16, <3>1, <3>2 DEF Calling
  <2>10. Low(t, g)
    <3>1. ASSUME NEW x \in On(t), NEW y \in g[x]
          PROVE  Pending(t, x, y) \/ (t.index[y] > 0 /\ (y \in On(t) => t.lowlink[x] <= t.index[y]))
      <4>1. x \in On(s) /\ s.index[x] < s.index[func] /\ s.index[x] \in Nat /\ s.index[func] \in Nat
        BY <1>3, <1>5, <2>1
      <4>2. x # func
        BY <4>1
      <4>3. CASE s.index[y] > 0 /\ (y \in On(s) => s.lowlink[x] <= s.index[y])
        <5>1. ASSUME y \in On(t) PROVE t.lowlink[x] <= s.index[y]
          <6>1. y \in On(s)
            BY <1>3, <5>1
          <6>2. s.index[y] \in Nat /\ s.lowlink[x] \in Nat /\ t.lowlink[x] \in Nat
                /\ t.lowlink[x] <= s.lowlink[x] /\ s.lowlink[x] <= s.index[y]
            BY <1>5, <4>1, <4>3, <6>1
          <6> QED BY <6>2
        <5> QED BY <1>8, <4>3, <5>1
      <4>4. CASE y = func
        <5>1. s.index[func] > 0
          BY <1>1, <1>3, <1>5 DEF Visited
        <5>2. func \notin On(t)
          BY <2>1, <4>1
        <5> QED BY <1>8, <4>4, <5>1, <5>2
      <4> QED BY <1>1, <1>13, <4>1, <4>2, <4>3, <4>4 DEF Low
    <3> QED BY <3>1 DEF Low
  <2>11. Under(t)
    <3>1. ASSUME NEW x \in On(t), \A l \in 1..(m - 1) : t.calls[l].func # x, NEW k \in 1..(m - 1), Above(t, k, x)
          PROVE  t.lowlink[t.calls[k].func] <= t.lowlink[x]
      <4>1. x \in On(s) /\ s.index[x] < s.index[func] /\ s.index[x] \in Nat /\ s.index[func] \in Nat
        BY <1>3, <1>5, <2>1
      <4>2. x # func
        BY <4>1
      <4> QED BY <1>17, <3>1, <4>1, <4>2
    <3> QED BY <1>3, <3>1 DEF Under
  <2> QED BY <1>14, <2>1, <2>6, <2>8, <2>9, <2>10, <2>11 DEF SccInv
<1> QED BY <1>18, <1>19

-----------------------------------------------------------------------------
(***************************************************************************)
(* A step visits a function, comes to a callee or returns: the invariant   *)
(* holds, and something is done that was not done before.                  *)
(***************************************************************************)
Finished(s, n) == Len(s.calls) = 0 /\ \A f \in 1..n : s.index[f] > 0
\* The callee c of the last call has been come to.
ComesTo(t, s, c) ==
  Len(s.calls) # 0 /\ c \in s.calls[Len(s.calls)].left /\ c \notin t.calls[Len(s.calls)].left
Steps(t, s, g, n) ==
  \/ t = s /\ Finished(s, n)
  \/ \E c \in 1..n : s.index[c] = 0 /\ Enters(t, s, c, g)
  \/ \E func, c \in 1..n : s.index[c] > 0 /\ Meets(t, s, func, c) /\ ComesTo(t, s, c)
  \/ \E func \in 1..n : Leaves(t, s, g, func)

CameTo(t, s, m, c, n) ==
  /\ t \in SccStates(n) /\ t.sccs = s.sccs /\ t.next = s.next /\ t.index = s.index
  /\ t.stack = s.stack /\ t.lowlink = s.lowlink /\ Len(t.calls) = m
  /\ \A k \in 1..m :
       /\ t.calls[k].func = s.calls[k].func
       /\ t.calls[k].left = IF k = m THEN s.calls[k].left \ {c} ELSE s.calls[k].left

\* The state in which the innermost call has come to c.
LEMMA CameFields ==
  ASSUME NEW n \in Nat, NEW s \in SccStates(n), NEW m \in Nat \ {0}, m = Len(s.calls), NEW c \in 1..n
  PROVE  CameTo(Came(s, m, c), s, m, c, n)
<1> DEFINE call == s.calls[m]
           new == [func |-> call.func, left |-> call.left \ {c}]
           calls == Append(Front(s.calls), new)
           t == Came(s, m, c)
<1>1. s.calls \in Seq(CallSet(n)) /\ m \in 1..m /\ s.calls # <<>>
  BY EmptyIff DEF SccStates
<1>2. call \in CallSet(n)
  BY <1>1, OnTypes
<1>3. new \in CallSet(n) /\ new.func = call.func /\ new.left = call.left \ {c}
  BY <1>2 DEF CallSet
<1>8. t = WithCalls(s, calls)
  BY DEF Came
<1> HIDE DEF new, t
<1>4. calls \in Seq(CallSet(n)) /\ Replaced(calls, s.calls, new)
  BY <1>1, <1>3, ReplaceLemma
<1> HIDE DEF calls
<1>5. /\ t \in SccStates(n) /\ t.calls = calls /\ t.index = s.index /\ t.next = s.next
      /\ t.stack = s.stack /\ t.sccs = s.sccs /\ t.lowlink = s.lowlink
  BY <1>4, <1>8, CallsFields
<1>6. Len(calls) = m /\ calls[m] = new /\ \A k \in 1..(m - 1) : calls[k] = s.calls[k]
  BY <1>4 DEF Replaced
<1>7. ASSUME NEW k \in 1..m
      PROVE  /\ calls[k].func = s.calls[k].func
             /\ calls[k].left = IF k = m THEN s.calls[k].left \ {c} ELSE s.calls[k].left
  <2>1. k = m \/ (k # m /\ k \in 1..(m - 1))
    OBVIOUS
  <2> QED BY <1>3, <1>6, <2>1
<1> QED BY <1>5, <1>6, <1>7 DEF CameTo, t

\* A step from a call that has callees left.
LEMMA VisitSteps ==
  ASSUME NEW n \in Nat, NEW g, IsGraph(g, n), NEW s, SccInv(s, g, n), NEW m \in Nat \ {0}, m = Len(s.calls),
         NEW c \in s.calls[m].left
  PROVE  VisitCallee(s, g, s.calls[m], c) \in SccStates(n) /\ Steps(VisitCallee(s, g, s.calls[m], c), s, g, n)
<1> DEFINE call == s.calls[m]
           b == Came(s, m, c)
<1>1. s \in SccStates(n) /\ Visited(s, n) /\ Calling(s, g)
  BY DEF SccInv
<1>2. m \in 1..m
  OBVIOUS
<1>3. call.func \in 1..n /\ call.left \subseteq 1..n /\ c \in 1..n
  BY <1>1, <1>2, OnTypes
<1>5. VisitCallee(s, g, call, c) =
        IF s.index[c] = 0 THEN StrongComponent(b, g, c)
        ELSE IF c \in ToSet(s.stack) THEN Lower(b, call.func, s.index[c]) ELSE b
  BY <1>1 DEF VisitCallee, SccStates, Came, WithCalls
<1>4. /\ b \in SccStates(n) /\ b.sccs = s.sccs /\ b.next = s.next /\ b.index = s.index
      /\ b.stack = s.stack /\ b.lowlink = s.lowlink /\ Len(b.calls) = m
      /\ \A k \in 1..m :
           /\ b.calls[k].func = s.calls[k].func
           /\ b.calls[k].left = IF k = m THEN s.calls[k].left \ {c} ELSE s.calls[k].left
  <2>1. CameTo(Came(s, m, c), s, m, c, n)
    BY <1>1, <1>3, CameFields
  <2> QED BY <2>1 DEF CameTo
<1> HIDE DEF b
<1>6. \A k \in 1..m : /\ b.calls[k].left \subseteq s.calls[k].left
                      /\ \A y \in s.calls[k].left : y \in b.calls[k].left \/ (k = m /\ y = c)
  BY <1>4
<1>7. On(b) = On(s)
  BY <1>4 DEF On
<1>8. s.index[c] \in Nat
  BY <1>1, <1>3, OnTypes
<1>9. CASE s.index[c] = 0
  <2> DEFINE t == StrongComponent(b, g, c)
  <2>1. /\ t \in SccStates(n) /\ t.sccs = b.sccs /\ t.next = b.next + 1
        /\ t.index = [b.index EXCEPT ![c] = b.next]
        /\ t.lowlink = [b.lowlink EXCEPT ![c] = b.next]
        /\ Pushed(t.stack, b.stack, c) /\ On(t) = On(b) \cup {c}
        /\ Pushed(t.calls, b.calls, [func |-> c, left |-> g[c]])
    BY <1>3, <1>4, StrongFields
  <2> HIDE DEF t
  <2>2. /\ Len(t.calls) = m + 1 /\ t.calls[m + 1].func = c /\ t.calls[m + 1].left = g[c]
        /\ \A k \in 1..m : t.calls[k] = b.calls[k]
    BY <1>4, <2>1 DEF Pushed
  <2>3. Entered(t, s, c, g)
    BY <1>4, <1>6, <2>2 DEF Entered
  <2>4. Enters(t, s, c, g)
    BY <1>4, <1>7, <2>1, <2>3 DEF Enters
  <2> QED BY <1>3, <1>5, <1>9, <2>1, <2>4 DEF Steps, t
<1>10. CASE s.index[c] # 0
  <2>1. c \notin b.calls[m].left
    BY <1>2, <1>4
  <2>2. s.lowlink \in [1..n -> Nat]
    BY <1>1 DEF SccStates
  <2>3. PICK t \in SccStates(n) :
          /\ VisitCallee(s, g, call, c) = t
          /\ t.sccs = s.sccs /\ t.next = s.next /\ t.index = s.index /\ t.stack = s.stack /\ t.calls = b.calls
          /\ t.lowlink = [s.lowlink EXCEPT ![call.func] = IF c \in On(s) THEN Smaller(s.lowlink[call.func], s.index[c])
                                                          ELSE s.lowlink[call.func]]
    <3>1. CASE c \in ToSet(s.stack)
      <4> DEFINE t == Lower(b, call.func, s.index[c])
      <4>1. /\ t \in SccStates(n) /\ t.index = b.index /\ t.next = b.next /\ t.stack = b.stack
            /\ t.sccs = b.sccs /\ t.calls = b.calls
            /\ t.lowlink = [b.lowlink EXCEPT ![call.func] = Smaller(b.lowlink[call.func], s.index[c])]
        <5>1. b \in SccStates(n) /\ call.func \in 1..n /\ s.index[c] \in Nat
          BY <1>3, <1>4, <1>8
        <5>2. PICK f \in 1..n, l \in Nat : f = call.func /\ l = s.index[c]
          BY <5>1
        <5> HIDE DEF t
        <5>3. t = Lower(b, f, l)
          BY <5>2 DEF t
        <5> QED BY <5>1, <5>2, <5>3, LowerFields
      <4>2. VisitCallee(s, g, call, c) = t
        BY <1>5, <1>10, <3>1
      <4> HIDE DEF t
      <4> QED BY <1>4, <3>1, <4>1, <4>2 DEF On
    <3>2. CASE c \notin ToSet(s.stack)
      <4>1. s.lowlink = [s.lowlink EXCEPT ![call.func] = s.lowlink[call.func]]
        BY <1>3, <2>2
      <4>2. VisitCallee(s, g, call, c) = b
        BY <1>5, <1>10, <3>2
      <4> QED BY <1>4, <3>2, <4>1, <4>2 DEF On
    <3> QED BY <3>1, <3>2
  <2>4. Meets(t, s, call.func, c)
    BY <1>4, <1>6, <2>3 DEF Meets
  <2>5. ComesTo(t, s, c)
    BY <2>1, <2>3 DEF ComesTo
  <2>6. s.index[c] > 0
    BY <1>8, <1>10
  <2> QED BY <1>3, <2>3, <2>4, <2>5, <2>6 DEF Steps
<1> QED BY <1>9, <1>10

\* A step from a call that has no callees left.
LEMMA LeaveSteps ==
  ASSUME NEW n \in Nat, NEW g, IsGraph(g, n), NEW s, SccInv(s, g, n), NEW m \in Nat \ {0}, m = Len(s.calls),
         NEW func, func = s.calls[m].func, s.calls[m].left = {}
  PROVE  func \in 1..n /\ Leave(s, g, func) \in SccStates(n) /\ Leaves(Leave(s, g, func), s, g, func)
<1>1. s \in SccStates(n) /\ Stacked(s) /\ Calling(s, g)
  BY DEF SccInv
<1>2. m \in 1..m
  OBVIOUS
<1>3. func \in On(s) /\ func \in 1..n
  BY <1>1, <1>2, OnTypes DEF Calling
<1>4. s.calls \in Seq(CallSet(n)) /\ s.calls # <<>> /\ s.lowlink \in [1..n -> Nat]
  BY <1>2, EmptyIff, <1>1 DEF SccStates
<1>5. PICK a \in SccStates(n) :
        /\ a = IF s.lowlink[func] = s.index[func] THEN StoreScc(s, g, func) ELSE s
        /\ a.index = s.index /\ a.lowlink = s.lowlink /\ a.next = s.next /\ a.calls = s.calls
        /\ s.lowlink[func] = s.index[func] =>
             /\ Stacked(a) /\ On(a) = {x \in On(s) : s.index[x] < s.index[func]}
             /\ Pushed(a.sccs, s.sccs, a.sccs[Len(s.sccs) + 1])
             /\ a.sccs[Len(s.sccs) + 1].components = {x \in On(s) : s.index[func] <= s.index[x]}
             /\ ~a.sccs[Len(s.sccs) + 1].is_cycle =>
                  a.sccs[Len(s.sccs) + 1].components = {func} /\ func \notin g[func]
  <2>1. CASE s.lowlink[func] = s.index[func]
    BY <1>1, <1>3, <2>1, StoreFields
  <2>2. CASE s.lowlink[func] # s.index[func]
    BY <1>1, <2>2
  <2> QED BY <2>1, <2>2
<1>6. s.lowlink[func] # s.index[func] => a = s
  BY <1>5
<1>7. Front(s.calls) \in Seq(CallSet(n)) /\ Popped(Front(s.calls), s.calls)
  BY <1>4, FrontLemma
<1>8. PICK b \in SccStates(n) :
        /\ b = WithCalls(a, Front(s.calls)) /\ b.calls = Front(s.calls)
        /\ b.index = a.index /\ b.next = a.next /\ b.stack = a.stack /\ b.sccs = a.sccs /\ b.lowlink = a.lowlink
  BY <1>7, CallsFields
<1>9. Leave(s, g, func) = IF b.calls = <<>> THEN b ELSE Lower(b, Last(b.calls).func, s.lowlink[func])
  <2> DEFINE aa == IF s.lowlink[func] = s.index[func] THEN StoreScc(s, g, func) ELSE s
             bb == [aa EXCEPT !.calls = Front(@)]
  <2>1. Leave(s, g, func) = IF bb.calls = <<>> THEN bb ELSE Lower(bb, Last(bb.calls).func, s.lowlink[func])
    BY DEF Leave
  <2>2. aa = a
    BY <1>5
  <2> HIDE DEF aa
  <2>3. bb = b
    BY <1>5, <1>8, <2>2 DEF WithCalls, SccStates
  <2> HIDE DEF bb
  <2> QED BY <2>1, <2>3
<1>10. Len(b.calls) = m - 1 /\ \A k \in 1..(m - 1) : b.calls[k] = s.calls[k]
  BY <1>7, <1>8 DEF Popped
<1>11. b.calls = <<>> <=> m = 1
  <2>1. b.calls = <<>> <=> Len(b.calls) = 0
    BY <1>7, <1>8, EmptyIff
  <2> QED BY <1>10, <2>1
<1>12. PICK t \in SccStates(n) :
         /\ t = Leave(s, g, func)
         /\ t.index = s.index /\ t.next = s.next /\ t.stack = a.stack /\ t.sccs = a.sccs /\ t.calls = Front(s.calls)
         /\ t.lowlink = IF m = 1 THEN s.lowlink
                        ELSE [s.lowlink EXCEPT ![s.calls[m - 1].func] =
                                Smaller(s.lowlink[s.calls[m - 1].func], s.lowlink[func])]
  <2>1. CASE m = 1
    BY <1>5, <1>8, <1>9, <1>11, <2>1
  <2>2. CASE m # 1
    <3>1. m - 1 \in 1..(m - 1)
      BY <2>2, OneOrMore
    <3>2. Last(b.calls) = s.calls[m - 1]
      BY <1>10, <3>1 DEF Last
    <3>3. m - 1 \in 1..m
      BY <3>1
    <3>4. s.calls[m - 1].func \in 1..n /\ s.lowlink[func] \in Nat
      BY <1>1, <1>3, <1>4, <3>3, OnTypes
    <3> DEFINE f == s.calls[m - 1].func
               u == Lower(b, f, s.lowlink[func])
    <3>5. u = Leave(s, g, func)
      BY <1>9, <1>11, <2>2, <3>2
    <3>6. /\ u \in SccStates(n) /\ u.index = b.index /\ u.next = b.next /\ u.stack = b.stack
          /\ u.sccs = b.sccs /\ u.calls = b.calls
          /\ u.lowlink = [b.lowlink EXCEPT ![f] = Smaller(b.lowlink[f], s.lowlink[func])]
      <4>1. b \in SccStates(n) /\ f \in 1..n /\ s.lowlink[func] \in Nat
        BY <3>4
      <4> HIDE DEF f
      <4> QED BY <4>1, LowerFields
    <3> HIDE DEF u
    <3>7. u.lowlink = [s.lowlink EXCEPT ![f] = Smaller(s.lowlink[f], s.lowlink[func])]
      BY <1>5, <1>8, <3>6
    <3>8. u.index = s.index /\ u.next = s.next /\ u.stack = a.stack /\ u.sccs = a.sccs /\ u.calls = Front(s.calls)
      BY <1>5, <1>8, <3>6
    <3>9. u \in SccStates(n)
      BY <3>6
    <3> HIDE DEF f
    <3>10. u.lowlink = IF m = 1 THEN s.lowlink ELSE [s.lowlink EXCEPT ![f] = Smaller(s.lowlink[f], s.lowlink[func])]
      BY <2>2, <3>7
    <3> QED BY <3>5, <3>8, <3>9, <3>10 DEF f
  <2> QED BY <2>1, <2>2
<1>13. On(t) = On(a) /\ (Stacked(a) => Stacked(t))
  <2>1. t.stack = a.stack /\ t.index = a.index
    BY <1>5, <1>12
  <2> QED BY <2>1 DEF On, Stacked
<1>14. Leaves(t, s, g, func)
  <2>1. t.next = s.next /\ t.index = s.index /\ m # 0 /\ s.calls[m].func = func /\ s.calls[m].left = {}
    BY <1>12
  <2>2. Popped(t.calls, s.calls)
    BY <1>7, <1>12
  <2>3. t.lowlink = IF m = 1 THEN s.lowlink
                    ELSE [s.lowlink EXCEPT ![s.calls[m - 1].func] =
                            Smaller(s.lowlink[s.calls[m - 1].func], s.lowlink[func])]
    BY <1>12
  <2>4. CASE s.lowlink[func] = s.index[func]
    BY <1>5, <1>12, <1>13, <2>1, <2>2, <2>3, <2>4 DEF Leaves
  <2>5. CASE s.lowlink[func] # s.index[func]
    BY <1>6, <1>12, <2>1, <2>2, <2>3, <2>5 DEF Leaves
  <2> QED BY <2>4, <2>5
<1> QED BY <1>3, <1>12, <1>14

\* A step of any state.
LEMMA SccSteps ==
  ASSUME NEW n \in Nat, NEW g, IsGraph(g, n), NEW s, SccInv(s, g, n)
  PROVE  SccStep(s, g) \in SccStates(n) /\ Steps(SccStep(s, g), s, g, n)
<1>1. s \in SccStates(n) /\ Calling(s, g) /\ s.calls \in Seq(CallSet(n))
  BY DEF SccInv, SccStates
<1>2. PICK m \in Nat : m = Len(s.calls)
  BY <1>1, OnTypes
<1>3. s.calls = <<>> <=> m = 0
  BY <1>1, <1>2, EmptyIff
<1>4. \A f \in 1..n : s.index[f] \in Nat
  BY <1>1, OnTypes
<1>5. CASE m # 0
  <2> DEFINE call == s.calls[m]
  <2>1. Last(s.calls) = call /\ m \in Nat \ {0} /\ m \in 1..m
    BY <1>2, <1>5 DEF Last
  <2>2. call.left \subseteq 1..n
    BY <1>1, <1>2, <2>1, OnTypes
  <2>3. SccStep(s, g) = IF call.left = {} THEN Leave(s, g, call.func)
                        ELSE VisitCallee(s, g, call, Least(call.left))
    BY <1>3, <1>5, <2>1 DEF SccStep
  <2>4. CASE call.left = {}
    <3>1. PICK func : func = call.func
      OBVIOUS
    <3>2. func \in 1..n /\ Leave(s, g, func) \in SccStates(n) /\ Leaves(Leave(s, g, func), s, g, func)
      BY <1>2, <2>1, <2>4, <3>1, LeaveSteps
    <3> QED BY <2>3, <2>4, <3>1, <3>2 DEF Steps
  <2>5. CASE call.left # {}
    <3>1. PICK c \in call.left : c = Least(call.left)
      BY <2>2, <2>5, LeastLemma
    <3>2. VisitCallee(s, g, call, c) \in SccStates(n) /\ Steps(VisitCallee(s, g, call, c), s, g, n)
      BY <1>2, <2>1, <3>1, VisitSteps
    <3> QED BY <2>3, <2>5, <3>1, <3>2
  <2> QED BY <2>4, <2>5
<1>6. CASE m = 0
  <2> DEFINE unvisited == {f \in DOMAIN g : s.index[f] = 0}
  <2>1. SccStep(s, g) = IF unvisited # {} THEN StrongComponent(s, g, Least(unvisited)) ELSE s
    BY <1>3, <1>6 DEF SccStep
  <2>2. unvisited \subseteq 1..n /\ unvisited \subseteq Nat
    BY DEF IsGraph
  <2>3. CASE unvisited = {}
    <3>1. Finished(s, n)
      BY <1>2, <1>4, <1>6, <2>3 DEF Finished, IsGraph
    <3> QED BY <1>1, <2>1, <2>3, <3>1 DEF Steps
  <2>4. CASE unvisited # {}
    <3>1. PICK c \in unvisited : c = Least(unvisited)
      BY <2>2, <2>4, LeastLemma
    <3>2. c \in 1..n /\ s.index[c] = 0
      BY <2>2
    <3> DEFINE t == StrongComponent(s, g, c)
    <3>3. /\ t \in SccStates(n) /\ t.sccs = s.sccs /\ t.next = s.next + 1
          /\ t.index = [s.index EXCEPT ![c] = s.next]
          /\ t.lowlink = [s.lowlink EXCEPT ![c] = s.next]
          /\ Pushed(t.stack, s.stack, c) /\ On(t) = On(s) \cup {c}
          /\ Pushed(t.calls, s.calls, [func |-> c, left |-> g[c]])
      BY <1>1, <3>2, StrongFields
    <3>4. SccStep(s, g) = t
      BY <2>1, <2>4, <3>1
    <3> HIDE DEF t
    <3>5. Entered(t, s, c, g)
      <4>1. Len(t.calls) = m + 1 /\ t.calls[m + 1].func = c /\ t.calls[m + 1].left = g[c]
        BY <1>2, <3>3 DEF Pushed
      <4>2. 1..m = {}
        BY <1>6
      <4> QED BY <1>2, <4>1, <4>2 DEF Entered
    <3>6. Enters(t, s, c, g)
      BY <3>3, <3>5 DEF Enters
    <3> QED BY <3>2, <3>3, <3>4, <3>6 DEF Steps
  <2> QED BY <2>3, <2>4
<1> QED BY <1>5, <1>6

\* What was done of a function: the visit, 0, its callees, and the return, n + 1.
DoneOf(s, n) ==
  {p \in (1..n) \X (0..(n + 1)) :
     /\ s.index[p[1]] > 0
     /\ \A k \in 1..Len(s.calls) : s.calls[k].func = p[1] => p[2] # n + 1 /\ p[2] \notin s.calls[k].left}

\* Each step does something more.
LEMMA StepsProgress ==
  ASSUME NEW n \in Nat, NEW g, IsGraph(g, n), NEW s, SccInv(s, g, n), NEW t \in SccStates(n),
         Steps(t, s, g, n), ~Finished(s, n)
  PROVE  DoneOf(s, n) \subseteq DoneOf(t, n) /\ \E p \in DoneOf(t, n) : p \notin DoneOf(s, n)
<1>1. s \in SccStates(n) /\ Visited(s, n) /\ Calling(s, g)
  BY DEF SccInv
<1>2. PICK m \in Nat : m = Len(s.calls)
  BY <1>1, OnTypes
<1>3. /\ \A f \in 1..n : s.index[f] \in Nat
      /\ \A k \in 1..m : s.calls[k].func \in On(s) /\ s.calls[k].func \in 1..n /\ s.calls[k].left \subseteq 1..n
      /\ s.next \in Nat \ {0} /\ s.index \in [1..n -> Nat]
  BY <1>1, <1>2, OnTypes DEF Calling, SccStates
<1>4. \A k \in 1..m : s.index[s.calls[k].func] > 0
  BY <1>1, <1>3 DEF Visited
<1>5. \A k, l \in 1..m : s.calls[k].func = s.calls[l].func => k = l
  <2>1. \A k, l \in 1..m : k < l => s.index[s.calls[k].func] < s.index[s.calls[l].func]
    BY <1>1, <1>2 DEF Calling
  <2>2. ASSUME NEW k \in 1..m, NEW l \in 1..m, s.calls[k].func = s.calls[l].func
        PROVE  k = l
    <3>1. s.index[s.calls[k].func] \in Nat /\ s.index[s.calls[l].func] = s.index[s.calls[k].func]
      BY <1>3, <2>2
    <3>2. (k < l => s.index[s.calls[k].func] < s.index[s.calls[l].func])
          /\ (l < k => s.index[s.calls[l].func] < s.index[s.calls[k].func])
      BY <2>1
    <3> QED BY <3>1, <3>2
  <2> QED BY <2>2
<1>6. 0 \in 0..(n + 1) /\ n + 1 \in 0..(n + 1) /\ n + 1 \notin 1..n /\ 0 \notin 1..n /\ n + 1 # 0
      /\ \A c \in 1..n : c \in 0..(n + 1) /\ c # n + 1
  OBVIOUS
<1>7. ASSUME NEW c \in 1..n, s.index[c] = 0, Enters(t, s, c, g)
      PROVE  DoneOf(s, n) \subseteq DoneOf(t, n) /\ \E p \in DoneOf(t, n) : p \notin DoneOf(s, n)
  <2>1. t.index = [s.index EXCEPT ![c] = s.next] /\ Entered(t, s, c, g)
    BY <1>7 DEF Enters
  <2>2. /\ Len(t.calls) = m + 1 /\ t.calls[m + 1].func = c /\ t.calls[m + 1].left = g[c]
        /\ \A k \in 1..m : t.calls[k].func = s.calls[k].func /\ t.calls[k].left \subseteq s.calls[k].left
        /\ \A k \in 1..(m + 1) : k \in 1..m \/ k = m + 1
    BY <1>2, <2>1 DEF Entered
  <2>3. t.index[c] > 0 /\ \A f \in 1..n : s.index[f] > 0 => t.index[f] > 0 /\ f # c
    BY <1>3, <1>7, <2>1
  <2>4. DoneOf(s, n) \subseteq DoneOf(t, n)
    <3>1. ASSUME NEW p \in DoneOf(s, n) PROVE p \in DoneOf(t, n)
      <4>1. p \in (1..n) \X (0..(n + 1)) /\ p[1] \in 1..n /\ s.index[p[1]] > 0
            /\ \A k \in 1..m : s.calls[k].func = p[1] => p[2] # n + 1 /\ p[2] \notin s.calls[k].left
        BY <1>2, <3>1 DEF DoneOf
      <4>2. t.index[p[1]] > 0 /\ p[1] # c
        BY <2>3, <4>1
      <4>3. \A k \in 1..(m + 1) : t.calls[k].func = p[1] => p[2] # n + 1 /\ p[2] \notin t.calls[k].left
        BY <2>2, <4>1, <4>2
      <4> QED BY <2>2, <4>1, <4>2, <4>3 DEF DoneOf
    <3> QED BY <3>1
  <2>5. <<c, 0>> \in DoneOf(t, n)
    <3>1. \A k \in 1..m : s.calls[k].func # c
      BY <1>4, <1>7
    <3>2. 0 \notin g[c]
      BY <1>6 DEF IsGraph
    <3>3. \A k \in 1..(m + 1) : t.calls[k].func = c => 0 # n + 1 /\ 0 \notin t.calls[k].left
      BY <1>6, <2>2, <3>1, <3>2
    <3> QED BY <1>6, <2>2, <2>3, <3>3 DEF DoneOf
  <2>6. <<c, 0>> \notin DoneOf(s, n)
    BY <1>7 DEF DoneOf
  <2> QED BY <2>4, <2>5, <2>6
<1>8. ASSUME NEW func \in 1..n, NEW c \in 1..n, Meets(t, s, func, c), ComesTo(t, s, c)
      PROVE  DoneOf(s, n) \subseteq DoneOf(t, n) /\ \E p \in DoneOf(t, n) : p \notin DoneOf(s, n)
  <2>1. /\ t.index = s.index /\ Len(t.calls) = m /\ m # 0 /\ s.calls[m].func = func
        /\ \A k \in 1..m : t.calls[k].func = s.calls[k].func /\ t.calls[k].left \subseteq s.calls[k].left
        /\ c \in s.calls[m].left /\ c \notin t.calls[m].left /\ m \in 1..m
    BY <1>2, <1>8 DEF Meets, ComesTo
  <2>2. DoneOf(s, n) \subseteq DoneOf(t, n)
    BY <1>2, <2>1 DEF DoneOf
  <2>3. <<func, c>> \in DoneOf(t, n)
    <3>1. \A k \in 1..m : t.calls[k].func = func => k = m
      BY <1>5, <2>1
    <3>2. s.index[func] > 0 /\ t.index[func] > 0
      BY <1>4, <2>1
    <3> QED BY <1>6, <2>1, <3>1, <3>2 DEF DoneOf
  <2>4. <<func, c>> \notin DoneOf(s, n)
    BY <1>2, <2>1 DEF DoneOf
  <2> QED BY <2>2, <2>3, <2>4
<1>9. ASSUME NEW func \in 1..n, Leaves(t, s, g, func)
      PROVE  DoneOf(s, n) \subseteq DoneOf(t, n) /\ \E p \in DoneOf(t, n) : p \notin DoneOf(s, n)
  <2>1. /\ t.index = s.index /\ m # 0 /\ s.calls[m].func = func /\ Len(t.calls) = m - 1
        /\ \A k \in 1..(m - 1) : t.calls[k] = s.calls[k]
    BY <1>2, <1>9 DEF Leaves, Popped
  <2>2. m \in 1..m /\ \A k \in 1..(m - 1) : k \in 1..m /\ k # m
    BY <2>1
  <2>3. DoneOf(s, n) \subseteq DoneOf(t, n)
    BY <1>2, <2>1, <2>2 DEF DoneOf
  <2>4. <<func, n + 1>> \in DoneOf(t, n)
    <3>1. \A k \in 1..(m - 1) : t.calls[k].func # func
      BY <1>5, <2>1, <2>2
    <3>2. t.index[func] > 0
      BY <1>4, <2>1, <2>2
    <3> QED BY <1>6, <2>1, <3>1, <3>2 DEF DoneOf
  <2>5. <<func, n + 1>> \notin DoneOf(s, n)
    BY <1>2, <2>1, <2>2 DEF DoneOf
  <2> QED BY <2>3, <2>4, <2>5
<1> QED BY <1>7, <1>8, <1>9 DEF Steps

\* Every step keeps the invariant.
LEMMA StepsKeep ==
  ASSUME NEW n \in Nat, NEW g, IsGraph(g, n), NEW s, SccInv(s, g, n), NEW t \in SccStates(n), Steps(t, s, g, n)
  PROVE  SccInv(t, g, n)
<1>1. ASSUME NEW c \in 1..n, s.index[c] = 0, Enters(t, s, c, g) PROVE SccInv(t, g, n)
  BY <1>1, EntersKeeps
<1>2. ASSUME NEW func \in 1..n, NEW c \in 1..n, s.index[c] > 0, Meets(t, s, func, c) PROVE SccInv(t, g, n)
  BY <1>2, MeetsKeeps
<1>3. ASSUME NEW func \in 1..n, Leaves(t, s, g, func) PROVE SccInv(t, g, n)
  BY <1>3, LeavesKeeps
<1> QED BY <1>1, <1>2, <1>3 DEF Steps

\* The invariant holds at the start.
LEMMA StartInv ==
  ASSUME NEW n \in Nat, NEW g, IsGraph(g, n)
  PROVE  SccInv(SccStart(g), g, n)
<1> DEFINE s == SccStart(g)
<1>1. /\ s.index = [f \in 1..n |-> 0] /\ s.lowlink = [f \in 1..n |-> 0] /\ s.next = 1
      /\ s.stack = <<>> /\ s.sccs = <<>> /\ s.calls = <<>>
      /\ s = [index |-> s.index, lowlink |-> s.lowlink, next |-> s.next, stack |-> s.stack,
              sccs |-> s.sccs, calls |-> s.calls]
  BY DEF SccStart, IsGraph
<1> HIDE DEF s
<1>2. s \in SccStates(n)
  <2>1. s.index \in [1..n -> Nat] /\ s.lowlink \in [1..n -> Nat] /\ s.next \in Nat \ {0}
    BY <1>1
  <2>2. s.stack \in Seq(1..n) /\ s.sccs \in Seq(SccSet(n)) /\ s.calls \in Seq(CallSet(n))
    BY <1>1
  <2> QED BY <1>1, <2>1, <2>2 DEF SccStates
<1>3. Len(s.stack) = 0 /\ Len(s.sccs) = 0 /\ Len(s.calls) = 0 /\ On(s) = {} /\ 1..0 = {}
  BY <1>1 DEF On, ToSet
<1>4. \A f \in 1..n : s.index[f] = 0
  BY <1>1
<1>5. Stacked(s) /\ Visited(s, n) /\ Calling(s, g) /\ Lowest(s) /\ Low(s, g) /\ Under(s)
  BY <1>1, <1>3, <1>4 DEF Stacked, Visited, Calling, Lowest, Low, Under
<1>6. Stored(s, g, n)
  BY <1>3 DEF Stored, Apart, Downward, Cyclic
<1> QED BY <1>2, <1>5, <1>6 DEF SccInv, s

-----------------------------------------------------------------------------
(***************************************************************************)
(* The components ComputeScc finds.                                        *)
(***************************************************************************)
\* Every function is in one component, whose functions call only those of it and of
\* components before it, and which is a cycle unless it is one function that does not call
\* itself.
SccsRight(sccs, g, n) ==
  /\ sccs \in Seq(SccSet(n))
  /\ \A f \in 1..n : \E j \in 1..Len(sccs) : f \in sccs[j].components
  /\ Apart(sccs) /\ Downward(sccs, g) /\ Cyclic(sccs, g, n)

\* When nothing is left to do, every function is in a component.
LEMMA FinishedRight ==
  ASSUME NEW n \in Nat, NEW g, IsGraph(g, n), NEW s, SccInv(s, g, n), Finished(s, n)
  PROVE  SccsRight(s.sccs, g, n)
<1>1. s \in SccStates(n) /\ Visited(s, n) /\ Stored(s, g, n) /\ Calling(s, g)
  BY DEF SccInv
<1>2. On(s) = {} /\ \A f \in 1..n : s.index[f] > 0
  BY <1>1 DEF Finished, Calling
<1> QED BY <1>1, <1>2 DEF SccsRight, Visited, Stored, SccStates

\* run does the steps of SccBuilder.
RunsUp(run, g, N) == run = [k \in 0..N |-> IF k = 0 THEN SccStart(g) ELSE SccStep(run[k - 1], g)]

\* The steps of SccBuilder are a recursion that ends.
LEMMA RunsUpExists ==
  ASSUME NEW n \in Nat, NEW g, IsGraph(g, n), NEW N \in Nat
  PROVE  \E run : RunsUp(run, g, N)
<1> DEFINE T == {s \in SccStates(n) : SccInv(s, g, n)}
           step == [s \in T |-> SccStep(s, g)]
<1>1. SccStart(g) \in T
  <2>1. SccInv(SccStart(g), g, n)
    BY StartInv
  <2> QED BY <2>1 DEF SccInv
<1>2. ASSUME NEW s \in T PROVE step[s] = SccStep(s, g) /\ SccStep(s, g) \in T
  <2>1. SccStep(s, g) \in SccStates(n) /\ Steps(SccStep(s, g), s, g, n)
    BY SccSteps
  <2>2. SccInv(SccStep(s, g), g, n)
    BY <2>1, StepsKeep
  <2> QED BY <2>1, <2>2
<1> HIDE DEF step, T
<1>3. PICK f : FollowsUp(f, step, SccStart(g), N)
  BY FollowsUpExists
<1>4. f = [k \in 0..N |-> IF k = 0 THEN SccStart(g) ELSE step[f[k - 1]]]
  BY <1>3 DEF FollowsUp
<1>5. f[0] = SccStart(g) /\ \A k \in 0..(N - 1) : k + 1 \in 0..N /\ f[k + 1] = step[f[k]]
  <2>1. f[0] = SccStart(g)
    BY <1>4
  <2>2. ASSUME NEW k \in 0..(N - 1) PROVE k + 1 \in 0..N /\ f[k + 1] = step[f[k]]
    <3>1. k + 1 \in 0..N /\ k + 1 # 0 /\ (k + 1) - 1 = k
      OBVIOUS
    <3> QED BY <1>4, <3>1
  <2> QED BY <2>1, <2>2
<1> DEFINE G == {k \in 0..N : f[k] \in T}
<1>6. 0 \in G
  BY <1>1, <1>5
<1>7. \A k \in 0..(N - 1) : k \in G => k + 1 \in G
  BY <1>2, <1>5
<1> HIDE DEF G
<1>8. \A k \in 0..N : k \in G
  BY <1>6, <1>7, CountUp
<1>9. \A k \in 0..N : f[k] = IF k = 0 THEN SccStart(g) ELSE SccStep(f[k - 1], g)
  <2>1. ASSUME NEW k \in 0..N, k # 0 PROVE f[k] = SccStep(f[k - 1], g)
    <3>1. k - 1 \in 0..N /\ f[k] = step[f[k - 1]]
      BY <1>4, <2>1
    <3> QED BY <1>2, <1>8, <3>1 DEF G
  <2> QED BY <1>5, <2>1
<1>10. f = [k \in 0..N |-> IF k = 0 THEN SccStart(g) ELSE SccStep(f[k - 1], g)]
  BY <1>4, <1>9
<1> QED BY <1>10 DEF RunsUp

\* The components of every call graph are right.
LEMMA ComputeSccRight ==
  ASSUME NEW n \in Nat, NEW g, IsGraph(g, n)
  PROVE  SccsRight(ComputeScc(g), g, n)
<1> DEFINE N == n * (n + 2)
           run == CHOOSE run : RunsUp(run, g, N)
           Card(k) == Cardinality(DoneOf(run[k], n))
           All == (1..n) \X (0..(n + 1))
           G == {k \in 0..N : SccInv(run[k], g, n) /\ (Finished(run[k], n) \/ Card(k) >= k)}
<1>1. N \in Nat
  OBVIOUS
<1>2. IsFiniteSet(All) /\ Cardinality(All) = N
  <2>1. IsFiniteSet(1..n) /\ Cardinality(1..n) = n
    BY FS_Interval
  <2>2. IsFiniteSet(0..(n + 1)) /\ Cardinality(0..(n + 1)) = n + 2
    BY FS_Interval
  <2> HIDE DEF run, Card, G
  <2>3. IsFiniteSet(All) /\ Cardinality(All) = Cardinality(1..n) * Cardinality(0..(n + 1))
    <3> HIDE DEF N
    <3> QED BY <2>1, <2>2, FS_Product, Zenon
  <2>4. Cardinality(All) = n * (n + 2)
    <3> HIDE DEF All, N
    <3> QED BY <2>1, <2>2, <2>3
  <2> QED BY <2>3, <2>4
<1> HIDE DEF N
<1>3. ComputeScc(g) = run[N].sccs
  <2>1. DOMAIN g = 1..n
    <3> HIDE DEF run, Card, G, All
    <3> QED BY DEF IsGraph
  <2>2. Cardinality(1..n) = n
    <3> HIDE DEF run, Card, G, All
    <3> QED BY FS_Interval
  <2> QED BY <2>1, <2>2 DEF ComputeScc, RunsUp, N
<1>4. RunsUp(run, g, N)
  BY <1>1, RunsUpExists
<1> HIDE DEF run
<1>5. run[0] = SccStart(g) /\ \A k \in 0..(N - 1) : k + 1 \in 0..N /\ run[k + 1] = SccStep(run[k], g)
  <2>1. run = [k \in 0..N |-> IF k = 0 THEN SccStart(g) ELSE SccStep(run[k - 1], g)]
    BY <1>4 DEF RunsUp
  <2>2. run[0] = SccStart(g)
    BY <1>1, <2>1
  <2>3. ASSUME NEW k \in 0..(N - 1) PROVE k + 1 \in 0..N /\ run[k + 1] = SccStep(run[k], g)
    <3>1. k + 1 \in 0..N /\ k + 1 # 0 /\ (k + 1) - 1 = k
      BY <1>1
    <3> QED BY <2>1, <3>1
  <2> QED BY <2>2, <2>3
<1>6. ASSUME NEW s PROVE DoneOf(s, n) \subseteq All /\ IsFiniteSet(DoneOf(s, n)) /\ Cardinality(DoneOf(s, n)) \in Nat
  <2>1. DoneOf(s, n) \subseteq All
    BY DEF DoneOf
  <2> QED BY <1>2, <2>1, FS_Subset, FS_CardinalityType
<1>7. 0 \in G
  <2>1. SccInv(run[0], g, n)
    BY <1>5, StartInv
  <2>2. Card(0) \in Nat
    BY <1>6
  <2>3. 0 \in 0..N
    BY <1>1
  <2> QED BY <2>1, <2>2, <2>3
<1>8. ASSUME NEW k \in 0..(N - 1), k \in G PROVE k + 1 \in G
  <2>1. PICK s, t : s = run[k] /\ t = run[k + 1]
    OBVIOUS
  <2>2. k + 1 \in 0..N /\ t = SccStep(s, g) /\ SccInv(s, g, n) /\ k \in Nat
    BY <1>1, <1>5, <1>8, <2>1
  <2>3. t \in SccStates(n) /\ Steps(t, s, g, n)
    BY <2>2, SccSteps
  <2>4. SccInv(t, g, n)
    BY <2>2, <2>3, StepsKeep
  <2>5. Finished(t, n) \/ Cardinality(DoneOf(t, n)) >= k + 1
    <3>1. CASE Finished(s, n)
      <4>1. SccStep(s, g) = s
        <5>1. s \in SccStates(n) /\ s.calls \in Seq(CallSet(n))
          BY <2>2 DEF SccInv, SccStates
        <5>2. s.calls = <<>>
          BY <3>1, <5>1, EmptyIff DEF Finished
        <5>3. {f \in DOMAIN g : s.index[f] = 0} = {}
          BY <3>1 DEF Finished, IsGraph
        <5> QED BY <5>2, <5>3 DEF SccStep
      <4> QED BY <2>2, <3>1, <4>1
    <3>2. CASE ~Finished(s, n)
      <4>1. Cardinality(DoneOf(s, n)) >= k
        BY <1>8, <2>1, <3>2
      <4>2. DoneOf(s, n) \subseteq DoneOf(t, n) /\ \E p \in DoneOf(t, n) : p \notin DoneOf(s, n)
        BY <2>2, <2>3, <3>2, StepsProgress
      <4>3. IsFiniteSet(DoneOf(t, n)) /\ Cardinality(DoneOf(s, n)) \in Nat /\ Cardinality(DoneOf(t, n)) \in Nat
        BY <1>6
      <4>4. Cardinality(DoneOf(s, n)) <= Cardinality(DoneOf(t, n)) /\ Cardinality(DoneOf(s, n)) # Cardinality(DoneOf(t, n))
        <5>1. DoneOf(s, n) \in SUBSET DoneOf(t, n) /\ DoneOf(t, n) # DoneOf(s, n)
          BY <4>2
        <5> QED BY <4>3, <5>1, FS_Subset
      <4> QED BY <2>2, <4>1, <4>3, <4>4
    <3> QED BY <3>1, <3>2
  <2> QED BY <2>1, <2>2, <2>4, <2>5
<1> HIDE DEF G
<1>9. N \in G
  <2>1. \A k \in 0..N : k \in G
    BY <1>1, <1>7, <1>8, CountUp
  <2> QED BY <1>1, <2>1
<1>10. PICK s : s = run[N]
  OBVIOUS
<1>11. SccInv(s, g, n) /\ (Finished(s, n) \/ Cardinality(DoneOf(s, n)) >= N)
  BY <1>9, <1>10 DEF G
<1>12. Finished(s, n)
  <2>1. SUFFICES ASSUME Cardinality(DoneOf(s, n)) >= N PROVE Finished(s, n)
    BY <1>11
  <2>2. DoneOf(s, n) \in SUBSET All /\ Cardinality(DoneOf(s, n)) \in Nat
    BY <1>6
  <2>3. Cardinality(DoneOf(s, n)) <= N
    BY <1>2, <2>2, FS_Subset
  <2>4. Cardinality(All) = Cardinality(DoneOf(s, n))
    BY <1>1, <1>2, <2>1, <2>2, <2>3
  <2>5. DoneOf(s, n) = All
    BY <1>2, <2>2, <2>4, FS_Subset
  <2>6. s \in SccStates(n)
    BY <1>11 DEF SccInv
  <2>7. PICK m \in Nat : m = Len(s.calls) /\ \A k \in 1..m : s.calls[k].func \in 1..n
    BY <2>6, OnTypes
  <2>8. m = 0
    <3>1. SUFFICES ASSUME m # 0 PROVE FALSE
      OBVIOUS
    <3>2. 1 \in 1..m /\ n + 1 \in 0..(n + 1)
      BY <3>1
    <3>3. <<s.calls[1].func, n + 1>> \in DoneOf(s, n)
      BY <2>5, <2>7, <3>2
    <3> QED BY <2>7, <3>2, <3>3 DEF DoneOf
  <2>9. ASSUME NEW f \in 1..n PROVE s.index[f] > 0
    <3>1. <<f, 0>> \in DoneOf(s, n)
      BY <2>5
    <3> QED BY <3>1 DEF DoneOf
  <2> QED BY <2>7, <2>8, <2>9 DEF Finished
<1> QED BY <1>3, <1>10, <1>11, <1>12, FinishedRight

-----------------------------------------------------------------------------
(***************************************************************************)
(* The order of the components: callees before their callers.              *)
(***************************************************************************)
\* The component of a function, and of those it calls.
LEMMA SccOfLemma ==
  ASSUME NEW n \in Nat, NEW g, IsGraph(g, n), NEW sccs, SccsRight(sccs, g, n), NEW f \in 1..n
  PROVE  /\ SccOf(sccs, f) \in 1..Len(sccs) /\ f \in sccs[SccOf(sccs, f)].components
         /\ \A j \in 1..Len(sccs) : f \in sccs[j].components => j = SccOf(sccs, f)
         /\ sccs[SccOf(sccs, f)].components \subseteq 1..n
         /\ \A c \in g[f] : /\ c \in 1..n /\ SccOf(sccs, c) \in 1..SccOf(sccs, f)
                            /\ ~sccs[SccOf(sccs, f)].is_cycle => SccOf(sccs, c) # SccOf(sccs, f)
         /\ ~sccs[SccOf(sccs, f)].is_cycle => sccs[SccOf(sccs, f)].components = {f}
<1> DEFINE At(x) == SccOf(sccs, x)
<1>1. sccs \in Seq(SccSet(n)) /\ DOMAIN sccs = 1..Len(sccs) /\ Len(sccs) \in Nat
      /\ \A j \in 1..Len(sccs) : sccs[j] \in SccSet(n)
  BY LenProperties DEF SccsRight
<1>2. ASSUME NEW x \in 1..n
      PROVE  /\ At(x) \in 1..Len(sccs) /\ x \in sccs[At(x)].components
             /\ \A j \in 1..Len(sccs) : x \in sccs[j].components => j = At(x)
  <2>1. At(x) \in 1..Len(sccs) /\ x \in sccs[At(x)].components
    BY <1>1 DEF SccOf, SccsRight
  <2> HIDE DEF At
  <2> QED BY <2>1 DEF SccsRight, Apart
<1>3. At(f) \in 1..Len(sccs) /\ f \in sccs[At(f)].components
  BY <1>2
<1> HIDE DEF At
<1>4. sccs[At(f)].components \subseteq 1..n
  BY <1>1, <1>3 DEF SccSet
<1>5. ~sccs[At(f)].is_cycle => sccs[At(f)].components = {f} /\ f \notin g[f]
  BY <1>3 DEF SccsRight, Cyclic
<1>6. ASSUME NEW c \in g[f]
      PROVE  /\ c \in 1..n /\ At(c) \in 1..At(f)
             /\ ~sccs[At(f)].is_cycle => At(c) # At(f)
  <2>1. c \in 1..n
    BY DEF IsGraph
  <2>2. PICK i \in 1..At(f) : c \in sccs[i].components
    BY <1>3 DEF SccsRight, Downward
  <2>3. i \in 1..Len(sccs)
    BY <1>1, <1>3
  <2>4. i = At(c) /\ c \in sccs[At(c)].components
    BY <1>2, <2>1, <2>2, <2>3
  <2>5. ASSUME ~sccs[At(f)].is_cycle, At(c) = At(f) PROVE FALSE
    <3>1. c = f
      BY <1>5, <2>4, <2>5
    <3> QED BY <1>5, <2>5, <3>1
  <2> QED BY <2>1, <2>2, <2>4, <2>5
<1> QED BY <1>2, <1>3, <1>4, <1>5, <1>6 DEF At

\* What a loop computes: step[k] is what its k-th round does with a value.
LoopsUp(f, step, v, N) == f = [k \in 0..N |-> IF k = 0 THEN v ELSE step[k][f[k - 1]]]
Rounds(T, step, v, N) == v \in T /\ \A k \in 1..N : \A x \in T : step[k][x] \in T
Round(f, step, v, T, N) == f[0] = v /\ \A k \in 1..N : k - 1 \in 0..N /\ f[k - 1] \in T /\ f[k] = step[k][f[k - 1]]

\* A loop is a recursion that ends.
LEMMA LoopExists ==
  ASSUME NEW T, NEW step, NEW v, NEW N \in Nat, Rounds(T, step, v, N)
  PROVE  \E f : LoopsUp(f, step, v, N) /\ Round(f, step, v, T, N) /\ \A k \in 0..N : f[k] \in T
<1> DEFINE S == (0..N) \X T
           next == [x \in S |-> IF x[1] < N THEN <<x[1] + 1, step[x[1] + 1][x[2]]>> ELSE x]
           start == <<0, v>>
<1>1. start \in S
  BY DEF Rounds
<1>2. ASSUME NEW k \in 0..(N - 1), NEW y \in T
      PROVE  next[<<k, y>>] = <<k + 1, step[k + 1][y]>> /\ <<k + 1, step[k + 1][y]>> \in S
  <2>1. <<k, y>> \in S /\ k < N /\ k + 1 \in 1..N /\ k + 1 \in 0..N
    OBVIOUS
  <2> QED BY <2>1 DEF Rounds
<1> HIDE DEF next
<1>3. PICK h : FollowsUp(h, next, start, N)
  BY FollowsUpExists
<1>4. h = [k \in 0..N |-> IF k = 0 THEN start ELSE next[h[k - 1]]]
  BY <1>3 DEF FollowsUp
<1> DEFINE G == {k \in 0..N : h[k][1] = k /\ h[k][2] \in T /\ h[k] = <<h[k][1], h[k][2]>>}
<1>5. 0 \in G
  <2>1. h[0] = start
    BY <1>4
  <2> QED BY <1>1, <2>1
<1>6. ASSUME NEW k \in 0..(N - 1), k \in G PROVE k + 1 \in G /\ h[k + 1] = <<k + 1, step[k + 1][h[k][2]]>>
  <2>1. k + 1 \in 0..N /\ k + 1 # 0 /\ (k + 1) - 1 = k
    OBVIOUS
  <2>2. h[k + 1] = next[h[k]]
    BY <1>4, <2>1
  <2>3. PICK y \in T : h[k] = <<k, y>> /\ y = h[k][2]
    BY <1>6
  <2>4. h[k + 1] = <<k + 1, step[k + 1][y]>> /\ step[k + 1][y] \in T
    BY <1>2, <2>2, <2>3
  <2> QED BY <2>1, <2>3, <2>4
<1> HIDE DEF G
<1>7. \A k \in 0..N : k \in G
  BY <1>5, <1>6, CountUp
<1> DEFINE f == [k \in 0..N |-> h[k][2]]
<1>8. f[0] = v
  <2>1. h[0] = start /\ 0 \in 0..N
    BY <1>4
  <2> QED BY <2>1
<1>9. \A k \in 0..N : f[k] \in T
  BY <1>7 DEF G
<1>10. ASSUME NEW k \in 1..N PROVE k - 1 \in 0..N /\ f[k] = step[k][f[k - 1]]
  <2>1. k - 1 \in 0..(N - 1) /\ k - 1 \in 0..N /\ (k - 1) + 1 = k /\ k \in 0..N
    OBVIOUS
  <2>2. h[k] = <<k, step[k][h[k - 1][2]]>>
    BY <1>6, <1>7, <2>1
  <2> QED BY <2>1, <2>2
<1>11. DOMAIN f = 0..N /\ f = [k \in 0..N |-> f[k]]
  OBVIOUS
<1> HIDE DEF f
<1>12. ASSUME NEW k \in 0..N PROVE f[k] = IF k = 0 THEN v ELSE step[k][f[k - 1]]
  <2>1. k = 0 \/ k \in 1..N
    OBVIOUS
  <2> QED BY <1>8, <1>10, <2>1
<1>13. f = [k \in 0..N |-> IF k = 0 THEN v ELSE step[k][f[k - 1]]]
  BY <1>11, <1>12
<1> QED BY <1>8, <1>9, <1>10, <1>13 DEF LoopsUp, Round

\* What a component calls was numbered before it.
IsDag(succ, p) == p \in Nat /\ DOMAIN succ = 1..p /\ \A i \in 1..p : succ[i] \subseteq 1..(i - 1)

\* The other components a component calls are earlier ones.
LEMMA SuccLemma ==
  ASSUME NEW n \in Nat, NEW g, IsGraph(g, n), NEW sccs, SccsRight(sccs, g, n),
         NEW succ, succ = SuccSccs(sccs, g)
  PROVE  /\ IsDag(succ, Len(sccs))
         /\ \A f \in 1..n : \A c \in g[f] :
              SccOf(sccs, c) = SccOf(sccs, f) \/ SccOf(sccs, c) \in succ[SccOf(sccs, f)]
<1>1. sccs \in Seq(SccSet(n)) /\ DOMAIN sccs = 1..Len(sccs) /\ Len(sccs) \in Nat
      /\ \A j \in 1..Len(sccs) : sccs[j].components \subseteq 1..n
  <2>1. sccs \in Seq(SccSet(n)) /\ DOMAIN sccs = 1..Len(sccs) /\ Len(sccs) \in Nat
        /\ \A j \in 1..Len(sccs) : sccs[j] \in SccSet(n)
    BY LenProperties DEF SccsRight
  <2> QED BY <2>1 DEF SccSet
<1>2. DOMAIN succ = 1..Len(sccs)
  BY <1>1 DEF SuccSccs
<1>3. ASSUME NEW i \in 1..Len(sccs)
      PROVE  succ[i] = {SccOf(sccs, c) : c \in UNION {g[f] : f \in sccs[i].components}} \ {i}
  BY <1>1 DEF SuccSccs
<1>4. ASSUME NEW i \in 1..Len(sccs), NEW j \in succ[i] PROVE j \in 1..(i - 1)
  <2>0. PICK c \in UNION {g[f] : f \in sccs[i].components} : j = SccOf(sccs, c) /\ j # i
    BY <1>3, <1>4
  <2>1. PICK f \in sccs[i].components : c \in g[f]
    BY <2>0
  <2>2. f \in 1..n
    BY <1>1
  <2>3. i = SccOf(sccs, f) /\ SccOf(sccs, c) \in 1..SccOf(sccs, f)
    <3>1. SccOf(sccs, f) \in 1..Len(sccs) /\ f \in sccs[i].components /\ c \in g[f]
      BY <2>1, <2>2, SccOfLemma
    <3> QED BY <2>2, <3>1, SccOfLemma
  <2> QED BY <2>0, <2>3
<1>5. ASSUME NEW f \in 1..n, NEW c \in g[f], SccOf(sccs, c) # SccOf(sccs, f)
      PROVE  SccOf(sccs, c) \in succ[SccOf(sccs, f)]
  <2>1. SccOf(sccs, f) \in 1..Len(sccs) /\ f \in sccs[SccOf(sccs, f)].components
    BY SccOfLemma
  <2> QED BY <1>3, <1>5, <2>1
<1> QED BY <1>1, <1>2, <1>4, <1>5 DEF IsDag

\* What is placed is placed once, after all that call it.
TopoInv(t, succ, p, k) ==
  /\ t \in Seq(1..p) /\ Len(t) = k /\ Cardinality(ToSet(t)) = k
  /\ \A a, b \in 1..k : t[a] = t[b] => a = b
  /\ \A a \in 1..k : \A j \in 1..p : t[a] \in succ[j] => \E b \in 1..(a - 1) : t[b] = j

\* There is one to place next.
LEMMA PlacedKeeps ==
  ASSUME NEW p, NEW succ, IsDag(succ, p), NEW k \in 0..(p - 1), NEW t, TopoInv(t, succ, p, k)
  PROVE  TopoInv(Placed(succ, t), succ, p, k + 1)
<1> DEFINE left == DOMAIN succ \ ToSet(t)
           ready == {i \in left : \A j \in left : i \notin succ[j]}
<1>1. p \in Nat /\ k \in Nat /\ k < p /\ left \subseteq 1..p /\ t \in Seq(1..p) /\ Len(t) = k /\ left = 1..p \ ToSet(t)
      /\ \A i \in 1..p : succ[i] \subseteq 1..(i - 1)
  BY DEF IsDag, TopoInv
<1>2. ToSet(t) = {t[a] : a \in 1..k} /\ ToSet(t) \subseteq 1..p /\ \A a \in 1..k : t[a] \in 1..p
  <2>1. ToSet(t) = {t[a] : a \in 1..Len(t)} /\ ToSet(t) \subseteq 1..p
    BY <1>1, ToSetLemma
  <2> QED BY <1>1, <2>1
<1>3. left # {}
  <2>1. SUFFICES ASSUME left = {} PROVE FALSE
    OBVIOUS
  <2>2. ToSet(t) = 1..p
    BY <1>1, <1>2, <2>1
  <2>3. Cardinality(ToSet(t)) = k /\ Cardinality(1..p) = p
    BY <1>1, FS_Interval DEF TopoInv
  <2> QED BY <1>1, <2>2, <2>3
<1> HIDE DEF left
<1>4. PICK top \in left : \A j \in left : j <= top
  <2> DEFINE T == {p - x : x \in left}
  <2>1. T \subseteq Nat /\ T # {}
    BY <1>1, <1>3
  <2>2. PICK y \in T : \A z \in T : y <= z
    BY <2>1, LeastNat
  <2>3. PICK top \in left : y = p - top
    BY <2>2
  <2>4. ASSUME NEW j \in left PROVE j <= top
    <3>1. p - top <= p - j
      BY <2>2, <2>3
    <3> QED BY <1>1, <2>3, <3>1
  <2> QED BY <2>3, <2>4
<1>5. top \in ready
  <2>1. ASSUME NEW j \in left, top \in succ[j] PROVE FALSE
    <3>1. top \in 1..(j - 1) /\ j \in 1..p /\ j <= top
      BY <1>1, <1>4, <2>1
    <3> QED BY <3>1
  <2> QED BY <1>4, <2>1
<1>6. ready \subseteq 1..p /\ ready \subseteq Nat
  BY <1>1
<1>7. PICK i \in ready : i = Least(ready)
  BY <1>5, <1>6, LeastLemma
<1>8. Placed(succ, t) = Append(t, i)
  BY <1>5, <1>7 DEF Placed, left
<1>9. i \in 1..p /\ i \notin ToSet(t) /\ \A j \in 1..p : i \in succ[j] => j \in ToSet(t)
  BY <1>1, <1>6
<1> HIDE DEF ready
<1>10. /\ Append(t, i) \in Seq(1..p) /\ ToSet(Append(t, i)) = ToSet(t) \cup {i} /\ Pushed(Append(t, i), t, i)
  BY <1>1, <1>9, AppendSetLemma, PushLemma
<1> DEFINE u == Append(t, i)
<1>11. Len(u) = k + 1 /\ u[k + 1] = i /\ \A a \in 1..k : u[a] = t[a]
  BY <1>1, <1>10 DEF Pushed
<1>12. Cardinality(ToSet(u)) = k + 1
  <2>1. IsFiniteSet(ToSet(t))
    <3>1. IsFiniteSet(1..p) /\ ToSet(t) \in SUBSET (1..p)
      BY <1>1, <1>2, FS_Interval
    <3> QED BY <3>1, FS_Subset
  <2>2. Cardinality(ToSet(t) \cup {i}) = Cardinality(ToSet(t)) + 1
    BY <1>9, <2>1, FS_AddElement
  <2> QED BY <1>10, <2>2 DEF TopoInv
<1> HIDE DEF u
<1>13. \A a \in 1..(k + 1) : a \in 1..k \/ a = k + 1
  BY <1>1
<1>14. \A a \in 1..k : t[a] # i
  BY <1>2, <1>9
<1>15. ASSUME NEW a \in 1..(k + 1), NEW b \in 1..(k + 1), u[a] = u[b] PROVE a = b
  <2>1. a \in 1..k /\ b \in 1..k => t[a] = t[b]
    BY <1>11, <1>15
  <2>2. a \in 1..k /\ b \in 1..k => a = b
    BY <2>1 DEF TopoInv
  <2> QED BY <1>11, <1>13, <1>14, <1>15, <2>2
<1>16. ASSUME NEW a \in 1..(k + 1), NEW j \in 1..p, u[a] \in succ[j]
       PROVE  \E b \in 1..(a - 1) : u[b] = j
  <2>1. CASE a \in 1..k
    <3>1. PICK b \in 1..(a - 1) : t[b] = j
      BY <1>11, <1>16, <2>1 DEF TopoInv
    <3>2. b \in 1..k
      BY <1>1, <2>1
    <3> QED BY <1>11, <3>1, <3>2
  <2>2. CASE a = k + 1
    <3>1. j \in ToSet(t)
      BY <1>9, <1>11, <1>16, <2>2
    <3>2. PICK b \in 1..k : t[b] = j
      BY <1>2, <3>1
    <3>3. b \in 1..(a - 1)
      BY <1>1, <2>2
    <3> QED BY <1>11, <3>2, <3>3
  <2> QED BY <1>13, <2>1, <2>2
<1>17. u \in Seq(1..p)
  BY <1>10 DEF u
<1> QED BY <1>8, <1>11, <1>12, <1>15, <1>16, <1>17 DEF TopoInv, u

\* Every component is placed.
LEMMA TopoRight ==
  ASSUME NEW sccs, NEW p, NEW succ, IsDag(succ, p), Len(sccs) = p
  PROVE  TopoInv(TopoSortSccs(sccs, succ), succ, p, p)
<1> DEFINE T == {t \in Seq(1..p) : \E k \in 0..p : TopoInv(t, succ, p, k)}
           step == [k \in 1..p |-> [t \in T |-> IF \E l \in 0..(p - 1) : TopoInv(t, succ, p, l)
                                                THEN Placed(succ, t) ELSE t]]
           topo == CHOOSE f : f = [k \in 0..Len(sccs) |-> IF k = 0 THEN <<>> ELSE Placed(succ, f[k - 1])]
<1>0. p \in Nat /\ DOMAIN succ = 1..p
  BY DEF IsDag
<1>1. TopoInv(<<>>, succ, p, 0) /\ <<>> \in Seq(1..p) /\ 0 \in 0..p
  <2>1. ToSet(<<>>) = {} /\ Cardinality({}) = 0
    BY FS_EmptySet DEF ToSet
  <2>2. \A k \in 1..0 : FALSE
    OBVIOUS
  <2>3. <<>> \in Seq(1..p) /\ Len(<<>>) = 0 /\ 0 \in 0..p
    BY <1>0
  <2> QED BY <2>1, <2>2, <2>3 DEF TopoInv
<1>2. ASSUME NEW k \in 1..p, NEW t \in T
      PROVE  step[k][t] \in T /\ \A l \in 0..(p - 1) : TopoInv(t, succ, p, l) => step[k][t] = Placed(succ, t)
  <2>1. CASE \E l \in 0..(p - 1) : TopoInv(t, succ, p, l)
    <3>1. PICK l \in 0..(p - 1) : TopoInv(t, succ, p, l)
      BY <2>1
    <3>2. TopoInv(Placed(succ, t), succ, p, l + 1) /\ l + 1 \in 0..p
      BY <1>0, <3>1, PlacedKeeps
    <3>3. Placed(succ, t) \in T
      BY <3>2 DEF TopoInv
    <3> QED BY <2>1, <3>3
  <2>2. CASE ~\E l \in 0..(p - 1) : TopoInv(t, succ, p, l)
    BY <2>2
  <2> QED BY <2>1, <2>2
<1>3. <<>> \in T
  BY <1>1
<1> HIDE DEF step, T
<1>4. Rounds(T, step, <<>>, p)
  BY <1>2, <1>3 DEF Rounds
<1>5. PICK f : LoopsUp(f, step, <<>>, p) /\ Round(f, step, <<>>, T, p) /\ \A k \in 0..p : f[k] \in T
  BY <1>0, <1>4, LoopExists
<1> DEFINE G == {k \in 0..p : TopoInv(f[k], succ, p, k)}
<1>6. 0 \in G
  BY <1>0, <1>1, <1>5 DEF Round
<1>7. ASSUME NEW k \in 0..(p - 1), k \in G PROVE k + 1 \in G /\ f[k + 1] = Placed(succ, f[k])
  <2>1. k + 1 \in 1..p /\ (k + 1) - 1 = k /\ k + 1 \in 0..p
    BY <1>0
  <2>2. f[k + 1] = step[k + 1][f[k]] /\ f[k] \in T
    BY <1>5, <2>1 DEF Round
  <2>3. f[k + 1] = Placed(succ, f[k])
    BY <1>2, <1>7, <2>1, <2>2
  <2>4. PICK t : t = f[k]
    OBVIOUS
  <2>5. TopoInv(t, succ, p, k)
    BY <1>7, <2>4
  <2>6. TopoInv(Placed(succ, t), succ, p, k + 1)
    BY <2>5, PlacedKeeps
  <2> QED BY <2>1, <2>3, <2>4, <2>6
<1> HIDE DEF G
<1>8. \A k \in 0..p : k \in G
  BY <1>0, <1>6, <1>7, CountUp
<1>9. DOMAIN f = 0..p /\ f = [k \in 0..p |-> f[k]]
  BY <1>5 DEF LoopsUp
<1>10. ASSUME NEW k \in 0..p PROVE f[k] = IF k = 0 THEN <<>> ELSE Placed(succ, f[k - 1])
  <2>1. CASE k = 0
    BY <1>5, <2>1 DEF Round
  <2>2. CASE k # 0
    <3>1. k - 1 \in 0..(p - 1) /\ (k - 1) + 1 = k
      BY <1>0, <2>2
    <3> QED BY <1>7, <1>8, <2>2, <3>1
  <2> QED BY <2>1, <2>2
<1>11. f = [k \in 0..Len(sccs) |-> IF k = 0 THEN <<>> ELSE Placed(succ, f[k - 1])]
  BY <1>9, <1>10
<1>12. topo = [k \in 0..Len(sccs) |-> IF k = 0 THEN <<>> ELSE Placed(succ, topo[k - 1])]
  BY <1>11
<1>13. TopoSortSccs(sccs, succ) = topo[p]
  BY DEF TopoSortSccs
<1> HIDE DEF topo
<1>14. topo[0] = <<>> /\ \A k \in 0..(p - 1) : topo[k + 1] = Placed(succ, topo[k])
  <2>1. topo[0] = <<>>
    BY <1>0, <1>12
  <2>2. ASSUME NEW k \in 0..(p - 1) PROVE topo[k + 1] = Placed(succ, topo[k])
    <3>1. k + 1 \in 0..Len(sccs) /\ k + 1 # 0 /\ (k + 1) - 1 = k
      BY <1>0
    <3> QED BY <1>12, <3>1
  <2> QED BY <2>1, <2>2
<1> DEFINE H == {k \in 0..p : TopoInv(topo[k], succ, p, k)}
<1>15. 0 \in H
  BY <1>0, <1>1, <1>14
<1>16. ASSUME NEW k \in 0..(p - 1), k \in H PROVE k + 1 \in H
  <2>1. PICK t : t = topo[k]
    OBVIOUS
  <2>2. TopoInv(t, succ, p, k)
    BY <1>16, <2>1
  <2>3. TopoInv(Placed(succ, t), succ, p, k + 1)
    BY <2>2, PlacedKeeps
  <2> QED BY <1>0, <1>14, <2>1, <2>3
<1> HIDE DEF H
<1>17. p \in H
  <2>1. \A k \in 0..p : k \in H
    BY <1>0, <1>15, <1>16, CountUp
  <2> QED BY <1>0, <2>1
<1> QED BY <1>13, <1>17 DEF H

\* The order of the components: each once, after those it calls.
OrderRight(order, succ, p) ==
  /\ order \in Seq(1..p) /\ Len(order) = p
  /\ \A i \in 1..p : \E a \in 1..p : order[a] = i
  /\ \A a, b \in 1..p : order[a] = order[b] => a = b
  /\ \A a \in 1..p : order[a] \in 1..p /\ \A j \in succ[order[a]] : \E b \in 1..(a - 1) : order[b] = j

LEMMA CalleesFirstRight ==
  ASSUME NEW sccs, NEW p, NEW succ, IsDag(succ, p), Len(sccs) = p
  PROVE  OrderRight(CalleesFirst(sccs, succ), succ, p)
<1>0. p \in Nat /\ \A i \in 1..p : succ[i] \subseteq 1..(i - 1)
  BY DEF IsDag
<1>1. PICK t : t = TopoSortSccs(sccs, succ)
  OBVIOUS
<1>2. TopoInv(t, succ, p, p)
  BY <1>1, TopoRight
<1>3. t \in Seq(1..p) /\ Len(t) = p /\ ToSet(t) = {t[a] : a \in 1..p} /\ ToSet(t) \in SUBSET (1..p)
  <2>1. t \in Seq(1..p) /\ Len(t) = p
    BY <1>2 DEF TopoInv
  <2> QED BY <2>1, ToSetLemma
<1>4. ToSet(t) = 1..p
  <2>1. IsFiniteSet(1..p) /\ Cardinality(1..p) = p
    <3>1. 1 \in Int /\ p \in Int /\ (IF 1 > p THEN 0 ELSE p - 1 + 1) = p
      BY <1>0
    <3>2. IsFiniteSet(1..p) /\ Cardinality(1..p) = IF 1 > p THEN 0 ELSE p - 1 + 1
      BY <3>1, FS_Interval
    <3> QED BY <3>1, <3>2
  <2>2. Cardinality(ToSet(t)) = p
    BY <1>2 DEF TopoInv
  <2> QED BY <1>3, <2>1, <2>2, FS_Subset
<1>5. PICK order : order = CalleesFirst(sccs, succ)
  OBVIOUS
<1>6. order = [i \in 1..p |-> t[(p - i) + 1]]
  BY <1>1, <1>3, <1>5 DEF CalleesFirst, Reverse
<1>7. \A i \in 1..p : (p - i) + 1 \in 1..p /\ (p - ((p - i) + 1)) + 1 = i
  BY <1>0
<1>8. \A a \in 1..p : t[a] \in 1..p
  BY <1>3, <1>4
<1>9. order \in Seq(1..p) /\ Len(order) = p
  <2>1. order \in [1..p -> 1..p]
    BY <1>6, <1>7, <1>8
  <2> QED BY <1>0, <2>1
<1>10. \A a \in 1..p : order[a] = t[(p - a) + 1] /\ order[(p - a) + 1] = t[a]
  BY <1>6, <1>7
<1>11. ASSUME NEW i \in 1..p PROVE \E a \in 1..p : order[a] = i
  <2>1. PICK a \in 1..p : t[a] = i
    BY <1>3, <1>4
  <2> QED BY <1>7, <1>10, <2>1
<1>12. ASSUME NEW a \in 1..p, NEW b \in 1..p, order[a] = order[b] PROVE a = b
  <2>1. (p - a) + 1 = (p - b) + 1
    BY <1>2, <1>7, <1>10, <1>12 DEF TopoInv
  <2> QED BY <1>0, <2>1
<1>13. ASSUME NEW a \in 1..p, NEW j \in succ[order[a]] PROVE \E b \in 1..(a - 1) : order[b] = j
  <2>1. PICK c \in 1..p : c = (p - a) + 1 /\ order[a] = t[c] /\ t[c] \in 1..p
    BY <1>7, <1>8, <1>10
  <2>2. j \in 1..p
    BY <1>0, <2>1
  <2>3. PICK b \in 1..p : t[b] = j
    BY <1>3, <1>4, <2>2
  <2>4. PICK d \in 1..(b - 1) : t[d] = t[c]
    <3>1. t[b] \in succ[t[c]]
      BY <2>1, <2>3
    <3> QED BY <1>2, <2>1, <3>1 DEF TopoInv
  <2>5. d \in 1..p
    BY <1>0, <2>4
  <2>6. d = c
    BY <1>2, <2>1, <2>4, <2>5 DEF TopoInv
  <2>7. (p - b) + 1 \in 1..(a - 1)
    BY <1>0, <2>1, <2>4, <2>6
  <2> QED BY <1>10, <2>3, <2>7
<1>14. \A a \in 1..p : order[a] \in 1..p
  BY <1>8, <1>7, <1>10
<1>15. OrderRight(order, succ, p)
  BY <1>9, <1>11, <1>12, <1>13, <1>14 DEF OrderRight
<1> QED BY <1>5, <1>15

-----------------------------------------------------------------------------
(***************************************************************************)
(* What a component gathers from those it calls.                           *)
(***************************************************************************)
Gathered(x, own, drop, succ, i) == (own[i] \cup UNION {x[j] : j \in succ[i]}) \ drop[i]
GathersUp(f, order, own, drop, succ, p) ==
  f = [k \in 0..p |-> IF k = 0 THEN [i \in 1..p |-> {}]
                      ELSE [f[k - 1] EXCEPT ![order[k]] = Gathered(f[k - 1], own, drop, succ, order[k])]]
AllGathered(x, own, drop, succ, p, D) ==
  x \in [1..p -> SUBSET D] /\ \A i \in 1..p : x[i] = Gathered(x, own, drop, succ, i)

\* A loop over the components, callees first, gathers for every component.
LEMMA GatherLemma ==
  ASSUME NEW D, NEW p, NEW succ, IsDag(succ, p), NEW order, OrderRight(order, succ, p),
         NEW own \in [1..p -> SUBSET D], NEW drop \in [1..p -> SUBSET D]
  PROVE  \E f : /\ GathersUp(f, order, own, drop, succ, p)
                /\ \A k \in 0..p : f[k] \in [1..p -> SUBSET D]
                /\ AllGathered(f[p], own, drop, succ, p, D)
<1> DEFINE T == [1..p -> SUBSET D]
           new(x, i) == Gathered(x, own, drop, succ, i)
           step == [k \in 1..p |-> [x \in T |-> [x EXCEPT ![order[k]] = new(x, order[k])]]]
           none == [i \in 1..p |-> {}]
<1>0. p \in Nat /\ \A i \in 1..p : succ[i] \subseteq 1..(i - 1)
  BY DEF IsDag
<1>1. \A k \in 1..p : order[k] \in 1..p
  BY DEF OrderRight
<1>2. \A x \in T : \A i \in 1..p : new(x, i) \in SUBSET D
  <2> SUFFICES ASSUME NEW x \in T, NEW i \in 1..p PROVE new(x, i) \in SUBSET D
    OBVIOUS
  <2>1. succ[i] \subseteq 1..p
    BY <1>0
  <2>2. \A j \in succ[i] : x[j] \subseteq D
    BY <2>1
  <2> QED BY <2>2 DEF Gathered
<1> HIDE DEF new
<1>3. Rounds(T, step, none, p)
  <2>1. none \in T
    OBVIOUS
  <2>2. ASSUME NEW k \in 1..p, NEW x \in T PROVE step[k][x] \in T
    <3>1. order[k] \in 1..p /\ new(x, order[k]) \in SUBSET D
      BY <1>1, <1>2
    <3>2. [x EXCEPT ![order[k]] = new(x, order[k])] \in T
      BY <3>1
    <3> QED BY <3>2
  <2> HIDE DEF step, none, T
  <2> QED BY <2>1, <2>2 DEF Rounds
<1>4. PICK f : LoopsUp(f, step, none, p) /\ Round(f, step, none, T, p) /\ \A k \in 0..p : f[k] \in T
  <2> HIDE DEF step, none, T
  <2> QED BY <1>0, <1>3, LoopExists
<1>5. \A k \in 0..(p - 1) : /\ k + 1 \in 1..p /\ k + 1 \in 0..p /\ f[k] \in T
                            /\ f[k + 1] = [f[k] EXCEPT ![order[k + 1]] = new(f[k], order[k + 1])]
  <2> SUFFICES ASSUME NEW k \in 0..(p - 1)
               PROVE  /\ k + 1 \in 1..p /\ k + 1 \in 0..p /\ f[k] \in T
                      /\ f[k + 1] = [f[k] EXCEPT ![order[k + 1]] = new(f[k], order[k + 1])]
    OBVIOUS
  <2>1. k + 1 \in 1..p /\ k + 1 \in 0..p /\ (k + 1) - 1 = k
    BY <1>0
  <2>2. f[k + 1] = step[k + 1][f[k]] /\ f[k] \in T
    <3> HIDE DEF step, none, T
    <3> QED BY <1>4, <2>1 DEF Round
  <2> QED BY <2>1, <2>2
<1>6. GathersUp(f, order, own, drop, succ, p)
  <2>1. DOMAIN f = 0..p /\ f = [k \in 0..p |-> f[k]]
    BY <1>4 DEF LoopsUp
  <2>2. ASSUME NEW k \in 0..p
        PROVE  f[k] = IF k = 0 THEN none ELSE [f[k - 1] EXCEPT ![order[k]] = new(f[k - 1], order[k])]
    <3>1. CASE k = 0
      BY <1>4, <3>1 DEF Round
    <3>2. CASE k # 0
      <4>1. k - 1 \in 0..(p - 1) /\ (k - 1) + 1 = k
        BY <1>0, <3>2
      <4> QED BY <1>5, <3>2, <4>1
    <3> QED BY <3>1, <3>2
  <2>3. f = [k \in 0..p |-> IF k = 0 THEN none ELSE [f[k - 1] EXCEPT ![order[k]] = new(f[k - 1], order[k])]]
    <3> HIDE DEF none
    <3> QED BY <2>1, <2>2
  <2> QED BY <2>3 DEF GathersUp, new
<1> DEFINE G == {k \in 0..p : \A a \in 1..k : f[k][order[a]] = new(f[k], order[a])}
<1>7. 0 \in G
  BY <1>0
<1>8. ASSUME NEW k \in 0..(p - 1), k \in G PROVE k + 1 \in G
  <2>1. PICK x, y : x = f[k] /\ y = f[k + 1]
    OBVIOUS
  <2>2. x \in T /\ y = [x EXCEPT ![order[k + 1]] = new(x, order[k + 1])] /\ k + 1 \in 1..p /\ k \in 0..p /\ k + 1 \in 0..p
    BY <1>0, <1>5, <2>1
  <2>3. y[order[k + 1]] = new(x, order[k + 1]) /\ \A i \in 1..p : i # order[k + 1] => y[i] = x[i]
    BY <1>1, <2>2
  <2>4. ASSUME NEW a \in 1..(k + 1) PROVE new(y, order[a]) = new(x, order[a])
    <3>1. a \in 1..p /\ order[a] \in 1..p
      BY <1>0, <1>1, <2>2
    <3>2. ASSUME NEW j \in succ[order[a]] PROVE y[j] = x[j]
      <4>1. PICK b \in 1..(a - 1) : order[b] = j
        BY <3>1 DEF OrderRight
      <4>2. b \in 1..p /\ b # k + 1 /\ order[b] \in 1..p
        BY <1>0, <1>1, <2>2
      <4>3. order[b] # order[k + 1]
        BY <2>2, <4>2 DEF OrderRight
      <4> QED BY <2>3, <4>1, <4>2, <4>3
    <3>3. {y[j] : j \in succ[order[a]]} = {x[j] : j \in succ[order[a]]}
      BY <3>2
    <3> QED BY <3>3 DEF new, Gathered
  <2>5. ASSUME NEW a \in 1..(k + 1) PROVE y[order[a]] = new(y, order[a])
    <3>1. CASE a = k + 1
      BY <2>3, <2>4, <3>1
    <3>2. CASE a # k + 1
      <4>1. a \in 1..k /\ a \in 1..p /\ order[a] \in 1..p
        BY <1>0, <1>1, <2>2, <3>2
      <4>2. order[a] # order[k + 1]
        BY <2>2, <3>2, <4>1 DEF OrderRight
      <4>3. x[order[a]] = new(x, order[a])
        BY <1>8, <2>1, <4>1
      <4> QED BY <2>3, <2>4, <4>1, <4>2, <4>3
    <3> QED BY <3>1, <3>2
  <2> QED BY <2>1, <2>2, <2>5
<1> HIDE DEF G
<1>9. p \in G /\ p \in 0..p
  <2>1. \A k \in 0..p : k \in G
    BY <1>0, <1>7, <1>8, CountUp
  <2> QED BY <1>0, <2>1
<1>10. ASSUME NEW i \in 1..p PROVE f[p][i] = new(f[p], i)
  <2>1. PICK a \in 1..p : order[a] = i
    BY DEF OrderRight
  <2> QED BY <1>9, <2>1 DEF G
<1>11. AllGathered(f[p], own, drop, succ, p, D)
  BY <1>4, <1>9, <1>10 DEF AllGathered, new
<1> QED BY <1>4, <1>6, <1>11

-----------------------------------------------------------------------------
(***************************************************************************)
(* The module, and whether a function may be recursive.                    *)
(***************************************************************************)
Blk(n) == [effects : SUBSET AnyMem, calls : Seq(1..n), succs : SUBSET Nat, exit : {"none", "return", "stop"}]
BlocksRight(blocks, calls, n) ==
  /\ blocks \in Seq(Blk(n))
  /\ \A b \in 1..Len(blocks) :
       /\ blocks[b] \in Blk(n) /\ blocks[b].succs \subseteq 1..Len(blocks)
       /\ blocks[b].exit = "none" <=> blocks[b].succs # {}
       /\ ToSet(blocks[b].calls) \subseteq calls
       /\ \A k \in 1..Len(blocks[b].calls) : blocks[b].calls[k] \in ToSet(blocks[b].calls)
ModuleRight(m, g, n) ==
  /\ n \in Nat /\ DOMAIN m = 1..n /\ IsGraph(g, n)
  /\ \A f \in 1..n : /\ m[f].linkage \in {"public", "private", "external"}
                     /\ BlocksRight(m[f].blocks, g[f], n)
                     /\ ~IsExternal(m, f) => HasBody(m, f) /\ 1 \in 1..Len(m[f].blocks)

LEMMA ModuleLemma ==
  ASSUME NEW m, IsModule(m)
  PROVE  ModuleRight(m, BuildGraph(m), Len(m))
<1> DEFINE n == Len(m)
           g == BuildGraph(m)
           M == [linkage : {"public", "private", "external"}, blocks : Seq(Blk(n))]
<1>1. m \in Seq(M)
  BY DEF IsModule, Blk
<1> HIDE DEF n
<1>2. n \in Nat /\ DOMAIN m = 1..n /\ \A f \in 1..n : m[f] \in M
  BY <1>1, LenProperties DEF n
<1> HIDE DEF M
<1>3. \A f \in 1..n : m[f].linkage \in {"public", "private", "external"} /\ m[f].blocks \in Seq(Blk(n))
  BY <1>2 DEF M
<1>4. \A f \in 1..n : g[f] = UNION {ToSet(b.calls) : b \in ToSet(m[f].blocks)}
  BY <1>2 DEF BuildGraph
<1>5. DOMAIN g = 1..n
  BY <1>2 DEF BuildGraph
<1> HIDE DEF g
<1>6. ASSUME NEW f \in 1..n
      PROVE  BlocksRight(m[f].blocks, g[f], n) /\ g[f] \subseteq 1..n
  <2>1. PICK blocks : blocks = m[f].blocks
    OBVIOUS
  <2>2. blocks \in Seq(Blk(n)) /\ ToSet(blocks) = {blocks[b] : b \in 1..Len(blocks)}
        /\ DOMAIN blocks = 1..Len(blocks) /\ \A b \in 1..Len(blocks) : blocks[b] \in Blk(n)
    <3>1. blocks \in Seq(Blk(n))
      BY <1>3, <2>1
    <3> QED BY <3>1, ToSetLemma, LenProperties
  <2>3. \A b \in ToSet(blocks) : b.succs \subseteq DOMAIN blocks /\ (b.exit = "none" <=> b.succs # {})
    BY <1>2, <2>1 DEF IsModule
  <2>4. ASSUME NEW b \in 1..Len(blocks)
        PROVE  /\ ToSet(blocks[b].calls) = {blocks[b].calls[k] : k \in 1..Len(blocks[b].calls)}
               /\ ToSet(blocks[b].calls) \subseteq 1..n
    <3>1. blocks[b].calls \in Seq(1..n)
      BY <2>2 DEF Blk
    <3> QED BY <3>1, ToSetLemma
  <2>5. g[f] \subseteq 1..n
    BY <1>4, <2>1, <2>2, <2>4
  <2>6. \A b \in 1..Len(blocks) : ToSet(blocks[b].calls) \subseteq g[f]
    BY <1>4, <2>1, <2>2
  <2>7. \A b \in 1..Len(blocks) : \A k \in 1..Len(blocks[b].calls) : blocks[b].calls[k] \in ToSet(blocks[b].calls)
    BY <2>4
  <2>8. \A b \in 1..Len(blocks) : blocks[b].succs \subseteq 1..Len(blocks) /\ (blocks[b].exit = "none" <=> blocks[b].succs # {})
    BY <2>2, <2>3
  <2>9. BlocksRight(blocks, g[f], n)
    BY <2>2, <2>6, <2>7, <2>8 DEF BlocksRight
  <2> QED BY <2>1, <2>5, <2>9
<1>7. ASSUME NEW f \in 1..n, ~IsExternal(m, f) PROVE HasBody(m, f) /\ 1 \in 1..Len(m[f].blocks)
  <2>1. HasBody(m, f)
    BY <1>2, <1>7 DEF IsModule
  <2>2. m[f].blocks \in Seq(Blk(n)) /\ m[f].blocks # <<>>
    BY <1>3, <2>1 DEF HasBody
  <2>3. Len(m[f].blocks) \in Nat \ {0}
    BY <2>2, NotEmpty
  <2> QED BY <2>1, <2>3
<1>8. IsGraph(g, n)
  BY <1>2, <1>5, <1>6 DEF IsGraph
<1>9. ModuleRight(m, g, n)
  BY <1>2, <1>3, <1>6, <1>7, <1>8 DEF ModuleRight
<1> QED BY <1>9 DEF g, n

\* The flow of every component is that of its calls.
Dirs == {"in", "out"}
FlowsRight(flow, m, g, sccs, succ, p) ==
  flow \in [1..p -> SUBSET Dirs] /\ \A i \in 1..p : flow[i] = FlowOf(m, g, sccs, succ, flow, i)

LEMMA FlowsLemma ==
  ASSUME NEW m, NEW g, NEW sccs, NEW p, NEW succ, IsDag(succ, p),
         p = Len(sccs), DOMAIN sccs = 1..p
  PROVE  FlowsRight(Flows(m, g, sccs, succ), m, g, sccs, succ, p)
<1> DEFINE order == [k \in 1..p |-> k]
           ext(i) == \E f \in sccs[i].components : IsExternal(m, f)
           pub(i) == sccs[i].components \subseteq PublicSide(m, g)
           own == [i \in 1..p |-> IF ext(i) THEN {"out"} ELSE IF pub(i) THEN {"in"} ELSE {}]
           drop == [i \in 1..p |-> IF ext(i) \/ ~pub(i) THEN {"in"} ELSE {}]
           none == [i \in DOMAIN sccs |-> {}]
           new(x, i) == FlowOf(m, g, sccs, succ, x, i)
<1>0. p \in Nat /\ \A i \in 1..p : succ[i] \subseteq 1..(i - 1)
  BY DEF IsDag
<1>1. OrderRight(order, succ, p)
  <2>1. order \in Seq(1..p) /\ Len(order) = p /\ \A k \in 1..p : order[k] = k
    BY <1>0
  <2> HIDE DEF order
  <2>2. \A i \in 1..p : order[i] = i /\ i \in 1..p
    BY <2>1
  <2>3. \A i \in 1..p : \E a \in 1..p : order[a] = i
    BY <2>2
  <2>4. \A a, b \in 1..p : order[a] = order[b] => a = b
    BY <2>2
  <2>5. ASSUME NEW a \in 1..p, NEW j \in succ[order[a]] PROVE \E b \in 1..(a - 1) : order[b] = j
    <3>1. j \in 1..(a - 1) /\ j \in 1..p
      BY <1>0, <2>2
    <3> QED BY <2>2, <3>1
  <2> QED BY <2>1, <2>2, <2>3, <2>4, <2>5 DEF OrderRight
<1>2. own \in [1..p -> SUBSET Dirs] /\ drop \in [1..p -> SUBSET Dirs]
  <2> HIDE DEF ext, pub
  <2> QED BY DEF Dirs
<1>3. ASSUME NEW x \in [1..p -> SUBSET Dirs], NEW i \in 1..p
      PROVE  new(x, i) = Gathered(x, own, drop, succ, i)
  <2> DEFINE callees == UNION {x[j] : j \in succ[i]}
  <2>1. \A j \in succ[i] : x[j] \subseteq Dirs
    BY <1>0
  <2>2. callees \subseteq Dirs
    BY <2>1
  <2>3. new(x, i) = IF ext(i) THEN {"out"} ELSE IF pub(i) THEN {"in"} \cup callees ELSE callees \ {"in"}
    BY DEF FlowOf
  <2>4. Gathered(x, own, drop, succ, i) = (own[i] \cup callees) \ drop[i]
    BY DEF Gathered
  <2> HIDE DEF new, callees, ext, pub
  <2>5. own[i] = IF ext(i) THEN {"out"} ELSE IF pub(i) THEN {"in"} ELSE {}
    OBVIOUS
  <2>6. drop[i] = IF ext(i) \/ ~pub(i) THEN {"in"} ELSE {}
    OBVIOUS
  <2> HIDE DEF own, drop
  <2>7. CASE ext(i)
    BY <2>2, <2>3, <2>4, <2>5, <2>6, <2>7 DEF Dirs
  <2>8. CASE ~ext(i) /\ pub(i)
    BY <2>3, <2>4, <2>5, <2>6, <2>8
  <2>9. CASE ~ext(i) /\ ~pub(i)
    BY <2>3, <2>4, <2>5, <2>6, <2>9
  <2> QED BY <2>7, <2>8, <2>9
<1> DEFINE flow == CHOOSE f : f = [k \in 0..Len(sccs) |-> IF k = 0 THEN none ELSE [f[k - 1] EXCEPT ![k] = new(f[k - 1], k)]]
<1>4. Flows(m, g, sccs, succ) = flow[p]
  BY DEF Flows
<1> HIDE DEF own, drop, new
<1>5. PICK f : /\ GathersUp(f, order, own, drop, succ, p)
               /\ \A k \in 0..p : f[k] \in [1..p -> SUBSET Dirs]
               /\ AllGathered(f[p], own, drop, succ, p, Dirs)
  <2> HIDE DEF order
  <2> QED BY <1>1, <1>2, GatherLemma
<1>6. f = [k \in 0..p |-> IF k = 0 THEN none ELSE [f[k - 1] EXCEPT ![order[k]] = Gathered(f[k - 1], own, drop, succ, order[k])]]
  BY <1>5 DEF GathersUp
<1>7. \A k \in 0..p : f[k] = IF k = 0 THEN none ELSE [f[k - 1] EXCEPT ![k] = new(f[k - 1], k)]
  <2> SUFFICES ASSUME NEW k \in 0..p PROVE f[k] = IF k = 0 THEN none ELSE [f[k - 1] EXCEPT ![k] = new(f[k - 1], k)]
    OBVIOUS
  <2>1. CASE k = 0
    BY <1>6, <2>1
  <2>2. CASE k # 0
    <3>1. k \in 1..p /\ k - 1 \in 0..p /\ order[k] = k
      BY <1>0, <2>2
    <3>2. new(f[k - 1], k) = Gathered(f[k - 1], own, drop, succ, k)
      BY <1>3, <1>5, <3>1
    <3>3. f[k] = [f[k - 1] EXCEPT ![order[k]] = Gathered(f[k - 1], own, drop, succ, order[k])]
      BY <1>6, <2>2
    <3> QED BY <2>2, <3>1, <3>2, <3>3
  <2> QED BY <2>1, <2>2
<1>8. f = [k \in 0..Len(sccs) |-> IF k = 0 THEN none ELSE [f[k - 1] EXCEPT ![k] = new(f[k - 1], k)]]
  <2>1. f = [k \in 0..p |-> f[k]]
    BY <1>6
  <2> HIDE DEF none
  <2> QED BY <1>7, <2>1
<1>9. flow = [k \in 0..Len(sccs) |-> IF k = 0 THEN none ELSE [flow[k - 1] EXCEPT ![k] = new(flow[k - 1], k)]]
  BY <1>8
<1> HIDE DEF flow, none
<1> DEFINE G == {k \in 0..p : flow[k] = f[k]}
<1>10. 0 \in G
  <2>1. 0 \in 0..p
    BY <1>0
  <2>2. flow[0] = none
    BY <1>9, <2>1
  <2>3. f[0] = none
    BY <1>7, <2>1
  <2> QED BY <2>1, <2>2, <2>3
<1>11. ASSUME NEW k \in 0..(p - 1), k \in G PROVE k + 1 \in G
  <2>1. k + 1 \in 0..p /\ k + 1 # 0 /\ (k + 1) - 1 = k
    BY <1>0
  <2>2. f[k + 1] = [f[k] EXCEPT ![k + 1] = new(f[k], k + 1)]
    BY <1>7, <2>1
  <2>3. flow[k + 1] = [flow[k] EXCEPT ![k + 1] = new(flow[k], k + 1)]
    BY <1>9, <2>1
  <2> QED BY <1>11, <2>1, <2>2, <2>3
<1> HIDE DEF G
<1>12. flow[p] = f[p]
  <2>1. \A k \in 0..p : k \in G
    BY <1>0, <1>10, <1>11, CountUp
  <2> QED BY <1>0, <2>1 DEF G
<1>13. ASSUME NEW i \in 1..p PROVE f[p][i] = FlowOf(m, g, sccs, succ, f[p], i)
  <2>1. f[p] \in [1..p -> SUBSET Dirs] /\ f[p][i] = Gathered(f[p], own, drop, succ, i)
    BY <1>5 DEF AllGathered
  <2>2. new(f[p], i) = Gathered(f[p], own, drop, succ, i)
    BY <1>3, <2>1
  <2> QED BY <2>1, <2>2 DEF new
<1>14. f[p] \in [1..p -> SUBSET Dirs]
  BY <1>5 DEF AllGathered
<1> QED BY <1>4, <1>12, <1>13, <1>14 DEF FlowsRight

-----------------------------------------------------------------------------
(***************************************************************************)
(* What a function does itself.                                            *)
(***************************************************************************)
\* What blocks reach.
LEMMA BlocksReach ==
  ASSUME NEW n, NEW calls, NEW blocks, BlocksRight(blocks, calls, n), NEW S \in SUBSET (1..Len(blocks)), NEW avoid
  PROVE  /\ LeastClosed(ReachSteps(Succs(blocks), S, avoid), 1..Len(blocks), Succs(blocks), S, avoid)
         /\ DOMAIN blocks = 1..Len(blocks) /\ \A b \in 1..Len(blocks) : Succs(blocks)[b] = blocks[b].succs
<1>1. DOMAIN blocks = 1..Len(blocks) /\ Len(blocks) \in Nat
  BY LenProperties DEF BlocksRight
<1>2. IsFiniteSet(1..Len(blocks))
  BY <1>1, FS_Interval
<1>3. \A b \in 1..Len(blocks) : Succs(blocks)[b] = blocks[b].succs
  BY <1>1 DEF Succs
<1>4. Succs(blocks) \in [1..Len(blocks) -> SUBSET (1..Len(blocks))]
  BY <1>1 DEF Succs, BlocksRight
<1> QED BY <1>1, <1>2, <1>3, <1>4, ReachLemma

Back(blocks, b) == ReachSteps(Succs(blocks), blocks[b].succs, {})
\* The facts hold of every block that is reached.
FactsRight(fa, blocks, calls) ==
  /\ ComputeReachable(blocks) \subseteq 1..Len(blocks) /\ 1 \in ComputeReachable(blocks)
  /\ fa.local_mem \subseteq AnyMem /\ fa.callees \subseteq calls
  /\ \A b \in ComputeReachable(blocks) :
       /\ blocks[b].succs \subseteq ComputeReachable(blocks)
       /\ blocks[b].effects \subseteq fa.local_mem
       /\ \A k \in 1..Len(blocks[b].calls) : blocks[b].calls[k] \in fa.callees
       /\ ~fa.cfg_has_cycle => b \notin Back(blocks, b)
       /\ fa.exits_all_return_like /\ blocks[b].succs = {} => blocks[b].exit = "return"
       /\ ~fa.has_any_return_like_exit /\ blocks[b].succs = {} => blocks[b].exit # "return"

LEMMA FactsLemma ==
  ASSUME NEW n, NEW calls, NEW blocks, BlocksRight(blocks, calls, n), 1 \in 1..Len(blocks)
  PROVE  FactsRight(LocalFacts(blocks), blocks, calls)
<1> DEFINE R == ComputeReachable(blocks)
           fa == LocalFacts(blocks)
           exits == {b \in R : IsExit(blocks[b])}
<1>1. LeastClosed(R, 1..Len(blocks), Succs(blocks), {1}, {})
      /\ \A b \in 1..Len(blocks) : Succs(blocks)[b] = blocks[b].succs
  <2>1. {1} \in SUBSET (1..Len(blocks))
    OBVIOUS
  <2> QED BY <2>1, BlocksReach DEF ComputeReachable
<1>2. /\ fa.local_mem = UNION {blocks[b].effects : b \in R}
      /\ fa.callees = UNION {ToSet(blocks[b].calls) : b \in R}
      /\ fa.cfg_has_cycle = \E b \in R : b \in Back(blocks, b)
      /\ fa.exits_all_return_like = (exits # {} /\ \A b \in exits : blocks[b].exit = "return")
      /\ fa.has_any_return_like_exit = \E b \in exits : blocks[b].exit = "return"
  BY DEF LocalFacts, Back
<1> HIDE DEF fa, R
<1>3. R \subseteq 1..Len(blocks) /\ 1 \in R /\ \A b \in R : blocks[b].succs \subseteq R
  BY <1>1 DEF LeastClosed
<1>4. \A b \in R : blocks[b] \in Blk(n) /\ ToSet(blocks[b].calls) \subseteq calls
                   /\ \A k \in 1..Len(blocks[b].calls) : blocks[b].calls[k] \in ToSet(blocks[b].calls)
  BY <1>3 DEF BlocksRight
<1>5. fa.local_mem \subseteq AnyMem
  BY <1>2, <1>4 DEF Blk
<1>6. fa.callees \subseteq calls
  BY <1>2, <1>4
<1>7. ASSUME NEW b \in R
      PROVE  /\ blocks[b].effects \subseteq fa.local_mem
             /\ \A k \in 1..Len(blocks[b].calls) : blocks[b].calls[k] \in fa.callees
             /\ ~fa.cfg_has_cycle => b \notin Back(blocks, b)
             /\ fa.exits_all_return_like /\ blocks[b].succs = {} => blocks[b].exit = "return"
             /\ ~fa.has_any_return_like_exit /\ blocks[b].succs = {} => blocks[b].exit # "return"
  <2>1. blocks[b].effects \subseteq fa.local_mem
    BY <1>2
  <2>2. \A k \in 1..Len(blocks[b].calls) : blocks[b].calls[k] \in fa.callees
    BY <1>2, <1>4
  <2>3. ~fa.cfg_has_cycle => b \notin Back(blocks, b)
    BY <1>2
  <2>4. blocks[b].succs = {} => b \in exits
    BY DEF IsExit
  <2>5. fa.exits_all_return_like /\ blocks[b].succs = {} => blocks[b].exit = "return"
    BY <1>2, <2>4
  <2>6. ~fa.has_any_return_like_exit /\ blocks[b].succs = {} => blocks[b].exit # "return"
    BY <1>2, <2>4
  <2> QED BY <2>1, <2>2, <2>3, <2>5, <2>6
<1>8. FactsRight(fa, blocks, calls)
  BY <1>3, <1>5, <1>6, <1>7 DEF FactsRight, R
<1> QED BY <1>8 DEF fa

Fewer(a, b, calls) == \A c \in calls : a[c] \subseteq b[c]
\* With more calls that do not return, no more is left.
LEMMA ReturnShrinks ==
  ASSUME NEW n, NEW calls, NEW blocks, BlocksRight(blocks, calls, n), 1 \in 1..Len(blocks),
         NEW a, NEW b, Fewer(a, b, calls), HasReachableReturn(blocks, b)
  PROVE  HasReachableReturn(blocks, a)
<1> DEFINE stuck(x) == {i \in DOMAIN blocks : HasNoreturnCall(blocks[i], x)}
           left(x) == ReachSteps(Succs(blocks), {1}, stuck(x))
<1>1. {1} \in SUBSET (1..Len(blocks))
  OBVIOUS
<1>2. stuck(a) \subseteq stuck(b)
  <2>1. DOMAIN blocks = 1..Len(blocks)
    BY <1>1, BlocksReach
  <2>2. ASSUME NEW i \in 1..Len(blocks), NEW c \in ToSet(blocks[i].calls), "NORETURN" \in a[c] PROVE "NORETURN" \in b[c]
    <3>1. c \in calls
      BY DEF BlocksRight
    <3> QED BY <2>2, <3>1 DEF Fewer
  <2> QED BY <2>1, <2>2 DEF HasNoreturnCall
<1> HIDE DEF stuck
<1>3. LeastClosed(left(a), 1..Len(blocks), Succs(blocks), {1}, stuck(a))
  BY <1>1, BlocksReach
<1>4. LeastClosed(left(b), 1..Len(blocks), Succs(blocks), {1}, stuck(b))
  BY <1>1, BlocksReach
<1>5. HasReachableReturn(blocks, a) = \E i \in left(a) : blocks[i].exit = "return"
  BY DEF HasReachableReturn, stuck
<1>6. HasReachableReturn(blocks, b) = \E i \in left(b) : blocks[i].exit = "return"
  BY DEF HasReachableReturn, stuck
<1> HIDE DEF left
<1>7. left(b) \subseteq left(a)
  <2>1. {1} \ stuck(b) \subseteq left(a)
    BY <1>2, <1>3 DEF LeastClosed
  <2>2. \A i \in left(a) \cap left(b) : Succs(blocks)[i] \ stuck(b) \subseteq left(a)
    BY <1>2, <1>3 DEF LeastClosed
  <2> QED BY <1>4, <2>1, <2>2 DEF LeastClosed
<1> QED BY <1>5, <1>6, <1>7

-----------------------------------------------------------------------------
(***************************************************************************)
(* The attributes: memory from callees to callers, then what returns.      *)
(***************************************************************************)
Names == AnyMem \cup {"NORETURN", "WILLRETURN", "WILLTERMINATE"}
FactsOf(facts, m, g, n) == \A f \in 1..n : Known(m, f) => FactsRight(facts[f], m[f].blocks, g[f])
StartRight(a, facts, m, g, n) ==
  /\ a \in [1..n -> SUBSET Names]
  /\ \A f \in 1..n :
       /\ ~Known(m, f) => a[f] = AnyMem
       /\ \A c \in g[f] : a[c] \cap AnyMem \subseteq a[f]
       /\ Known(m, f) => /\ facts[f].local_mem \subseteq a[f]
                         /\ "WILLRETURN" \notin a[f] /\ "WILLTERMINATE" \notin a[f]
                         /\ "NORETURN" \in a[f] => ~facts[f].has_any_return_like_exit

\* A component touches the memory its functions do, and those it calls.
MemGathered(mem, m, facts, sccs, succ, p) ==
  /\ mem \in [1..p -> SUBSET AnyMem]
  /\ \A i \in 1..p : OwnEffects(m, facts, sccs[i]) \subseteq mem[i] /\ \A j \in succ[i] : mem[j] \subseteq mem[i]
MemLoop(mem, m, facts, sccs, succ, order) ==
  mem = [k \in 0..Len(order) |-> IF k = 0 THEN [i \in DOMAIN sccs |-> {}]
                                 ELSE [mem[k - 1] EXCEPT ![order[k]] = SccMem(m, facts, sccs, succ, mem[k - 1], order[k])]]

LEMMA MemLemma ==
  ASSUME NEW m, NEW facts, NEW sccs, NEW p, NEW succ, IsDag(succ, p), DOMAIN sccs = 1..p,
         NEW order, OrderRight(order, succ, p),
         \A i \in 1..p : OwnEffects(m, facts, sccs[i]) \subseteq AnyMem
  PROVE  \E mem : /\ mem = CHOOSE x : MemLoop(x, m, facts, sccs, succ, order)
                  /\ MemGathered(mem[Len(order)], m, facts, sccs, succ, p)
<1> DEFINE own == [i \in 1..p |-> OwnEffects(m, facts, sccs[i])]
           drop == [i \in 1..p |-> {}]
           none == [i \in DOMAIN sccs |-> {}]
           new(x, i) == SccMem(m, facts, sccs, succ, x, i)
<1>0. p \in Nat /\ \A i \in 1..p : succ[i] \subseteq 1..(i - 1)
  BY DEF IsDag
<1>1. Len(order) = p /\ \A k \in 1..p : order[k] \in 1..p
  BY DEF OrderRight
<1>2. own \in [1..p -> SUBSET AnyMem] /\ drop \in [1..p -> SUBSET AnyMem]
  OBVIOUS
<1>3. ASSUME NEW x, NEW i \in 1..p PROVE new(x, i) = Gathered(x, own, drop, succ, i)
  BY DEF SccMem, Gathered
<1>4. none = [i \in 1..p |-> {}]
  OBVIOUS
<1>5. own = [i \in 1..p |-> OwnEffects(m, facts, sccs[i])] /\ drop = [i \in 1..p |-> {}]
  OBVIOUS
<1> HIDE DEF own, drop, new, none
<1>6. PICK f : /\ GathersUp(f, order, own, drop, succ, p)
               /\ \A k \in 0..p : f[k] \in [1..p -> SUBSET AnyMem]
               /\ AllGathered(f[p], own, drop, succ, p, AnyMem)
  BY <1>2, GatherLemma
<1>7. f = [k \in 0..p |-> IF k = 0 THEN none ELSE [f[k - 1] EXCEPT ![order[k]] = Gathered(f[k - 1], own, drop, succ, order[k])]]
  BY <1>4, <1>6 DEF GathersUp
<1>8. \A k \in 0..p : f[k] = IF k = 0 THEN none ELSE [f[k - 1] EXCEPT ![order[k]] = new(f[k - 1], order[k])]
  <2> SUFFICES ASSUME NEW k \in 0..p PROVE f[k] = IF k = 0 THEN none ELSE [f[k - 1] EXCEPT ![order[k]] = new(f[k - 1], order[k])]
    OBVIOUS
  <2>1. CASE k = 0
    BY <1>7, <2>1
  <2>2. CASE k # 0
    <3>1. k \in 1..p
      BY <1>0, <2>2
    <3>2. new(f[k - 1], order[k]) = Gathered(f[k - 1], own, drop, succ, order[k])
      BY <1>1, <1>3, <3>1
    <3>3. f[k] = [f[k - 1] EXCEPT ![order[k]] = Gathered(f[k - 1], own, drop, succ, order[k])]
      BY <1>7, <2>2
    <3> QED BY <2>2, <3>2, <3>3
  <2> QED BY <2>1, <2>2
<1>9. MemLoop(f, m, facts, sccs, succ, order)
  <2>1. f = [k \in 0..p |-> f[k]]
    BY <1>7
  <2>2. f = [k \in 0..Len(order) |-> IF k = 0 THEN none ELSE [f[k - 1] EXCEPT ![order[k]] = new(f[k - 1], order[k])]]
    BY <1>1, <1>8, <2>1
  <2> QED BY <2>2 DEF MemLoop, none, new
<1>10. PICK mem : mem = CHOOSE x : MemLoop(x, m, facts, sccs, succ, order)
  OBVIOUS
<1>11. MemLoop(mem, m, facts, sccs, succ, order)
  BY <1>9, <1>10
<1>12. mem = [k \in 0..Len(order) |-> IF k = 0 THEN none ELSE [mem[k - 1] EXCEPT ![order[k]] = new(mem[k - 1], order[k])]]
  BY <1>11 DEF MemLoop, none, new
<1> DEFINE G == {k \in 0..p : mem[k] = f[k]}
<1>13. 0 \in G
  <2>1. 0 \in 0..p /\ mem[0] = none
    BY <1>0, <1>1, <1>12
  <2> QED BY <1>8, <2>1
<1>14. ASSUME NEW k \in 0..(p - 1), k \in G PROVE k + 1 \in G
  <2>1. k + 1 \in 0..p /\ k + 1 # 0 /\ (k + 1) - 1 = k
    BY <1>0
  <2>2. f[k + 1] = [f[k] EXCEPT ![order[k + 1]] = new(f[k], order[k + 1])]
    BY <1>8, <2>1
  <2>3. mem[k + 1] = [mem[k] EXCEPT ![order[k + 1]] = new(mem[k], order[k + 1])]
    BY <1>1, <1>12, <2>1
  <2> QED BY <1>14, <2>1, <2>2, <2>3
<1> HIDE DEF G
<1>15. mem[p] = f[p]
  <2>1. \A k \in 0..p : k \in G
    BY <1>0, <1>13, <1>14, CountUp
  <2> QED BY <1>0, <2>1 DEF G
<1>16. MemGathered(f[p], m, facts, sccs, succ, p)
  <2>1. f[p] \in [1..p -> SUBSET AnyMem] /\ \A i \in 1..p : f[p][i] = (own[i] \cup UNION {f[p][j] : j \in succ[i]}) \ drop[i]
    BY <1>6 DEF AllGathered, Gathered
  <2>2. \A i \in 1..p : drop[i] = {} /\ own[i] = OwnEffects(m, facts, sccs[i])
    BY <1>5
  <2>3. \A i \in 1..p : f[p][i] = own[i] \cup UNION {f[p][j] : j \in succ[i]}
    BY <2>1, <2>2
  <2>4. \A i \in 1..p : own[i] \subseteq f[p][i] /\ \A j \in succ[i] : f[p][j] \subseteq f[p][i]
    BY <2>3
  <2> QED BY <2>1, <2>2, <2>4 DEF MemGathered
<1> QED BY <1>1, <1>10, <1>15, <1>16

LEMMA StartLemma ==
  ASSUME NEW m, NEW n, NEW g, ModuleRight(m, g, n), NEW facts, FactsOf(facts, m, g, n),
         NEW sccs, SccsRight(sccs, g, n), NEW succ, succ = SuccSccs(sccs, g),
         NEW order, OrderRight(order, succ, Len(sccs))
  PROVE  StartRight(PropagateMem(m, facts, sccs, succ, order), facts, m, g, n)
<1> DEFINE p == Len(sccs)
<1>1. n \in Nat /\ DOMAIN m = 1..n /\ IsGraph(g, n)
  BY DEF ModuleRight
<1>2. IsDag(succ, p) /\ \A f \in 1..n : \A c \in g[f] : SccOf(sccs, c) = SccOf(sccs, f) \/ SccOf(sccs, c) \in succ[SccOf(sccs, f)]
  BY <1>1, SuccLemma
<1>3. DOMAIN sccs = 1..p /\ \A i \in 1..p : sccs[i].components \subseteq 1..n
  <2>1. sccs \in Seq(SccSet(n)) /\ DOMAIN sccs = 1..Len(sccs) /\ \A j \in 1..Len(sccs) : sccs[j] \in SccSet(n)
    BY LenProperties DEF SccsRight
  <2> QED BY <2>1 DEF SccSet
<1> DEFINE does(f) == IF Known(m, f) THEN facts[f].local_mem ELSE AnyMem
<1>4. \A i \in 1..p : OwnEffects(m, facts, sccs[i]) = UNION {does(f) : f \in sccs[i].components}
  BY DEF OwnEffects
<1>5. \A f \in 1..n : does(f) \subseteq AnyMem
  BY DEF FactsOf, FactsRight
<1> HIDE DEF does
<1>6. \A i \in 1..p : OwnEffects(m, facts, sccs[i]) \subseteq AnyMem
  BY <1>3, <1>4, <1>5
<1>7. PICK mem : /\ mem = CHOOSE x : MemLoop(x, m, facts, sccs, succ, order)
                 /\ MemGathered(mem[Len(order)], m, facts, sccs, succ, p)
  BY <1>2, <1>3, <1>6, MemLemma
<1>8. PICK z : z = mem[Len(order)]
  OBVIOUS
<1>9. PropagateMem(m, facts, sccs, succ, order) = [f \in 1..n |-> (StartAttrs(m, facts, f) \ AnyMem) \cup z[SccOf(sccs, f)]]
  <2>1. PropagateMem(m, facts, sccs, succ, order) = [f \in DOMAIN m |-> (StartAttrs(m, facts, f) \ AnyMem) \cup mem[Len(order)][SccOf(sccs, f)]]
    BY <1>7 DEF PropagateMem, MemLoop
  <2> QED BY <1>1, <1>8, <2>1
<1> DEFINE a == [f \in 1..n |-> (StartAttrs(m, facts, f) \ AnyMem) \cup z[SccOf(sccs, f)]]
<1>10. \A f \in 1..n : a[f] = (StartAttrs(m, facts, f) \ AnyMem) \cup z[SccOf(sccs, f)]
  OBVIOUS
<1>11. ASSUME NEW f \in 1..n
       PROVE  /\ SccOf(sccs, f) \in 1..p /\ z[SccOf(sccs, f)] \subseteq AnyMem /\ does(f) \subseteq z[SccOf(sccs, f)]
              /\ \A c \in g[f] : c \in 1..n /\ z[SccOf(sccs, c)] \subseteq z[SccOf(sccs, f)]
  <2>1. SccOf(sccs, f) \in 1..p /\ f \in sccs[SccOf(sccs, f)].components /\ \A c \in g[f] : c \in 1..n
    BY <1>1, SccOfLemma
  <2>2. z[SccOf(sccs, f)] \subseteq AnyMem
    BY <1>7, <1>8, <2>1 DEF MemGathered
  <2>3. does(f) \subseteq z[SccOf(sccs, f)]
    BY <1>4, <1>7, <1>8, <2>1 DEF MemGathered
  <2>4. ASSUME NEW c \in g[f] PROVE z[SccOf(sccs, c)] \subseteq z[SccOf(sccs, f)]
    BY <1>2, <1>7, <1>8, <2>1 DEF MemGathered
  <2> QED BY <2>1, <2>2, <2>3, <2>4
<1>12. \A f \in 1..n : StartAttrs(m, facts, f) \ AnyMem = IF ~Known(m, f) \/ facts[f].has_any_return_like_exit THEN {} ELSE {"NORETURN"}
  BY DEF StartAttrs, AnyMem
<1> HIDE DEF a
<1>13. a \in [1..n -> SUBSET Names]
  <2>1. \A f \in 1..n : (StartAttrs(m, facts, f) \ AnyMem) \cup z[SccOf(sccs, f)] \in SUBSET Names
    BY <1>11, <1>12 DEF Names
  <2> QED BY <2>1 DEF a
<1>14. ASSUME NEW f \in 1..n
       PROVE  /\ ~Known(m, f) => a[f] = AnyMem
              /\ \A c \in g[f] : a[c] \cap AnyMem \subseteq a[f]
              /\ Known(m, f) => /\ facts[f].local_mem \subseteq a[f]
                                /\ "WILLRETURN" \notin a[f] /\ "WILLTERMINATE" \notin a[f]
                                /\ "NORETURN" \in a[f] => ~facts[f].has_any_return_like_exit
  <2>1. ~Known(m, f) => a[f] = AnyMem
    <3>1. SUFFICES ASSUME ~Known(m, f) PROVE a[f] = AnyMem
      OBVIOUS
    <3>2. z[SccOf(sccs, f)] = AnyMem
      BY <1>11, <3>1 DEF does
    <3> QED BY <1>10, <1>12, <3>1, <3>2
  <2>2. ASSUME NEW c \in g[f] PROVE a[c] \cap AnyMem \subseteq a[f]
    <3>1. c \in 1..n /\ a[c] = (StartAttrs(m, facts, c) \ AnyMem) \cup z[SccOf(sccs, c)]
      BY <1>10, <1>11
    <3>2. a[c] \cap AnyMem \subseteq z[SccOf(sccs, c)]
      BY <3>1
    <3> QED BY <1>10, <1>11, <3>1, <3>2
  <2>3. ASSUME Known(m, f)
        PROVE  /\ facts[f].local_mem \subseteq a[f]
               /\ "WILLRETURN" \notin a[f] /\ "WILLTERMINATE" \notin a[f]
               /\ "NORETURN" \in a[f] => ~facts[f].has_any_return_like_exit
    <3>1. facts[f].local_mem \subseteq a[f]
      BY <1>10, <1>11, <2>3 DEF does
    <3>2. "WILLRETURN" \notin AnyMem /\ "WILLTERMINATE" \notin AnyMem /\ "NORETURN" \notin AnyMem
      BY DEF AnyMem
    <3>3. a[f] = (IF ~Known(m, f) \/ facts[f].has_any_return_like_exit THEN {} ELSE {"NORETURN"}) \cup z[SccOf(sccs, f)]
          /\ z[SccOf(sccs, f)] \subseteq AnyMem
      BY <1>10, <1>11, <1>12
    <3> QED BY <2>3, <3>1, <3>2, <3>3
  <2> QED BY <2>1, <2>2, <2>3
<1>15. StartRight(a, facts, m, g, n)
  BY <1>13, <1>14 DEF StartRight
<1> QED BY <1>9, <1>15 DEF a

\* What the attributes say of the module and of each other.
AttrsOf(a, facts, m, g, sccs, f) ==
  /\ ~Known(m, f) => a[f] = AnyMem
  /\ \A c \in g[f] : a[c] \cap AnyMem \subseteq a[f]
  /\ Known(m, f) => /\ facts[f].local_mem \subseteq a[f]
                    /\ "NORETURN" \in a[f] => ~facts[f].has_any_return_like_exit \/ ~HasReachableReturn(m[f].blocks, a)
  /\ "WILLTERMINATE" \in a[f] => /\ Known(m, f) /\ ~sccs[SccOf(sccs, f)].is_cycle /\ ~facts[f].cfg_has_cycle
                                 /\ \A c \in facts[f].callees : "WILLTERMINATE" \in a[c]
  /\ "WILLRETURN" \in a[f] => /\ "WILLTERMINATE" \in a[f] /\ facts[f].exits_all_return_like
                              /\ \A c \in facts[f].callees : "WILLRETURN" \in a[c]
AttrsRight(a, facts, m, g, sccs, n) ==
  a \in [1..n -> SUBSET Names] /\ \A f \in 1..n : AttrsOf(a, facts, m, g, sccs, f)

\* b is a, with what WillAttrs adds for functions that are on no cycle.
Grows(b, a, facts, m, sccs, n) ==
  \A f \in 1..n :
    \/ b[f] = a[f]
    \/ Known(m, f) /\ ~sccs[SccOf(sccs, f)].is_cycle /\ b[f] = a[f] \cup WillAttrs(m, facts, a, f)

LEMMA GrowsKeeps ==
  ASSUME NEW m, NEW n, NEW g, ModuleRight(m, g, n), NEW facts, FactsOf(facts, m, g, n), NEW sccs,
         NEW a, AttrsRight(a, facts, m, g, sccs, n), NEW b, DOMAIN b = 1..n, b = [f \in 1..n |-> b[f]],
         Grows(b, a, facts, m, sccs, n)
  PROVE  AttrsRight(b, facts, m, g, sccs, n)
<1>0. n \in Nat /\ \A f \in 1..n : g[f] \subseteq 1..n
  BY DEF ModuleRight, IsGraph
<1> DEFINE W == {"NORETURN", "WILLRETURN", "WILLTERMINATE"}
           all(f, attr) == \A c \in facts[f].callees : attr \in a[c]
           w1(f) == IF HasReachableReturn(m[f].blocks, a) THEN {} ELSE {"NORETURN"}
           w2(f) == IF facts[f].cfg_has_cycle THEN {}
                    ELSE IF facts[f].exits_all_return_like /\ all(f, "WILLRETURN")
                         THEN {"WILLRETURN", "WILLTERMINATE"}
                    ELSE IF facts[f].exits_all_terminate_like /\ all(f, "WILLTERMINATE")
                         THEN {"WILLTERMINATE"} ELSE {}
<1>1. \A f \in 1..n : WillAttrs(m, facts, a, f) = w1(f) \cup w2(f)
  BY DEF WillAttrs
<1>2. \A f \in 1..n : w1(f) \subseteq {"NORETURN"} /\ ("NORETURN" \in w1(f) => ~HasReachableReturn(m[f].blocks, a))
  OBVIOUS
<1>3. \A f \in 1..n : /\ w2(f) \subseteq {"WILLRETURN", "WILLTERMINATE"}
                      /\ "WILLTERMINATE" \in w2(f) => ~facts[f].cfg_has_cycle /\ (all(f, "WILLTERMINATE") \/ all(f, "WILLRETURN"))
                      /\ "WILLRETURN" \in w2(f) => facts[f].exits_all_return_like /\ all(f, "WILLRETURN") /\ "WILLTERMINATE" \in w2(f)
  <2> HIDE DEF all
  <2> QED OBVIOUS
<1> HIDE DEF w1, w2
<1>4. ASSUME NEW f \in 1..n
      PROVE  /\ a[f] \in SUBSET Names /\ b[f] \in SUBSET Names /\ a[f] \subseteq b[f]
             /\ \A x \in AnyMem : x \in b[f] => x \in a[f]
             /\ AttrsOf(a, facts, m, g, sccs, f)
  <2>1. a[f] \in SUBSET Names /\ AttrsOf(a, facts, m, g, sccs, f)
    BY DEF AttrsRight
  <2>2. WillAttrs(m, facts, a, f) \subseteq W
    BY <1>1, <1>2, <1>3
  <2>3. W \subseteq Names /\ \A x \in AnyMem : x \notin W
    BY DEF Names, AnyMem
  <2> HIDE DEF W
  <2> QED BY <2>1, <2>2, <2>3 DEF Grows
<1>5. b \in [1..n -> SUBSET Names]
  BY <1>4
<1>6. ASSUME NEW f \in 1..n PROVE AttrsOf(b, facts, m, g, sccs, f)
  <2>0. AttrsOf(a, facts, m, g, sccs, f) /\ a[f] \subseteq b[f] /\ (Known(m, f) => FactsRight(facts[f], m[f].blocks, g[f]))
    BY <1>4 DEF FactsOf
  <2>1. ~Known(m, f) => b[f] = AnyMem
    BY <2>0 DEF AttrsOf, Grows
  <2>2. ASSUME NEW c \in g[f] PROVE b[c] \cap AnyMem \subseteq b[f]
    <3>1. c \in 1..n /\ \A x \in AnyMem : x \in b[c] => x \in a[c]
      BY <1>0, <1>4
    <3>2. a[c] \cap AnyMem \subseteq a[f]
      BY <2>0 DEF AttrsOf
    <3> QED BY <2>0, <3>1, <3>2
  <2>3. Known(m, f) => facts[f].local_mem \subseteq b[f]
    BY <2>0 DEF AttrsOf
  <2>4. Known(m, f) => facts[f].callees \subseteq g[f] /\ BlocksRight(m[f].blocks, g[f], n) /\ 1 \in 1..Len(m[f].blocks)
    BY <2>0 DEF FactsRight, ModuleRight, Known
  <2>5. Known(m, f) /\ HasReachableReturn(m[f].blocks, b) => HasReachableReturn(m[f].blocks, a)
    <3> SUFFICES ASSUME Known(m, f), HasReachableReturn(m[f].blocks, b) PROVE HasReachableReturn(m[f].blocks, a)
      OBVIOUS
    <3>1. PICK calls, blocks : calls = g[f] /\ blocks = m[f].blocks
      OBVIOUS
    <3>2. Fewer(a, b, calls)
      BY <1>0, <1>4, <3>1 DEF Fewer
    <3>3. BlocksRight(blocks, calls, n) /\ 1 \in 1..Len(blocks) /\ HasReachableReturn(blocks, b)
      BY <2>4, <3>1
    <3>4. HasReachableReturn(blocks, a)
      BY <3>2, <3>3, ReturnShrinks
    <3> QED BY <3>1, <3>4
  <2>6. ASSUME Known(m, f), "NORETURN" \in b[f]
        PROVE  ~facts[f].has_any_return_like_exit \/ ~HasReachableReturn(m[f].blocks, b)
    <3>1. CASE "NORETURN" \in a[f]
      BY <2>0, <2>5, <2>6, <3>1 DEF AttrsOf
    <3>2. CASE "NORETURN" \notin a[f]
      <4>1. "NORETURN" \in w1(f)
        BY <1>1, <1>3, <2>6, <3>2 DEF Grows
      <4> QED BY <1>2, <2>5, <2>6, <4>1
    <3> QED BY <3>1, <3>2
  <2>7. ASSUME "WILLTERMINATE" \in b[f]
        PROVE  /\ Known(m, f) /\ ~sccs[SccOf(sccs, f)].is_cycle /\ ~facts[f].cfg_has_cycle
               /\ \A c \in facts[f].callees : "WILLTERMINATE" \in b[c]
    <3>1. CASE "WILLTERMINATE" \in a[f]
      <4>1. /\ Known(m, f) /\ ~sccs[SccOf(sccs, f)].is_cycle /\ ~facts[f].cfg_has_cycle
            /\ \A c \in facts[f].callees : "WILLTERMINATE" \in a[c]
        BY <2>0, <3>1 DEF AttrsOf
      <4>2. \A c \in facts[f].callees : a[c] \subseteq b[c]
        BY <1>0, <1>4, <2>4, <4>1
      <4> QED BY <4>1, <4>2
    <3>2. CASE "WILLTERMINATE" \notin a[f]
      <4>1. Known(m, f) /\ ~sccs[SccOf(sccs, f)].is_cycle /\ "WILLTERMINATE" \in w2(f)
        BY <1>1, <1>2, <2>7, <3>2 DEF Grows
      <4>2. ~facts[f].cfg_has_cycle /\ (all(f, "WILLTERMINATE") \/ all(f, "WILLRETURN"))
        BY <1>3, <4>1
      <4>3. ASSUME NEW c \in facts[f].callees PROVE "WILLTERMINATE" \in b[c]
        <5>1. a[c] \subseteq b[c] /\ AttrsOf(a, facts, m, g, sccs, c)
          BY <1>0, <1>4, <2>4, <4>1
        <5>2. "WILLTERMINATE" \in a[c] \/ "WILLRETURN" \in a[c]
          BY <4>2
        <5> QED BY <5>1, <5>2 DEF AttrsOf
      <4> QED BY <4>1, <4>2, <4>3
    <3> QED BY <3>1, <3>2
  <2>8. ASSUME "WILLRETURN" \in b[f]
        PROVE  /\ "WILLTERMINATE" \in b[f] /\ facts[f].exits_all_return_like
               /\ \A c \in facts[f].callees : "WILLRETURN" \in b[c]
    <3>1. CASE "WILLRETURN" \in a[f]
      <4>1. /\ "WILLTERMINATE" \in a[f] /\ facts[f].exits_all_return_like
            /\ \A c \in facts[f].callees : "WILLRETURN" \in a[c]
        BY <2>0, <3>1 DEF AttrsOf
      <4>2. Known(m, f)
        BY <2>0, <4>1 DEF AttrsOf
      <4>3. \A c \in facts[f].callees : a[c] \subseteq b[c]
        BY <1>0, <1>4, <2>4, <4>2
      <4> QED BY <2>0, <4>1, <4>3
    <3>2. CASE "WILLRETURN" \notin a[f]
      <4>1. Known(m, f) /\ "WILLRETURN" \in w2(f) /\ w2(f) \subseteq b[f]
        BY <1>1, <1>2, <2>8, <3>2 DEF Grows
      <4>2. facts[f].exits_all_return_like /\ all(f, "WILLRETURN") /\ "WILLTERMINATE" \in w2(f)
        BY <1>3, <4>1
      <4>3. \A c \in facts[f].callees : a[c] \subseteq b[c]
        BY <1>0, <1>4, <2>4, <4>1
      <4> QED BY <4>1, <4>2, <4>3
    <3> QED BY <3>1, <3>2
  <2> QED BY <2>1, <2>2, <2>3, <2>6, <2>7, <2>8 DEF AttrsOf
<1> QED BY <1>5, <1>6 DEF AttrsRight

\* Every component leaves the attributes right.
LEMMA PropagateKeeps ==
  ASSUME NEW m, NEW n, NEW g, ModuleRight(m, g, n), NEW facts, FactsOf(facts, m, g, n),
         NEW sccs, SccsRight(sccs, g, n), NEW a, AttrsRight(a, facts, m, g, sccs, n), NEW i \in 1..Len(sccs)
  PROVE  AttrsRight(PropagateScc(m, facts, sccs, a, i), facts, m, g, sccs, n)
<1>0. n \in Nat /\ IsGraph(g, n) /\ DOMAIN a = 1..n
  BY DEF ModuleRight, AttrsRight
<1> DEFINE will(f) == WillAttrs(m, facts, a, f)
           in(f) == f \in sccs[i].components /\ Known(m, f)
           b == [f \in 1..n |-> IF in(f) THEN a[f] \cup will(f) ELSE a[f]]
<1>1. PropagateScc(m, facts, sccs, a, i) = IF sccs[i].is_cycle THEN a ELSE b
  BY <1>0 DEF PropagateScc
<1>2. ASSUME ~sccs[i].is_cycle PROVE AttrsRight(b, facts, m, g, sccs, n)
  <2>1. ASSUME NEW f \in 1..n
        PROVE  \/ b[f] = a[f]
               \/ Known(m, f) /\ ~sccs[SccOf(sccs, f)].is_cycle /\ b[f] = a[f] \cup will(f)
    <3>1. f \in sccs[i].components => i = SccOf(sccs, f)
      BY <1>0, SccOfLemma
    <3>2. b[f] = IF in(f) THEN a[f] \cup will(f) ELSE a[f]
      OBVIOUS
    <3> HIDE DEF b, will
    <3> QED BY <1>2, <3>1, <3>2
  <2>2. DOMAIN b = 1..n /\ b = [f \in 1..n |-> b[f]]
    OBVIOUS
  <2> HIDE DEF b
  <2>3. Grows(b, a, facts, m, sccs, n)
    BY <2>1 DEF Grows
  <2> QED BY <2>2, <2>3, GrowsKeeps
<1> HIDE DEF b
<1> QED BY <1>1, <1>2

WillLoop(x, m, facts, sccs, start, order) ==
  x = [k \in 0..Len(order) |-> IF k = 0 THEN start ELSE PropagateScc(m, facts, sccs, x[k - 1], order[k])]

LEMMA WillLemma ==
  ASSUME NEW m, NEW n, NEW g, ModuleRight(m, g, n), NEW facts, FactsOf(facts, m, g, n),
         NEW sccs, SccsRight(sccs, g, n), NEW start, StartRight(start, facts, m, g, n),
         NEW succ, NEW order, OrderRight(order, succ, Len(sccs))
  PROVE  AttrsRight(PropagateWill(m, facts, sccs, start, order), facts, m, g, sccs, n)
<1> DEFINE p == Len(sccs)
           Right(a) == AttrsRight(a, facts, m, g, sccs, n)
           new(a, i) == PropagateScc(m, facts, sccs, a, i)
           T == {a \in [1..n -> SUBSET Names] : Right(a)}
           step == [k \in 1..p |-> [a \in T |-> new(a, order[k])]]
<1>0. p \in Nat /\ Len(order) = p /\ \A k \in 1..p : order[k] \in 1..p
  BY LenProperties DEF SccsRight, OrderRight
<1>1. Right(start)
  <2>1. "WILLTERMINATE" \notin AnyMem /\ "WILLRETURN" \notin AnyMem
    BY DEF AnyMem
  <2>2. ASSUME NEW f \in 1..n PROVE AttrsOf(start, facts, m, g, sccs, f)
    BY <2>1 DEF StartRight, AttrsOf
  <2> QED BY <2>2 DEF StartRight, AttrsRight
<1>2. ASSUME NEW a, Right(a), NEW i \in 1..p PROVE Right(new(a, i))
  BY <1>2, PropagateKeeps
<1> HIDE DEF new
<1>3. \A a : Right(a) <=> a \in T
  BY DEF AttrsRight
<1> HIDE DEF Right, T, p
<1>4. ASSUME NEW k \in 1..p, NEW a \in T PROVE step[k][a] = new(a, order[k]) /\ step[k][a] \in T
  BY <1>0, <1>2, <1>3
<1>5. Rounds(T, step, start, p)
  <2> HIDE DEF step
  <2> QED BY <1>1, <1>3, <1>4 DEF Rounds
<1> HIDE DEF step
<1>6. PICK f : LoopsUp(f, step, start, p) /\ Round(f, step, start, T, p) /\ \A k \in 0..p : f[k] \in T
  BY <1>0, <1>5, LoopExists
<1>7. f = [k \in 0..p |-> f[k]] /\ f[0] = start
  BY <1>6 DEF LoopsUp, Round
<1>8. \A k \in 1..p : k - 1 \in 0..p /\ f[k] = new(f[k - 1], order[k])
  BY <1>4, <1>6 DEF Round
<1>9. \A k \in 0..p : f[k] = IF k = 0 THEN start ELSE new(f[k - 1], order[k])
  <2>1. \A k \in 0..p : k = 0 \/ k \in 1..p
    BY <1>0
  <2> QED BY <1>7, <1>8, <2>1
<1>10. WillLoop(f, m, facts, sccs, start, order)
  <2>1. f = [k \in 0..Len(order) |-> IF k = 0 THEN start ELSE new(f[k - 1], order[k])]
    BY <1>0, <1>7, <1>9
  <2> QED BY <2>1 DEF WillLoop, new
<1>11. PICK x : x = CHOOSE y : WillLoop(y, m, facts, sccs, start, order)
  OBVIOUS
<1>12. PropagateWill(m, facts, sccs, start, order) = x[Len(order)]
  BY <1>11 DEF PropagateWill, WillLoop
<1>13. WillLoop(x, m, facts, sccs, start, order)
  BY <1>10, <1>11
<1>14. x = [k \in 0..p |-> IF k = 0 THEN start ELSE new(x[k - 1], order[k])]
  BY <1>0, <1>13 DEF WillLoop, new
<1> DEFINE G == {k \in 0..p : Right(x[k])}
<1>15. 0 \in G
  <2>1. 0 \in 0..p /\ x[0] = start
    BY <1>0, <1>14
  <2> QED BY <1>1, <2>1
<1>16. ASSUME NEW k \in 0..(p - 1), k \in G PROVE k + 1 \in G
  <2>1. k + 1 \in 0..p /\ k + 1 # 0 /\ (k + 1) - 1 = k /\ k + 1 \in 1..p
    BY <1>0
  <2>2. x[k + 1] = new(x[k], order[k + 1]) /\ order[k + 1] \in 1..p
    BY <1>0, <1>14, <2>1
  <2>3. PICK a, i : a = x[k] /\ i = order[k + 1]
    OBVIOUS
  <2>4. Right(new(a, i))
    BY <1>2, <1>16, <2>2, <2>3
  <2> QED BY <2>1, <2>2, <2>3, <2>4
<1> HIDE DEF G
<1>17. p \in G
  <2>1. \A k \in 0..p : k \in G
    BY <1>0, <1>15, <1>16, CountUp
  <2> QED BY <1>0, <2>1
<1>18. Right(x[p])
  BY <1>17 DEF G
<1> QED BY <1>0, <1>12, <1>18 DEF Right

FactsFor(m) == [f \in {h \in DOMAIN m : HasBody(m, h)} |-> LocalFacts(m[f].blocks)]
\* What the analyses rest on for a module.
AnalysisRight(m, g, n, sccs, succ, facts) ==
  /\ ModuleRight(m, g, n) /\ SccsRight(sccs, g, n) /\ g \in [1..n -> SUBSET (1..n)]
  /\ IsDag(succ, Len(sccs)) /\ succ = SuccSccs(sccs, g) /\ FactsOf(facts, m, g, n)

LEMMA AnalysisLemma ==
  ASSUME NEW m, IsModule(m), NEW g, g = BuildGraph(m), NEW sccs, sccs = ComputeScc(g),
         NEW succ, succ = SuccSccs(sccs, g)
  PROVE  /\ AnalysisRight(m, g, Len(m), sccs, succ, FactsFor(m))
         /\ AttrsRight(FuncAttrs(m, sccs, succ), FactsFor(m), m, g, sccs, Len(m))
         /\ FlowsRight(Flows(m, g, sccs, succ), m, g, sccs, succ, Len(sccs))
<1>1. PICK n, facts, p : n = Len(m) /\ facts = FactsFor(m) /\ p = Len(sccs)
  OBVIOUS
<1>2. ModuleRight(m, g, n)
  BY <1>1, ModuleLemma
<1>3. n \in Nat /\ IsGraph(g, n) /\ DOMAIN m = 1..n
  BY <1>2 DEF ModuleRight
<1>4. SccsRight(sccs, g, n)
  BY <1>3, ComputeSccRight
<1>5. IsDag(succ, p)
  BY <1>1, <1>3, <1>4, SuccLemma
<1>6. FactsOf(facts, m, g, n)
  <2>1. ASSUME NEW f \in 1..n, Known(m, f) PROVE FactsRight(facts[f], m[f].blocks, g[f])
    <3>1. facts[f] = LocalFacts(m[f].blocks)
      BY <1>1, <1>3, <2>1 DEF FactsFor, Known
    <3>2. BlocksRight(m[f].blocks, g[f], n) /\ 1 \in 1..Len(m[f].blocks)
      BY <1>2, <2>1 DEF ModuleRight, Known
    <3> QED BY <3>1, <3>2, FactsLemma
  <2> QED BY <2>1 DEF FactsOf
<1>7. DOMAIN sccs = 1..p
  BY <1>1, <1>4, LenProperties DEF SccsRight
<1>8. FlowsRight(Flows(m, g, sccs, succ), m, g, sccs, succ, p)
  BY <1>1, <1>5, <1>7, FlowsLemma
<1>15. g \in [1..n -> SUBSET (1..n)]
  <2>1. g = [f \in 1..n |-> g[f]]
    BY <1>3 DEF BuildGraph
  <2> QED BY <1>3, <2>1 DEF IsGraph
<1>9. PICK order : order = CalleesFirst(sccs, succ)
  OBVIOUS
<1>10. OrderRight(order, succ, p)
  BY <1>1, <1>5, <1>9, CalleesFirstRight
<1>11. PICK start : start = PropagateMem(m, facts, sccs, succ, order)
  OBVIOUS
<1>12. StartRight(start, facts, m, g, n)
  BY <1>1, <1>2, <1>4, <1>6, <1>10, <1>11, StartLemma
<1>13. FuncAttrs(m, sccs, succ) = PropagateWill(m, facts, sccs, start, order)
  BY <1>1, <1>9, <1>11 DEF FuncAttrs, FactsFor
<1>14. AttrsRight(PropagateWill(m, facts, sccs, start, order), facts, m, g, sccs, n)
  BY <1>1, <1>2, <1>4, <1>6, <1>10, <1>12, WillLemma
<1> QED BY <1>1, <1>2, <1>4, <1>5, <1>6, <1>8, <1>13, <1>14, <1>15 DEF AnalysisRight

-----------------------------------------------------------------------------
(***************************************************************************)
(* One call above another on the stack of calls.                           *)
(***************************************************************************)
\* What the analyses found out.
Recorded(m, g, n, sccs, succ, facts, flow, a) ==
  /\ AnalysisRight(m, g, n, sccs, succ, facts)
  /\ FlowsRight(flow, m, g, sccs, succ, Len(sccs)) /\ AttrsRight(a, facts, m, g, sccs, n)

\* y is called from x through functions of the module.
Below(x, y, sccs, flow, a) ==
  /\ SccOf(sccs, y) <= SccOf(sccs, x)
  /\ ~sccs[SccOf(sccs, x)].is_cycle => SccOf(sccs, y) # SccOf(sccs, x)
  /\ "out" \in flow[SccOf(sccs, y)] => "out" \in flow[SccOf(sccs, x)]
  /\ a[y] \cap AnyMem \subseteq a[x]
  /\ "WILLTERMINATE" \in a[x] => "WILLTERMINATE" \in a[y]
  /\ "WILLRETURN" \in a[x] => "WILLRETURN" \in a[y]
\* y is called from x through an external function.
Across(x, y, m, g, sccs, flow, a) ==
  /\ "out" \in flow[SccOf(sccs, x)] /\ y \in PublicSide(m, g)
  /\ AnyMem \subseteq a[x] /\ "WILLTERMINATE" \notin a[x] /\ "WILLRETURN" \notin a[x]

\* What public functions reach is closed under calls.
LEMMA PublicClosed ==
  ASSUME NEW m, NEW n \in Nat, DOMAIN m = 1..n, NEW g \in [1..n -> SUBSET (1..n)]
  PROVE  /\ \A f \in 1..n : m[f].linkage = "public" => f \in PublicSide(m, g)
         /\ \A f \in PublicSide(m, g) : f \in 1..n /\ g[f] \subseteq PublicSide(m, g)
<1> DEFINE S == {f \in 1..n : m[f].linkage = "public"}
<1>1. IsFiniteSet(1..n) /\ S \in SUBSET (1..n)
  BY FS_Interval
<1>2. PublicSide(m, g) = ReachSteps(g, S, {})
  BY DEF PublicSide
<1>3. LeastClosed(ReachSteps(g, S, {}), 1..n, g, S, {})
  BY <1>1, ReachLemma
<1> QED BY <1>2, <1>3 DEF LeastClosed

\* A function of the module is above what it calls.
LEMMA CallBelow ==
  ASSUME NEW m, NEW g, NEW n, NEW sccs, NEW succ, NEW facts, NEW flow, NEW a,
         Recorded(m, g, n, sccs, succ, facts, flow, a),
         NEW x \in 1..n, Known(m, x), NEW y \in facts[x].callees
  PROVE  y \in g[x] /\ y \in 1..n /\ Below(x, y, sccs, flow, a)
<1>1. ModuleRight(m, g, n) /\ IsGraph(g, n) /\ SccsRight(sccs, g, n) /\ succ = SuccSccs(sccs, g)
      /\ FactsOf(facts, m, g, n) /\ n \in Nat
  BY DEF Recorded, AnalysisRight, ModuleRight
<1>2. y \in g[x]
  BY <1>1 DEF FactsOf, FactsRight
<1> DEFINE p == Len(sccs)
           i == SccOf(sccs, x)
           j == SccOf(sccs, y)
<1>3. i \in 1..p /\ x \in sccs[i].components /\ j \in 1..i /\ y \in 1..n /\ (~sccs[i].is_cycle => j # i)
  BY <1>1, <1>2, SccOfLemma
<1>4. j = i \/ j \in succ[i]
  BY <1>1, <1>2, SuccLemma
<1>5. AttrsOf(a, facts, m, g, sccs, x)
  BY DEF Recorded, AttrsRight
<1>6. flow[i] = FlowOf(m, g, sccs, succ, flow, i)
  BY <1>3 DEF Recorded, FlowsRight
<1> HIDE DEF i, j, p
<1>7. "out" \in flow[j] => "out" \in flow[i]
  <2> SUFFICES ASSUME "out" \in flow[j], j \in succ[i] PROVE "out" \in flow[i]
    BY <1>4
  <2>1. "out" \in UNION {flow[k] : k \in succ[i]}
    OBVIOUS
  <2> QED BY <1>6, <2>1 DEF FlowOf
<1>8. /\ a[y] \cap AnyMem \subseteq a[x]
      /\ "WILLTERMINATE" \in a[x] => "WILLTERMINATE" \in a[y]
      /\ "WILLRETURN" \in a[x] => "WILLRETURN" \in a[y]
  BY <1>2, <1>5 DEF AttrsOf
<1>9. j <= i
  BY <1>1, <1>3, LenProperties DEF SccsRight, p
<1> QED BY <1>2, <1>3, <1>7, <1>8, <1>9 DEF Below, i, j

\* A call by a function of the module.
LEMMA RelCall ==
  ASSUME NEW m, NEW g, NEW n, NEW sccs, NEW succ, NEW facts, NEW flow, NEW a,
         Recorded(m, g, n, sccs, succ, facts, flow, a),
         NEW x \in 1..n, Known(m, x), NEW y \in facts[x].callees, NEW f \in 1..n
  PROVE  /\ Below(f, x, sccs, flow, a) => Below(f, y, sccs, flow, a)
         /\ Across(f, x, m, g, sccs, flow, a) => Across(f, y, m, g, sccs, flow, a)
<1>1. y \in g[x] /\ y \in 1..n /\ Below(x, y, sccs, flow, a)
  BY CallBelow
<1>2. IsGraph(g, n) /\ SccsRight(sccs, g, n) /\ n \in Nat /\ DOMAIN m = 1..n /\ g \in [1..n -> SUBSET (1..n)]
  BY DEF Recorded, AnalysisRight, ModuleRight
<1>3. ASSUME NEW z \in 1..n PROVE SccOf(sccs, z) \in Nat
  <2>1. SccOf(sccs, z) \in 1..Len(sccs)
    BY <1>2, SccOfLemma
  <2> QED BY <2>1
<1>4. SccOf(sccs, f) \in Nat /\ SccOf(sccs, x) \in Nat /\ SccOf(sccs, y) \in Nat
  BY <1>1, <1>3
<1>5. ASSUME Below(f, x, sccs, flow, a) PROVE Below(f, y, sccs, flow, a)
  <2>1. SccOf(sccs, y) <= SccOf(sccs, f) /\ (~sccs[SccOf(sccs, f)].is_cycle => SccOf(sccs, y) # SccOf(sccs, f))
    BY <1>1, <1>4, <1>5 DEF Below
  <2> QED BY <1>1, <1>5, <2>1 DEF Below
<1>6. ASSUME Across(f, x, m, g, sccs, flow, a) PROVE Across(f, y, m, g, sccs, flow, a)
  <2>1. y \in PublicSide(m, g)
    BY <1>1, <1>2, <1>6, PublicClosed DEF Across
  <2> QED BY <1>6, <2>1 DEF Across
<1> QED BY <1>5, <1>6

\* A call by an external function.
LEMMA RelExternal ==
  ASSUME NEW m, NEW g, NEW n, NEW sccs, NEW succ, NEW facts, NEW flow, NEW a,
         Recorded(m, g, n, sccs, succ, facts, flow, a),
         NEW x \in 1..n, IsExternal(m, x), NEW y \in 1..n, m[y].linkage = "public", NEW f \in 1..n
  PROVE  /\ Across(x, y, m, g, sccs, flow, a)
         /\ Below(f, x, sccs, flow, a) \/ Across(f, x, m, g, sccs, flow, a) => Across(f, y, m, g, sccs, flow, a)
<1>1. IsGraph(g, n) /\ SccsRight(sccs, g, n) /\ n \in Nat /\ DOMAIN m = 1..n /\ g \in [1..n -> SUBSET (1..n)]
  BY DEF Recorded, AnalysisRight, ModuleRight
<1>2. y \in PublicSide(m, g)
  BY <1>1, PublicClosed
<1>3. AttrsOf(a, facts, m, g, sccs, x) /\ ~Known(m, x)
  BY DEF Recorded, AttrsRight, Known
<1>4. a[x] = AnyMem /\ "WILLTERMINATE" \notin a[x] /\ "WILLRETURN" \notin a[x]
  BY <1>3 DEF AttrsOf, AnyMem
<1>5. SccOf(sccs, x) \in 1..Len(sccs) /\ x \in sccs[SccOf(sccs, x)].components
  BY <1>1, SccOfLemma
<1>6. "out" \in flow[SccOf(sccs, x)]
  BY <1>5 DEF Recorded, FlowsRight, FlowOf
<1> QED BY <1>2, <1>4, <1>6 DEF Across, Below

\* A function that is called again is recursive, and not sure to terminate.
LEMMA RelSelf ==
  ASSUME NEW m, NEW g, NEW n, NEW sccs, NEW succ, NEW facts, NEW flow, NEW a,
         Recorded(m, g, n, sccs, succ, facts, flow, a), NEW f \in 1..n,
         Below(f, f, sccs, flow, a) \/ Across(f, f, m, g, sccs, flow, a)
  PROVE  IsRecursive(m, sccs, flow, SccOf(sccs, f)) /\ "WILLTERMINATE" \notin a[f]
<1>1. IsGraph(g, n) /\ SccsRight(sccs, g, n) /\ n \in Nat
  BY DEF Recorded, AnalysisRight, ModuleRight
<1> DEFINE i == SccOf(sccs, f)
<1>2. i \in 1..Len(sccs) /\ f \in sccs[i].components /\ (~sccs[i].is_cycle => sccs[i].components = {f})
  BY <1>1, SccOfLemma
<1>3. flow \in [1..Len(sccs) -> SUBSET Dirs] /\ flow[i] = FlowOf(m, g, sccs, succ, flow, i)
  BY <1>2 DEF Recorded, FlowsRight
<1>4. AttrsOf(a, facts, m, g, sccs, f)
  BY DEF Recorded, AttrsRight
<1>5. CASE Below(f, f, sccs, flow, a)
  BY <1>4, <1>5 DEF Below, IsRecursive, AttrsOf
<1>6. CASE Across(f, f, m, g, sccs, flow, a)
  <2>1. "out" \in flow[i] /\ f \in PublicSide(m, g) /\ "WILLTERMINATE" \notin a[f]
    BY <1>6 DEF Across
  <2> HIDE DEF i
  <2>2. SUFFICES ASSUME ~sccs[i].is_cycle, ~\E h \in sccs[i].components : IsExternal(m, h) PROVE flow[i] = Dirs
    BY <2>1 DEF IsRecursive, Dirs, i
  <2>3. sccs[i].components \subseteq PublicSide(m, g)
    BY <1>2, <2>1, <2>2
  <2>4. "in" \in flow[i]
    BY <1>3, <2>2, <2>3 DEF FlowOf
  <2> QED BY <1>2, <1>3, <2>1, <2>4 DEF Dirs
<1> QED BY <1>5, <1>6

-----------------------------------------------------------------------------
(***************************************************************************)
(* A call of a function of the module.                                     *)
(***************************************************************************)
StuckIn(blocks, a) == {b \in DOMAIN blocks : HasNoreturnCall(blocks[b], a)}
LeftOf(blocks, a) == ReachSteps(Succs(blocks), {1}, StuckIn(blocks, a))
\* The block is reached past calls that return, and comes after the ones that were seen.
Inside(fr, blocks, a) ==
  /\ fr.block \in ComputeReachable(blocks)
  /\ fr.done \in 0..Len(blocks[fr.block].calls)
  /\ fr.block \in LeftOf(blocks, a) \cup StuckIn(blocks, a)
  /\ \A k \in 1..fr.done : "NORETURN" \notin a[blocks[fr.block].calls[k]]
  /\ fr.seen \subseteq ComputeReachable(blocks)
  /\ \A s \in fr.seen : s = fr.block \/ fr.block \in Back(blocks, s)

LEMMA StartInside ==
  ASSUME NEW n, NEW calls, NEW blocks, BlocksRight(blocks, calls, n), 1 \in 1..Len(blocks), NEW a, NEW f
  PROVE  Inside(Frame(f), blocks, a)
<1>1. {1} \in SUBSET (1..Len(blocks)) /\ Len(blocks[1].calls) \in Nat /\ DOMAIN blocks = 1..Len(blocks)
  <2>1. blocks[1].calls \in Seq(1..n)
    BY DEF BlocksRight, Blk
  <2> QED BY <2>1, LenProperties DEF BlocksRight
<1>2. 1 \in ComputeReachable(blocks)
  BY <1>1, BlocksReach DEF LeastClosed, ComputeReachable
<1>3. 1 \in LeftOf(blocks, a) \cup StuckIn(blocks, a)
  BY <1>1, BlocksReach DEF LeastClosed, LeftOf
<1>4. Frame(f).block = 1 /\ Frame(f).done = 0 /\ Frame(f).seen = {1}
  BY DEF Frame
<1>5. \A k \in 1..0 : FALSE
  OBVIOUS
<1> QED BY <1>1, <1>2, <1>3, <1>4, <1>5 DEF Inside

\* At the end of its calls a block is left.
LEMMA EndLeft ==
  ASSUME NEW n, NEW calls, NEW blocks, BlocksRight(blocks, calls, n), 1 \in 1..Len(blocks), NEW a, NEW fr,
         Inside(fr, blocks, a), fr.done = Len(blocks[fr.block].calls)
  PROVE  /\ fr.block \in LeftOf(blocks, a) /\ fr.block \in 1..Len(blocks)
         /\ LeastClosed(LeftOf(blocks, a), 1..Len(blocks), Succs(blocks), {1}, StuckIn(blocks, a))
         /\ LeastClosed(ComputeReachable(blocks), 1..Len(blocks), Succs(blocks), {1}, {})
         /\ \A b \in 1..Len(blocks) : Succs(blocks)[b] = blocks[b].succs
         /\ DOMAIN blocks = 1..Len(blocks)
<1>1. {1} \in SUBSET (1..Len(blocks))
  OBVIOUS
<1>2. LeastClosed(LeftOf(blocks, a), 1..Len(blocks), Succs(blocks), {1}, StuckIn(blocks, a))
  BY <1>1, BlocksReach DEF LeftOf
<1>3. LeastClosed(ComputeReachable(blocks), 1..Len(blocks), Succs(blocks), {1}, {})
  BY <1>1, BlocksReach DEF ComputeReachable
<1>4. DOMAIN blocks = 1..Len(blocks) /\ \A b \in 1..Len(blocks) : Succs(blocks)[b] = blocks[b].succs
  BY LenProperties DEF BlocksRight, Succs
<1>5. fr.block \in 1..Len(blocks)
  BY <1>3 DEF LeastClosed, Inside
<1>6. fr.block \notin StuckIn(blocks, a)
  <2>1. blocks[fr.block].calls \in Seq(1..n)
    BY <1>5 DEF BlocksRight, Blk
  <2>2. ToSet(blocks[fr.block].calls) = {blocks[fr.block].calls[k] : k \in 1..Len(blocks[fr.block].calls)}
    BY <2>1, ToSetLemma
  <2> QED BY <2>2 DEF StuckIn, HasNoreturnCall, Inside
<1> QED BY <1>2, <1>3, <1>4, <1>5, <1>6 DEF Inside

\* A jump stays inside.
LEMMA JumpInside ==
  ASSUME NEW n, NEW calls, NEW blocks, BlocksRight(blocks, calls, n), 1 \in 1..Len(blocks), NEW a, NEW fr,
         Inside(fr, blocks, a), fr.done = Len(blocks[fr.block].calls), NEW b \in blocks[fr.block].succs,
         NEW t, t.block = b, t.done = 0, t.seen = fr.seen \cup {b}
  PROVE  Inside(t, blocks, a)
<1>1. /\ fr.block \in LeftOf(blocks, a) /\ fr.block \in 1..Len(blocks)
      /\ LeastClosed(LeftOf(blocks, a), 1..Len(blocks), Succs(blocks), {1}, StuckIn(blocks, a))
      /\ LeastClosed(ComputeReachable(blocks), 1..Len(blocks), Succs(blocks), {1}, {})
      /\ \A c \in 1..Len(blocks) : Succs(blocks)[c] = blocks[c].succs
  BY EndLeft
<1>2. b \in ComputeReachable(blocks) /\ b \in 1..Len(blocks)
  BY <1>1 DEF LeastClosed, Inside
<1>3. b \in LeftOf(blocks, a) \cup StuckIn(blocks, a)
  BY <1>1 DEF LeastClosed
<1>4. t.done \in 0..Len(blocks[b].calls)
  <2>1. blocks[b].calls \in Seq(1..n)
    BY <1>2 DEF BlocksRight, Blk
  <2>2. Len(blocks[b].calls) \in Nat
    BY <2>1, LenProperties
  <2> QED BY <2>2
<1>5. t.seen \subseteq ComputeReachable(blocks)
  BY <1>2 DEF Inside
<1>6. ASSUME NEW s \in fr.seen PROVE b \in Back(blocks, s)
  <2>1. s \in 1..Len(blocks)
    BY <1>1 DEF Inside, LeastClosed
  <2>2. LeastClosed(Back(blocks, s), 1..Len(blocks), Succs(blocks), blocks[s].succs, {})
    <3>1. blocks[s].succs \in SUBSET (1..Len(blocks))
      BY <2>1 DEF BlocksRight
    <3> QED BY <3>1, BlocksReach DEF Back
  <2>3. CASE s = fr.block
    BY <2>2, <2>3 DEF LeastClosed
  <2>4. CASE fr.block \in Back(blocks, s)
    BY <1>1, <2>2, <2>4 DEF LeastClosed
  <2> QED BY <2>3, <2>4 DEF Inside
<1>7. \A k \in 1..0 : FALSE
  OBVIOUS
<1> QED BY <1>2, <1>3, <1>4, <1>5, <1>6, <1>7 DEF Inside

\* A call that returned stays inside.
LEMMA DoneInside ==
  ASSUME NEW blocks, NEW a, NEW fr, Inside(fr, blocks, a), Len(blocks[fr.block].calls) \in Nat,
         fr.done < Len(blocks[fr.block].calls), "NORETURN" \notin a[blocks[fr.block].calls[fr.done + 1]],
         NEW t, t.block = fr.block, t.done = fr.done + 1, t.seen = fr.seen
  PROVE  Inside(t, blocks, a)
<1>1. PICK l \in Nat : l = Len(blocks[fr.block].calls)
  OBVIOUS
<1>2. fr.done \in 0..l /\ fr.done < l
  BY <1>1 DEF Inside
<1>3. PICK d \in Nat : d = fr.done
  BY <1>2
<1>4. \A k \in 1..(d + 1) : k \in 1..d \/ k = d + 1
  OBVIOUS
<1>5. d + 1 \in 0..l
  BY <1>2, <1>3
<1> QED BY <1>1, <1>3, <1>4, <1>5 DEF Inside

-----------------------------------------------------------------------------
(***************************************************************************)
(* The stack of calls.                                                     *)
(***************************************************************************)
FrameSet(n) == [func : 1..n, block : Nat, done : Nat, seen : SUBSET Nat]
CallsAt(fr, m) == m[fr.func].blocks[fr.block].calls
Waits(fr, h, m) == fr.done + 1 \in 1..Len(CallsAt(fr, m)) /\ CallsAt(fr, m)[fr.done + 1] = h
Sound(fr, m, a) == ~IsExternal(m, fr.func) => Inside(fr, m[fr.func].blocks, a)
Rel(x, y, m, g, sccs, flow, a) == Below(x, y, sccs, flow, a) \/ Across(x, y, m, g, sccs, flow, a)
\* A call of the module waits for the one above it, and any two active calls are related.
FramesRight(s, m, g, n, sccs, flow, a) ==
  /\ s \in Seq(FrameSet(n))
  /\ \A i \in 1..Len(s) : Sound(s[i], m, a)
  /\ \A i \in 1..(Len(s) - 1) : ~IsExternal(m, s[i].func) => Waits(s[i], s[i + 1].func, m)
  /\ \A i, j \in 1..Len(s) : i < j => Rel(s[i].func, s[j].func, m, g, sccs, flow, a)

\* t is what is left of s, after its last call went on.
Cut(t, s, n, m, a) ==
  /\ t \in Seq(FrameSet(n)) /\ Len(t) \in 1..Len(s)
  /\ \A i \in 1..(Len(t) - 1) : t[i] = s[i]
  /\ t[Len(t)].func = s[Len(t)].func /\ Sound(t[Len(t)], m, a)

LEMMA CutKeeps ==
  ASSUME NEW m, NEW g, NEW n, NEW sccs, NEW flow, NEW a, NEW s, FramesRight(s, m, g, n, sccs, flow, a),
         NEW t, Cut(t, s, n, m, a)
  PROVE  FramesRight(t, m, g, n, sccs, flow, a)
<1>1. Len(s) \in Nat /\ Len(t) \in Nat /\ Len(t) \in 1..Len(s)
  BY LenProperties DEF FramesRight, Cut
<1>2. \A i \in 1..Len(t) : i \in 1..Len(s) /\ t[i].func = s[i].func /\ Sound(t[i], m, a)
  <2> SUFFICES ASSUME NEW i \in 1..Len(t) PROVE i \in 1..Len(s) /\ t[i].func = s[i].func /\ Sound(t[i], m, a)
    OBVIOUS
  <2>1. i \in 1..Len(s) /\ (i = Len(t) \/ i \in 1..(Len(t) - 1))
    BY <1>1
  <2> QED BY <2>1 DEF Cut, FramesRight
<1>3. ASSUME NEW i \in 1..(Len(t) - 1), ~IsExternal(m, t[i].func) PROVE Waits(t[i], t[i + 1].func, m)
  <2>1. i \in 1..(Len(s) - 1) /\ i + 1 \in 1..Len(t) /\ t[i] = s[i]
    BY <1>1 DEF Cut
  <2> QED BY <1>2, <1>3, <2>1 DEF FramesRight
<1>4. ASSUME NEW i \in 1..Len(t), NEW j \in 1..Len(t), i < j
      PROVE  Rel(t[i].func, t[j].func, m, g, sccs, flow, a)
  BY <1>2, <1>4 DEF FramesRight
<1>5. t \in Seq(FrameSet(n))
  BY DEF Cut
<1> QED BY <1>2, <1>3, <1>4, <1>5 DEF FramesRight

\* What is called is called by the last call.
MayCall(fr, h, m) == IF IsExternal(m, fr.func) THEN m[h].linkage = "public" ELSE Waits(fr, h, m)

LEMMA FrameLemma ==
  ASSUME NEW m, NEW g, NEW n, ModuleRight(m, g, n), NEW a, NEW f \in 1..n
  PROVE  Frame(f) \in FrameSet(n) /\ Frame(f).func = f /\ Sound(Frame(f), m, a)
<1>1. Frame(f) \in FrameSet(n) /\ Frame(f).func = f
  BY DEF Frame, FrameSet
<1>2. ASSUME ~IsExternal(m, f) PROVE Inside(Frame(f), m[f].blocks, a)
  <2>1. BlocksRight(m[f].blocks, g[f], n) /\ 1 \in 1..Len(m[f].blocks)
    BY <1>2 DEF ModuleRight
  <2> QED BY <2>1, StartInside
<1> QED BY <1>1, <1>2 DEF Sound

LEMMA PushKeeps ==
  ASSUME NEW m, NEW g, NEW n, NEW sccs, NEW succ, NEW facts, NEW flow, NEW a,
         Recorded(m, g, n, sccs, succ, facts, flow, a),
         NEW s, FramesRight(s, m, g, n, sccs, flow, a), s # <<>>, NEW y \in 1..n, MayCall(s[Len(s)], y, m)
  PROVE  FramesRight(Append(s, Frame(y)), m, g, n, sccs, flow, a)
<1>1. ModuleRight(m, g, n) /\ FactsOf(facts, m, g, n)
  BY DEF Recorded, AnalysisRight
<1>2. s \in Seq(FrameSet(n)) /\ Len(s) \in Nat \ {0} /\ Len(s) \in 1..Len(s) /\ \A i \in 1..Len(s) : s[i] \in FrameSet(n)
  <2>1. s \in Seq(FrameSet(n))
    BY DEF FramesRight
  <2> QED BY <2>1, NotEmpty, LenProperties
<1>3. PICK fr : fr = Frame(y)
  OBVIOUS
<1>4. fr \in FrameSet(n) /\ fr.func = y /\ Sound(fr, m, a)
  BY <1>1, <1>3, FrameLemma
<1>5. PICK t : t = Append(s, fr)
  OBVIOUS
<1>6. t \in Seq(FrameSet(n)) /\ Len(t) = Len(s) + 1 /\ t[Len(s) + 1] = fr /\ \A i \in 1..Len(s) : t[i] = s[i]
  <2>1. t \in Seq(FrameSet(n)) /\ Pushed(t, s, fr)
    BY <1>2, <1>4, <1>5, PushLemma
  <2> QED BY <2>1 DEF Pushed
<1>7. \A i \in 1..(Len(s) + 1) : i \in 1..Len(s) \/ i = Len(s) + 1
  BY <1>2
<1> DEFINE top == s[Len(s)]
           x == top.func
<1>8. x \in 1..n
  BY <1>2 DEF FrameSet
<1>9. ASSUME ~IsExternal(m, x) PROVE Known(m, x) /\ y \in facts[x].callees
  <2>1. Known(m, x)
    BY <1>1, <1>8, <1>9 DEF ModuleRight, Known
  <2>2. Inside(top, m[x].blocks, a) /\ Waits(top, y, m)
    BY <1>2, <1>9 DEF FramesRight, Sound, MayCall
  <2>3. FactsRight(facts[x], m[x].blocks, g[x])
    BY <1>1, <1>8, <2>1 DEF FactsOf
  <2> HIDE DEF x, top
  <2>4. m[x].blocks[top.block].calls = CallsAt(top, m)
    BY DEF CallsAt, x
  <2> QED BY <2>1, <2>2, <2>3, <2>4 DEF Inside, FactsRight, Waits
<1>10. IsExternal(m, x) => m[y].linkage = "public"
  BY DEF MayCall
<1> HIDE DEF x, top
<1>11. Rel(x, y, m, g, sccs, flow, a)
  <2>1. CASE IsExternal(m, x)
    BY <1>8, <1>10, <2>1, RelExternal DEF Rel
  <2>2. CASE ~IsExternal(m, x)
    BY <1>8, <1>9, <2>2, CallBelow DEF Rel
  <2> QED BY <2>1, <2>2
<1>12. ASSUME NEW i \in 1..Len(s) PROVE Rel(s[i].func, y, m, g, sccs, flow, a)
  <2>1. CASE i = Len(s)
    BY <1>11, <2>1 DEF x, top
  <2>2. CASE i # Len(s)
    <3>1. i < Len(s) /\ s[i].func \in 1..n
      BY <1>2, <2>2 DEF FrameSet
    <3>2. Rel(s[i].func, x, m, g, sccs, flow, a)
      BY <1>2, <3>1 DEF FramesRight, x, top
    <3>3. CASE IsExternal(m, x)
      BY <1>8, <1>10, <3>1, <3>2, <3>3, RelExternal DEF Rel
    <3>4. CASE ~IsExternal(m, x)
      BY <1>8, <1>9, <3>1, <3>2, <3>4, RelCall DEF Rel
    <3> QED BY <3>3, <3>4
  <2> QED BY <2>1, <2>2
<1>13. ASSUME NEW i \in 1..(Len(s) + 1) PROVE Sound(t[i], m, a)
  BY <1>4, <1>6, <1>7 DEF FramesRight
<1>14. ASSUME NEW i \in 1..Len(s), ~IsExternal(m, t[i].func) PROVE Waits(t[i], t[i + 1].func, m)
  <2>1. CASE i = Len(s)
    <3>1. t[i] = s[Len(s)] /\ t[i + 1] = fr
      BY <1>6, <2>1
    <3> QED BY <1>4, <1>14, <3>1 DEF MayCall
  <2>2. CASE i # Len(s)
    <3>1. i \in 1..(Len(s) - 1) /\ i + 1 \in 1..Len(s)
      BY <1>2, <2>2
    <3> QED BY <1>6, <1>14, <3>1 DEF FramesRight
  <2> QED BY <2>1, <2>2
<1>15. ASSUME NEW i \in 1..(Len(s) + 1), NEW j \in 1..(Len(s) + 1), i < j
       PROVE  Rel(t[i].func, t[j].func, m, g, sccs, flow, a)
  <2>1. i \in 1..Len(s)
    BY <1>2, <1>15
  <2>2. CASE j = Len(s) + 1
    BY <1>4, <1>6, <1>12, <2>1, <2>2
  <2>3. CASE j # Len(s) + 1
    <3>1. j \in 1..Len(s)
      BY <1>7, <2>3
    <3> QED BY <1>6, <1>15, <2>1, <3>1 DEF FramesRight
  <2> QED BY <2>2, <2>3
<1>16. Len(t) - 1 = Len(s)
  BY <1>2, <1>6
<1>17. FramesRight(t, m, g, n, sccs, flow, a)
  BY <1>6, <1>13, <1>14, <1>15, <1>16 DEF FramesRight
<1> QED BY <1>3, <1>5, <1>17

\* A call in the stack, and what is recorded of its function.
LEMMA CallFacts ==
  ASSUME NEW m, NEW g, NEW n, NEW sccs, NEW succ, NEW facts, NEW flow, NEW a,
         Recorded(m, g, n, sccs, succ, facts, flow, a),
         NEW s, FramesRight(s, m, g, n, sccs, flow, a), NEW i \in 1..Len(s), NEW f, f = s[i].func
  PROVE  /\ f \in 1..n /\ s[i] \in FrameSet(n) /\ AttrsOf(a, facts, m, g, sccs, f) /\ a[f] \in SUBSET Names
         /\ IsExternal(m, f) => ~Known(m, f)
         /\ ~IsExternal(m, f) => /\ Known(m, f) /\ 1 \in 1..Len(m[f].blocks)
                                 /\ BlocksRight(m[f].blocks, g[f], n) /\ FactsRight(facts[f], m[f].blocks, g[f])
                                 /\ Inside(s[i], m[f].blocks, a)
<1>1. s \in Seq(FrameSet(n)) /\ s[i] \in FrameSet(n)
  BY LenProperties DEF FramesRight
<1>2. f \in 1..n
  BY <1>1 DEF FrameSet
<1>3. ModuleRight(m, g, n) /\ FactsOf(facts, m, g, n) /\ AttrsRight(a, facts, m, g, sccs, n)
  BY DEF Recorded, AnalysisRight
<1>4. AttrsOf(a, facts, m, g, sccs, f) /\ a[f] \in SUBSET Names
  BY <1>2, <1>3 DEF AttrsRight
<1>5. IsExternal(m, f) => ~Known(m, f)
  BY DEF Known
<1>6. ASSUME ~IsExternal(m, f)
      PROVE  /\ Known(m, f) /\ 1 \in 1..Len(m[f].blocks)
             /\ BlocksRight(m[f].blocks, g[f], n) /\ FactsRight(facts[f], m[f].blocks, g[f])
             /\ Inside(s[i], m[f].blocks, a)
  <2>1. Known(m, f) /\ 1 \in 1..Len(m[f].blocks) /\ BlocksRight(m[f].blocks, g[f], n)
    BY <1>2, <1>3, <1>6 DEF ModuleRight, Known
  <2>2. FactsRight(facts[f], m[f].blocks, g[f])
    BY <1>2, <1>3, <2>1 DEF FactsOf
  <2>3. Inside(s[i], m[f].blocks, a)
    BY <1>6 DEF FramesRight, Sound
  <2> QED BY <2>1, <2>2, <2>3
<1> QED BY <1>1, <1>2, <1>4, <1>5, <1>6

\* The last call can come to an end of that kind.
EndsAt(fr, m, exit) ==
  ~IsExternal(m, fr.func) => /\ fr.done = Len(CallsAt(fr, m))
                             /\ m[fr.func].blocks[fr.block].exit = exit

\* A function that can return is not marked NORETURN.
LEMMA ReturnsFact ==
  ASSUME NEW m, NEW g, NEW n, NEW sccs, NEW succ, NEW facts, NEW flow, NEW a,
         Recorded(m, g, n, sccs, succ, facts, flow, a),
         NEW s, FramesRight(s, m, g, n, sccs, flow, a), NEW i \in 1..Len(s), EndsAt(s[i], m, "return")
  PROVE  "NORETURN" \notin a[s[i].func]
<1>1. PICK f, fr : f = s[i].func /\ fr = s[i]
  OBVIOUS
<1>2. /\ f \in 1..n /\ AttrsOf(a, facts, m, g, sccs, f)
      /\ IsExternal(m, f) => ~Known(m, f)
      /\ ~IsExternal(m, f) => /\ Known(m, f) /\ 1 \in 1..Len(m[f].blocks)
                              /\ BlocksRight(m[f].blocks, g[f], n) /\ FactsRight(facts[f], m[f].blocks, g[f])
                              /\ Inside(fr, m[f].blocks, a)
  BY <1>1, CallFacts
<1>3. CASE IsExternal(m, f)
  BY <1>1, <1>2, <1>3 DEF AttrsOf, AnyMem
<1>4. CASE ~IsExternal(m, f)
  <2>1. PICK blocks : blocks = m[f].blocks
    OBVIOUS
  <2>2. /\ BlocksRight(blocks, g[f], n) /\ 1 \in 1..Len(blocks) /\ Inside(fr, blocks, a)
        /\ fr.done = Len(blocks[fr.block].calls) /\ blocks[fr.block].exit = "return"
    BY <1>1, <1>2, <1>4, <2>1 DEF EndsAt, CallsAt
  <2>3. fr.block \in LeftOf(blocks, a) /\ fr.block \in 1..Len(blocks)
    BY <2>2, EndLeft
  <2>4. HasReachableReturn(blocks, a)
    BY <2>2, <2>3 DEF HasReachableReturn, LeftOf, StuckIn
  <2>5. blocks[fr.block].succs = {}
    BY <2>2, <2>3 DEF BlocksRight
  <2>6. facts[f].has_any_return_like_exit
    BY <1>2, <1>4, <2>1, <2>2, <2>5 DEF FactsRight, Inside
  <2> QED BY <1>1, <1>2, <1>4, <2>1, <2>4, <2>6 DEF AttrsOf
<1> QED BY <1>3, <1>4

\* What is above the last call passes on to it.
LEMMA TopRel ==
  ASSUME NEW m, NEW g, NEW n, NEW sccs, NEW flow, NEW a, NEW s, FramesRight(s, m, g, n, sccs, flow, a),
         NEW i \in 1..Len(s)
  PROVE  i = Len(s) \/ Rel(s[i].func, s[Len(s)].func, m, g, sccs, flow, a)
<1>1. Len(s) \in Nat
  BY LenProperties DEF FramesRight
<1>2. i = Len(s) \/ (i < Len(s) /\ Len(s) \in 1..Len(s))
  BY <1>1
<1> QED BY <1>2 DEF FramesRight

\* Nothing that is marked WILLRETURN is active where the machine may stop.
LEMMA StopsFact ==
  ASSUME NEW m, NEW g, NEW n, NEW sccs, NEW succ, NEW facts, NEW flow, NEW a,
         Recorded(m, g, n, sccs, succ, facts, flow, a),
         NEW s, FramesRight(s, m, g, n, sccs, flow, a), NEW i \in 1..Len(s), EndsAt(s[Len(s)], m, "stop")
  PROVE  "WILLRETURN" \notin a[s[i].func]
<1>0. Len(s) \in 1..Len(s)
  <2>1. Len(s) \in Nat
    BY LenProperties DEF FramesRight
  <2> QED BY <2>1
<1>1. PICK f, fr : f = s[Len(s)].func /\ fr = s[Len(s)]
  OBVIOUS
<1>2. /\ f \in 1..n /\ AttrsOf(a, facts, m, g, sccs, f)
      /\ IsExternal(m, f) => ~Known(m, f)
      /\ ~IsExternal(m, f) => /\ Known(m, f) /\ 1 \in 1..Len(m[f].blocks)
                              /\ BlocksRight(m[f].blocks, g[f], n) /\ FactsRight(facts[f], m[f].blocks, g[f])
                              /\ Inside(fr, m[f].blocks, a)
  BY <1>0, <1>1, CallFacts
<1>3. "WILLRETURN" \notin a[f]
  <2>1. CASE IsExternal(m, f)
    BY <1>2, <2>1 DEF AttrsOf, AnyMem
  <2>2. CASE ~IsExternal(m, f)
    <3>1. PICK blocks : blocks = m[f].blocks
      OBVIOUS
    <3>2. /\ BlocksRight(blocks, g[f], n) /\ Inside(fr, blocks, a) /\ FactsRight(facts[f], blocks, g[f])
          /\ blocks[fr.block].exit = "stop"
      BY <1>1, <1>2, <2>2, <3>1 DEF EndsAt
    <3>3. fr.block \in ComputeReachable(blocks) /\ fr.block \in 1..Len(blocks)
      BY <3>2 DEF Inside, FactsRight
    <3>4. blocks[fr.block].succs = {}
      BY <3>2, <3>3 DEF BlocksRight
    <3>5. ~facts[f].exits_all_return_like
      BY <3>2, <3>3, <3>4 DEF FactsRight
    <3> QED BY <1>2, <3>5 DEF AttrsOf
  <2> QED BY <2>1, <2>2
<1>4. i = Len(s) \/ Rel(s[i].func, s[Len(s)].func, m, g, sccs, flow, a)
  BY TopRel
<1> QED BY <1>1, <1>3, <1>4 DEF Rel, Below, Across

\* A function that is not recursive is called once at a time, and one that is sure to end.
LEMMA OnceFact ==
  ASSUME NEW m, NEW g, NEW n, NEW sccs, NEW succ, NEW facts, NEW flow, NEW a,
         Recorded(m, g, n, sccs, succ, facts, flow, a),
         NEW s, FramesRight(s, m, g, n, sccs, flow, a), NEW i \in 1..Len(s), NEW j \in 1..Len(s),
         s[i].func = s[j].func, i # j
  PROVE  IsRecursive(m, sccs, flow, SccOf(sccs, s[i].func)) /\ "WILLTERMINATE" \notin a[s[i].func]
<1>1. PICK f : f = s[i].func
  OBVIOUS
<1>2. f \in 1..n
  BY <1>1, CallFacts
<1>3. Rel(f, f, m, g, sccs, flow, a)
  <2>1. i < j \/ j < i
    BY LenProperties DEF FramesRight
  <2> QED BY <1>1, <2>1 DEF FramesRight
<1> QED BY <1>1, <1>2, <1>3, RelSelf DEF Rel

\* One that is sure to end does not come back to a block.
LEMMA OnwardFact ==
  ASSUME NEW m, NEW g, NEW n, NEW sccs, NEW succ, NEW facts, NEW flow, NEW a,
         Recorded(m, g, n, sccs, succ, facts, flow, a),
         NEW s, FramesRight(s, m, g, n, sccs, flow, a), NEW i \in 1..Len(s),
         "WILLTERMINATE" \in a[s[i].func]
  PROVE  ~IsExternal(m, s[i].func) /\ m[s[i].func].blocks[s[i].block].succs \cap s[i].seen = {}
<1>1. PICK f, fr : f = s[i].func /\ fr = s[i]
  OBVIOUS
<1>2. /\ f \in 1..n /\ AttrsOf(a, facts, m, g, sccs, f)
      /\ IsExternal(m, f) => ~Known(m, f)
      /\ ~IsExternal(m, f) => /\ Known(m, f) /\ 1 \in 1..Len(m[f].blocks)
                              /\ BlocksRight(m[f].blocks, g[f], n) /\ FactsRight(facts[f], m[f].blocks, g[f])
                              /\ Inside(fr, m[f].blocks, a)
  BY <1>1, CallFacts
<1>3. ~IsExternal(m, f) /\ ~facts[f].cfg_has_cycle
  BY <1>1, <1>2 DEF AttrsOf
<1>4. PICK blocks : blocks = m[f].blocks
  OBVIOUS
<1>5. BlocksRight(blocks, g[f], n) /\ FactsRight(facts[f], blocks, g[f]) /\ Inside(fr, blocks, a)
  BY <1>2, <1>3, <1>4
<1>6. fr.block \in 1..Len(blocks) /\ fr.block \in ComputeReachable(blocks)
      /\ \A b \in ComputeReachable(blocks) : b \in 1..Len(blocks) /\ b \notin Back(blocks, b)
  BY <1>3, <1>5 DEF Inside, FactsRight
<1>7. ASSUME NEW b \in 1..Len(blocks)
      PROVE  LeastClosed(Back(blocks, b), 1..Len(blocks), Succs(blocks), blocks[b].succs, {})
  <2>1. blocks[b].succs \in SUBSET (1..Len(blocks))
    BY <1>5 DEF BlocksRight
  <2> QED BY <1>5, <2>1, BlocksReach DEF Back
<1>8. \A b \in 1..Len(blocks) : Succs(blocks)[b] = blocks[b].succs
  BY <1>5, LenProperties DEF BlocksRight, Succs
<1>9. ASSUME NEW b \in blocks[fr.block].succs, b \in fr.seen PROVE FALSE
  <2>1. b \in ComputeReachable(blocks) /\ b \in 1..Len(blocks)
    BY <1>5, <1>6, <1>9 DEF Inside
  <2>2. CASE b = fr.block
    <3>1. b \in Back(blocks, b)
      BY <1>7, <1>9, <2>1, <2>2 DEF LeastClosed
    <3> QED BY <1>6, <2>1, <3>1
  <2>3. CASE fr.block \in Back(blocks, b)
    <3>1. b \in Back(blocks, b)
      BY <1>6, <1>7, <1>8, <1>9, <2>1, <2>3 DEF LeastClosed
    <3> QED BY <1>6, <2>1, <3>1
  <2> QED BY <1>5, <1>9, <2>2, <2>3 DEF Inside
<1> QED BY <1>1, <1>3, <1>4, <1>9

\* What touches memory is marked on every call below it.
LEMMA MemoryFact ==
  ASSUME NEW m, NEW g, NEW n, NEW sccs, NEW succ, NEW facts, NEW flow, NEW a,
         Recorded(m, g, n, sccs, succ, facts, flow, a),
         NEW s, FramesRight(s, m, g, n, sccs, flow, a), NEW i \in 1..Len(s),
         NEW f, f = s[Len(s)].func, NEW x \in AnyMem,
         IsExternal(m, f) \/ x \in m[f].blocks[s[Len(s)].block].effects
  PROVE  x \in a[s[i].func]
<1>0. Len(s) \in 1..Len(s)
  <2>1. Len(s) \in Nat
    BY LenProperties DEF FramesRight
  <2> QED BY <2>1
<1>1. PICK fr : fr = s[Len(s)]
  OBVIOUS
<1>2. /\ f \in 1..n /\ AttrsOf(a, facts, m, g, sccs, f)
      /\ IsExternal(m, f) => ~Known(m, f)
      /\ ~IsExternal(m, f) => /\ Known(m, f) /\ 1 \in 1..Len(m[f].blocks)
                              /\ BlocksRight(m[f].blocks, g[f], n) /\ FactsRight(facts[f], m[f].blocks, g[f])
                              /\ Inside(fr, m[f].blocks, a)
  BY <1>0, <1>1, CallFacts
<1>3. x \in a[f]
  <2>1. CASE IsExternal(m, f)
    BY <1>2, <2>1 DEF AttrsOf
  <2>2. CASE ~IsExternal(m, f)
    <3>1. x \in facts[f].local_mem
      BY <1>1, <1>2, <2>2 DEF Inside, FactsRight
    <3> QED BY <1>2, <2>2, <3>1 DEF AttrsOf
  <2> QED BY <2>1, <2>2
<1>4. i = Len(s) \/ Rel(s[i].func, s[Len(s)].func, m, g, sccs, flow, a)
  BY TopRel
<1> QED BY <1>3, <1>4 DEF Rel, Below, Across

-----------------------------------------------------------------------------
(***************************************************************************)
(* The specification: what holds of every state.                           *)
(***************************************************************************)
TheGraph == BuildGraph(mod)
TheSccs == ComputeScc(TheGraph)
TheSuccs == SuccSccs(TheSccs, TheGraph)
TheFlow == Flows(mod, TheGraph, TheSccs, TheSuccs)
InfoRight(i, m, n, sccs, flow) == \A f \in 1..n : i[f].is_recursive = IsRecursive(m, sccs, flow, SccOf(sccs, f))
AnalysedRight ==
  /\ Recorded(mod, TheGraph, Len(mod), TheSccs, TheSuccs, FactsFor(mod), TheFlow, attrs)
  /\ InfoRight(info, mod, Len(mod), TheSccs, TheFlow)
\* The inductive invariant.
IInv == AnalysedRight /\ FramesRight(frames, mod, TheGraph, Len(mod), TheSccs, TheFlow, attrs)

LEMMA EmptyFrames ==
  ASSUME NEW m, NEW g, NEW n, NEW sccs, NEW flow, NEW a
  PROVE  FramesRight(<<>>, m, g, n, sccs, flow, a)
<1>1. <<>> \in Seq(FrameSet(n)) /\ Len(<<>>) = 0
  OBVIOUS
<1>2. (\A i \in 1..0 : FALSE) /\ \A i \in 1..(0 - 1) : FALSE
  OBVIOUS
<1> QED BY <1>1, <1>2 DEF FramesRight

LEMMA FirstFrame ==
  ASSUME NEW m, NEW g, NEW n, ModuleRight(m, g, n), NEW sccs, NEW flow, NEW a, NEW f \in 1..n
  PROVE  FramesRight(<<Frame(f)>>, m, g, n, sccs, flow, a)
<1>1. PICK fr : fr = Frame(f)
  OBVIOUS
<1>2. fr \in FrameSet(n) /\ Sound(fr, m, a)
  BY <1>1, FrameLemma
<1>3. <<fr>> \in Seq(FrameSet(n)) /\ Len(<<fr>>) = 1 /\ <<fr>>[1] = fr
  BY <1>2
<1>4. (\A i \in 1..1 : i = 1) /\ \A i \in 1..(1 - 1) : FALSE
  OBVIOUS
<1>5. FramesRight(<<fr>>, m, g, n, sccs, flow, a)
  BY <1>2, <1>3, <1>4 DEF FramesRight
<1> QED BY <1>1, <1>5

\* The analyses are right of every module.
LEMMA InitRight == Init => IInv
<1> SUFFICES ASSUME Init PROVE IInv
  OBVIOUS
<1>1. IsModule(mod)
  BY ModulesAssumption DEF Init
<1>2. PICK m, g, n, sccs, succ, flow : m = mod /\ g = TheGraph /\ n = Len(mod) /\ sccs = TheSccs /\ succ = TheSuccs /\ flow = TheFlow
  OBVIOUS
<1>3. IsModule(m) /\ g = BuildGraph(m) /\ sccs = ComputeScc(g) /\ succ = SuccSccs(sccs, g) /\ flow = Flows(m, g, sccs, succ) /\ n = Len(m)
  BY <1>1, <1>2 DEF TheGraph, TheSccs, TheSuccs, TheFlow
<1>4. info = AnalyzeModule(m, g, sccs, succ) /\ attrs = FuncAttrs(m, sccs, succ)
  BY <1>2, <1>3 DEF Init, Analysed
<1>5. /\ AnalysisRight(m, g, n, sccs, succ, FactsFor(m))
      /\ AttrsRight(FuncAttrs(m, sccs, succ), FactsFor(m), m, g, sccs, n)
      /\ FlowsRight(flow, m, g, sccs, succ, Len(sccs))
  BY <1>3, AnalysisLemma
<1>6. Recorded(m, g, n, sccs, succ, FactsFor(m), flow, attrs)
  BY <1>4, <1>5 DEF Recorded
<1>7. ModuleRight(m, g, n) /\ DOMAIN m = 1..n
  BY <1>5 DEF AnalysisRight, ModuleRight
<1>8. InfoRight(info, m, n, sccs, flow)
  BY <1>3, <1>4, <1>7 DEF InfoRight, AnalyzeModule
<1>9. PICK f \in 1..n : frames = <<Frame(f)>>
  BY <1>2, <1>7 DEF Init
<1>10. PICK a : a = attrs
  OBVIOUS
<1>11. FramesRight(<<Frame(f)>>, m, g, n, sccs, flow, a)
  BY <1>7, FirstFrame
<1> QED BY <1>2, <1>6, <1>8, <1>9, <1>10, <1>11 DEF IInv, AnalysedRight

\* One element of a sequence is changed.
Put(t, s, k, x) == t = [s EXCEPT ![k] = x]
LEMMA PutLemma ==
  ASSUME NEW S, NEW s \in Seq(S), NEW k \in 1..Len(s), NEW x \in S, NEW t, Put(t, s, k, x)
  PROVE  t \in Seq(S) /\ Len(t) = Len(s) /\ t[k] = x /\ \A i \in 1..Len(s) : i # k => t[i] = s[i]
<1> DEFINE n == Len(s)
<1>1. n \in Nat /\ s \in [1..n -> S]
  BY LenProperties
<1>2. t = [s EXCEPT ![k] = x]
  BY DEF Put
<1>3. t \in [1..n -> S] /\ t[k] = x /\ \A i \in 1..n : i # k => t[i] = s[i]
  BY <1>1, <1>2
<1> HIDE DEF n
<1>4. t \in Seq(S)
  BY <1>1, <1>3
<1>5. Len(t) = n
  BY <1>1, <1>3, <1>4, LenProperties
<1> QED BY <1>3, <1>4, <1>5 DEF n

\* What follows a call that goes on or returns.
Forth(t, s, fr, b) == t = [s EXCEPT ![Len(s)] = [fr EXCEPT !.block = b, !.done = 0, !.seen = fr.seen \cup {b}]]
Backed(t, s, m, fr) == t = [Front(s) EXCEPT ![Len(s) - 1].done = IF IsExternal(m, fr.func) THEN @ ELSE @ + 1]

LEMMA GoesOn ==
  ASSUME NEW m, NEW g, NEW n, NEW sccs, NEW succ, NEW facts, NEW flow, NEW a,
         Recorded(m, g, n, sccs, succ, facts, flow, a),
         NEW s, FramesRight(s, m, g, n, sccs, flow, a), s # <<>>, NEW b,
         NEW fr, fr = s[Len(s)], ~IsExternal(m, fr.func),
         fr.done = Len(CallsAt(fr, m)), b \in m[fr.func].blocks[fr.block].succs,
         NEW t, Forth(t, s, fr, b)
  PROVE  FramesRight(t, m, g, n, sccs, flow, a)
<1>1. s \in Seq(FrameSet(n)) /\ Len(s) \in Nat \ {0} /\ Len(s) \in 1..Len(s)
  <2>1. s \in Seq(FrameSet(n))
    BY DEF FramesRight
  <2> QED BY <2>1, NotEmpty
<1>2. PICK f : f = fr.func
  OBVIOUS
<1>3. /\ f \in 1..n /\ fr \in FrameSet(n) /\ 1 \in 1..Len(m[f].blocks)
      /\ BlocksRight(m[f].blocks, g[f], n) /\ FactsRight(facts[f], m[f].blocks, g[f])
      /\ Inside(fr, m[f].blocks, a)
  BY <1>1, <1>2, CallFacts
<1>4. PICK blocks : blocks = m[f].blocks
  OBVIOUS
<1>5. fr.done = Len(blocks[fr.block].calls) /\ b \in blocks[fr.block].succs
  BY <1>2, <1>4 DEF CallsAt
<1>6. PICK u : u = [fr EXCEPT !.block = b, !.done = 0, !.seen = fr.seen \cup {b}]
  OBVIOUS
<1>7. b \in Nat
  <2>1. blocks[fr.block].succs \subseteq ComputeReachable(blocks) /\ ComputeReachable(blocks) \subseteq 1..Len(blocks)
    BY <1>3, <1>4 DEF FactsRight, Inside
  <2> QED BY <1>5, <2>1
<1>8. u \in FrameSet(n) /\ u.func = f /\ u.block = b /\ u.done = 0 /\ u.seen = fr.seen \cup {b}
  BY <1>2, <1>3, <1>6, <1>7 DEF FrameSet
<1>9. Inside(u, blocks, a)
  <2>1. BlocksRight(blocks, g[f], n) /\ 1 \in 1..Len(blocks) /\ Inside(fr, blocks, a)
    BY <1>3, <1>4
  <2> QED BY <1>5, <1>8, <2>1, JumpInside
<1>10. Put(t, s, Len(s), u)
  BY <1>6 DEF Put, Forth
<1>11. t \in Seq(FrameSet(n)) /\ Len(t) = Len(s) /\ t[Len(s)] = u /\ \A i \in 1..(Len(s) - 1) : t[i] = s[i]
  <2>1. t \in Seq(FrameSet(n)) /\ Len(t) = Len(s) /\ t[Len(s)] = u /\ \A i \in 1..Len(s) : i # Len(s) => t[i] = s[i]
    BY <1>1, <1>8, <1>10, PutLemma
  <2>2. \A i \in 1..(Len(s) - 1) : i \in 1..Len(s) /\ i # Len(s)
    BY <1>1
  <2> QED BY <2>1, <2>2
<1>12. Cut(t, s, n, m, a)
  <2>1. Sound(u, m, a)
    BY <1>4, <1>8, <1>9 DEF Sound
  <2> QED BY <1>1, <1>2, <1>8, <1>11, <2>1 DEF Cut
<1> QED BY <1>12, CutKeeps

LEMMA GoesBack ==
  ASSUME NEW m, NEW g, NEW n, NEW sccs, NEW succ, NEW facts, NEW flow, NEW a,
         Recorded(m, g, n, sccs, succ, facts, flow, a),
         NEW s, FramesRight(s, m, g, n, sccs, flow, a), s # <<>>, Len(s) # 1,
         EndsAt(s[Len(s)], m, "return"), NEW fr, fr = s[Len(s) - 1],
         NEW t, Backed(t, s, m, fr)
  PROVE  FramesRight(t, m, g, n, sccs, flow, a)
<1>1. s \in Seq(FrameSet(n)) /\ Len(s) \in Nat \ {0} /\ Len(s) \in 1..Len(s)
  <2>1. s \in Seq(FrameSet(n))
    BY DEF FramesRight
  <2> QED BY <2>1, NotEmpty
<1>2. PICK k : k = Len(s) - 1
  OBVIOUS
<1>3. k \in Nat \ {0} /\ k \in 1..Len(s) /\ k + 1 = Len(s) /\ k \in 1..k
  BY <1>1, <1>2
<1>4. PICK v : v = Front(s)
  OBVIOUS
<1>5. v \in Seq(FrameSet(n)) /\ Len(v) = k /\ \A i \in 1..k : v[i] = s[i]
  <2>1. v \in Seq(FrameSet(n)) /\ Popped(v, s)
    BY <1>1, <1>4, FrontLemma
  <2> QED BY <1>1, <1>2, <2>1 DEF Popped
<1>6. PICK f : f = fr.func
  OBVIOUS
<1>7. /\ f \in 1..n /\ fr \in FrameSet(n)
      /\ ~IsExternal(m, f) => /\ 1 \in 1..Len(m[f].blocks)
                              /\ BlocksRight(m[f].blocks, g[f], n) /\ FactsRight(facts[f], m[f].blocks, g[f])
                              /\ Inside(fr, m[f].blocks, a)
  BY <1>2, <1>3, <1>6, CallFacts
<1>8. PICK u : u = [fr EXCEPT !.done = IF IsExternal(m, f) THEN fr.done ELSE fr.done + 1]
  OBVIOUS
<1>9. u \in FrameSet(n) /\ u.func = f /\ u.block = fr.block /\ u.seen = fr.seen
      /\ u.done = IF IsExternal(m, f) THEN fr.done ELSE fr.done + 1
  BY <1>7, <1>6, <1>8 DEF FrameSet
<1>10. v[k] = fr
  BY <1>2, <1>3, <1>5
<1>11. Put(t, v, k, u)
  BY <1>2, <1>4, <1>6, <1>8, <1>10 DEF Put, Backed
<1>12. t \in Seq(FrameSet(n)) /\ Len(t) = k /\ t[k] = u /\ \A i \in 1..(k - 1) : t[i] = s[i]
  <2>1. t \in Seq(FrameSet(n)) /\ Len(t) = k /\ t[k] = u /\ \A i \in 1..k : i # k => t[i] = v[i]
    BY <1>3, <1>5, <1>9, <1>11, PutLemma
  <2>2. \A i \in 1..(k - 1) : i \in 1..k /\ i # k
    BY <1>3
  <2> QED BY <1>5, <2>1, <2>2
<1>13. Sound(u, m, a)
  <2>1. SUFFICES ASSUME ~IsExternal(m, f) PROVE Inside(u, m[f].blocks, a)
    BY <1>9 DEF Sound
  <2>2. "NORETURN" \notin a[s[Len(s)].func]
    BY <1>1, ReturnsFact
  <2>3. Waits(fr, s[Len(s)].func, m)
    BY <1>2, <1>3, <1>6, <2>1 DEF FramesRight
  <2>4. PICK blocks : blocks = m[f].blocks
    OBVIOUS
  <2>5. Inside(fr, blocks, a) /\ fr.block \in 1..Len(blocks) /\ blocks[fr.block].calls \in Seq(1..n)
    <3>1. Inside(fr, blocks, a) /\ FactsRight(facts[f], blocks, g[f]) /\ BlocksRight(blocks, g[f], n)
      BY <1>7, <2>1, <2>4
    <3>2. fr.block \in 1..Len(blocks)
      BY <3>1 DEF Inside, FactsRight
    <3> QED BY <3>1, <3>2 DEF BlocksRight, Blk
  <2>6. PICK calls : calls = blocks[fr.block].calls
    OBVIOUS
  <2>7. Len(calls) \in Nat
    BY <2>5, <2>6, LenProperties
  <2>8. fr.done + 1 \in 1..Len(calls) /\ calls[fr.done + 1] = s[Len(s)].func
    BY <1>6, <2>3, <2>4, <2>6 DEF Waits, CallsAt
  <2>9. Len(blocks[fr.block].calls) \in Nat /\ fr.done < Len(blocks[fr.block].calls)
        /\ "NORETURN" \notin a[blocks[fr.block].calls[fr.done + 1]]
    <3>1. fr.done \in Nat
      BY <1>7 DEF FrameSet
    <3> QED BY <2>2, <2>6, <2>7, <2>8, <3>1
  <2>10. u.block = fr.block /\ u.done = fr.done + 1 /\ u.seen = fr.seen
    BY <1>9, <2>1
  <2> QED BY <2>4, <2>5, <2>9, <2>10, DoneInside
<1>14. Cut(t, s, n, m, a)
  BY <1>2, <1>3, <1>6, <1>9, <1>12, <1>13 DEF Cut
<1> QED BY <1>14, CutKeeps

\* Every step keeps the stack right.
LEMMA NextRight ==
  ASSUME IInv, [Next]_callVars
  PROVE  IInv'
<1>1. CASE UNCHANGED callVars
  BY <1>1 DEF callVars, IInv, AnalysedRight, TheGraph, TheSccs, TheSuccs, TheFlow
<1>2. CASE Next
  <2>1. mod' = mod /\ info' = info /\ attrs' = attrs
    BY <1>2 DEF Next
  <2>2. PICK m, g, n, sccs, succ, facts, flow, a, s :
          /\ m = mod /\ g = TheGraph /\ n = Len(mod) /\ sccs = TheSccs /\ succ = TheSuccs /\ facts = FactsFor(mod)
          /\ flow = TheFlow /\ a = attrs /\ s = frames
    OBVIOUS
  <2>3. Recorded(m, g, n, sccs, succ, facts, flow, a) /\ FramesRight(s, m, g, n, sccs, flow, a)
    BY <2>2 DEF IInv, AnalysedRight
  <2>4. AnalysedRight'
    BY <2>1 DEF IInv, AnalysedRight, TheGraph, TheSccs, TheSuccs, TheFlow
  <2>5. PICK t : t = frames'
    OBVIOUS
  <2>6. SUFFICES FramesRight(t, m, g, n, sccs, flow, a)
    BY <2>1, <2>2, <2>4, <2>5 DEF IInv, TheGraph, TheSccs, TheSuccs, TheFlow
  <2>7. s \in Seq(FrameSet(n)) /\ DOMAIN m = 1..n /\ n \in Nat
    BY <2>3 DEF FramesRight, Recorded, AnalysisRight, ModuleRight
  <2>8. CASE CallNext \/ ExternalCalls
    <3>1. s # <<>>
      BY <2>2, <2>8 DEF CallNext, ExternalCalls, InBody, Running
    <3>2. PICK fr : fr = s[Len(s)]
      OBVIOUS
    <3>3. Len(s) \in 1..Len(s) /\ fr = Top
      BY <2>2, <2>7, <3>1, <3>2, NotEmpty DEF Top
    <3>4. PICK f : f = fr.func
      OBVIOUS
    <3>5. /\ f \in 1..n /\ fr \in FrameSet(n)
          /\ ~IsExternal(m, f) => /\ BlocksRight(m[f].blocks, g[f], n) /\ FactsRight(facts[f], m[f].blocks, g[f])
                                  /\ Inside(fr, m[f].blocks, a)
      BY <2>3, <3>2, <3>3, <3>4, CallFacts
    <3>6. \E y \in 1..n : MayCall(fr, y, m) /\ t = Append(s, Frame(y))
      <4>1. CASE CallNext
        <5>1. ~IsExternal(m, f) /\ fr.done # Len(CallsAt(fr, m)) /\ t = Append(s, Frame(CallsAt(fr, m)[fr.done + 1]))
          BY <2>2, <2>5, <3>3, <3>4, <4>1 DEF CallNext, InBody, AtEnd, Block, Call, CallsAt
        <5>2. PICK calls : calls = CallsAt(fr, m)
          OBVIOUS
        <5>3. calls \in Seq(1..n) /\ fr.done \in 0..Len(calls)
          <6>1. fr.block \in 1..Len(m[f].blocks) /\ fr.done \in 0..Len(m[f].blocks[fr.block].calls)
            BY <3>5, <5>1 DEF Inside, FactsRight
          <6>2. m[f].blocks[fr.block].calls \in Seq(1..n)
            BY <3>5, <5>1, <6>1 DEF BlocksRight, Blk
          <6> QED BY <3>4, <5>2, <6>1, <6>2 DEF CallsAt
        <5>4. Len(calls) \in Nat /\ \A k \in 1..Len(calls) : calls[k] \in 1..n
          BY <5>3, LenProperties
        <5>5. fr.done + 1 \in 1..Len(calls)
          BY <5>1, <5>2, <5>3, <5>4
        <5> QED BY <3>4, <5>1, <5>2, <5>4, <5>5 DEF MayCall, Waits
      <4>2. CASE ExternalCalls
        <5>1. IsExternal(m, f) /\ \E y \in DOMAIN m : m[y].linkage = "public" /\ t = Append(s, Frame(y))
          BY <2>2, <2>5, <3>3, <3>4, <4>2 DEF ExternalCalls, InBody, Call
        <5> QED BY <2>7, <3>4, <5>1 DEF MayCall
      <4> QED BY <2>8, <4>1, <4>2
    <3>7. PICK y \in 1..n : MayCall(s[Len(s)], y, m) /\ t = Append(s, Frame(y))
      BY <3>2, <3>6
    <3>8. FramesRight(Append(s, Frame(y)), m, g, n, sccs, flow, a)
      BY <2>3, <3>1, <3>7, PushKeeps
    <3> QED BY <3>7, <3>8
  <2>9. CASE Jump
    <3>1. s # <<>>
      BY <2>2, <2>9 DEF Jump, InBody, Running
    <3>2. PICK fr : fr = s[Len(s)]
      OBVIOUS
    <3>3. fr = Top
      BY <2>2, <3>2 DEF Top
    <3>4. PICK b \in Block.succs : frames' = [frames EXCEPT ![Len(frames)] = Entering(@, b)]
      BY <2>9 DEF Jump
    <3>5. Forth(t, s, fr, b)
      BY <2>2, <2>5, <3>2, <3>4 DEF Forth, Entering
    <3>6. ~IsExternal(m, fr.func) /\ fr.done = Len(CallsAt(fr, m)) /\ b \in m[fr.func].blocks[fr.block].succs
      BY <2>2, <2>9, <3>3, <3>4 DEF Jump, InBody, AtEnd, Block, CallsAt
    <3> QED BY <2>3, <3>1, <3>2, <3>5, <3>6, GoesOn
  <2>10. CASE Return
    <3>1. s # <<>>
      BY <2>2, <2>10 DEF Return, CanReturn, InBody, Running
    <3>2. EndsAt(s[Len(s)], m, "return")
      BY <2>2, <2>10, <3>1 DEF Return, CanReturn, InBody, Running, AtEnd, Block, CallsAt, EndsAt, Top
    <3>3. CASE Len(s) = 1
      <4>1. t = <<>>
        BY <2>2, <2>5, <2>10, <3>3 DEF Return
      <4> QED BY <4>1, EmptyFrames
    <3>4. CASE Len(s) # 1
      <4>1. PICK fr : fr = s[Len(s) - 1]
        OBVIOUS
      <4>2. Backed(t, s, m, fr)
        BY <2>2, <2>5, <2>10, <3>4, <4>1 DEF Return, Backed
      <4> QED BY <2>3, <3>1, <3>2, <3>4, <4>1, <4>2, GoesBack
    <3> QED BY <3>3, <3>4
  <2>11. CASE Stop
    <3>1. t = <<>>
      BY <2>5, <2>11 DEF Stop
    <3> QED BY <3>1, EmptyFrames
  <2> QED BY <1>2, <2>8, <2>9, <2>10, <2>11 DEF Next
<1> QED BY <1>1, <1>2

LEMMA Invariant == Spec => []IInv
<1>1. Init => IInv
  BY InitRight
<1>2. IInv /\ [Next]_callVars => IInv'
  BY NextRight
<1> QED BY <1>1, <1>2, PTL DEF Spec

\* What the theorems need of a state.
LEMMA StateFacts ==
  ASSUME IInv
  PROVE  \E m, g, n, sccs, succ, facts, flow, a, s :
           /\ m = mod /\ a = attrs /\ s = frames
           /\ Recorded(m, g, n, sccs, succ, facts, flow, a) /\ FramesRight(s, m, g, n, sccs, flow, a)
           /\ InfoRight(info, m, n, sccs, flow) /\ DOMAIN m = 1..n
           /\ Len(s) \in Nat /\ DOMAIN s = 1..Len(s) /\ (s # <<>> => Len(s) \in 1..Len(s))
<1>1. PICK m, g, n, sccs, succ, facts, flow, a, s :
        /\ m = mod /\ g = TheGraph /\ n = Len(mod) /\ sccs = TheSccs /\ succ = TheSuccs /\ facts = FactsFor(mod)
        /\ flow = TheFlow /\ a = attrs /\ s = frames
  OBVIOUS
<1>2. Recorded(m, g, n, sccs, succ, facts, flow, a) /\ FramesRight(s, m, g, n, sccs, flow, a) /\ InfoRight(info, m, n, sccs, flow)
  BY <1>1 DEF IInv, AnalysedRight
<1>3. DOMAIN m = 1..n
  BY <1>2 DEF Recorded, AnalysisRight, ModuleRight
<1>4. s \in Seq(FrameSet(n))
  BY <1>2 DEF FramesRight
<1>5. Len(s) \in Nat /\ DOMAIN s = 1..Len(s) /\ (s # <<>> => Len(s) \in 1..Len(s))
  BY <1>4, LenProperties, NotEmpty
<1> QED BY <1>1, <1>2, <1>3, <1>5

\* No call of a function that is not marked recursive is made while one is active, in any
\* module and whatever its external functions call (module_analysis.rs).
THEOREM NoHiddenRecursion == Spec => []RecursionSound
<1>1. ASSUME IInv PROVE RecursionSound
  <2>1. PICK m, g, n, sccs, succ, facts, flow, a, s :
          /\ m = mod /\ a = attrs /\ s = frames
          /\ Recorded(m, g, n, sccs, succ, facts, flow, a) /\ FramesRight(s, m, g, n, sccs, flow, a)
          /\ InfoRight(info, m, n, sccs, flow) /\ DOMAIN m = 1..n
          /\ Len(s) \in Nat /\ DOMAIN s = 1..Len(s) /\ (s # <<>> => Len(s) \in 1..Len(s))
    BY <1>1, StateFacts
  <2>2. ASSUME NEW f \in DOMAIN mod, ~info[f].is_recursive
        PROVE  Cardinality({i \in DOMAIN frames : frames[i].func = f}) <= 1
    <3> DEFINE S == {i \in 1..Len(s) : s[i].func = f}
    <3>1. \A i, j \in S : i = j
      <4>1. f \in 1..n /\ ~IsRecursive(m, sccs, flow, SccOf(sccs, f))
        BY <2>1, <2>2 DEF InfoRight
      <4>2. SUFFICES ASSUME NEW i \in 1..Len(s), NEW j \in 1..Len(s), s[i].func = f, s[j].func = f, i # j PROVE FALSE
        OBVIOUS
      <4>3. IsRecursive(m, sccs, flow, SccOf(sccs, s[i].func))
        BY <2>1, <4>2, OnceFact
      <4> QED BY <4>1, <4>2, <4>3
    <3>4. {i \in DOMAIN frames : frames[i].func = f} = S
      BY <2>1
    <3> HIDE DEF S
    <3>2. CASE S = {}
      <4>1. Cardinality(S) = 0
        BY <3>2, FS_EmptySet
      <4> QED BY <3>4, <4>1
    <3>3. CASE S # {}
      <4>1. PICK i : S = {i}
        BY <3>1, <3>3
      <4>2. Cardinality(S) = 1
        BY <4>1, FS_Singleton
      <4> QED BY <3>4, <4>2
    <3> QED BY <3>2, <3>3
  <2> QED BY <2>2 DEF RecursionSound
<1> QED BY <1>1, Invariant, PTL

\* A function does not return when it is marked NORETURN, is active at no stop when it is
\* marked WILLRETURN, and comes back neither to itself nor to a block when it is marked
\* WILLTERMINATE, in any module (func_behavior.rs).
THEOREM ReturnsAsMarked == Spec => []ReturnsSound
<1>1. ASSUME IInv PROVE ReturnsSound
  <2>1. PICK m, g, n, sccs, succ, facts, flow, a, s :
          /\ m = mod /\ a = attrs /\ s = frames
          /\ Recorded(m, g, n, sccs, succ, facts, flow, a) /\ FramesRight(s, m, g, n, sccs, flow, a)
          /\ InfoRight(info, m, n, sccs, flow) /\ DOMAIN m = 1..n
          /\ Len(s) \in Nat /\ DOMAIN s = 1..Len(s) /\ (s # <<>> => Len(s) \in 1..Len(s))
    BY <1>1, StateFacts
  <2>2. ASSUME CanReturn PROVE ~HasAttr(Top.func, "NORETURN")
    <3>1. s # <<>> /\ EndsAt(s[Len(s)], m, "return")
      BY <2>1, <2>2 DEF CanReturn, InBody, Running, AtEnd, Block, CallsAt, EndsAt, Top
    <3>2. "NORETURN" \notin a[s[Len(s)].func]
      BY <2>1, <3>1, ReturnsFact
    <3> QED BY <2>1, <3>2 DEF HasAttr, Top
  <2>3. ASSUME CanStop, NEW f \in DOMAIN mod, Active(f) PROVE ~HasAttr(f, "WILLRETURN")
    <3>1. EndsAt(s[Len(s)], m, "stop")
      BY <2>1, <2>3 DEF CanStop, InBody, Running, AtEnd, Block, CallsAt, EndsAt, Top
    <3>2. PICK i \in 1..Len(s) : s[i].func = f
      BY <2>1, <2>3 DEF Active
    <3>3. "WILLRETURN" \notin a[s[i].func]
      BY <2>1, <3>1, StopsFact
    <3> QED BY <2>1, <3>2, <3>3 DEF HasAttr
  <2>4. ASSUME NEW i \in DOMAIN frames, HasAttr(frames[i].func, "WILLTERMINATE")
        PROVE  /\ ~IsExternal(mod, frames[i].func)
               /\ \A j \in DOMAIN frames : frames[j].func = frames[i].func => i = j
               /\ mod[frames[i].func].blocks[frames[i].block].succs \cap frames[i].seen = {}
    <3>1. i \in 1..Len(s) /\ "WILLTERMINATE" \in a[s[i].func]
      BY <2>1, <2>4 DEF HasAttr
    <3>2. ~IsExternal(m, s[i].func) /\ m[s[i].func].blocks[s[i].block].succs \cap s[i].seen = {}
      BY <2>1, <3>1, OnwardFact
    <3>3. ASSUME NEW j \in 1..Len(s), s[i].func = s[j].func PROVE i = j
      BY <2>1, <3>1, <3>3, OnceFact
    <3> QED BY <2>1, <3>2, <3>3
  <2> QED BY <2>2, <2>3, <2>4 DEF ReturnsSound
<1> QED BY <1>1, Invariant, PTL

\* What touches memory is marked on every active call, in any module (func_behavior.rs).
THEOREM MemoryMarked == Spec => []MemorySound
<1>1. ASSUME IInv PROVE MemorySound
  <2>1. PICK m, g, n, sccs, succ, facts, flow, a, s :
          /\ m = mod /\ a = attrs /\ s = frames
          /\ Recorded(m, g, n, sccs, succ, facts, flow, a) /\ FramesRight(s, m, g, n, sccs, flow, a)
          /\ InfoRight(info, m, n, sccs, flow) /\ DOMAIN m = 1..n
          /\ Len(s) \in Nat /\ DOMAIN s = 1..Len(s) /\ (s # <<>> => Len(s) \in 1..Len(s))
    BY <1>1, StateFacts
  <2>2. SUFFICES ASSUME Running, NEW i \in DOMAIN frames, NEW x \in (IF InBody THEN Block.effects ELSE AnyMem)
                 PROVE  x \in attrs[frames[i].func]
    BY DEF MemorySound
  <2>3. PICK f, fr : fr = s[Len(s)] /\ f = fr.func
    OBVIOUS
  <2>4. fr = Top /\ s # <<>> /\ Len(s) \in 1..Len(s) /\ i \in 1..Len(s) /\ (InBody <=> ~IsExternal(m, f))
    BY <2>1, <2>2, <2>3 DEF Top, InBody, Running
  <2>5. ~IsExternal(m, f) => FactsRight(facts[f], m[f].blocks, g[f]) /\ Inside(fr, m[f].blocks, a)
    BY <2>1, <2>3, <2>4, CallFacts
  <2>6. ~IsExternal(m, f) => Block.effects = m[f].blocks[fr.block].effects
    BY <2>1, <2>3, <2>4 DEF Block
  <2>7. x \in AnyMem /\ (IsExternal(m, f) \/ x \in m[f].blocks[fr.block].effects)
    BY <2>2, <2>4, <2>5, <2>6 DEF FactsRight, Inside
  <2>8. x \in a[s[i].func]
    BY <2>1, <2>3, <2>4, <2>7, MemoryFact
  <2> QED BY <2>1, <2>8
<1> QED BY <1>1, Invariant, PTL

=============================================================================
