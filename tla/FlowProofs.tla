---------------------------- MODULE FlowProofs ----------------------------
(***************************************************************************)
(* The analyses of the control flow graph, for every graph: the post-order *)
(* iterator, the dominators, the frontiers, control dependence, the        *)
(* strongly connected components and the loops.                            *)
(***************************************************************************)
EXTENDS FlowAnalyses, CommonLemmas

-----------------------------------------------------------------------------
(***************************************************************************)
(* The graph.                                                              *)
(***************************************************************************)
CfgOk == cfg \in Graphs

LEMMA CfgLemma ==
  ASSUME CfgOk
  PROVE  /\ cfg.entry \in Block /\ cfg.succs \in [Block -> SUBSET Block]
         /\ \A b \in Block : Succs(b) \subseteq Block /\ Preds(b) \subseteq Block
         /\ \A b, c \in Block : c \in Succs(b) <=> b \in Preds(c)
         /\ IsFiniteSet(Block) /\ Block \subseteq Nat /\ NoBlock \notin Block
<1>1. cfg.entry \in Block /\ cfg.succs \in [Block -> SUBSET Block]
  BY GraphsAssumption DEF CfgOk
<1>2. IsFiniteSet(Block) /\ Block \subseteq Nat /\ NoBlock \notin Block
  BY BlockAssumption
<1> QED BY <1>1, <1>2 DEF Succs, Preds

LEMMA CfgReach ==
  ASSUME CfgOk, NEW S \in SUBSET Block, NEW avoid
  PROVE  LeastClosed(ReachSteps(cfg.succs, S, avoid), Block, cfg.succs, S, avoid)
BY CfgLemma, ReachLemma

\* The blocks paths lead to.
LEMMA ReachableLemma ==
  ASSUME CfgOk
  PROVE  /\ Reachable \subseteq Block /\ IsFiniteSet(Reachable) /\ Cardinality(Reachable) \in Nat
         /\ cfg.entry \in Reachable
         /\ \A b \in Reachable : Succs(b) \subseteq Reachable
         /\ \A T : cfg.entry \in T /\ (\A b \in T \cap Reachable : Succs(b) \subseteq T) => Reachable \subseteq T
<1>1. LeastClosed(Reachable, Block, cfg.succs, {cfg.entry}, {})
  BY CfgLemma, CfgReach DEF Reachable
<1>2. Reachable \subseteq Block
  BY <1>1 DEF LeastClosed
<1>3. IsFiniteSet(Reachable) /\ Cardinality(Reachable) \in Nat
  BY <1>2, CfgLemma, FS_Subset, FS_CardinalityType
<1>4. {cfg.entry} \ {} = {cfg.entry} /\ \A b : cfg.succs[b] \ {} = Succs(b)
  BY DEF Succs
<1> QED BY <1>1, <1>2, <1>3, <1>4 DEF LeastClosed

LEMMA ReachedFromLemma ==
  ASSUME CfgOk, NEW b \in Block
  PROVE  /\ ReachedFrom(b) \subseteq Block /\ Succs(b) \subseteq ReachedFrom(b)
         /\ \A c \in ReachedFrom(b) : Succs(c) \subseteq ReachedFrom(b)
<1>1. LeastClosed(ReachedFrom(b), Block, cfg.succs, Succs(b), {})
  BY CfgLemma, CfgReach DEF ReachedFrom
<1>2. Succs(b) \ {} = Succs(b) /\ \A c : cfg.succs[c] \ {} = Succs(c)
  BY DEF Succs
<1> QED BY <1>1, <1>2 DEF LeastClosed

\* What is said of the graph stays the same while it is analysed.
LEMMA CfgFrame ==
  ASSUME cfg' = cfg
  PROVE  /\ CfgOk' <=> CfgOk
         /\ Reachable' = Reachable
         /\ \A b : ReachedFrom(b)' = ReachedFrom(b)
         /\ \A b : Succs(b)' = Succs(b) /\ Preds(b)' = Preds(b)
BY DEF CfgOk, Reachable, ReachedFrom, Succs, Preds

LEMMA AscendingLemma ==
  ASSUME NEW S \in SUBSET Block, NEW s \in Ascending(S)
  PROVE  /\ s \in Seq(S) /\ s \in Seq(Block) /\ Len(s) \in Nat /\ DOMAIN s = 1..Len(s)
         /\ \A k \in 1..Len(s) : s[k] \in S
         /\ \A b \in S : \E k \in 1..Len(s) : s[k] = b
<1>1. IsFiniteSet(S) /\ Cardinality(S) \in Nat
  BY BlockAssumption, FS_Subset, FS_CardinalityType
<1>2. s \in [1..Cardinality(S) -> S] /\ \A b \in S : \E k \in DOMAIN s : s[k] = b
  BY DEF Ascending
<1>3. s \in Seq(S) /\ Len(s) = Cardinality(S) /\ DOMAIN s = 1..Len(s)
  BY <1>1, <1>2
<1> QED BY <1>1, <1>2, <1>3

-----------------------------------------------------------------------------
(***************************************************************************)
(* The post-order iterator.  ns, st and po stand for node_state, stack and *)
(* post_order.                                                             *)
(***************************************************************************)
States == {"unvisited", "visited", "finished"}
OrderTypes(ns, st, po) == ns \in [Block -> States] /\ st \in Seq(Block) /\ po \in Seq(Block)

\* The copy of a visited block that was on top when it was visited.
OnTop(ns, st, k) == ns[st[k]] = "visited" /\ \A j \in DOMAIN st : j > k => st[j] # st[k]
Before(po, b, c) == \E i, j \in DOMAIN po : i < j /\ po[i] = b /\ po[j] = c

\* The finished blocks have been returned, each once.
Returned(ns, po) ==
  /\ \A b \in Block : ns[b] = "finished" <=> b \in ToSet(po)
  /\ \A i, j \in DOMAIN po : po[i] = po[j] => i = j

OnlyReachable(ns, st) ==
  /\ \A k \in DOMAIN st : st[k] \in Reachable
  /\ \A b \in Block : ns[b] # "unvisited" => b \in Reachable

\* The entry is at the bottom, and returned last.
EntryLast(ns, st, po) ==
  /\ st # <<>> => st[1] = cfg.entry
  /\ ns[cfg.entry] = "unvisited" => Len(st) = 1
  /\ ns[cfg.entry] = "visited" => st # <<>> /\ OnTop(ns, st, 1)
  /\ ns[cfg.entry] = "finished" => st = <<>> /\ Len(po) > 0 /\ po[Len(po)] = cfg.entry

\* A visited block is on the stack; what it leads to is visited, or above it.
Waits(ns, st) ==
  /\ \A b \in Block : ns[b] = "visited" => \E k \in DOMAIN st : st[k] = b /\ OnTop(ns, st, k)
  /\ \A k \in DOMAIN st : OnTop(ns, st, k) =>
       \A s \in Succs(st[k]) : ns[s] # "unvisited" \/ \E j \in DOMAIN st : j > k /\ st[j] = s
  /\ \A b \in Block : ns[b] = "finished" => \A s \in Succs(b) : ns[s] # "unvisited"

\* A block was pushed by a visited block below it, and is reached from all of them.
Pushes(ns, st) ==
  /\ \A k \in DOMAIN st : k = 1 \/ \E j \in DOMAIN st : j < k /\ OnTop(ns, st, j) /\ st[k] \in Succs(st[j])
  /\ \A j, k \in DOMAIN st : j < k /\ OnTop(ns, st, j) => st[k] \in ReachedFrom(st[j])

\* A finished block has a predecessor that is returned after it, and what it leads to was
\* returned before it, or leads back.
Ordered(ns, po) ==
  /\ \A b \in Block : ns[b] = "finished" /\ b # cfg.entry =>
       \E p \in Preds(b) : ns[p] = "visited" \/ Before(po, b, p)
  /\ \A b \in Block : ns[b] = "finished" =>
       \A s \in Succs(b) : Before(po, s, b) \/ b \in ReachedFrom(s)

OrderInv(ns, st, po) ==
  /\ OrderTypes(ns, st, po) /\ Returned(ns, po) /\ OnlyReachable(ns, st)
  /\ EntryLast(ns, st, po) /\ Waits(ns, st) /\ Pushes(ns, st) /\ Ordered(ns, po)

LEMMA OrderStart ==
  ASSUME CfgOk
  PROVE  OrderInv([b \in Block |-> "unvisited"], <<cfg.entry>>, <<>>)
<1> DEFINE ns == [b \in Block |-> "unvisited"]
           st == <<cfg.entry>>
           po == <<>>
<1>1. cfg.entry \in Block /\ cfg.entry \in Reachable
  BY CfgLemma, ReachableLemma
<1>2. ns \in [Block -> States] /\ \A b \in Block : ns[b] = "unvisited"
  BY DEF States
<1>3. st \in Seq(Block) /\ Len(st) = 1 /\ DOMAIN st = {1} /\ st[1] = cfg.entry /\ st # <<>>
  BY <1>1
<1>4. po \in Seq(Block) /\ DOMAIN po = {} /\ ToSet(po) = {}
  BY DEF ToSet
<1>5. "unvisited" # "visited" /\ "unvisited" # "finished"
  OBVIOUS
<1> HIDE DEF ns, st, po
<1>6. OrderTypes(ns, st, po)
  BY <1>2, <1>3, <1>4 DEF OrderTypes
<1>7. Returned(ns, po)
  BY <1>2, <1>4, <1>5 DEF Returned
<1>8. OnlyReachable(ns, st)
  BY <1>1, <1>2, <1>3 DEF OnlyReachable
<1>9. EntryLast(ns, st, po)
  BY <1>1, <1>2, <1>3, <1>5 DEF EntryLast
<1>10. Waits(ns, st)
  BY <1>1, <1>2, <1>3, <1>5 DEF Waits, OnTop
<1>11. Pushes(ns, st)
  BY <1>1, <1>2, <1>3, <1>5 DEF Pushes, OnTop
<1>12. Ordered(ns, po)
  BY <1>2, <1>5 DEF Ordered
<1> QED BY <1>6, <1>7, <1>8, <1>9, <1>10, <1>11, <1>12 DEF OrderInv, ns, st, po

\* Visiting the block on top, which pushes S.
LEMMA OrderVisit ==
  ASSUME CfgOk, NEW ns, NEW st, NEW po, OrderInv(ns, st, po),
         NEW n \in Nat, n = Len(st), n > 0, ns[st[n]] = "unvisited",
         NEW ns2, ns2 = [ns EXCEPT ![st[n]] = "visited"],
         NEW s \in Ascending({b \in Succs(st[n]) : ns2[b] = "unvisited"})
  PROVE  OrderInv(ns2, st \o s, po)
<1>0. /\ ns \in [Block -> States] /\ st \in Seq(Block) /\ po \in Seq(Block)
      /\ DOMAIN st = 1..n /\ n \in 1..n
  BY LenProperties DEF OrderInv, OrderTypes
<1>1. PICK top \in Block : top = st[n]
  BY <1>0, ElementOfSeq
<1> DEFINE S == {b \in Succs(top) : ns2[b] = "unvisited"}
<1>2. /\ ns2 \in [Block -> States] /\ ns2[top] = "visited"
      /\ \A b \in Block : b # top => ns2[b] = ns[b]
      /\ "unvisited" # "visited" /\ "unvisited" # "finished" /\ "visited" # "finished"
  BY <1>0, <1>1 DEF States
<1>3. S \in SUBSET Block /\ s \in Ascending(S)
  BY <1>1, CfgLemma
<1>4. PICK m \in Nat : m = Len(s) /\ DOMAIN s = 1..m /\ s \in Seq(Block)
  BY <1>3, AscendingLemma
<1>5. (\A k \in 1..m : s[k] \in S) /\ (\A b \in S : \E k \in 1..m : s[k] = b)
  BY <1>3, <1>4, AscendingLemma
<1>6. PICK t : t = st \o s
  OBVIOUS
<1>7. t \in Seq(Block) /\ Len(t) = n + m /\ DOMAIN t = 1..(n + m)
      /\ \A k \in 1..(n + m) : t[k] = IF k <= n THEN st[k] ELSE s[k - n]
  BY <1>0, <1>4, <1>6, ConcatProperties, LenProperties
<1>8. /\ \A k \in 1..n : k \in 1..(n + m) /\ t[k] = st[k]
      /\ \A k \in 1..(n + m) : k > n => t[k] \in S
      /\ \A b \in S : \E k \in 1..(n + m) : k > n /\ t[k] = b
  <2>1. \A k \in 1..n : k \in 1..(n + m) /\ t[k] = st[k]
    BY <1>7
  <2>2. ASSUME NEW k \in 1..(n + m), k > n PROVE t[k] \in S
    <3>1. k - n \in 1..m
      BY <2>2
    <3>2. t[k] = s[k - n]
      BY <1>7, <2>2
    <3> QED BY <1>5, <3>1, <3>2
  <2>3. ASSUME NEW b \in S PROVE \E k \in 1..(n + m) : k > n /\ t[k] = b
    <3>1. PICK i \in 1..m : s[i] = b
      BY <1>5
    <3>2. n + i \in 1..(n + m) /\ n + i > n /\ (n + i) - n = i /\ ~(n + i <= n)
      OBVIOUS
    <3> QED BY <1>7, <3>1, <3>2
  <2> QED BY <2>1, <2>2, <2>3
<1>9. \A b \in S : b \in Block /\ b \in Succs(top) /\ ns2[b] = "unvisited" /\ ns[b] = "unvisited" /\ b # top
  BY <1>2, <1>3
<1>10. \A k \in 1..(n + m) : k \in 1..n \/ k > n
  OBVIOUS
<1> HIDE DEF S
<1>11. top \in Reachable
  BY <1>0, <1>1 DEF OrderInv, OnlyReachable
<1>12. OnTop(ns2, t, n)
  BY <1>0, <1>1, <1>2, <1>7, <1>8, <1>9 DEF OnTop
<1>13. \A k \in 1..n : OnTop(ns2, t, k) <=> k = n \/ OnTop(ns, st, k)
  <2> TAKE k \in 1..n
  <2>0. st[k] \in Block
    BY <1>0, ElementOfSeq
  <2>1. CASE k = n
    BY <1>12, <2>1
  <2>2. CASE k # n /\ OnTop(ns, st, k)
    <3>1. ns[st[k]] = "visited" /\ ns2[st[k]] = "visited"
      BY <1>1, <1>2, <2>0, <2>2 DEF OnTop
    <3>2. ASSUME NEW j \in 1..(n + m), j > k PROVE t[j] # t[k]
      <4>1. CASE j \in 1..n
        BY <1>0, <1>8, <2>2, <3>2, <4>1 DEF OnTop
      <4>2. CASE j > n
        BY <1>2, <1>8, <1>9, <3>1, <3>2, <4>2
      <4> QED BY <1>10, <4>1, <4>2
    <3> QED BY <1>7, <1>8, <2>2, <3>1, <3>2 DEF OnTop
  <2>3. CASE k # n /\ OnTop(ns2, t, k)
    <3>1. st[k] # top
      BY <1>1, <1>7, <1>8, <2>3, <1>0 DEF OnTop
    <3>2. ns[st[k]] = "visited"
      BY <1>2, <1>8, <2>0, <2>3, <3>1 DEF OnTop
    <3>3. \A j \in 1..n : j > k => st[j] # st[k]
      BY <1>7, <1>8, <2>3 DEF OnTop
    <3> QED BY <1>0, <2>3, <3>2, <3>3 DEF OnTop
  <2> QED BY <2>1, <2>2, <2>3
<1>14. OrderTypes(ns2, t, po)
  BY <1>0, <1>2, <1>7 DEF OrderTypes
<1>15. Returned(ns2, po)
  BY <1>1, <1>2 DEF OrderInv, Returned
<1>16. OnlyReachable(ns2, t)
  <2>1. \A k \in 1..n : st[k] \in Reachable
    BY <1>0 DEF OrderInv, OnlyReachable
  <2>2. \A b \in S : b \in Reachable
    BY <1>9, <1>11, ReachableLemma
  <2>3. \A k \in 1..(n + m) : t[k] \in Reachable
    BY <1>8, <1>10, <2>1, <2>2
  <2>4. \A b \in Block : ns2[b] # "unvisited" => b \in Reachable
    BY <1>2, <1>11 DEF OrderInv, OnlyReachable
  <2> QED BY <1>7, <2>3, <2>4 DEF OnlyReachable
<1>17. EntryLast(ns2, t, po)
  <2>0. cfg.entry \in Block
    BY CfgLemma
  <2>1. st # <<>> /\ t # <<>> /\ 1 \in 1..n
    BY <1>0, <1>7
  <2>2. st[1] = cfg.entry /\ t[1] = cfg.entry
    BY <1>8, <2>1 DEF OrderInv, EntryLast
  <2>3. ns[cfg.entry] # "finished"
    BY <2>1 DEF OrderInv, EntryLast
  <2>4. CASE ns[cfg.entry] = "unvisited"
    <3>1. n = 1
      BY <2>4 DEF OrderInv, EntryLast
    <3>2. top = cfg.entry
      BY <1>1, <2>2, <3>1
    <3> QED BY <1>2, <1>12, <2>1, <2>2, <3>1, <3>2 DEF EntryLast
  <2>5. CASE ns[cfg.entry] = "visited"
    <3>1. OnTop(ns, st, 1)
      BY <2>5 DEF OrderInv, EntryLast
    <3>2. OnTop(ns2, t, 1)
      BY <1>13, <2>1, <3>1
    <3>3. cfg.entry # top
      BY <1>1, <1>2, <2>5
    <3>4. ns2[cfg.entry] = "visited"
      BY <1>2, <2>0, <2>5, <3>3
    <3> QED BY <1>2, <2>1, <2>2, <3>2, <3>4 DEF EntryLast
  <2>6. ns[cfg.entry] \in States
    BY <1>0, <2>0
  <2> QED BY <2>3, <2>4, <2>5, <2>6 DEF States
<1>18. Waits(ns2, t)
  <2>1. ASSUME NEW b \in Block, ns2[b] = "visited"
        PROVE  \E k \in DOMAIN t : t[k] = b /\ OnTop(ns2, t, k)
    <3>1. CASE b = top
      BY <1>0, <1>1, <1>7, <1>8, <1>12, <3>1
    <3>2. CASE b # top
      <4>1. PICK k \in DOMAIN st : st[k] = b /\ OnTop(ns, st, k)
        BY <1>2, <2>1, <3>2 DEF OrderInv, Waits
      <4> QED BY <1>0, <1>7, <1>8, <1>13, <4>1
    <3> QED BY <3>1, <3>2
  <2>2. ASSUME NEW k \in DOMAIN t, OnTop(ns2, t, k), NEW c \in Succs(t[k])
        PROVE  ns2[c] # "unvisited" \/ \E j \in DOMAIN t : j > k /\ t[j] = c
    <3>1. k \in 1..n
      BY <1>2, <1>7, <1>8, <1>9, <1>10, <2>2 DEF OnTop
    <3>2. t[k] = st[k] /\ st[k] \in Block
      BY <1>0, <1>8, <3>1, ElementOfSeq
    <3>3. c \in Block
      BY <2>2, <3>2, CfgLemma
    <3>4. CASE k = n
      <4>1. ns2[c] = "unvisited" => c \in S
        BY <1>1, <2>2, <3>2, <3>4 DEF S
      <4> QED BY <1>7, <1>8, <3>4, <4>1
    <3>5. CASE k # n
      <4>1. OnTop(ns, st, k)
        BY <1>13, <2>2, <3>1, <3>5
      <4>2. ns[c] # "unvisited" \/ \E j \in DOMAIN st : j > k /\ st[j] = c
        BY <1>0, <2>2, <3>1, <3>2, <4>1 DEF OrderInv, Waits
      <4>3. ns[c] # "unvisited" => ns2[c] # "unvisited"
        BY <1>2, <3>3
      <4> QED BY <1>0, <1>7, <1>8, <4>2, <4>3
    <3> QED BY <3>4, <3>5
  <2>3. ASSUME NEW b \in Block, ns2[b] = "finished", NEW c \in Succs(b)
        PROVE  ns2[c] # "unvisited"
    <3>1. ns[b] = "finished" /\ c \in Block
      BY <1>2, <2>3, CfgLemma
    <3>2. ns[c] # "unvisited"
      BY <2>3, <3>1 DEF OrderInv, Waits
    <3> QED BY <1>2, <3>1, <3>2
  <2> QED BY <2>1, <2>2, <2>3 DEF Waits
<1>19. Pushes(ns2, t)
  <2>1. ASSUME NEW k \in DOMAIN t, k # 1
        PROVE  \E j \in DOMAIN t : j < k /\ OnTop(ns2, t, j) /\ t[k] \in Succs(t[j])
    <3>1. CASE k \in 1..n
      <4>1. PICK j \in DOMAIN st : j < k /\ OnTop(ns, st, j) /\ st[k] \in Succs(st[j])
        BY <1>0, <2>1, <3>1 DEF OrderInv, Pushes
      <4> QED BY <1>0, <1>7, <1>8, <1>13, <3>1, <4>1
    <3>2. CASE k > n
      <4>1. t[k] \in Succs(t[n])
        BY <1>0, <1>1, <1>7, <1>8, <1>9, <2>1, <3>2
      <4> QED BY <1>0, <1>7, <1>8, <1>12, <3>2, <4>1
    <3> QED BY <1>7, <1>10, <2>1, <3>1, <3>2
  <2>2. ASSUME NEW j \in DOMAIN t, NEW k \in DOMAIN t, j < k, OnTop(ns2, t, j)
        PROVE  t[k] \in ReachedFrom(t[j])
    <3>1. j \in 1..n
      BY <1>2, <1>7, <1>8, <1>9, <1>10, <2>2 DEF OnTop
    <3>2. t[j] = st[j] /\ st[j] \in Block
      BY <1>0, <1>8, <3>1, ElementOfSeq
    <3>3. CASE k \in 1..n
      <4>1. j # n
        BY <2>2, <3>3
      <4>2. st[k] \in ReachedFrom(st[j])
        BY <1>0, <1>13, <2>2, <3>1, <3>3, <4>1 DEF OrderInv, Pushes
      <4> QED BY <1>8, <3>2, <3>3, <4>2
    <3>4. CASE k > n
      <4>1. t[k] \in Succs(top)
        BY <1>7, <1>8, <1>9, <2>2, <3>4
      <4>2. CASE j = n
        BY <1>1, <3>2, <4>1, <4>2, ReachedFromLemma
      <4>3. CASE j # n
        <5>1. top \in ReachedFrom(st[j])
          BY <1>0, <1>1, <1>13, <2>2, <3>1, <4>3 DEF OrderInv, Pushes
        <5> QED BY <3>2, <4>1, <5>1, ReachedFromLemma
      <4> QED BY <4>2, <4>3
    <3> QED BY <1>7, <1>10, <2>2, <3>3, <3>4
  <2> QED BY <2>1, <2>2 DEF Pushes
<1>20. Ordered(ns2, po)
  <2>1. ASSUME NEW b \in Block, ns2[b] = "finished"
        PROVE  ns[b] = "finished"
    BY <1>2, <2>1
  <2>2. ASSUME NEW b \in Block, ns2[b] = "finished", b # cfg.entry
        PROVE  \E p \in Preds(b) : ns2[p] = "visited" \/ Before(po, b, p)
    <3>1. PICK p \in Preds(b) : ns[p] = "visited" \/ Before(po, b, p)
      BY <2>1, <2>2 DEF OrderInv, Ordered
    <3>2. p \in Block
      BY CfgLemma
    <3> QED BY <1>2, <3>1, <3>2
  <2>3. ASSUME NEW b \in Block, ns2[b] = "finished", NEW c \in Succs(b)
        PROVE  Before(po, c, b) \/ b \in ReachedFrom(c)
    BY <2>1, <2>3 DEF OrderInv, Ordered
  <2> QED BY <2>2, <2>3 DEF Ordered
<1> QED BY <1>6, <1>14, <1>15, <1>16, <1>17, <1>18, <1>19, <1>20 DEF OrderInv

\* What was returned before stays before, and comes before what is returned now.
Returning(po, top, po2) ==
  /\ po2 \in Seq(Block) /\ ToSet(po2) = ToSet(po) \cup {top}
  /\ Len(po2) = Len(po) + 1 /\ po2[Len(po2)] = top
  /\ \A i \in DOMAIN po : i \in DOMAIN po2 /\ po2[i] = po[i]
  /\ \A i \in DOMAIN po2 : i = Len(po) + 1 \/ i \in DOMAIN po
  /\ \A b, c : Before(po, b, c) => Before(po2, b, c)
  /\ \A b \in ToSet(po) : Before(po2, b, top)

LEMMA BeforeLemma ==
  ASSUME NEW po \in Seq(Block), NEW top \in Block, NEW po2, po2 = Append(po, top)
  PROVE  Returning(po, top, po2)
<1>1. PICK n \in Nat : n = Len(po) /\ DOMAIN po = 1..n
  BY LenProperties
<1>2. /\ po2 \in Seq(Block) /\ Len(po2) = n + 1 /\ DOMAIN po2 = 1..(n + 1) /\ po2[n + 1] = top
      /\ \A i \in 1..n : po2[i] = po[i]
  BY <1>1, AppendProperties, LenProperties
<1>3. /\ \A i \in 1..n : i \in 1..(n + 1) /\ i < n + 1
      /\ \A i \in 1..(n + 1) : i = n + 1 \/ i \in 1..n
      /\ n + 1 \in 1..(n + 1)
  BY <1>1
<1>4. ToSet(po2) = ToSet(po) \cup {top}
  BY AppendSetLemma
<1>5. \A b, c : Before(po, b, c) => Before(po2, b, c)
  BY <1>1, <1>2, <1>3 DEF Before
<1>6. \A b \in ToSet(po) : Before(po2, b, top)
  BY <1>1, <1>2, <1>3 DEF Before, ToSet
<1> QED BY <1>1, <1>2, <1>3, <1>4, <1>5, <1>6 DEF Returning

\* Popping the block on top, which is returned if it was not.
LEMMA OrderPop ==
  ASSUME CfgOk, NEW ns, NEW st, NEW po, OrderInv(ns, st, po),
         NEW n \in Nat, n = Len(st), n > 0, ns[st[n]] # "unvisited",
         NEW st2, st2 = SubSeq(st, 1, n - 1)
  PROVE  IF ns[st[n]] = "finished" THEN OrderInv(ns, st2, po)
         ELSE OrderInv([ns EXCEPT ![st[n]] = "finished"], st2, Append(po, st[n]))
<1>0. /\ ns \in [Block -> States] /\ st \in Seq(Block) /\ po \in Seq(Block)
      /\ DOMAIN st = 1..n /\ n \in 1..n
  BY LenProperties DEF OrderInv, OrderTypes
<1>1. PICK top \in Block : top = st[n]
  BY <1>0, ElementOfSeq
<1> DEFINE ns2 == IF ns[top] = "finished" THEN ns ELSE [ns EXCEPT ![top] = "finished"]
           po2 == IF ns[top] = "finished" THEN po ELSE Append(po, top)
<1> SUFFICES OrderInv(ns2, st2, po2)
  BY <1>1
<1>2. /\ ns2 \in [Block -> States] /\ ns2[top] = "finished"
      /\ \A b \in Block : b # top => ns2[b] = ns[b]
      /\ "unvisited" # "visited" /\ "unvisited" # "finished" /\ "visited" # "finished"
  BY <1>0, <1>1 DEF States
<1>3. PICK l \in Nat : l = n - 1 /\ st # <<>>
  <2>1. n - 1 \in Nat
    BY <1>0
  <2>2. st # <<>>
    BY EmptySeq
  <2> QED BY <2>1, <2>2
<1>4. st2 \in Seq(Block) /\ Len(st2) = l /\ DOMAIN st2 = 1..l /\ \A k \in 1..l : st2[k] = st[k]
  <2>1. st2 = Front(st)
    BY DEF Front
  <2>2. st2 \in Seq(Block) /\ Popped(st2, st)
    BY <1>0, <1>3, <2>1, FrontLemma
  <2> QED BY <1>3, <2>2, LenProperties DEF Popped
<1>5. /\ \A k \in 1..l : k \in 1..n /\ k # n /\ k < n
      /\ \A k \in 1..n : k = n \/ k \in 1..l
      /\ \A k \in 1..n : ~(k > n)
  BY <1>3
<1>6. /\ po2 \in Seq(Block) /\ ToSet(po2) = ToSet(po) \cup {top} /\ top \in ToSet(po2)
      /\ \A i, j \in DOMAIN po2 : po2[i] = po2[j] => i = j
      /\ \A b, c : Before(po, b, c) => Before(po2, b, c)
      /\ ns[top] # "finished" => /\ \A b \in ToSet(po) : Before(po2, b, top)
                                 /\ Len(po2) > 0 /\ po2[Len(po2)] = top
  <2>0. /\ \A b \in Block : ns[b] = "finished" <=> b \in ToSet(po)
        /\ \A i, j \in DOMAIN po : po[i] = po[j] => i = j
    BY DEF OrderInv, Returned
  <2>1. CASE ns[top] = "finished"
    <3>1. top \in ToSet(po) /\ po2 = po
      BY <2>0, <2>1
    <3> QED BY <1>0, <2>0, <2>1, <3>1
  <2>2. CASE ns[top] # "finished"
    <3>1. PICK q : q = Append(po, top)
      OBVIOUS
    <3>2. po2 = q
      BY <2>2, <3>1
    <3>3. /\ q \in Seq(Block) /\ ToSet(q) = ToSet(po) \cup {top}
          /\ Len(q) = Len(po) + 1 /\ q[Len(q)] = top
          /\ \A i \in DOMAIN po : i \in DOMAIN q /\ q[i] = po[i]
          /\ \A i \in DOMAIN q : i = Len(po) + 1 \/ i \in DOMAIN po
          /\ \A b, c : Before(po, b, c) => Before(q, b, c)
          /\ \A b \in ToSet(po) : Before(q, b, top)
      <4>1. Returning(po, top, q)
        BY <1>0, <3>1, BeforeLemma
      <4> QED BY <4>1 DEF Returning
    <3>4. Len(q) > 0
      BY <1>0, <3>3, LenProperties
    <3>5. top \notin ToSet(po)
      BY <2>0, <2>2
    <3>6. \A i \in DOMAIN po : po[i] # top
      BY <3>5 DEF ToSet
    <3>7. \A i, j \in DOMAIN q : q[i] = q[j] => i = j
      BY <2>0, <3>3, <3>6
    <3> QED BY <3>2, <3>3, <3>4, <3>7
  <2> QED BY <2>1, <2>2
<1> HIDE DEF ns2, po2
<1>7. \A k \in 1..l : OnTop(ns2, st2, k) <=> OnTop(ns, st, k)
  <2> TAKE k \in 1..l
  <2>0. st[k] \in Block /\ st2[k] = st[k] /\ k \in 1..n
    BY <1>0, <1>4, <1>5, ElementOfSeq
  <2>1. ASSUME OnTop(ns2, st2, k) PROVE OnTop(ns, st, k)
    <3>1. st[k] # top /\ ns[st[k]] = "visited"
      BY <1>2, <2>0, <2>1 DEF OnTop
    <3>2. \A j \in 1..l : j > k => st[j] # st[k]
      BY <1>4, <2>0, <2>1 DEF OnTop
    <3> QED BY <1>0, <1>1, <1>5, <3>1, <3>2 DEF OnTop
  <2>2. ASSUME OnTop(ns, st, k) PROVE OnTop(ns2, st2, k)
    <3>1. st[n] # st[k] /\ ns[st[k]] = "visited"
      BY <1>0, <1>5, <2>2 DEF OnTop
    <3>2. ns2[st[k]] = "visited"
      BY <1>1, <1>2, <2>0, <3>1
    <3> QED BY <1>0, <1>4, <1>5, <2>0, <2>2, <3>2 DEF OnTop
  <2> QED BY <2>1, <2>2
<1>8. OrderTypes(ns2, st2, po2)
  BY <1>2, <1>4, <1>6 DEF OrderTypes
<1>9. Returned(ns2, po2)
  <2>1. \A b \in Block : ns[b] = "finished" <=> b \in ToSet(po)
    BY DEF OrderInv, Returned
  <2>2. \A b \in Block : ns2[b] = "finished" <=> b \in ToSet(po2)
    BY <1>2, <1>6, <2>1
  <2> QED BY <1>6, <2>2 DEF Returned
<1>10. OnlyReachable(ns2, st2)
  <2>1. \A k \in 1..n : st[k] \in Reachable
    BY <1>0 DEF OrderInv, OnlyReachable
  <2>2. \A b \in Block : ns[b] # "unvisited" => b \in Reachable
    BY DEF OrderInv, OnlyReachable
  <2> QED BY <1>0, <1>1, <1>2, <1>4, <1>5, <2>1, <2>2 DEF OnlyReachable
<1>11. EntryLast(ns2, st2, po2)
  <2>0. cfg.entry \in Block /\ st[1] = cfg.entry
    BY <1>3, CfgLemma DEF OrderInv, EntryLast
  <2>1. st2 # <<>> => st2[1] = cfg.entry
    <3>1. st2 # <<>> => 1 \in 1..l
      BY <1>4, EmptySeq
    <3> QED BY <1>4, <2>0, <3>1
  <2>2. ns2[cfg.entry] # "unvisited"
    <3>1. n = 1 => top = cfg.entry
      BY <1>1, <2>0
    <3> QED BY <1>2, <2>0, <3>1 DEF OrderInv, EntryLast
  <2>3. ASSUME ns2[cfg.entry] = "visited" PROVE st2 # <<>> /\ OnTop(ns2, st2, 1)
    <3>1. cfg.entry # top /\ ns[cfg.entry] = "visited"
      BY <1>2, <2>0, <2>3
    <3>2. n # 1 /\ OnTop(ns, st, 1)
      BY <1>1, <2>0, <3>1 DEF OrderInv, EntryLast
    <3>3. 1 \in 1..l
      BY <1>3, <3>2
    <3>4. st2 # <<>>
      <4>1. Len(st2) # 0
        BY <1>3, <1>4, <3>2
      <4> QED BY <4>1, EmptySeq
    <3> QED BY <1>7, <3>2, <3>3, <3>4
  <2>4. ASSUME ns2[cfg.entry] = "finished"
        PROVE  st2 = <<>> /\ Len(po2) > 0 /\ po2[Len(po2)] = cfg.entry
    <3>1. ns[cfg.entry] # "finished"
      BY <1>3 DEF OrderInv, EntryLast
    <3>2. cfg.entry = top
      BY <1>2, <2>0, <2>4, <3>1
    <3>3. ns[cfg.entry] = "visited"
      BY <1>1, <3>1, <3>2, <1>0, <2>0 DEF States
    <3>4. n = 1
      <4>1. OnTop(ns, st, 1)
        BY <3>3 DEF OrderInv, EntryLast
      <4>2. n > 1 => st[n] # st[1]
        BY <1>0, <4>1 DEF OnTop
      <4> QED BY <1>1, <2>0, <3>2, <4>2
    <3>5. st2 = <<>>
      BY <1>3, <1>4, <3>4, EmptySeq
    <3> QED BY <1>6, <3>1, <3>2, <3>5
  <2> QED BY <2>1, <2>2, <2>3, <2>4 DEF EntryLast
<1>12. Waits(ns2, st2)
  <2>1. ASSUME NEW b \in Block, ns2[b] = "visited"
        PROVE  \E k \in DOMAIN st2 : st2[k] = b /\ OnTop(ns2, st2, k)
    <3>1. b # top /\ ns[b] = "visited"
      BY <1>2, <2>1
    <3>2. PICK k \in DOMAIN st : st[k] = b /\ OnTop(ns, st, k)
      BY <3>1 DEF OrderInv, Waits
    <3> QED BY <1>0, <1>1, <1>4, <1>5, <1>7, <3>1, <3>2
  <2>2. ASSUME NEW k \in DOMAIN st2, OnTop(ns2, st2, k), NEW c \in Succs(st2[k])
        PROVE  ns2[c] # "unvisited" \/ \E j \in DOMAIN st2 : j > k /\ st2[j] = c
    <3>1. k \in 1..l /\ k \in 1..n /\ st2[k] = st[k] /\ st[k] \in Block /\ OnTop(ns, st, k)
      BY <1>0, <1>4, <1>5, <1>7, <2>2, ElementOfSeq
    <3>2. c \in Block
      BY <2>2, <3>1, CfgLemma
    <3>3. ns[c] # "unvisited" \/ \E j \in 1..n : j > k /\ st[j] = c
      BY <1>0, <2>2, <3>1 DEF OrderInv, Waits
    <3>4. ns[c] # "unvisited" => ns2[c] # "unvisited"
      BY <1>2, <3>2
    <3>5. ASSUME NEW j \in 1..n, j > k, st[j] = c
          PROVE  ns2[c] # "unvisited" \/ \E i \in DOMAIN st2 : i > k /\ st2[i] = c
      BY <1>1, <1>2, <1>4, <1>5, <3>5
    <3> QED BY <3>3, <3>4, <3>5
  <2>3. ASSUME NEW b \in Block, ns2[b] = "finished", NEW c \in Succs(b)
        PROVE  ns2[c] # "unvisited"
    <3>0. c \in Block
      BY <2>3, CfgLemma
    <3>1. CASE ns[b] = "finished"
      <4>1. ns[c] # "unvisited"
        BY <2>3, <3>1 DEF OrderInv, Waits
      <4> QED BY <1>2, <3>0, <4>1
    <3>2. CASE ns[b] # "finished"
      <4>1. b = top /\ ns[top] = "visited"
        BY <1>0, <1>1, <1>2, <2>3, <3>2 DEF States
      <4>2. OnTop(ns, st, n)
        BY <1>0, <1>1, <1>5, <4>1 DEF OnTop
      <4>3. ns[c] # "unvisited" \/ \E j \in 1..n : j > n
        BY <1>0, <1>1, <2>3, <4>1, <4>2 DEF OrderInv, Waits
      <4> QED BY <1>2, <1>5, <3>0, <4>3
    <3> QED BY <3>1, <3>2
  <2> QED BY <2>1, <2>2, <2>3 DEF Waits
<1>13. Pushes(ns2, st2)
  <2>1. ASSUME NEW k \in DOMAIN st2, k # 1
        PROVE  \E j \in DOMAIN st2 : j < k /\ OnTop(ns2, st2, j) /\ st2[k] \in Succs(st2[j])
    <3>1. PICK j \in 1..n : j < k /\ OnTop(ns, st, j) /\ st[k] \in Succs(st[j])
      BY <1>0, <1>4, <1>5, <2>1 DEF OrderInv, Pushes
    <3>2. j \in 1..l
      BY <1>4, <1>3, <2>1, <3>1
    <3> QED BY <1>4, <1>7, <2>1, <3>1, <3>2
  <2>2. ASSUME NEW j \in DOMAIN st2, NEW k \in DOMAIN st2, j < k, OnTop(ns2, st2, j)
        PROVE  st2[k] \in ReachedFrom(st2[j])
    BY <1>0, <1>4, <1>5, <1>7, <2>2 DEF OrderInv, Pushes
  <2> QED BY <2>1, <2>2 DEF Pushes
<1>14. Ordered(ns2, po2)
  <2>0. \A b \in Block : ns[b] = "finished" => b \in ToSet(po)
    BY DEF OrderInv, Returned
  <2>1. ASSUME NEW b \in Block, ns2[b] = "finished", b # cfg.entry
        PROVE  \E p \in Preds(b) : ns2[p] = "visited" \/ Before(po2, b, p)
    <3>1. CASE ns[b] = "finished"
      <4>1. PICK p \in Preds(b) : ns[p] = "visited" \/ Before(po, b, p)
        BY <2>1, <3>1 DEF OrderInv, Ordered
      <4>2. p \in Block
        BY CfgLemma
      <4>3. CASE ns[p] = "visited" /\ p = top
        BY <1>2, <1>6, <2>0, <3>1, <4>3
      <4>4. CASE ns[p] = "visited" /\ p # top
        BY <1>2, <4>2, <4>4
      <4> QED BY <1>6, <4>1, <4>3, <4>4
    <3>2. CASE ns[b] # "finished"
      <4>1. b = top /\ ns[top] = "visited"
        BY <1>0, <1>1, <1>2, <2>1, <3>2 DEF States
      <4>2. n # 1
        BY <1>1, <1>3, <2>1, <4>1 DEF OrderInv, EntryLast
      <4>3. PICK j \in 1..n : j < n /\ OnTop(ns, st, j) /\ st[n] \in Succs(st[j])
        BY <1>0, <4>2 DEF OrderInv, Pushes
      <4>4. st[j] \in Block /\ st[j] # top /\ ns[st[j]] = "visited"
        BY <1>0, <1>1, <4>3, ElementOfSeq DEF OnTop
      <4> QED BY <1>1, <1>2, <4>1, <4>3, <4>4, CfgLemma
    <3> QED BY <3>1, <3>2
  <2>2. ASSUME NEW b \in Block, ns2[b] = "finished", NEW c \in Succs(b)
        PROVE  Before(po2, c, b) \/ b \in ReachedFrom(c)
    <3>0. c \in Block
      BY <2>2, CfgLemma
    <3>1. CASE ns[b] = "finished"
      BY <1>6, <2>2, <3>1 DEF OrderInv, Ordered
    <3>2. CASE ns[b] # "finished"
      <4>1. b = top /\ ns[top] = "visited"
        BY <1>0, <1>1, <1>2, <2>2, <3>2 DEF States
      <4>2. OnTop(ns, st, n)
        BY <1>0, <1>1, <1>5, <4>1 DEF OnTop
      <4>3. ns[c] # "unvisited"
        BY <1>0, <1>1, <1>5, <2>2, <4>1, <4>2 DEF OrderInv, Waits
      <4>4. CASE ns[c] = "finished"
        BY <1>6, <1>2, <2>0, <3>0, <4>1, <4>4
      <4>5. CASE ns[c] = "visited"
        <5>1. PICK k \in 1..n : st[k] = c /\ OnTop(ns, st, k)
          BY <1>0, <3>0, <4>5 DEF OrderInv, Waits
        <5>2. CASE k = n
          BY <1>1, <2>2, <3>0, <4>1, <5>1, <5>2, ReachedFromLemma
        <5>3. CASE k # n
          <6>1. k < n
            BY <5>3
          <6> QED BY <1>0, <1>1, <4>1, <5>1, <6>1 DEF OrderInv, Pushes
        <5> QED BY <5>2, <5>3
      <4> QED BY <1>0, <3>0, <4>3, <4>4, <4>5 DEF States
    <3> QED BY <3>1, <3>2
  <2> QED BY <2>1, <2>2 DEF Ordered
<1> QED BY <1>8, <1>9, <1>10, <1>11, <1>12, <1>13, <1>14 DEF OrderInv

-----------------------------------------------------------------------------
(***************************************************************************)
(* What the iterator leaves: the reachable blocks, numbered from 1, so     *)
(* that the entry has the largest number.                                  *)
(***************************************************************************)
OrderedBy(po) ==
  /\ po \in Seq(Block) /\ ToSet(po) = Reachable /\ Len(po) = Cardinality(Reachable)
  /\ \A i, j \in DOMAIN po : po[i] = po[j] => i = j
  /\ Len(po) > 0 /\ po[Len(po)] = cfg.entry
  /\ \A b \in Reachable \ {cfg.entry} : \E p \in Preds(b) : Before(po, b, p)
  /\ \A b \in Reachable : \A s \in Succs(b) : Before(po, s, b) \/ b \in ReachedFrom(s)

LEMMA OrderEnds ==
  ASSUME CfgOk, NEW ns, NEW po, OrderInv(ns, <<>>, po)
  PROVE  OrderedBy(po)
<1>0. ns \in [Block -> States] /\ po \in Seq(Block)
  BY DEF OrderInv, OrderTypes
<1>1. \A b \in Block : ns[b] # "visited"
  <2>1. DOMAIN <<>> = {}
    OBVIOUS
  <2> QED BY <2>1 DEF OrderInv, Waits
<1>2. ns[cfg.entry] = "finished"
  <2>1. Len(<<>>) # 1 /\ cfg.entry \in Block
    BY EmptySeq, CfgLemma
  <2>2. ns[cfg.entry] # "unvisited"
    BY <2>1 DEF OrderInv, EntryLast
  <2> QED BY <1>0, <1>1, <2>1, <2>2 DEF States
<1>3. Len(po) > 0 /\ po[Len(po)] = cfg.entry
  BY <1>2 DEF OrderInv, EntryLast
<1> DEFINE T == {b \in Block : ns[b] = "finished"}
<1>4. \A b \in Block : b \in T <=> b \in ToSet(po)
  BY DEF OrderInv, Returned
<1>5. T \subseteq Reachable
  <2>1. "finished" # "unvisited"
    OBVIOUS
  <2> QED BY <2>1 DEF OrderInv, OnlyReachable
<1>6. Reachable \subseteq T
  <2>1. cfg.entry \in T
    BY <1>2, CfgLemma
  <2>2. ASSUME NEW b \in T, NEW c \in Succs(b) PROVE c \in T
    <3>1. c \in Block
      BY CfgLemma
    <3>2. ns[c] # "unvisited"
      BY <2>2 DEF OrderInv, Waits
    <3> QED BY <1>0, <1>1, <3>1, <3>2 DEF States
  <2> HIDE DEF T
  <2> QED BY <2>1, <2>2, ReachableLemma
<1>7. ToSet(po) = Reachable
  <2>1. ToSet(po) \subseteq Block
    BY <1>0, ToSetLemma
  <2> QED BY <1>4, <1>5, <1>6, <2>1, ReachableLemma
<1>8. \A i, j \in DOMAIN po : po[i] = po[j] => i = j
  BY DEF OrderInv, Returned
<1>9. Len(po) = Cardinality(Reachable)
  <2>1. PICK n \in Nat : n = Len(po) /\ DOMAIN po = 1..n
    BY <1>0, LenProperties
  <2>2. po \in [1..n -> Reachable] /\ \A b \in Reachable : \E i \in 1..n : po[i] = b
    BY <1>0, <1>7, <2>1, LenProperties DEF ToSet
  <2>3. po \in Bijection(1..n, Reachable)
    BY <1>8, <2>1, <2>2 DEF Bijection, Injection, Surjection, IsInjective
  <2>4. IsFiniteSet(1..n) /\ Cardinality(1..n) = n
    BY FS_Interval
  <2>5. Cardinality(Reachable) = Cardinality(1..n)
    BY <2>3, <2>4, FS_Bijection DEF ExistsBijection
  <2> QED BY <2>1, <2>4, <2>5
<1>10. ASSUME NEW b \in Reachable \ {cfg.entry} PROVE \E p \in Preds(b) : Before(po, b, p)
  <2>1. b \in Block /\ ns[b] = "finished"
    BY <1>6
  <2>2. PICK p \in Preds(b) : ns[p] = "visited" \/ Before(po, b, p)
    BY <2>1 DEF OrderInv, Ordered
  <2>3. p \in Block
    BY <2>1, CfgLemma
  <2> QED BY <1>1, <2>2, <2>3
<1>11. \A b \in Reachable : \A s \in Succs(b) : Before(po, s, b) \/ b \in ReachedFrom(s)
  BY <1>6 DEF OrderInv, Ordered
<1> QED BY <1>0, <1>3, <1>7, <1>8, <1>9, <1>10, <1>11 DEF OrderedBy

Numbered ==
  /\ Len(post_order) \in Nat \ {0} /\ DOMAIN post_order = 1..Len(post_order)
  /\ \A b \in Reachable : PlaceOf(b) \in 1..Len(post_order) /\ post_order[PlaceOf(b)] = b
  /\ \A i \in 1..Len(post_order) : post_order[i] \in Reachable /\ PlaceOf(post_order[i]) = i
  /\ PlaceOf(cfg.entry) = Len(post_order)
  /\ \A b \in Reachable \ {cfg.entry} :
       PlaceOf(b) < Len(post_order) /\ \E p \in Preds(b) \cap Reachable : PlaceOf(p) > PlaceOf(b)

LEMMA BeforePlaces ==
  ASSUME CfgOk, OrderedBy(post_order)
  PROVE  /\ \A b \in Reachable : PlaceOf(b) \in DOMAIN post_order /\ post_order[PlaceOf(b)] = b
         /\ \A i \in DOMAIN post_order : post_order[i] \in Reachable /\ PlaceOf(post_order[i]) = i
         /\ \A b, c : Before(post_order, b, c) =>
              b \in Reachable /\ c \in Reachable /\ PlaceOf(b) < PlaceOf(c)
<1>1. \A i \in DOMAIN post_order : post_order[i] \in Reachable
  BY DEF OrderedBy, ToSet
<1>2. ASSUME NEW b \in Reachable
      PROVE  PlaceOf(b) \in DOMAIN post_order /\ post_order[PlaceOf(b)] = b
  <2>1. \E i \in DOMAIN post_order : post_order[i] = b
    BY DEF OrderedBy, ToSet
  <2> QED BY <2>1 DEF PlaceOf
<1>3. \A i \in DOMAIN post_order : PlaceOf(post_order[i]) = i
  BY <1>1, <1>2 DEF OrderedBy
<1>4. ASSUME NEW b, NEW c, Before(post_order, b, c)
      PROVE  b \in Reachable /\ c \in Reachable /\ PlaceOf(b) < PlaceOf(c)
  <2>1. PICK i \in DOMAIN post_order, j \in DOMAIN post_order :
          i < j /\ post_order[i] = b /\ post_order[j] = c
    BY <1>4 DEF Before
  <2>2. PlaceOf(b) = i /\ PlaceOf(c) = j
    BY <1>3, <2>1
  <2> QED BY <1>1, <2>1, <2>2
<1> QED BY <1>1, <1>2, <1>3, <1>4

LEMMA NumberedLemma ==
  ASSUME CfgOk, OrderedBy(post_order)
  PROVE  Numbered
<1>1. PICK n \in Nat : n = Len(post_order) /\ DOMAIN post_order = 1..n
  BY LenProperties DEF OrderedBy
<1>2. n # 0 /\ n \in 1..n /\ post_order[n] = cfg.entry
  BY <1>1 DEF OrderedBy
<1>3. PlaceOf(cfg.entry) = n
  BY <1>1, <1>2, BeforePlaces
<1>4. ASSUME NEW b \in Reachable \ {cfg.entry}
      PROVE  PlaceOf(b) < n /\ \E p \in Preds(b) \cap Reachable : PlaceOf(p) > PlaceOf(b)
  <2>1. PICK p \in Preds(b) : Before(post_order, b, p)
    BY DEF OrderedBy
  <2>2. p \in Reachable /\ PlaceOf(b) < PlaceOf(p)
    BY <2>1, BeforePlaces
  <2>3. PlaceOf(b) \in 1..n /\ PlaceOf(p) \in 1..n
    BY <1>1, <2>2, BeforePlaces
  <2>4. PlaceOf(b) < n /\ PlaceOf(p) > PlaceOf(b)
    BY <2>2, <2>3
  <2> QED BY <2>2, <2>4
<1> QED BY <1>1, <1>2, <1>3, <1>4, BeforePlaces DEF Numbered

\* What the runs check of the order.
LEMMA OrderExactLemma ==
  ASSUME CfgOk, OrderedBy(post_order)
  PROVE  PostOrderExact
<1>1. ASSUME NEW e \in Edges, e[1] \in Reachable, PlaceOf(e[2]) >= PlaceOf(e[1])
      PROVE  e[1] \in ReachedFrom(e[2])
  <2>1. e[1] \in Block /\ e[2] \in Succs(e[1])
    BY DEF Edges, Succs
  <2>2. e[2] \in Reachable
    BY <1>1, <2>1, ReachableLemma
  <2>3. PlaceOf(e[1]) \in Nat /\ PlaceOf(e[2]) \in Nat
    BY <1>1, <2>2, NumberedLemma DEF Numbered
  <2>4. ~Before(post_order, e[2], e[1])
    <3>1. ~(PlaceOf(e[2]) < PlaceOf(e[1]))
      BY <1>1, <2>3
    <3> QED BY <3>1, BeforePlaces
  <2> QED BY <1>1, <2>1, <2>4 DEF OrderedBy
<1>2. ToSet(post_order) = Reachable /\ Len(post_order) = Cardinality(Reachable)
  BY DEF OrderedBy
<1> QED BY <1>1, <1>2 DEF PostOrderExact

-----------------------------------------------------------------------------
(***************************************************************************)
(* The tree of a round: D stands for doms.                                 *)
(***************************************************************************)
InTree(D) == {b \in Block : D[b] # NoBlock}

\* Going up the tree leads to larger numbers, and stays in it.
Tree(D) ==
  /\ D \in [Block -> Block \cup {NoBlock}]
  /\ InTree(D) \subseteq Reachable
  /\ D[cfg.entry] = cfg.entry
  /\ \A b \in InTree(D) \ {cfg.entry} : D[b] \in InTree(D) /\ PlaceOf(D[b]) > PlaceOf(b)

\* The way up from b, without and with b.
ParentIn(D, b) == {IF b = cfg.entry THEN NoBlock ELSE D[b]} \ {NoBlock}
Chain(D, b) == ReachSteps([c \in Block |-> ParentIn(D, c)], ParentIn(D, b), {})
Line(D, b) == {b} \cup Chain(D, b)

LEMMA ChainIsStrict ==
  /\ \A b : StrictDominators(b) = Chain(doms, b)
  /\ \A b \in Block : IsReachable(b) <=> b # cfg.entry /\ doms[b] # NoBlock
<1>1. \A b : Up(b) = ParentIn(doms, b)
  BY DEF Up, IdomOf, ParentIn
<1>2. \A b : StrictDominators(b) = Chain(doms, b)
  BY <1>1 DEF StrictDominators, Chain
<1>3. \A b \in Block : IsReachable(b) <=> b # cfg.entry /\ doms[b] # NoBlock
  BY DEF IsReachable, IdomOf
<1> QED BY <1>2, <1>3

LEMMA ParentLemma ==
  ASSUME CfgOk, NEW D \in [Block -> Block \cup {NoBlock}]
  PROVE  /\ [c \in Block |-> ParentIn(D, c)] \in [Block -> SUBSET Block]
         /\ ParentIn(D, cfg.entry) = {}
         /\ \A b \in Block \ InTree(D) : ParentIn(D, b) = {}
         /\ \A b \in InTree(D) \ {cfg.entry} : ParentIn(D, b) = {D[b]}
         /\ \A b \in Block : ParentIn(D, b) \subseteq Block
BY DEF ParentIn, InTree

LEMMA ChainLeast ==
  ASSUME CfgOk, NEW D \in [Block -> Block \cup {NoBlock}], NEW b \in Block
  PROVE  /\ Chain(D, b) \subseteq Block
         /\ ParentIn(D, b) \subseteq Chain(D, b)
         /\ \A c \in Chain(D, b) : ParentIn(D, c) \subseteq Chain(D, b)
         /\ \A T : /\ ParentIn(D, b) \subseteq T
                   /\ \A c \in T \cap Chain(D, b) : ParentIn(D, c) \subseteq T
                   => Chain(D, b) \subseteq T
<1> DEFINE up == [c \in Block |-> ParentIn(D, c)]
<1>1. up \in [Block -> SUBSET Block] /\ ParentIn(D, b) \in SUBSET Block
  BY ParentLemma
<1>2. \A c \in Block : up[c] = ParentIn(D, c)
  OBVIOUS
<1>3. Chain(D, b) = ReachSteps(up, ParentIn(D, b), {})
  BY DEF Chain
<1> HIDE DEF up
<1>4. LeastClosed(Chain(D, b), Block, up, ParentIn(D, b), {})
  BY <1>1, <1>3, ReachLemma, CfgLemma
<1>5. \A S : S \ {} = S
  OBVIOUS
<1>6. Chain(D, b) \subseteq Block
  BY <1>4 DEF LeastClosed
<1>7. ParentIn(D, b) \subseteq Chain(D, b)
  BY <1>4, <1>5 DEF LeastClosed
<1>8. \A c \in Chain(D, b) : ParentIn(D, c) \subseteq Chain(D, b)
  BY <1>2, <1>4, <1>5, <1>6 DEF LeastClosed
<1>9. ASSUME NEW T, ParentIn(D, b) \subseteq T, \A c \in T \cap Chain(D, b) : ParentIn(D, c) \subseteq T
      PROVE  Chain(D, b) \subseteq T
  <2>1. ParentIn(D, b) \ {} \subseteq T
    BY <1>9, <1>5
  <2>2. \A c \in T \cap Chain(D, b) : up[c] \ {} \subseteq T
    BY <1>2, <1>5, <1>6, <1>9
  <2> QED BY <1>4, <2>1, <2>2 DEF LeastClosed
<1> QED BY <1>6, <1>7, <1>8, <1>9

Chains(D) ==
  /\ Chain(D, cfg.entry) = {}
  /\ \A b \in Block \ InTree(D) : Chain(D, b) = {}
  /\ \A b \in InTree(D) : Chain(D, b) \subseteq InTree(D) \cap Reachable
  /\ \A b \in InTree(D) \ {cfg.entry} :
       D[b] \in Chain(D, b) /\ Chain(D, b) = {D[b]} \cup Chain(D, D[b])
  /\ \A b \in InTree(D) : \A a \in Chain(D, b) :
       PlaceOf(a) > PlaceOf(b) /\ Chain(D, a) \subseteq Chain(D, b)

LEMMA ChainLemma ==
  ASSUME CfgOk, Numbered, NEW D, Tree(D)
  PROVE  Chains(D)
<1>1. /\ D \in [Block -> Block \cup {NoBlock}] /\ InTree(D) \subseteq Reachable
      /\ InTree(D) \subseteq Block /\ cfg.entry \in InTree(D) /\ cfg.entry \in Block
      /\ \A b \in InTree(D) \ {cfg.entry} : D[b] \in InTree(D) /\ PlaceOf(D[b]) > PlaceOf(b)
  <2>1. cfg.entry \in Block /\ cfg.entry # NoBlock
    BY CfgLemma
  <2> QED BY <2>1 DEF Tree, InTree
<1>2. /\ ParentIn(D, cfg.entry) = {} /\ \A b \in Block \ InTree(D) : ParentIn(D, b) = {}
      /\ \A b \in InTree(D) \ {cfg.entry} : ParentIn(D, b) = {D[b]}
  BY <1>1, ParentLemma
<1>3. \A b \in Reachable : PlaceOf(b) \in Nat
  BY DEF Numbered
<1>4. ASSUME NEW b \in Block, ParentIn(D, b) = {} PROVE Chain(D, b) = {}
  <2>1. ParentIn(D, b) \subseteq {} /\ \A c \in {} \cap Chain(D, b) : ParentIn(D, c) \subseteq {}
    BY <1>4
  <2>2. Chain(D, b) \subseteq {}
    BY <1>1, <2>1, ChainLeast
  <2> QED BY <2>2
<1>5. ASSUME NEW b \in InTree(D)
      PROVE  Chain(D, b) \subseteq {a \in InTree(D) : PlaceOf(a) > PlaceOf(b)}
  <2> DEFINE T == {a \in InTree(D) : PlaceOf(a) > PlaceOf(b)}
  <2>1. ParentIn(D, b) \subseteq T
    BY <1>1, <1>2
  <2>2. ASSUME NEW c \in T PROVE ParentIn(D, c) \subseteq T
    <3>1. CASE c = cfg.entry
      BY <1>2, <3>1
    <3>2. CASE c # cfg.entry
      <4>1. D[c] \in InTree(D) /\ PlaceOf(D[c]) > PlaceOf(c) /\ PlaceOf(c) > PlaceOf(b)
        BY <1>1, <3>2
      <4>2. PlaceOf(D[c]) \in Nat /\ PlaceOf(c) \in Nat /\ PlaceOf(b) \in Nat
        BY <1>1, <1>3, <4>1
      <4>3. PlaceOf(D[c]) > PlaceOf(b)
        BY <4>1, <4>2
      <4> QED BY <1>2, <3>2, <4>1, <4>3
    <3> QED BY <3>1, <3>2
  <2> HIDE DEF T
  <2>3. Chain(D, b) \subseteq T
    BY <1>1, <2>1, <2>2, ChainLeast
  <2> QED BY <2>3 DEF T
<1>6. ASSUME NEW b \in InTree(D), NEW a \in Chain(D, b)
      PROVE  Chain(D, a) \subseteq Chain(D, b)
  <2>1. a \in Block /\ ParentIn(D, a) \subseteq Chain(D, b)
    BY <1>1, <1>6, ChainLeast
  <2>2. \A c \in Chain(D, b) \cap Chain(D, a) : ParentIn(D, c) \subseteq Chain(D, b)
    BY <1>1, ChainLeast
  <2> QED BY <1>1, <2>1, <2>2, ChainLeast
<1>7. ASSUME NEW b \in InTree(D) \ {cfg.entry}
      PROVE  D[b] \in Chain(D, b) /\ Chain(D, b) = {D[b]} \cup Chain(D, D[b])
  <2>1. D[b] \in Block /\ b \in Block
    BY <1>1
  <2>2. D[b] \in Chain(D, b)
    BY <1>1, <1>2, <2>1, ChainLeast
  <2>3. Chain(D, D[b]) \subseteq Chain(D, b)
    BY <1>6, <2>2
  <2> DEFINE T == {D[b]} \cup Chain(D, D[b])
  <2>4. ParentIn(D, b) \subseteq T
    BY <1>2
  <2>5. ASSUME NEW c \in T PROVE ParentIn(D, c) \subseteq T
    BY <1>1, <2>1, <2>5, ChainLeast
  <2> HIDE DEF T
  <2>6. Chain(D, b) \subseteq T
    BY <1>1, <2>1, <2>4, <2>5, ChainLeast
  <2> QED BY <2>2, <2>3, <2>6 DEF T
<1>8. Chain(D, cfg.entry) = {} /\ \A b \in Block \ InTree(D) : Chain(D, b) = {}
  BY <1>1, <1>2, <1>4
<1>9. \A b \in InTree(D) : Chain(D, b) \subseteq InTree(D) \cap Reachable
  BY <1>1, <1>5
<1>10. \A b \in InTree(D) : \A a \in Chain(D, b) : PlaceOf(a) > PlaceOf(b)
  BY <1>5
<1> QED BY <1>6, <1>7, <1>8, <1>9, <1>10 DEF Chains

-----------------------------------------------------------------------------
(***************************************************************************)
(* intersect: the lower of two blocks goes up until they meet, in the      *)
(* lowest block that is on both ways up.                                   *)
(***************************************************************************)
LEMMA PlacesLemma ==
  ASSUME CfgOk, Numbered, NEW D, Tree(D)
  PROVE  /\ cfg.entry \in InTree(D) /\ InTree(D) \subseteq Block
         /\ \A b \in InTree(D) : PlaceOf(b) \in Nat /\ PlaceOf(b) <= Len(post_order)
         /\ \A b, c \in InTree(D) : PlaceOf(b) = PlaceOf(c) => b = c
         /\ \A b \in InTree(D) \ {cfg.entry} : PlaceOf(b) < Len(post_order)
         /\ \A b \in InTree(D) : b \in Reachable /\ 1 <= PlaceOf(b)
<1>1. cfg.entry \in InTree(D) /\ InTree(D) \subseteq Block /\ InTree(D) \subseteq Reachable
  BY CfgLemma DEF Tree, InTree
<1>2. \A b \in Reachable : PlaceOf(b) \in Nat /\ 1 <= PlaceOf(b) /\ PlaceOf(b) <= Len(post_order)
  BY DEF Numbered
<1> QED BY <1>1, <1>2 DEF Numbered

\* Of two blocks the lower one can go up, without missing a common block.
LEMMA GoUp ==
  ASSUME CfgOk, Numbered, Tree(doms), NEW x \in InTree(doms), NEW y \in InTree(doms),
         PlaceOf(x) < PlaceOf(y)
  PROVE  /\ doms[x] \in InTree(doms) /\ PlaceOf(doms[x]) > PlaceOf(x)
         /\ \A z : z \in Line(doms, x) /\ z \in Line(doms, y) => z \in Line(doms, doms[x])
         /\ \A b \in InTree(doms) : x \in Line(doms, b) => doms[x] \in Line(doms, b)
<1>1. Chains(doms)
  BY ChainLemma
<1>2. x # cfg.entry
  <2>1. PlaceOf(y) <= PlaceOf(cfg.entry) /\ PlaceOf(x) \in Nat /\ PlaceOf(y) \in Nat
        /\ PlaceOf(cfg.entry) \in Nat
    BY PlacesLemma DEF Numbered
  <2> QED BY <2>1
<1>3. doms[x] \in InTree(doms) /\ PlaceOf(doms[x]) > PlaceOf(x)
  BY <1>2 DEF Tree
<1>4. x \notin Line(doms, y)
  <2>1. PlaceOf(x) \in Nat /\ PlaceOf(y) \in Nat
    BY PlacesLemma
  <2>2. x # y /\ ~(PlaceOf(x) > PlaceOf(y))
    BY <2>1
  <2> QED BY <1>1, <2>2 DEF Line, Chains
<1>5. doms[x] \in Chain(doms, x) /\ Chain(doms, x) = {doms[x]} \cup Chain(doms, doms[x])
  BY <1>1, <1>2 DEF Chains
<1>6. \A z : z \in Line(doms, x) /\ z \in Line(doms, y) => z \in Line(doms, doms[x])
  BY <1>4, <1>5 DEF Line
<1>7. \A b \in InTree(doms) : x \in Line(doms, b) => doms[x] \in Line(doms, b)
  BY <1>1, <1>5 DEF Line, Chains
<1> QED BY <1>3, <1>6, <1>7

Meets(m, b1, b2) ==
  /\ m \in InTree(doms) /\ m \in Line(doms, b1) /\ m \in Line(doms, b2)
  /\ \A z : z \in Line(doms, b1) /\ z \in Line(doms, b2) => z \in Line(doms, m)

LEMMA IntersectLemma ==
  ASSUME CfgOk, Numbered, Tree(doms), NEW b1 \in InTree(doms), NEW b2 \in InTree(doms)
  PROVE  Meets(Intersect(b1, b2), b1, b2)
<1>0. PICK n \in Nat : n = 2 * Len(post_order)
  BY DEF Numbered
<1> DEFINE f == CHOOSE g : FollowsUp(g, MoveUp, <<b1, b2>>, n)
<1>1. FollowsUp(f, MoveUp, <<b1, b2>>, n)
  BY FollowsUpExists
<1>2. Intersect(b1, b2) = f[n][1]
  BY <1>0 DEF Intersect, FollowsUp
<1> HIDE DEF f
<1>3. f[0] = <<b1, b2>> /\ \A k \in 0..(n - 1) : f[k + 1] = MoveUp[f[k]]
  <2>1. \A k \in 0..n : f[k] = IF k = 0 THEN <<b1, b2>> ELSE MoveUp[f[k - 1]]
    BY <1>1 DEF FollowsUp
  <2>2. 0 \in 0..n
    BY <1>0
  <2>3. ASSUME NEW k \in 0..(n - 1) PROVE f[k + 1] = MoveUp[f[k]]
    <3>1. k + 1 \in 0..n /\ k + 1 # 0 /\ (k + 1) - 1 = k
      BY <1>0
    <3> QED BY <2>1, <3>1
  <2> QED BY <2>1, <2>2, <2>3
<1> DEFINE Way(x, y) == /\ x \in Line(doms, b1) /\ y \in Line(doms, b2)
                        /\ \A z : z \in Line(doms, b1) /\ z \in Line(doms, b2) =>
                             z \in Line(doms, x) /\ z \in Line(doms, y)
           At(k, x, y) == /\ f[k] = <<x, y>> /\ Way(x, y)
                          /\ x = y \/ PlaceOf(x) + PlaceOf(y) >= k + 2
           G == {k \in Nat : \E x, y \in InTree(doms) : At(k, x, y)}
<1>4. 0 \in G
  <2>1. Way(b1, b2)
    BY DEF Line
  <2>2. PlaceOf(b1) \in Nat /\ PlaceOf(b2) \in Nat /\ 1 <= PlaceOf(b1) /\ 1 <= PlaceOf(b2)
    BY PlacesLemma
  <2>3. PlaceOf(b1) + PlaceOf(b2) >= 0 + 2
    BY <2>2
  <2>4. At(0, b1, b2)
    BY <1>3, <2>1, <2>3
  <2> QED BY <2>4
<1>5. ASSUME NEW k \in 0..(n - 1), k \in G PROVE k + 1 \in G
  <2>0. k \in Nat /\ k + 1 \in Nat
    BY <1>0
  <2>1. PICK x, y \in InTree(doms) : At(k, x, y)
    BY <1>5
  <2>2. /\ PlaceOf(x) \in Nat /\ PlaceOf(y) \in Nat /\ x \in Block /\ y \in Block
        /\ PlaceOf(x) = PlaceOf(y) => x = y
    BY PlacesLemma
  <2>3. f[k + 1] = IF x = y THEN <<x, y>>
                   ELSE IF PlaceOf(x) < PlaceOf(y) THEN <<doms[x], y>> ELSE <<x, doms[y]>>
    <3>1. <<x, y>> \in Block \X Block /\ <<x, y>>[1] = x /\ <<x, y>>[2] = y
      BY <2>2
    <3>2. MoveUp[<<x, y>>] = IF x = y THEN <<x, y>>
                             ELSE IF PlaceOf(x) < PlaceOf(y) THEN <<doms[x], y>> ELSE <<x, doms[y]>>
      BY <3>1 DEF MoveUp, RpoNum
    <3> QED BY <1>3, <2>1, <3>2
  <2>4. CASE x = y
    <3>1. At(k + 1, x, y)
      BY <2>1, <2>3, <2>4
    <3> QED BY <2>0, <3>1
  <2>5. CASE x # y /\ PlaceOf(x) < PlaceOf(y)
    <3>1. /\ doms[x] \in InTree(doms) /\ PlaceOf(doms[x]) > PlaceOf(x)
          /\ \A z : z \in Line(doms, x) /\ z \in Line(doms, y) => z \in Line(doms, doms[x])
          /\ x \in Line(doms, b1) => doms[x] \in Line(doms, b1)
      BY <2>5, GoUp
    <3>2. Way(doms[x], y)
      BY <2>1, <3>1
    <3>3. PlaceOf(doms[x]) + PlaceOf(y) >= (k + 1) + 2
      <4>1. PlaceOf(x) + PlaceOf(y) >= k + 2 /\ PlaceOf(doms[x]) \in Nat
        BY <2>1, <2>5, <3>1, PlacesLemma
      <4> QED BY <2>0, <2>2, <3>1, <4>1
    <3>4. At(k + 1, doms[x], y)
      BY <2>3, <2>5, <3>2, <3>3
    <3> QED BY <2>0, <3>1, <3>4
  <2>6. CASE x # y /\ ~(PlaceOf(x) < PlaceOf(y))
    <3>0. PlaceOf(y) < PlaceOf(x)
      BY <2>2, <2>6
    <3>1. /\ doms[y] \in InTree(doms) /\ PlaceOf(doms[y]) > PlaceOf(y)
          /\ \A z : z \in Line(doms, y) /\ z \in Line(doms, x) => z \in Line(doms, doms[y])
          /\ y \in Line(doms, b2) => doms[y] \in Line(doms, b2)
      BY <3>0, GoUp
    <3>2. Way(x, doms[y])
      BY <2>1, <3>1
    <3>3. PlaceOf(x) + PlaceOf(doms[y]) >= (k + 1) + 2
      <4>1. PlaceOf(x) + PlaceOf(y) >= k + 2 /\ PlaceOf(doms[y]) \in Nat
        BY <2>1, <2>6, <3>1, PlacesLemma
      <4> QED BY <2>0, <2>2, <3>1, <4>1
    <3>4. At(k + 1, x, doms[y])
      BY <2>3, <2>6, <3>2, <3>3
    <3> QED BY <2>0, <3>1, <3>4
  <2> QED BY <2>4, <2>5, <2>6
<1>6. n \in G
  <2> HIDE DEF G
  <2>1. \A k \in 0..n : k \in G
    BY <1>0, <1>4, <1>5, CountUp
  <2> QED BY <1>0, <2>1
<1>7. PICK x, y \in InTree(doms) : At(n, x, y)
  BY <1>6
<1>8. x = y
  <2>1. /\ PlaceOf(x) \in Nat /\ PlaceOf(y) \in Nat /\ PlaceOf(x) <= Len(post_order)
        /\ PlaceOf(y) <= Len(post_order) /\ Len(post_order) \in Nat
    BY PlacesLemma DEF Numbered
  <2>2. ~(PlaceOf(x) + PlaceOf(y) >= n + 2)
    BY <1>0, <2>1
  <2> QED BY <1>7, <2>2
<1>9. Intersect(b1, b2) = x
  BY <1>2, <1>7
<1> QED BY <1>7, <1>8, <1>9 DEF Meets

\* The meet of some blocks, one after the other.
MeetsAll(m, preds) ==
  /\ m \in InTree(doms) /\ \A i \in 1..Len(preds) : m \in Line(doms, preds[i])
  /\ \A z : (\A i \in 1..Len(preds) : z \in Line(doms, preds[i])) => z \in Line(doms, m)
MeetUp(f, preds, n) == f = [k \in 1..n |-> IF k = 1 THEN preds[1] ELSE Intersect(f[k - 1], preds[k])]

LEMMA MeetUpExists ==
  ASSUME NEW preds, NEW n \in Nat \ {0}
  PROVE  \E f : MeetUp(f, preds, n)
<1> DEFINE G == {k \in Nat : \E f : MeetUp(f, preds, k)}
<1>1. 1 \in G
  <2> DEFINE f == [k \in 1..1 |-> preds[1]]
  <2>1. \A k \in 1..1 : k = 1
    OBVIOUS
  <2>2. MeetUp(f, preds, 1)
    BY <2>1 DEF MeetUp
  <2> QED BY <2>2
<1>2. ASSUME NEW i \in 1..(n - 1), i \in G PROVE i + 1 \in G
  <2>1. PICK g : MeetUp(g, preds, i)
    BY <1>2
  <2> DEFINE f == [k \in 1..(i + 1) |-> IF k = i + 1 THEN Intersect(g[i], preds[i + 1]) ELSE g[k]]
  <2>2. \A k \in 1..i : g[k] = IF k = 1 THEN preds[1] ELSE Intersect(g[k - 1], preds[k])
    BY <2>1 DEF MeetUp
  <2>3. i \in Nat /\ i + 1 \in Nat /\ i + 1 # 1 /\ (i + 1) - 1 = i /\ i # i + 1 /\ i \in 1..(i + 1)
    OBVIOUS
  <2>4. \A k \in 1..(i + 1) : f[k] = IF k = 1 THEN preds[1] ELSE Intersect(f[k - 1], preds[k])
    <3> TAKE k \in 1..(i + 1)
    <3>1. CASE k = i + 1
      <4>1. f[k] = Intersect(g[i], preds[i + 1]) /\ f[i] = g[i]
        BY <2>3, <3>1
      <4>2. k - 1 = i /\ k # 1
        BY <2>3, <3>1
      <4> QED BY <3>1, <4>1, <4>2
    <3>2. CASE k # i + 1
      <4>1. k \in 1..i /\ f[k] = g[k]
        BY <2>3, <3>2
      <4>2. k # 1 => k - 1 \in 1..(i + 1) /\ k - 1 # i + 1
        BY <2>3, <4>1
      <4>3. k # 1 => f[k - 1] = g[k - 1]
        BY <4>2
      <4> HIDE DEF f
      <4> QED BY <2>2, <4>1, <4>3
    <3> QED BY <3>1, <3>2
  <2>5. f = [k \in 1..(i + 1) |-> f[k]]
    OBVIOUS
  <2> HIDE DEF f
  <2>6. MeetUp(f, preds, i + 1)
    BY <2>4, <2>5 DEF MeetUp
  <2> QED BY <2>3, <2>6
<1> HIDE DEF G
<1>3. \A k \in 1..n : k \in G
  BY <1>1, <1>2, CountUp
<1> QED BY <1>3 DEF G

LEMMA NewDomLemma ==
  ASSUME CfgOk, Numbered, Tree(doms), NEW preds, NEW n \in Nat \ {0}, n = Len(preds),
         \A i \in 1..n : preds[i] \in InTree(doms)
  PROVE  MeetsAll(NewDom(preds), preds)
<1> DEFINE f == CHOOSE g : MeetUp(g, preds, n)
<1>1. MeetUp(f, preds, n)
  BY MeetUpExists
<1>2. NewDom(preds) = f[n]
  BY DEF NewDom, MeetUp
<1> HIDE DEF f
<1>3. \A k \in 1..n : f[k] = IF k = 1 THEN preds[1] ELSE Intersect(f[k - 1], preds[k])
  BY <1>1 DEF MeetUp
<1> DEFINE G == {k \in Nat : /\ f[k] \in InTree(doms) /\ \A i \in 1..k : f[k] \in Line(doms, preds[i])
                             /\ \A z : (\A i \in 1..k : z \in Line(doms, preds[i])) => z \in Line(doms, f[k])}
<1>4. 1 \in G
  <2>1. 1 \in 1..n /\ \A i \in 1..1 : i = 1
    OBVIOUS
  <2>2. f[1] = preds[1]
    BY <1>3, <2>1
  <2> QED BY <2>1, <2>2 DEF Line
<1>5. ASSUME NEW k \in 1..(n - 1), k \in G PROVE k + 1 \in G
  <2>1. k \in Nat /\ k + 1 \in 1..n /\ k + 1 # 1 /\ (k + 1) - 1 = k /\ k + 1 \in Nat
    OBVIOUS
  <2>2. f[k + 1] = Intersect(f[k], preds[k + 1])
    BY <1>3, <2>1
  <2>3. Meets(f[k + 1], f[k], preds[k + 1])
    BY <1>5, <2>1, <2>2, IntersectLemma
  <2>4. \A i \in 1..(k + 1) : i = k + 1 \/ i \in 1..k
    BY <2>1
  <2>5. k + 1 \in 1..(k + 1) /\ \A i \in 1..k : i \in 1..(k + 1)
    BY <2>1
  <2>6. Line(doms, f[k + 1]) \subseteq Line(doms, f[k + 1]) /\ f[k + 1] \in InTree(doms)
    BY <2>3 DEF Meets
  <2>7. \A i \in 1..k : f[k + 1] \in Line(doms, preds[i])
    <3> TAKE i \in 1..k
    <3>1. f[k] \in Line(doms, preds[i]) /\ preds[i] \in InTree(doms)
      BY <1>5, <2>1
    <3>2. Line(doms, f[k]) \subseteq Line(doms, preds[i])
      BY <3>1, ChainLemma DEF Chains, Line
    <3> QED BY <2>3, <3>2 DEF Meets
  <2>8. \A i \in 1..(k + 1) : f[k + 1] \in Line(doms, preds[i])
    BY <2>3, <2>4, <2>7 DEF Meets
  <2>9. ASSUME NEW z, \A i \in 1..(k + 1) : z \in Line(doms, preds[i])
        PROVE  z \in Line(doms, f[k + 1])
    <3>1. z \in Line(doms, f[k])
      BY <1>5, <2>5, <2>9
    <3> QED BY <2>3, <2>5, <2>9, <3>1 DEF Meets
  <2> QED BY <2>1, <2>6, <2>8, <2>9
<1>6. n \in G
  <2> HIDE DEF G
  <2>1. \A k \in 1..n : k \in G
    BY <1>4, <1>5, CountUp
  <2> QED BY <2>1
<1> QED BY <1>2, <1>6 DEF MeetsAll

-----------------------------------------------------------------------------
(***************************************************************************)
(* Paths that avoid a block.                                               *)
(***************************************************************************)
Around(x) == ReachSteps(cfg.succs, {cfg.entry}, {x})

LEMMA AroundLemma ==
  ASSUME CfgOk, NEW x
  PROVE  /\ Around(x) \subseteq Reachable /\ x \notin Around(x)
         /\ x # cfg.entry => cfg.entry \in Around(x)
         /\ \A b \in Around(x) : \A s \in Succs(b) : s # x => s \in Around(x)
         /\ \A T : /\ x # cfg.entry => cfg.entry \in T
                   /\ \A b \in T \cap Around(x) : \A s \in Succs(b) : s # x => s \in T
                   => Around(x) \subseteq T
         /\ \A b : x \in PathStrictDominators(b) <=> x \in Block /\ x # b /\ b \in Reachable /\ b \notin Around(x)
<1>1. LeastClosed(Around(x), Block, cfg.succs, {cfg.entry}, {x})
  BY CfgLemma, CfgReach DEF Around
<1>2. \A b : cfg.succs[b] \ {x} = Succs(b) \ {x}
  BY DEF Succs
<1>3. x \notin Around(x) /\ (x # cfg.entry => cfg.entry \in Around(x)) /\ Around(x) \subseteq Block
  BY <1>1 DEF LeastClosed
<1>4. \A b \in Around(x) : \A s \in Succs(b) : s # x => s \in Around(x)
  BY <1>1, <1>2 DEF LeastClosed
<1>5. ASSUME NEW T, x # cfg.entry => cfg.entry \in T,
             \A b \in T \cap Around(x) : \A s \in Succs(b) : s # x => s \in T
      PROVE  Around(x) \subseteq T
  <2>1. {cfg.entry} \ {x} \subseteq T
    BY <1>5
  <2>2. \A b \in T \cap Around(x) : cfg.succs[b] \ {x} \subseteq T
    BY <1>2, <1>5
  <2> QED BY <1>1, <2>1, <2>2 DEF LeastClosed
<1>6. Around(x) \subseteq Reachable
  BY <1>5, ReachableLemma
<1>7. \A b : x \in PathStrictDominators(b) <=> x \in Block /\ x # b /\ b \in Reachable /\ b \notin Around(x)
  BY DEF PathStrictDominators, PathDominates, Around
<1> QED BY <1>3, <1>4, <1>5, <1>6, <1>7

\* What dominates a block is, or dominates, each of its predecessors.
LEMMA DominatesPred ==
  ASSUME CfgOk, NEW b \in Block, NEW x \in PathStrictDominators(b), NEW p \in Preds(b), p \in Reachable
  PROVE  x = p \/ x \in PathStrictDominators(p)
<1>1. p \in Block /\ b \in Succs(p)
  BY CfgLemma
<1>2. x \in Block /\ x # b /\ b \notin Around(x)
  BY AroundLemma
<1>3. p \notin Around(x)
  BY <1>1, <1>2, AroundLemma
<1> QED BY <1>2, <1>3, AroundLemma

LEMMA NothingAboveEntry ==
  ASSUME CfgOk
  PROVE  PathStrictDominators(cfg.entry) = {}
BY AroundLemma

\* The entry is above all.
LEMMA EntryDominates ==
  ASSUME CfgOk, NEW b \in Reachable, b # cfg.entry
  PROVE  cfg.entry \in PathStrictDominators(b)
<1>1. Around(cfg.entry) \subseteq {}
  BY AroundLemma, SMTT(40)
<1> QED BY <1>1, CfgLemma, AroundLemma

\* The blocks reached from a through blocks lower than a.
NotBelow(a) == {x \in Reachable : PlaceOf(x) >= PlaceOf(a)}
Below(a) == ReachSteps(cfg.succs, Succs(a), NotBelow(a))

LEMMA BelowLemma ==
  ASSUME CfgOk, NEW a \in Block
  PROVE  /\ Below(a) \subseteq Block
         /\ \A s \in Succs(a) \ NotBelow(a) : s \in Below(a)
         /\ \A b \in Below(a) : \A s \in Succs(b) \ NotBelow(a) : s \in Below(a)
         /\ \A T : /\ \A s \in Succs(a) \ NotBelow(a) : s \in T
                   /\ \A b \in T \cap Below(a) : \A s \in Succs(b) \ NotBelow(a) : s \in T
                   => Below(a) \subseteq T
<1>1. LeastClosed(Below(a), Block, cfg.succs, Succs(a), NotBelow(a))
  BY CfgLemma, CfgReach DEF Below
<1>2. \A b : cfg.succs[b] \ NotBelow(a) = Succs(b) \ NotBelow(a)
  BY DEF Succs
<1>3. Below(a) \subseteq Block /\ \A s \in Succs(a) \ NotBelow(a) : s \in Below(a)
  BY <1>1 DEF LeastClosed
<1>4. \A b \in Below(a) : \A s \in Succs(b) \ NotBelow(a) : s \in Below(a)
  BY <1>1, <1>2 DEF LeastClosed
<1>5. ASSUME NEW T, \A s \in Succs(a) \ NotBelow(a) : s \in T,
             \A b \in T \cap Below(a) : \A s \in Succs(b) \ NotBelow(a) : s \in T
      PROVE  Below(a) \subseteq T
  <2>1. Succs(a) \ NotBelow(a) \subseteq T
    BY <1>5
  <2>2. \A b \in T \cap Below(a) : cfg.succs[b] \ NotBelow(a) \subseteq T
    BY <1>2, <1>5
  <2> QED BY <1>1, <2>1, <2>2 DEF LeastClosed
<1> QED BY <1>3, <1>4, <1>5

LEMMA BelowTransitive ==
  ASSUME CfgOk, Numbered, NEW a \in Reachable, NEW c \in Reachable, PlaceOf(a) < PlaceOf(c), a \in Below(c)
  PROVE  Below(a) \subseteq Below(c)
<1>0. a \in Block /\ c \in Block
  BY ReachableLemma
<1>1. NotBelow(c) \subseteq NotBelow(a)
  <2>1. \A x \in Reachable : PlaceOf(x) \in Nat
    BY DEF Numbered
  <2> QED BY <2>1 DEF NotBelow
<1>2. \A s \in Succs(a) \ NotBelow(a) : s \in Below(c)
  BY <1>0, <1>1, BelowLemma
<1>3. \A b \in Below(c) \cap Below(a) : \A s \in Succs(b) \ NotBelow(a) : s \in Below(c)
  BY <1>0, <1>1, BelowLemma
<1> QED BY <1>0, <1>2, <1>3, BelowLemma

\* A dominator of what is below b, if it is higher than b, dominates b.
LEMMA DominatesFromBelow ==
  ASSUME CfgOk, Numbered, NEW b \in Reachable, NEW c \in Below(b), NEW x \in PathStrictDominators(c),
         x \in Reachable, PlaceOf(x) > PlaceOf(b)
  PROVE  x \in PathStrictDominators(b)
<1>0. b \in Block /\ x \in Block /\ c \notin Around(x) /\ PlaceOf(x) \in Nat /\ PlaceOf(b) \in Nat
  BY ReachableLemma, AroundLemma DEF Numbered
<1>1. x # b /\ x \in NotBelow(b)
  BY <1>0 DEF NotBelow
<1>2. ASSUME b \in Around(x) PROVE FALSE
  <2>1. \A s \in Succs(b) \ NotBelow(b) : s \in Around(x)
    BY <1>1, <1>2, AroundLemma
  <2>2. \A d \in Around(x) \cap Below(b) : \A s \in Succs(d) \ NotBelow(b) : s \in Around(x)
    BY <1>1, AroundLemma
  <2>3. Below(b) \subseteq Around(x)
    BY <1>0, <2>1, <2>2, BelowLemma
  <2> QED BY <1>0, <2>3
<1> QED BY <1>0, <1>1, <1>2, AroundLemma

-----------------------------------------------------------------------------
(***************************************************************************)
(* A round of the dominators.                                              *)
(***************************************************************************)
\* No dominator is missing from the way up.
Keeps(D) == \A b \in InTree(D) : PathStrictDominators(b) \subseteq Chain(D, b)
Low(D) == \A b \in InTree(D) \ {cfg.entry} : b \in Below(D[b])

LEMMA LowChain ==
  ASSUME CfgOk, Numbered, NEW D, Tree(D), Low(D), NEW b \in InTree(D), NEW a \in Chain(D, b)
  PROVE  b \in Below(a)
<1>0. /\ Chains(D) /\ D \in [Block -> Block \cup {NoBlock}] /\ b \in Block
  BY ChainLemma DEF Tree, InTree
<1>1. ParentIn(D, b) \subseteq {c \in InTree(D) : b \in Below(c) /\ PlaceOf(c) > PlaceOf(b)}
  <2>1. CASE b = cfg.entry
    BY <1>0, <2>1, ParentLemma
  <2>2. CASE b # cfg.entry
    BY <1>0, <2>2, ParentLemma DEF Low, Tree
  <2> QED BY <2>1, <2>2
<1>2. ASSUME NEW c \in InTree(D), b \in Below(c), PlaceOf(c) > PlaceOf(b)
      PROVE  ParentIn(D, c) \subseteq {d \in InTree(D) : b \in Below(d) /\ PlaceOf(d) > PlaceOf(b)}
  <2>1. CASE c = cfg.entry
    BY <1>0, <2>1, ParentLemma
  <2>2. CASE c # cfg.entry
    <3>1. D[c] \in InTree(D) /\ PlaceOf(D[c]) > PlaceOf(c) /\ c \in Below(D[c]) /\ ParentIn(D, c) = {D[c]}
      BY <1>0, <2>2, ParentLemma DEF Low, Tree
    <3>2. c \in Reachable /\ D[c] \in Reachable /\ PlaceOf(c) \in Nat /\ PlaceOf(D[c]) \in Nat /\ PlaceOf(b) \in Nat
      BY <3>1, PlacesLemma
    <3>3. PlaceOf(c) < PlaceOf(D[c]) /\ PlaceOf(D[c]) > PlaceOf(b)
      BY <1>2, <3>1, <3>2
    <3>4. Below(c) \subseteq Below(D[c])
      BY <3>1, <3>2, <3>3, BelowTransitive
    <3> QED BY <1>2, <3>1, <3>3, <3>4
  <2> QED BY <2>1, <2>2
<1> DEFINE T == {c \in InTree(D) : b \in Below(c) /\ PlaceOf(c) > PlaceOf(b)}
<1>3. \A c \in T : ParentIn(D, c) \subseteq T
  BY <1>2
<1>4. ParentIn(D, b) \subseteq T
  BY <1>1
<1> HIDE DEF T
<1>5. Chain(D, b) \subseteq T
  BY <1>0, <1>3, <1>4, ChainLeast
<1> QED BY <1>5 DEF T

\* Above b, trees that differ in b only are the same.
LEMMA SameAbove ==
  ASSUME CfgOk, Numbered, NEW D, NEW D2, Tree(D), Tree(D2), NEW b \in Reachable,
         \A c \in Block : c # b => D[c] = D2[c],
         NEW a \in InTree(D), PlaceOf(a) > PlaceOf(b)
  PROVE  Chain(D, a) \subseteq Chain(D2, a)
<1>0. /\ Chains(D) /\ D \in [Block -> Block \cup {NoBlock}] /\ D2 \in [Block -> Block \cup {NoBlock}] /\ a \in Block
  BY ChainLemma DEF Tree, InTree
<1>1. \A c \in Block : c # b => ParentIn(D, c) = ParentIn(D2, c)
  BY DEF ParentIn
<1>2. PlaceOf(b) \in Nat /\ PlaceOf(a) \in Nat /\ \A c \in Chain(D, a) : c \in Block /\ PlaceOf(c) \in Nat /\ PlaceOf(c) > PlaceOf(a)
  BY <1>0, PlacesLemma DEF Numbered, Chains
<1>3. a # b /\ \A c \in Chain(D, a) : c # b
  BY <1>2
<1>4. ParentIn(D, a) \subseteq Chain(D2, a)
  BY <1>0, <1>1, <1>3, ChainLeast
<1>5. \A c \in Chain(D2, a) \cap Chain(D, a) : ParentIn(D, c) \subseteq Chain(D2, a)
  BY <1>0, <1>1, <1>2, <1>3, ChainLeast
<1> QED BY <1>0, <1>4, <1>5, ChainLeast

\* Block b is put under m, which is on the way up from all its predecessors in the tree, as
\* low as that can be.
Moved(D, D2, b, m) ==
  /\ D2 = [D EXCEPT ![b] = m] /\ m \in InTree(D) /\ PlaceOf(m) > PlaceOf(b)
  /\ \E p \in Preds(b) : p \in InTree(D)
  /\ \A p \in Preds(b) : p \in InTree(D) => m \in Line(D, p)
  /\ \A z : (\A p \in Preds(b) : p \in InTree(D) => z \in Line(D, p)) => z \in Line(D, m)

LEMMA MovedTree ==
  ASSUME CfgOk, Numbered, NEW D, NEW D2, Tree(D), NEW b \in Reachable, b # cfg.entry, NEW m, Moved(D, D2, b, m)
  PROVE  /\ Tree(D2) /\ InTree(D2) = InTree(D) \cup {b} /\ D2[b] = m /\ m # b
         /\ \A c \in Block : c # b => D[c] = D2[c]
<1>1. b \in Block /\ m \in Block /\ m # NoBlock /\ NoBlock \notin Block /\ D \in [Block -> Block \cup {NoBlock}]
      /\ D2 = [D EXCEPT ![b] = m]
  BY ReachableLemma, CfgLemma DEF Moved, InTree, Tree
<1>2. D2 \in [Block -> Block \cup {NoBlock}] /\ D2[b] = m /\ \A c \in Block : c # b => D[c] = D2[c]
  BY <1>1
<1>3. InTree(D2) = InTree(D) \cup {b}
  BY <1>1, <1>2 DEF InTree
<1>4. PlaceOf(m) > PlaceOf(b) /\ PlaceOf(b) \in Nat /\ m \in InTree(D)
  BY DEF Moved, Numbered
<1>5. m # b
  BY <1>4
<1>6. \A c \in InTree(D2) \ {cfg.entry} : D2[c] \in InTree(D2) /\ PlaceOf(D2[c]) > PlaceOf(c)
  <2> TAKE c \in InTree(D2) \ {cfg.entry}
  <2>1. CASE c = b
    BY <1>2, <1>3, <1>4, <2>1
  <2>2. CASE c # b
    <3>1. c \in InTree(D) \ {cfg.entry} /\ c \in Block
      BY <1>3, <2>2 DEF InTree
    <3> QED BY <1>2, <1>3, <2>2, <3>1 DEF Tree
  <2> QED BY <2>1, <2>2
<1>7. D2[cfg.entry] = cfg.entry /\ InTree(D2) \subseteq Reachable
  BY <1>2, <1>3, CfgLemma DEF Tree
<1> QED BY <1>2, <1>3, <1>5, <1>6, <1>7 DEF Tree

LEMMA MovedLow ==
  ASSUME CfgOk, Numbered, NEW D, NEW D2, Tree(D), Low(D),
         NEW b \in Reachable, b # cfg.entry, NEW m, Moved(D, D2, b, m)
  PROVE  Low(D2)
<1>0. /\ InTree(D2) = InTree(D) \cup {b} /\ D2[b] = m /\ \A c \in Block : c # b => D[c] = D2[c]
  BY MovedTree
<1>1. b \in Below(m)
  <2>1. PICK p \in Preds(b) : p \in InTree(D) /\ m \in Line(D, p)
    BY DEF Moved
  <2>2. b \in Block /\ b \in Succs(p) /\ m \in Block /\ PlaceOf(m) > PlaceOf(b)
        /\ PlaceOf(m) \in Nat /\ PlaceOf(b) \in Nat
    BY CfgLemma, ReachableLemma, PlacesLemma DEF InTree, Moved, Numbered
  <2>3. b \notin NotBelow(m)
    BY <2>2 DEF NotBelow
  <2>4. CASE m = p
    BY <2>2, <2>3, <2>4, BelowLemma
  <2>5. CASE m \in Chain(D, p)
    BY <2>1, <2>2, <2>3, <2>5, LowChain, BelowLemma
  <2> QED BY <2>1, <2>4, <2>5 DEF Line
<1>2. \A c \in InTree(D2) \ {cfg.entry} : c \in Below(D2[c])
  BY <1>0, <1>1 DEF Low, InTree
<1> QED BY <1>2 DEF Low

LEMMA MovedKeeps ==
  ASSUME CfgOk, Numbered, NEW D, NEW D2, Tree(D), Low(D), Keeps(D),
         NEW b \in Reachable, b # cfg.entry, NEW m, Moved(D, D2, b, m)
  PROVE  Keeps(D2)
<1>0. /\ Tree(D2) /\ InTree(D2) = InTree(D) \cup {b} /\ D2[b] = m /\ m # b
      /\ \A c \in Block : c # b => D[c] = D2[c]
      /\ m \in InTree(D) /\ PlaceOf(m) > PlaceOf(b)
      /\ b \in Block /\ b \in InTree(D2) /\ InTree(D2) \subseteq Block
      /\ D \in [Block -> Block \cup {NoBlock}] /\ D2 \in [Block -> Block \cup {NoBlock}]
  BY MovedTree, ReachableLemma DEF Moved, InTree, Tree
<1>1. Chains(D) /\ Chains(D2) /\ Low(D2)
  BY <1>0, ChainLemma, MovedLow
<1>2. Chain(D, m) \subseteq Chain(D2, m)
  BY <1>0, SameAbove
<1>3. Chain(D2, b) = {m} \cup Chain(D2, m)
  BY <1>0, <1>1 DEF Chains
<1>4. PathStrictDominators(b) \subseteq Chain(D2, b)
  <2>1. ASSUME NEW x \in PathStrictDominators(b) PROVE x \in Line(D, m)
    <3>1. \A p \in Preds(b) : p \in InTree(D) => x \in Line(D, p)
      <4> SUFFICES ASSUME NEW p \in Preds(b), p \in InTree(D) PROVE x \in Line(D, p)
        OBVIOUS
      <4>1. p \in Reachable
        BY DEF Tree
      <4>2. x = p \/ x \in PathStrictDominators(p)
        BY <1>0, <4>1, DominatesPred
      <4> QED BY <4>2 DEF Keeps, Line
    <3> QED BY <3>1 DEF Moved
  <2> QED BY <1>2, <1>3, <2>1 DEF Line
<1>5. ASSUME NEW c \in InTree(D), c # b, NEW x \in PathStrictDominators(c)
      PROVE  x \in Chain(D2, c)
  <2>0. c \in Block /\ c \in InTree(D2) /\ x \in Chain(D, c)
    BY <1>0, <1>5 DEF Keeps
  <2> DEFINE T == Chain(D2, c) \cup (IF b \in Chain(D2, c) THEN Chain(D, b) ELSE {})
  <2>1. ParentIn(D, c) \subseteq T
    <3>1. ParentIn(D, c) = ParentIn(D2, c)
      BY <1>0, <1>5, <2>0 DEF ParentIn
    <3> QED BY <1>0, <2>0, <3>1, ChainLeast
  <2>2. ASSUME NEW y \in T PROVE ParentIn(D, y) \subseteq T
    <3>1. CASE y \in Chain(D2, c) /\ y # b
      <4>1. y \in Block
        BY <1>0, <2>0, <3>1, ChainLeast
      <4>2. ParentIn(D, y) = ParentIn(D2, y)
        BY <1>0, <3>1, <4>1 DEF ParentIn
      <4> QED BY <1>0, <2>0, <3>1, <4>2, ChainLeast
    <3>2. CASE b \in Chain(D2, c) /\ y = b
      BY <1>0, <3>2, ChainLeast
    <3>3. CASE b \in Chain(D2, c) /\ y \in Chain(D, b)
      BY <1>0, <3>3, ChainLeast
    <3> QED BY <2>2, <3>1, <3>2, <3>3
  <2>3. Chain(D, c) \subseteq T
    <3> HIDE DEF T
    <3> QED BY <1>0, <2>0, <2>1, <2>2, ChainLeast
  <2>4. CASE b \in Chain(D2, c) /\ x \in Chain(D, b)
    <3>1. b \in InTree(D)
      BY <1>0, <1>1, <2>4 DEF Chains
    <3>2. PlaceOf(x) > PlaceOf(b) /\ x \in Reachable
      BY <1>1, <2>4, <3>1 DEF Chains
    <3>3. c \in Below(b)
      BY <1>0, <1>1, <2>0, <2>4, LowChain
    <3>4. x \in PathStrictDominators(b)
      BY <1>5, <3>2, <3>3, DominatesFromBelow
    <3> QED BY <1>1, <1>4, <2>0, <2>4, <3>4 DEF Chains
  <2> QED BY <2>0, <2>3, <2>4
<1> QED BY <1>0, <1>4, <1>5 DEF Keeps

\* The blocks of this round, down to place n - k + 2, have been given a dominator; and, if
\* that changed nothing, one that is on the way up from all their predecessors.
Processed(D, k) == \A b \in Reachable : PlaceOf(b) + k > Len(post_order) + 1 => b \in InTree(D)
Settled(D, k) ==
  \A b \in Reachable \ {cfg.entry} : PlaceOf(b) + k > Len(post_order) + 1 =>
    \A p \in Preds(b) : p \in InTree(D) => D[b] \in Line(D, p)
DomInv(D, ch, k) ==
  /\ Tree(D) /\ Low(D) /\ Keeps(D) /\ Processed(D, k) /\ (~ch => Settled(D, k))
  /\ ch \in BOOLEAN /\ k \in Nat /\ 2 <= k /\ k <= Len(post_order) + 1

LEMMA FirstPlace ==
  ASSUME CfgOk, Numbered, NEW b \in Reachable, PlaceOf(b) + 2 > Len(post_order) + 1
  PROVE  b = cfg.entry
<1>1. Len(post_order) \in Nat /\ PlaceOf(b) \in Nat
  BY DEF Numbered
<1>2. ~(PlaceOf(b) < Len(post_order))
  BY <1>1
<1> QED BY <1>2 DEF Numbered

\* The first round begins with the entry alone.
LEMMA DomStart ==
  ASSUME CfgOk, Numbered, NEW D, D = [[b \in Block |-> NoBlock] EXCEPT ![cfg.entry] = cfg.entry]
  PROVE  DomInv(D, FALSE, 2)
<1>1. cfg.entry \in Block /\ NoBlock \notin Block /\ cfg.entry \in Reachable
  BY CfgLemma, ReachableLemma
<1>2. /\ D \in [Block -> Block \cup {NoBlock}] /\ D[cfg.entry] = cfg.entry
      /\ \A b \in Block : b # cfg.entry => D[b] = NoBlock
  BY <1>1
<1>3. InTree(D) = {cfg.entry}
  BY <1>1, <1>2 DEF InTree
<1>4. Tree(D) /\ Low(D)
  BY <1>1, <1>2, <1>3 DEF Tree, Low
<1>5. Keeps(D)
  BY <1>3, NothingAboveEntry DEF Keeps
<1>6. Len(post_order) \in Nat /\ Len(post_order) >= 1
  BY DEF Numbered
<1>7. \A b \in Reachable : PlaceOf(b) + 2 > Len(post_order) + 1 => b = cfg.entry
  BY FirstPlace
<1>8. Processed(D, 2) /\ Settled(D, 2)
  BY <1>3, <1>7 DEF Processed, Settled
<1>9. 2 \in Nat /\ 2 <= 2 /\ 2 <= Len(post_order) + 1
  BY <1>6
<1> QED BY <1>4, <1>5, <1>8, <1>9 DEF DomInv

LEMMA RpoLemma ==
  ASSUME CfgOk, Numbered
  PROVE  /\ Len(rpo) = Len(post_order)
         /\ \A k \in 1..Len(post_order) :
              rpo[k] \in Reachable /\ PlaceOf(rpo[k]) = Len(post_order) + 1 - k
<1>1. PICK n \in Nat : n = Len(post_order) /\ DOMAIN post_order = 1..n
  BY DEF Numbered
<1>2. rpo = [i \in 1..n |-> post_order[(n - i) + 1]]
  BY <1>1 DEF rpo, Reverse
<1>3. Len(rpo) = n
  BY <1>1, <1>2
<1>4. ASSUME NEW k \in 1..n PROVE rpo[k] \in Reachable /\ PlaceOf(rpo[k]) = n + 1 - k
  <2>1. (n - k) + 1 \in 1..n /\ (n - k) + 1 = n + 1 - k
    OBVIOUS
  <2>2. rpo[k] = post_order[(n - k) + 1]
    BY <1>2
  <2> QED BY <1>1, <2>1, <2>2 DEF Numbered
<1> QED BY <1>1, <1>3, <1>4

LEMMA DomProcess ==
  ASSUME CfgOk, Numbered, DomInv(doms, changed, at), ProcessBlock
  PROVE  DomInv(doms', changed', at')
<1>0. PICK b : b = rpo[at]
  OBVIOUS
<1>1. PICK n, k \in Nat : n = Len(post_order) /\ k = at /\ b = rpo[at]
  BY <1>0 DEF DomInv, Numbered
<1>2. /\ n \in Nat /\ 2 <= k /\ k <= n /\ k \in 1..n /\ at' = k + 1 /\ n # 0
      /\ b \in Reachable /\ b \in Block /\ PlaceOf(b) = n + 1 - k /\ b # cfg.entry
      /\ changed \in BOOLEAN /\ doms \in [Block -> Block \cup {NoBlock}]
  <2>1. n \in Nat /\ n # 0
    BY <1>1 DEF Numbered
  <2>2. k <= n /\ at' = k + 1
    BY <1>1, RpoLemma DEF ProcessBlock
  <2>3. 2 <= k /\ changed \in BOOLEAN /\ doms \in [Block -> Block \cup {NoBlock}]
    BY <1>1 DEF DomInv, Tree
  <2>4. k \in 1..n
    BY <2>2, <2>3
  <2>5. b \in Reachable /\ PlaceOf(b) = n + 1 - k
    BY <1>1, <2>4, RpoLemma
  <2>6. PlaceOf(cfg.entry) = n /\ n + 1 - k # n
    BY <1>1, <2>1, <2>3 DEF Numbered
  <2> QED BY <2>1, <2>2, <2>3, <2>4, <2>5, <2>6, ReachableLemma
<1> DEFINE S == {p \in Preds(b) : doms[p] # NoBlock}
<1>3. PICK preds \in Ascending(S) :
        IF preds = <<>> THEN UNCHANGED <<doms, changed>>
        ELSE doms' = [doms EXCEPT ![b] = NewDom(preds)] /\ changed' = (changed \/ doms'[b] # doms[b])
  BY <1>1 DEF ProcessBlock
<1>4. S \in SUBSET Block /\ \A p : p \in S <=> p \in Preds(b) /\ p \in InTree(doms)
  BY <1>2, CfgLemma DEF InTree
<1> HIDE DEF S
<1>5. /\ Len(preds) \in Nat /\ preds \in Seq(Block)
      /\ \A i \in 1..Len(preds) : preds[i] \in S
      /\ \A p \in S : \E i \in 1..Len(preds) : preds[i] = p
  BY <1>3, <1>4, AscendingLemma
<1>6. PICK fp \in S : PlaceOf(fp) > PlaceOf(b) /\ PlaceOf(fp) \in Nat
  <2>1. PICK p \in Preds(b) \cap Reachable : PlaceOf(p) > PlaceOf(b)
    BY <1>2 DEF Numbered
  <2>2. PlaceOf(p) \in Nat
    BY DEF Numbered
  <2>3. PlaceOf(p) + k > n + 1
    BY <1>1, <1>2, <2>1, <2>2
  <2>4. p \in InTree(doms)
    BY <1>1, <2>3 DEF DomInv, Processed
  <2> QED BY <1>4, <2>1, <2>2, <2>4
<1>7. Len(preds) \in Nat \ {0} /\ preds # <<>>
  <2>1. \E i \in 1..Len(preds) : preds[i] = fp
    BY <1>5
  <2>2. Len(preds) # 0
    BY <1>5, <2>1
  <2> QED BY <1>5, <2>2, EmptySeq
<1>8. PICK m : m = NewDom(preds)
  OBVIOUS
<1>9. MeetsAll(m, preds)
  <2>1. \A i \in 1..Len(preds) : preds[i] \in InTree(doms)
    BY <1>4, <1>5
  <2> QED BY <1>7, <1>8, <2>1, NewDomLemma DEF DomInv
<1>10. doms' = [doms EXCEPT ![b] = m] /\ changed' = (changed \/ doms'[b] # doms[b])
  BY <1>3, <1>7, <1>8
<1>11. /\ m \in InTree(doms) /\ \A p \in Preds(b) : p \in InTree(doms) => m \in Line(doms, p)
       /\ \A z : (\A p \in Preds(b) : p \in InTree(doms) => z \in Line(doms, p)) => z \in Line(doms, m)
  BY <1>4, <1>5, <1>9 DEF MeetsAll
<1>12. PlaceOf(m) > PlaceOf(b)
  <2>1. m \in Line(doms, fp) /\ fp \in InTree(doms)
    BY <1>4, <1>11
  <2>2. CASE m = fp
    BY <1>6, <2>2
  <2>3. CASE m \in Chain(doms, fp)
    <3>1. PlaceOf(m) > PlaceOf(fp)
      BY <2>1, <2>3, ChainLemma DEF Chains, DomInv
    <3>2. PlaceOf(m) \in Nat
      BY <1>11, PlacesLemma DEF DomInv
    <3> QED BY <1>2, <1>6, <3>1, <3>2
  <2> QED BY <2>1, <2>2, <2>3 DEF Line
<1>13. Moved(doms, doms', b, m)
  BY <1>4, <1>6, <1>10, <1>11, <1>12 DEF Moved
<1>14. Tree(doms) /\ Low(doms) /\ Keeps(doms)
  BY DEF DomInv
<1>15. Tree(doms') /\ InTree(doms') = InTree(doms) \cup {b} /\ Low(doms') /\ Keeps(doms')
  BY <1>2, <1>13, <1>14, MovedTree, MovedLow, MovedKeeps
<1>16. \A c \in Reachable : PlaceOf(c) + (k + 1) > n + 1 => c = b \/ PlaceOf(c) + k > n + 1
  <2> SUFFICES ASSUME NEW c \in Reachable, PlaceOf(c) + (k + 1) > n + 1, ~(PlaceOf(c) + k > n + 1)
               PROVE  c = b
    OBVIOUS
  <2>1. PlaceOf(c) \in Nat /\ post_order[PlaceOf(c)] = c /\ post_order[PlaceOf(b)] = b
    BY <1>2 DEF Numbered
  <2>2. PlaceOf(c) = PlaceOf(b)
    BY <1>2, <2>1
  <2> QED BY <2>1, <2>2
<1>17. Processed(doms', at')
  BY <1>1, <1>2, <1>15, <1>16 DEF Processed, DomInv
<1>18. ASSUME ~changed' PROVE Settled(doms', at')
  <2>1. ~changed /\ doms'[b] = doms[b]
    BY <1>10, <1>18, <1>2
  <2>2. doms' = doms /\ doms[b] = m
    BY <1>2, <1>10, <2>1
  <2>3. Settled(doms, k)
    BY <1>1, <2>1 DEF DomInv
  <2> QED BY <1>1, <1>2, <1>11, <1>16, <2>2, <2>3 DEF Settled
<1>19. changed' \in BOOLEAN
  BY <1>10
<1>20. at' \in Nat /\ 2 <= at' /\ at' <= n + 1
  BY <1>2
<1> QED BY <1>1, <1>15, <1>17, <1>18, <1>19, <1>20 DEF DomInv

\* A round that changed nothing has found the dominators.
Exact(D) ==
  /\ Tree(D) /\ InTree(D) = Reachable
  /\ \A b \in Block : Chain(D, b) = PathStrictDominators(b)
  /\ \A b \in Reachable \ {cfg.entry} : \A p \in Preds(b) : p \in Reachable => D[b] \in Line(D, p)

LEMMA RoundDone ==
  ASSUME CfgOk, Numbered, NEW D, NEW ch, DomInv(D, ch, Len(post_order) + 1)
  PROVE  InTree(D) = Reachable /\ (~ch => Exact(D))
<1>1. Len(post_order) \in Nat
  BY DEF Numbered
<1>2. \A b \in Reachable : PlaceOf(b) + (Len(post_order) + 1) > Len(post_order) + 1
  <2> TAKE b \in Reachable
  <2>1. PlaceOf(b) \in Nat /\ PlaceOf(b) >= 1
    BY DEF Numbered
  <2> QED BY <1>1, <2>1
<1>3. InTree(D) = Reachable
  BY <1>2 DEF DomInv, Processed, Tree
<1>4. ASSUME ~ch PROVE Exact(D)
  <2>1. \A b \in Reachable \ {cfg.entry} : \A p \in Preds(b) : p \in Reachable => D[b] \in Line(D, p)
    BY <1>2, <1>3, <1>4 DEF DomInv, Settled
  <2>2. Chains(D) /\ Tree(D) /\ Keeps(D)
    BY ChainLemma DEF DomInv
  <2>3. ASSUME NEW a \in Block PROVE Around(a) \subseteq {b \in Reachable : a \notin Line(D, b)}
    <3> DEFINE T == {b \in Reachable : a \notin Line(D, b)}
    <3>1. a # cfg.entry => cfg.entry \in T
      BY <2>2, ReachableLemma DEF Line, Chains
    <3>2. ASSUME NEW b \in T, NEW c \in Succs(b), c # a PROVE c \in T
      <4>1. c \in Reachable /\ b \in Reachable /\ a \notin Line(D, b) /\ b \in Preds(c)
        BY <3>2, ReachableLemma, CfgLemma
      <4>2. CASE c = cfg.entry
        BY <2>2, <3>2, <4>1, <4>2 DEF Line, Chains
      <4>3. CASE c # cfg.entry
        <5>1. D[c] \in Line(D, b) /\ Chain(D, c) = {D[c]} \cup Chain(D, D[c])
          BY <1>3, <2>1, <2>2, <4>1, <4>3 DEF Chains
        <5>2. Chain(D, D[c]) \subseteq Chain(D, b)
          BY <1>3, <2>2, <4>1, <5>1 DEF Line, Chains
        <5>3. a \notin Chain(D, c)
          BY <4>1, <5>1, <5>2 DEF Line
        <5> QED BY <3>2, <4>1, <5>3 DEF Line
      <4> QED BY <4>2, <4>3
    <3> HIDE DEF T
    <3>3. Around(a) \subseteq T
      BY <3>1, <3>2, AroundLemma
    <3> QED BY <3>3 DEF T
  <2>4. ASSUME NEW b \in Reachable, NEW a \in Chain(D, b) PROVE a \in PathStrictDominators(b)
    <3>1. a \in Block /\ PlaceOf(a) > PlaceOf(b) /\ PlaceOf(b) \in Nat
      BY <1>3, <2>2, <2>4, PlacesLemma DEF Chains
    <3>2. a # b
      BY <3>1
    <3>3. b \notin Around(a)
      BY <2>3, <2>4, <3>1 DEF Line
    <3> QED BY <2>4, <3>1, <3>2, <3>3, AroundLemma
  <2>5. ASSUME NEW b \in Block PROVE Chain(D, b) = PathStrictDominators(b)
    <3>1. CASE b \in Reachable
      BY <1>3, <2>2, <2>4, <3>1 DEF Keeps
    <3>2. CASE b \notin Reachable
      <4>1. Chain(D, b) = {}
        BY <1>3, <2>2, <3>2 DEF Chains
      <4>2. PathStrictDominators(b) = {}
        BY <3>2 DEF PathStrictDominators, PathDominates
      <4> QED BY <4>1, <4>2
    <3> QED BY <3>1, <3>2
  <2> QED BY <1>3, <2>1, <2>2, <2>5 DEF Exact
<1> QED BY <1>3, <1>4

\* Another round begins with all the reachable blocks.
LEMMA NextRound ==
  ASSUME CfgOk, Numbered, NEW D, NEW ch, DomInv(D, ch, Len(post_order) + 1)
  PROVE  DomInv(D, FALSE, 2)
<1>1. Processed(D, 2)
  BY RoundDone DEF Processed
<1>2. Settled(D, 2)
  BY FirstPlace DEF Settled
<1>3. Len(post_order) \in Nat /\ Len(post_order) >= 1
  BY DEF Numbered
<1>4. 2 \in Nat /\ 2 <= 2 /\ 2 <= Len(post_order) + 1 /\ FALSE \in BOOLEAN
  BY <1>3
<1> QED BY <1>1, <1>2, <1>4 DEF DomInv

-----------------------------------------------------------------------------
(***************************************************************************)
(* The frontiers.                                                          *)
(***************************************************************************)
LEMMA TwoElements ==
  ASSUME NEW S, IsFiniteSet(S), NEW p \in S, NEW q \in S, Cardinality(S) < 2
  PROVE  p = q
<1> SUFFICES ASSUME p # q PROVE FALSE
  OBVIOUS
<1>1. IsFiniteSet(S \ {p}) /\ Cardinality(S \ {p}) = Cardinality(S) - 1
  BY FS_RemoveElement
<1>2. S \ {p} # {}
  OBVIOUS
<1>3. Cardinality(S \ {p}) \in Nat /\ Cardinality(S \ {p}) # 0 /\ Cardinality(S) \in Nat
  BY <1>1, <1>2, FS_EmptySet, FS_CardinalityType
<1> QED BY <1>1, <1>3

LEMMA ExactLemma ==
  ASSUME CfgOk, Numbered, Exact(doms)
  PROVE  /\ Chains(doms) /\ \A b \in Reachable : cfg.entry \in Line(doms, b)
         /\ \A r \in Block : \A p \in Reachable : PathDominates(r, p) <=> r \in Line(doms, p)
<1>1. Chains(doms)
  BY ChainLemma DEF Exact
<1>2. ASSUME NEW b \in Reachable PROVE cfg.entry \in Line(doms, b)
  <2>1. b \in Block
    BY ReachableLemma
  <2> QED BY <2>1, EntryDominates DEF Exact, Line
<1>3. ASSUME NEW r \in Block, NEW p \in Reachable
      PROVE  PathDominates(r, p) <=> r \in Line(doms, p)
  <2>1. p \in Block /\ Chain(doms, p) = PathStrictDominators(p)
    BY ReachableLemma DEF Exact
  <2>2. PathDominates(r, p) <=> p \notin Around(r)
    BY DEF PathDominates, Around
  <2> QED BY <2>1, <2>2, AroundLemma DEF Line
<1> QED BY <1>1, <1>2, <1>3

Stops(y) == {r \in Block : r = doms[y] \/ ~IsReachable(r)}

LEMMA RunnersLeast ==
  ASSUME CfgOk, Exact(doms), NEW y \in Block
  PROVE  /\ Runners(y) \subseteq Block
         /\ \A p \in Preds(y) : p \notin Stops(y) => p \in Runners(y)
         /\ \A r \in Runners(y) : r \notin Stops(y)
         /\ \A r \in Runners(y) : \A x \in ParentIn(doms, r) : x \notin Stops(y) => x \in Runners(y)
         /\ \A T : /\ \A p \in Preds(y) : p \notin Stops(y) => p \in T
                   /\ \A r \in T \cap Runners(y) : \A x \in ParentIn(doms, r) : x \notin Stops(y) => x \in T
                   => Runners(y) \subseteq T
<1> DEFINE up == [r \in Block |-> Up(r)]
<1>0. \A r : Up(r) = ParentIn(doms, r)
  BY DEF Up, IdomOf, ParentIn
<1>1. up \in [Block -> SUBSET Block] /\ \A r \in Block : up[r] = ParentIn(doms, r)
  BY <1>0, ParentLemma DEF Exact, Tree
<1>2. {FirstRunner(p) : p \in Preds(y)} = Preds(y) /\ Preds(y) \in SUBSET Block
  BY CfgLemma DEF FirstRunner
<1>3. Runners(y) = ReachSteps(up, Preds(y), Stops(y))
  BY <1>2 DEF Runners, Stops
<1> HIDE DEF up
<1>4. LeastClosed(Runners(y), Block, up, Preds(y), Stops(y))
  BY <1>1, <1>2, <1>3, ReachLemma, CfgLemma
<1>5. Runners(y) \subseteq Block /\ \A r \in Runners(y) : r \notin Stops(y)
  BY <1>4 DEF LeastClosed
<1>6. \A p \in Preds(y) : p \notin Stops(y) => p \in Runners(y)
  BY <1>4 DEF LeastClosed
<1>7. \A r \in Runners(y) : \A x \in ParentIn(doms, r) : x \notin Stops(y) => x \in Runners(y)
  BY <1>1, <1>4, <1>5 DEF LeastClosed
<1>8. ASSUME NEW T, \A p \in Preds(y) : p \notin Stops(y) => p \in T,
             \A r \in T \cap Runners(y) : \A x \in ParentIn(doms, r) : x \notin Stops(y) => x \in T
      PROVE  Runners(y) \subseteq T
  <2>1. Preds(y) \ Stops(y) \subseteq T
    BY <1>8
  <2>2. \A r \in T \cap Runners(y) : up[r] \ Stops(y) \subseteq T
    BY <1>1, <1>5, <1>8
  <2> QED BY <1>4, <2>1, <2>2 DEF LeastClosed
<1> QED BY <1>5, <1>6, <1>7, <1>8

\* Runners walk below the dominator of the join.
LEMMA RunnersBelow ==
  ASSUME CfgOk, Numbered, Exact(doms), NEW y \in Reachable, y # cfg.entry, NEW r \in Runners(y)
  PROVE  r \in Reachable /\ doms[y] \in Chain(doms, r)
         /\ \E p \in Preds(y) : p \in Reachable /\ r \in Line(doms, p)
<1> DEFINE d == doms[y]
           T == {x \in Reachable : d \in Chain(doms, x) /\ \E p \in Preds(y) : p \in Reachable /\ x \in Line(doms, p)}
<1>0. y \in Block /\ Chains(doms) /\ InTree(doms) = Reachable
  BY ReachableLemma, ExactLemma DEF Exact
<1>1. \A x \in Block : x \notin Stops(y) => x # d /\ x \in Reachable /\ x # cfg.entry
  BY <1>0, ChainIsStrict DEF Stops, InTree
<1>2. ASSUME NEW p \in Preds(y), p \notin Stops(y) PROVE p \in T
  <2>1. p \in Reachable /\ p # d
    BY <1>0, <1>1, <1>2, CfgLemma
  <2>2. d \in Line(doms, p)
    BY <2>1 DEF Exact
  <2> QED BY <2>1, <2>2 DEF Line
<1>3. ASSUME NEW x \in T, NEW z \in ParentIn(doms, x), z \notin Stops(y) PROVE z \in T
  <2>1. x \in Reachable /\ x \in Block /\ x # cfg.entry
    BY <1>3, ReachableLemma, ParentLemma DEF Exact, Tree
  <2>2. z = doms[x] /\ z \in Reachable /\ z \in Block
    BY <1>0, <1>3, <2>1, ReachableLemma, ParentLemma DEF Exact, Tree
  <2>3. z # d /\ Chain(doms, x) = {z} \cup Chain(doms, z)
    BY <1>0, <1>1, <1>3, <2>1, <2>2 DEF Chains
  <2>4. d \in Chain(doms, z)
    BY <2>3
  <2>5. PICK p \in Preds(y) : p \in Reachable /\ x \in Line(doms, p)
    BY <1>3
  <2>6. z \in Line(doms, p)
    BY <1>0, <2>3, <2>5 DEF Line, Chains
  <2> QED BY <2>2, <2>4, <2>5, <2>6
<1>4. r \in T
  <2> HIDE DEF T
  <2> QED BY <1>0, <1>2, <1>3, RunnersLeast
<1> QED BY <1>4

\* And they miss no block of a predecessor's way up to it.
LEMMA RunnersAll ==
  ASSUME CfgOk, Numbered, Exact(doms), NEW y \in Reachable, y # cfg.entry,
         NEW p \in Preds(y), p \in Reachable, NEW r \in Line(doms, p), r \notin Line(doms, doms[y])
  PROVE  r \in Runners(y)
<1> DEFINE d == doms[y]
           T == Runners(y) \cup Line(doms, d)
<1>0. /\ y \in Block /\ p \in Block /\ Chains(doms) /\ InTree(doms) = Reachable
      /\ doms \in [Block -> Block \cup {NoBlock}]
  BY ReachableLemma, ExactLemma DEF Exact, Tree
<1>1. d \in Reachable /\ d \in Block
  BY <1>0, ReachableLemma DEF Exact, Tree
<1>2. cfg.entry \in Line(doms, d) /\ d \in Line(doms, d)
  BY <1>1, ExactLemma DEF Line
<1>3. \A x \in Reachable : x \in Stops(y) => x \in Line(doms, d)
  BY <1>0, <1>2, ChainIsStrict, ReachableLemma DEF Stops, InTree
<1>4. p \in T
  BY <1>0, <1>3, RunnersLeast
<1>5. ASSUME NEW x \in T, x \in Block, NEW z \in ParentIn(doms, x) PROVE z \in T
  <2>1. CASE x \in Runners(y)
    <3>1. x \in Reachable /\ x # cfg.entry
      BY <1>0, <1>5, <2>1, RunnersBelow, ParentLemma
    <3>2. z = doms[x] /\ z \in Reachable
      BY <1>0, <1>5, <3>1, ParentLemma DEF Exact, Tree
    <3> QED BY <1>0, <1>3, <1>5, <2>1, <3>2, RunnersLeast
  <2>2. CASE x \in Line(doms, d)
    BY <1>0, <1>1, <1>5, <2>2, ChainLeast DEF Line
  <2> QED BY <1>5, <2>1, <2>2
<1>6. Chain(doms, p) \subseteq T
  <2>1. Chain(doms, p) \subseteq Block
    BY <1>0, ChainLeast
  <2>2. \A x \in T \cap Chain(doms, p) : ParentIn(doms, x) \subseteq T
    BY <1>5, <2>1
  <2>3. ParentIn(doms, p) \subseteq T
    BY <1>0, <1>4, <1>5
  <2> HIDE DEF T
  <2> QED BY <1>0, <2>2, <2>3, ChainLeast
<1> QED BY <1>4, <1>6 DEF Line

\* A block with one predecessor has the predecessor's dominators, and itself above it.
LEMMA OnePred ==
  ASSUME CfgOk, Numbered, Exact(doms), NEW y \in Reachable, y # cfg.entry, Cardinality(Preds(y)) < 2,
         NEW p \in Preds(y), p \in Reachable
  PROVE  Line(doms, p) \subseteq Chain(doms, y)
<1>0. y \in Block /\ p \in Block /\ Chains(doms) /\ InTree(doms) = Reachable /\ IsFiniteSet(Preds(y))
  BY ReachableLemma, ExactLemma, CfgLemma, FS_Subset DEF Exact
<1>1. \A q \in Preds(y) : q = p
  BY <1>0, TwoElements
<1>2. p # y
  <2>1. PICK q \in Preds(y) : PlaceOf(q) > PlaceOf(y)
    BY DEF Numbered
  <2>2. PlaceOf(y) \in Nat
    BY DEF Numbered
  <2> QED BY <1>1, <2>1, <2>2
<1>3. Around(p) \subseteq Reachable \ {y}
  <2>1. p # cfg.entry => cfg.entry \in Reachable \ {y}
    BY ReachableLemma
  <2>2. ASSUME NEW b \in (Reachable \ {y}) \cap Around(p), NEW c \in Succs(b), c # p
        PROVE  c \in Reachable \ {y}
    <3>1. c \in Reachable /\ b \in Block /\ c \in Block /\ b # p
      BY <2>2, ReachableLemma, AroundLemma
    <3>2. b \in Preds(c)
      BY <2>2, <3>1, CfgLemma
    <3> QED BY <1>1, <3>1, <3>2
  <2> QED BY <2>1, <2>2, AroundLemma
<1>4. p \in Chain(doms, y)
  <2>1. p \in PathStrictDominators(y)
    BY <1>0, <1>2, <1>3, AroundLemma
  <2> QED BY <1>0, <2>1 DEF Exact
<1> QED BY <1>0, <1>4 DEF Chains, Line

LEMMA FrontierLemma ==
  ASSUME CfgOk, Numbered, Exact(doms), NEW y \in Reachable, y # cfg.entry, NEW r \in Block
  PROVE  (~(Cardinality(Preds(y)) < 2) /\ r \in Runners(y)) <=> y \in PathFrontier(r)
<1> DEFINE d == doms[y]
           R == \E p \in Preds(y) : p \in Reachable /\ r \in Line(doms, p)
<1>0. /\ y \in Block /\ Chains(doms) /\ InTree(doms) = Reachable
      /\ Chain(doms, y) = {d} \cup Chain(doms, d)
  BY ReachableLemma, ExactLemma DEF Exact, Chains
<1>1. y \in PathFrontier(r) <=> r \notin Line(doms, d) /\ R
  <2>1. PathStrictDominators(y) = Line(doms, d)
    BY <1>0 DEF Exact, Line
  <2> QED BY <2>1, ExactLemma DEF PathFrontier
<1>2. ASSUME r \in Runners(y) PROVE r \notin Line(doms, d) /\ R
  <2>1. r \in Reachable /\ d \in Chain(doms, r) /\ R
    BY <1>2, RunnersBelow
  <2>2. d \in Reachable /\ PlaceOf(d) > PlaceOf(r) /\ PlaceOf(d) \in Nat /\ PlaceOf(r) \in Nat
    BY <1>0, <2>1 DEF Chains, Numbered
  <2>3. r # d /\ ~(PlaceOf(r) > PlaceOf(d))
    BY <2>2
  <2>4. r \notin Chain(doms, d)
    BY <1>0, <2>2, <2>3 DEF Chains
  <2> QED BY <2>1, <2>3, <2>4 DEF Line
<1>3. ASSUME r \notin Line(doms, d), R PROVE ~(Cardinality(Preds(y)) < 2) /\ r \in Runners(y)
  <2>1. PICK p \in Preds(y) : p \in Reachable /\ r \in Line(doms, p)
    BY <1>3
  <2>2. r \notin Chain(doms, y)
    BY <1>0, <1>3 DEF Line
  <2>3. ~(Cardinality(Preds(y)) < 2)
    BY <2>1, <2>2, OnePred
  <2> QED BY <1>3, <2>1, <2>3, RunnersAll
<1> QED BY <1>1, <1>2, <1>3

-----------------------------------------------------------------------------
(***************************************************************************)
(* The inductive invariant.                                                *)
(***************************************************************************)
\* The frontiers of the first k - 1 blocks of the reverse post-order.
FrontiersOf(k) ==
  [r \in Block |-> {y \in Reachable : /\ PlaceOf(y) + k > Len(post_order) + 1
                                      /\ ~(Cardinality(Preds(y)) < 2) /\ r \in Runners(y)}]

OrderPart == OrderInv(node_state, stack, post_order) /\ (pass # "order" => stack = <<>>)
BeforeDoms == doms = [b \in Block |-> NoBlock] /\ df = [b \in Block |-> {}]
InDoms == DomInv(doms, changed, at) /\ df = [b \in Block |-> {}]
InFrontiers ==
  /\ Exact(doms) /\ at \in Nat /\ 1 <= at /\ at <= Len(post_order) + 1
  /\ df = FrontiersOf(at)
Finished == Exact(doms) /\ df = FrontiersOf(Len(post_order) + 1)

IInv ==
  /\ CfgOk /\ OrderPart /\ pass \in {"order", "doms", "frontiers", "done"}
  /\ pass = "order" => BeforeDoms
  /\ pass = "doms" => InDoms
  /\ pass = "frontiers" => InFrontiers
  /\ pass = "done" => Finished

\* After the order, the blocks are numbered.
LEMMA InvNumbered ==
  ASSUME IInv, stack = <<>>
  PROVE  CfgOk /\ OrderedBy(post_order) /\ Numbered
<1>1. CfgOk /\ OrderInv(node_state, <<>>, post_order)
  BY DEF IInv, OrderPart
<1>2. OrderedBy(post_order)
  BY <1>1, OrderEnds
<1> QED BY <1>1, <1>2, NumberedLemma

LEMMA FrameOrder ==
  ASSUME cfg' = cfg
  PROVE  OrderInv(node_state, stack, post_order)' <=> OrderInv(node_state', stack', post_order')
BY CfgFrame DEF OrderInv, OrderTypes, Returned, OnlyReachable, EntryLast, Waits, Pushes, Ordered, OnTop, Before

LEMMA FramePlaces ==
  ASSUME cfg' = cfg, post_order' = post_order
  PROVE  /\ \A b : PlaceOf(b)' = PlaceOf(b)
         /\ \A D, b : Chain(D, b)' = Chain(D, b) /\ Line(D, b)' = Line(D, b)
         /\ \A b : Below(b)' = Below(b) /\ PathStrictDominators(b)' = PathStrictDominators(b)
<1>1. \A b : PlaceOf(b)' = PlaceOf(b)
  BY DEF PlaceOf
<1>2. \A D, b : Chain(D, b)' = Chain(D, b) /\ Line(D, b)' = Line(D, b)
  BY DEF Chain, Line, ParentIn
<1>3. \A b : Below(b)' = Below(b)
  BY <1>1, CfgFrame DEF Below, NotBelow
<1>4. \A b : PathStrictDominators(b)' = PathStrictDominators(b)
  BY CfgFrame DEF PathStrictDominators, PathDominates
<1> QED BY <1>1, <1>2, <1>3, <1>4

LEMMA FrameDoms ==
  ASSUME cfg' = cfg, post_order' = post_order
  PROVE  /\ DomInv(doms, changed, at)' <=> DomInv(doms', changed', at')
         /\ Exact(doms)' <=> Exact(doms')
<1>1. Tree(doms)' <=> Tree(doms')
  BY CfgFrame, FramePlaces DEF Tree, InTree
<1>2. Low(doms)' <=> Low(doms')
  BY CfgFrame, FramePlaces DEF Low, InTree
<1>3. Keeps(doms)' <=> Keeps(doms')
  BY CfgFrame, FramePlaces DEF Keeps, InTree
<1>4. Processed(doms, at)' <=> Processed(doms', at')
  BY CfgFrame, FramePlaces DEF Processed, InTree
<1>5. Settled(doms, at)' <=> Settled(doms', at')
  BY CfgFrame, FramePlaces DEF Settled, InTree
<1>6. DomInv(doms, changed, at)' <=> DomInv(doms', changed', at')
  BY <1>1, <1>2, <1>3, <1>4, <1>5 DEF DomInv
<1>7. Exact(doms)' <=> Exact(doms')
  BY <1>1, CfgFrame, FramePlaces DEF Exact, InTree
<1> QED BY <1>6, <1>7

LEMMA FrameFrontiers ==
  ASSUME cfg' = cfg, post_order' = post_order, doms' = doms
  PROVE  \A k : FrontiersOf(k)' = FrontiersOf(k)
<1>1. \A b : Runners(b)' = Runners(b)
  BY CfgFrame DEF Runners, Up, IdomOf, IsReachable
<1> QED BY <1>1, CfgFrame, FramePlaces DEF FrontiersOf

LEMMA InvInit == ASSUME Init PROVE IInv
<1>1. /\ CfgOk /\ pass = "order" /\ BeforeDoms
      /\ node_state = [b \in Block |-> "unvisited"] /\ stack = <<cfg.entry>> /\ post_order = <<>>
  BY DEF Init, LoopInit, DomInit, IterInit, CfgOk, BeforeDoms
<1>2. OrderInv(node_state, stack, post_order)
  BY <1>1, OrderStart
<1> QED BY <1>1, <1>2 DEF IInv, OrderPart

LEMMA OrderStep == ASSUME IInv, Order PROVE IInv'
<1>0. /\ CfgOk /\ OrderInv(node_state, stack, post_order) /\ BeforeDoms /\ pass = "order"
      /\ cfg' = cfg /\ pass' = pass /\ doms' = doms /\ df' = df /\ IterStep
  BY DEF IInv, OrderPart, Order, IterStep, Visit, Pop, domVars
<1>1. CfgOk' /\ BeforeDoms'
  BY <1>0, CfgFrame DEF BeforeDoms
<1>2. PICK n \in Nat : n = Len(stack)
  BY <1>0, LenProperties DEF OrderInv, OrderTypes
<1>3. OrderInv(node_state', stack', post_order')
  <2>1. CASE Visit
    <3>1. /\ stack # <<>> /\ node_state[stack[n]] = "unvisited" /\ post_order' = post_order
          /\ node_state' = [node_state EXCEPT ![stack[n]] = "visited"]
      BY <1>2, <2>1 DEF Visit, TopBlock
    <3>2. PICK s \in Ascending({b \in Succs(stack[n]) : node_state'[b] = "unvisited"}) : stack' = stack \o s
      BY <1>2, <2>1 DEF Visit, TopBlock
    <3>3. n > 0
      BY <1>0, <1>2, <3>1, EmptyIff DEF OrderInv, OrderTypes
    <3>4. PICK ns2 : ns2 = node_state'
      OBVIOUS
    <3>5. OrderInv(ns2, stack \o s, post_order)
      BY <1>0, <1>2, <3>1, <3>2, <3>3, <3>4, OrderVisit
    <3> QED BY <3>1, <3>2, <3>4, <3>5
  <2>2. CASE Pop
    <3>1. stack # <<>> /\ node_state[stack[n]] # "unvisited" /\ stack' = SubSeq(stack, 1, n - 1)
      BY <1>2, <2>2 DEF Pop, TopBlock
    <3>2. n > 0
      BY <1>0, <1>2, <3>1, EmptyIff DEF OrderInv, OrderTypes
    <3>3. PICK st2 : st2 = stack'
      OBVIOUS
    <3>4. IF node_state[stack[n]] = "finished" THEN OrderInv(node_state, st2, post_order)
          ELSE OrderInv([node_state EXCEPT ![stack[n]] = "finished"], st2, Append(post_order, stack[n]))
      BY <1>0, <1>2, <3>1, <3>2, <3>3, OrderPop
    <3>5. IF node_state[stack[n]] = "finished" THEN node_state' = node_state /\ post_order' = post_order
          ELSE /\ node_state' = [node_state EXCEPT ![stack[n]] = "finished"]
               /\ post_order' = Append(post_order, stack[n])
      BY <1>2, <2>2 DEF Pop, TopBlock
    <3> QED BY <3>3, <3>4, <3>5
  <2> QED BY <1>0, <2>1, <2>2 DEF IterStep
<1>4. OrderPart'
  BY <1>0, <1>3, FrameOrder DEF OrderPart
<1> QED BY <1>0, <1>1, <1>4 DEF IInv

\* Past the order, the iterator stays as it is.
LEMMA StaysOrdered ==
  ASSUME IInv, stack = <<>>, UNCHANGED <<cfg, node_state, stack, post_order>>
  PROVE  CfgOk' /\ OrderPart'
<1>1. CfgOk' /\ OrderInv(node_state', stack', post_order')
  BY CfgFrame DEF IInv, OrderPart
<1> QED BY <1>1, FrameOrder DEF OrderPart

LEMMA StartDomsStep == ASSUME IInv, StartDoms PROVE IInv'
<1>1. /\ stack = <<>> /\ pass' = "doms" /\ doms' = [doms EXCEPT ![cfg.entry] = cfg.entry]
      /\ changed' = FALSE /\ at' = 2 /\ df' = df /\ BeforeDoms
      /\ UNCHANGED <<cfg, node_state, stack, post_order>>
  BY DEF StartDoms, IterDone, iterVars, IInv
<1>2. CfgOk /\ Numbered
  BY <1>1, InvNumbered
<1>3. doms' = [[b \in Block |-> NoBlock] EXCEPT ![cfg.entry] = cfg.entry]
  BY <1>1 DEF BeforeDoms
<1>4. DomInv(doms', FALSE, 2)
  BY <1>2, <1>3, DomStart
<1>5. InDoms'
  BY <1>1, <1>4, FrameDoms DEF InDoms, BeforeDoms
<1> QED BY <1>1, <1>5, StaysOrdered DEF IInv

LEMMA ProcessStep == ASSUME IInv, ProcessBlock PROVE IInv'
<1>1. /\ stack = <<>> /\ pass = "doms" /\ pass' = pass /\ df' = df /\ InDoms
      /\ UNCHANGED <<cfg, node_state, stack, post_order>>
  BY DEF ProcessBlock, iterVars, IInv, OrderPart
<1>2. CfgOk /\ Numbered
  BY <1>1, InvNumbered
<1>3. DomInv(doms', changed', at')
  BY <1>1, <1>2, DomProcess DEF InDoms
<1>4. InDoms'
  BY <1>1, <1>3, FrameDoms DEF InDoms
<1> QED BY <1>1, <1>4, StaysOrdered DEF IInv

LEMMA EndRoundStep == ASSUME IInv, EndRound PROVE IInv'
<1>1. /\ stack = <<>> /\ pass = "doms" /\ at > Len(rpo) /\ df' = df /\ InDoms /\ changed' = FALSE /\ doms' = doms
      /\ IF changed THEN pass' = pass /\ at' = 2 ELSE pass' = "frontiers" /\ at' = 1
      /\ UNCHANGED <<cfg, node_state, stack, post_order>>
  BY DEF EndRound, RoundStart, iterVars, IInv, OrderPart
<1>2. CfgOk /\ Numbered
  BY <1>1, InvNumbered
<1>3. at = Len(post_order) + 1 /\ Len(post_order) \in Nat
  <2>1. Len(rpo) = Len(post_order) /\ Len(post_order) \in Nat
    BY <1>2, RpoLemma DEF Numbered
  <2>2. at \in Nat /\ at <= Len(post_order) + 1
    BY <1>1 DEF InDoms, DomInv
  <2> QED BY <1>1, <2>1, <2>2
<1>4. DomInv(doms, changed, Len(post_order) + 1)
  BY <1>1, <1>3 DEF InDoms
<1>5. CASE changed
  <2>1. DomInv(doms', FALSE, 2)
    BY <1>1, <1>2, <1>4, NextRound
  <2>2. InDoms'
    BY <1>1, <1>5, <2>1, FrameDoms DEF InDoms
  <2> QED BY <1>1, <1>5, <2>2, StaysOrdered DEF IInv
<1>6. CASE ~changed
  <2>1. Exact(doms)
    BY <1>2, <1>4, <1>6, RoundDone
  <2>2. FrontiersOf(1) = [r \in Block |-> {}]
    <3>1. \A y \in Reachable : ~(PlaceOf(y) + 1 > Len(post_order) + 1)
      BY <1>2 DEF Numbered
    <3> QED BY <3>1 DEF FrontiersOf
  <2>3. df' = FrontiersOf(1)'
    BY <1>1, <2>2, FrameFrontiers DEF InDoms
  <2>4. Exact(doms)'
    BY <1>1, <2>1, FrameDoms
  <2>5. Len(post_order') = Len(post_order) /\ 1 <= Len(post_order) + 1
    BY <1>1, <1>3
  <2>6. InFrontiers'
    BY <1>1, <1>6, <2>3, <2>4, <2>5 DEF InFrontiers
  <2> QED BY <1>1, <1>6, <2>6, StaysOrdered DEF IInv
<1> QED BY <1>5, <1>6

LEMMA FrontierStep == ASSUME IInv, FrontierOf PROVE IInv'
<1>1. PICK n, k, b : n = Len(post_order) /\ k = at /\ b = rpo[at]
  OBVIOUS
<1>2. /\ stack = <<>> /\ pass = "frontiers" /\ k <= Len(rpo) /\ InFrontiers /\ at' = k + 1
      /\ df' = [r \in Block |->
                  IF r \in (IF Cardinality(Preds(b)) < 2 THEN {} ELSE Runners(b)) THEN df[r] \cup {b} ELSE df[r]]
      /\ UNCHANGED <<cfg, node_state, stack, post_order, pass, doms, changed>>
  BY <1>1 DEF FrontierOf, iterVars, IInv, OrderPart
<1>3. CfgOk /\ Numbered
  BY <1>2, InvNumbered
<1>4. /\ n \in Nat /\ k \in Nat /\ 1 <= k /\ k <= n /\ b \in Reachable /\ PlaceOf(b) = n + 1 - k
  <2>1. n \in Nat /\ k \in Nat /\ 1 <= k /\ k <= n
    BY <1>1, <1>2, <1>3, RpoLemma DEF InFrontiers, Numbered
  <2>2. k \in 1..n
    BY <2>1
  <2> QED BY <1>1, <1>3, <2>1, <2>2, RpoLemma
<1>5. \A y \in Reachable : PlaceOf(y) + (k + 1) > n + 1 <=> y = b \/ PlaceOf(y) + k > n + 1
  <2> TAKE y \in Reachable
  <2>1. PlaceOf(y) \in Nat /\ post_order[PlaceOf(y)] = y /\ post_order[PlaceOf(b)] = b
    BY <1>3, <1>4 DEF Numbered
  <2>2. PlaceOf(y) = PlaceOf(b) => y = b
    BY <2>1
  <2> QED BY <1>4, <2>1, <2>2
<1>6. df' = FrontiersOf(k + 1)
  <2>1. ASSUME NEW r \in Block PROVE df'[r] = FrontiersOf(k + 1)[r]
    <3>1. df[r] = {y \in Reachable : /\ PlaceOf(y) + k > n + 1
                                     /\ ~(Cardinality(Preds(y)) < 2) /\ r \in Runners(y)}
      BY <1>1, <1>2 DEF InFrontiers, FrontiersOf
    <3>2. FrontiersOf(k + 1)[r] = {y \in Reachable : /\ PlaceOf(y) + (k + 1) > n + 1
                                     /\ ~(Cardinality(Preds(y)) < 2) /\ r \in Runners(y)}
      BY <1>1 DEF FrontiersOf
    <3>3. df'[r] = IF ~(Cardinality(Preds(b)) < 2) /\ r \in Runners(b) THEN df[r] \cup {b} ELSE df[r]
      BY <1>2
    <3>4. \A y : y \in df'[r] <=> y \in FrontiersOf(k + 1)[r]
      BY <1>4, <1>5, <3>1, <3>2, <3>3
    <3> QED BY <3>4
  <2>2. FrontiersOf(k + 1) = [r \in Block |-> FrontiersOf(k + 1)[r]]
    BY DEF FrontiersOf
  <2>3. df' = [r \in Block |-> df'[r]]
    BY <1>2
  <2> QED BY <2>1, <2>2, <2>3
<1>7. InFrontiers'
  <2>1. Exact(doms)'
    BY <1>2, FrameDoms DEF InFrontiers
  <2>2. at' \in Nat /\ 1 <= at' /\ at' <= Len(post_order') + 1
    BY <1>1, <1>2, <1>4
  <2>3. \A i : FrontiersOf(i)' = FrontiersOf(i)
    BY <1>2, FrameFrontiers
  <2>4. df' = FrontiersOf(at)'
    BY <1>2, <1>6, <2>3
  <2> QED BY <2>1, <2>2, <2>4 DEF InFrontiers
<1> QED BY <1>2, <1>7, StaysOrdered DEF IInv

LEMMA FrontiersDoneStep == ASSUME IInv, FrontiersDone PROVE IInv'
<1>1. /\ stack = <<>> /\ pass = "frontiers" /\ at > Len(rpo) /\ InFrontiers /\ pass' = "done"
      /\ UNCHANGED <<cfg, node_state, stack, post_order, doms, changed, df>>
  BY DEF FrontiersDone, iterVars, IInv, OrderPart
<1>2. CfgOk /\ Numbered
  BY <1>1, InvNumbered
<1>3. at = Len(post_order) + 1
  <2>1. Len(rpo) = Len(post_order) /\ Len(post_order) \in Nat
    BY <1>2, RpoLemma DEF Numbered
  <2>2. at \in Nat /\ at <= Len(post_order) + 1
    BY <1>1 DEF InFrontiers
  <2> QED BY <1>1, <2>1, <2>2
<1>4. Exact(doms)' /\ df' = FrontiersOf(Len(post_order) + 1)
  BY <1>1, <1>3, FrameDoms DEF InFrontiers
<1>5. \A i : FrontiersOf(i)' = FrontiersOf(i)
  BY <1>1, FrameFrontiers
<1>6. Finished'
  BY <1>1, <1>4, <1>5 DEF Finished
<1> QED BY <1>1, <1>6, StaysOrdered DEF IInv

\* The loops and the components leave the order and the dominators as they are.
LEMMA Untouched ==
  ASSUME IInv, UNCHANGED <<cfg, node_state, stack, post_order, pass, doms, changed, df>>,
         pass = "done" \/ at' = at
  PROVE  IInv'
<1>1. CfgOk' /\ OrderPart'
  <2>1. OrderInv(node_state', stack', post_order')
    BY DEF IInv, OrderPart
  <2> QED BY <2>1, FrameOrder, CfgFrame DEF IInv, OrderPart
<1>2. pass = "order" => BeforeDoms'
  BY DEF IInv, BeforeDoms
<1>3. pass = "doms" => InDoms'
  <2> SUFFICES ASSUME pass = "doms" PROVE InDoms'
    OBVIOUS
  <2>1. DomInv(doms', changed', at') /\ df = [b \in Block |-> {}]
    BY DEF IInv, InDoms
  <2> QED BY <2>1, FrameDoms DEF InDoms
<1>4. \A i : FrontiersOf(i)' = FrontiersOf(i)
  BY FrameFrontiers
<1>5. pass = "frontiers" => InFrontiers'
  <2> SUFFICES ASSUME pass = "frontiers" PROVE InFrontiers'
    OBVIOUS
  <2>1. Exact(doms) /\ at' = at /\ at \in Nat /\ 1 <= at /\ at <= Len(post_order) + 1 /\ df = FrontiersOf(at)
    BY DEF IInv, InFrontiers
  <2>2. Exact(doms)'
    BY <2>1, FrameDoms
  <2> QED BY <1>4, <2>1, <2>2 DEF InFrontiers
<1>6. pass = "done" => Finished'
  <2> SUFFICES ASSUME pass = "done" PROVE Finished'
    OBVIOUS
  <2>1. Exact(doms) /\ df = FrontiersOf(Len(post_order) + 1)
    BY DEF IInv, Finished
  <2>2. Exact(doms)'
    BY <2>1, FrameDoms
  <2> QED BY <1>4, <2>1, <2>2 DEF Finished
<1> QED BY <1>1, <1>2, <1>3, <1>5, <1>6 DEF IInv

LEMMA InvNext == ASSUME IInv, [Next]_flowVars PROVE IInv'
<1>1. CASE Dominators
  BY <1>1, OrderStep, StartDomsStep, ProcessStep, EndRoundStep, FrontierStep, FrontiersDoneStep
     DEF Dominators, DomNext
<1>2. CASE LoopNest
  <2>1. /\ UNCHANGED <<cfg, node_state, stack, post_order, pass, doms, changed, df>>
        /\ pass = "done" \/ at' = at
    BY <1>2 DEF LoopNest, LoopNext, FindHeader, HeadersDone, StartLoop, Walk, WalkDone, LoopsDone,
                StartIterate, IterateVisit, IteratePop, dtVars, iterVars, domVars
  <2> QED BY <2>1, Untouched
<1>3. CASE Components
  <2>1. UNCHANGED <<cfg, node_state, stack, post_order>>
    BY <1>3 DEF Components, SccNext, OrderDone, NextRoot, Search, SearchDone, StartTopo, TopoStep, TopoDone, iterVars
  <2>2. UNCHANGED <<pass, doms, changed, at, df>>
    BY <1>3 DEF Components, domVars
  <2> QED BY <2>1, <2>2, Untouched
<1>4. CASE UNCHANGED flowVars
  BY <1>4, Untouched DEF flowVars, dtVars, iterVars, domVars
<1> QED BY <1>1, <1>2, <1>3, <1>4 DEF Next

THEOREM Invariant == Spec => []IInv
<1>1. Init => IInv
  BY InvInit
<1>2. IInv /\ [Next]_flowVars => IInv'
  BY InvNext
<1> QED BY <1>1, <1>2, PTL DEF Spec

LEMMA OrderExactFromInv == ASSUME IInv PROVE OrderExact
<1> SUFFICES ASSUME IterDone PROVE PostOrderExact
  BY DEF OrderExact, PostOrderExact
<1>1. CfgOk /\ OrderedBy(post_order)
  BY InvNumbered DEF IterDone
<1> QED BY <1>1, OrderExactLemma

LEMMA DominatorsFromInv == ASSUME IInv PROVE DominatorsExact
<1>1. ASSUME pass = "doms", NEW b \in Block, doms[b] # NoBlock
      PROVE  doms[doms[b]] # NoBlock /\ PathStrictDominators(b) \subseteq StrictDominators(b)
  <2>1. DomInv(doms, changed, at) /\ b \in InTree(doms)
    BY <1>1 DEF IInv, InDoms, InTree
  <2>2. PathStrictDominators(b) \subseteq StrictDominators(b)
    BY <2>1, ChainIsStrict DEF DomInv, Keeps
  <2>3. doms[doms[b]] # NoBlock
    <3>1. CASE b = cfg.entry
      BY <1>1, <2>1, <3>1 DEF DomInv, Tree
    <3>2. CASE b # cfg.entry
      BY <2>1, <3>2 DEF DomInv, Tree, InTree
    <3> QED BY <3>1, <3>2
  <2> QED BY <2>2, <2>3
<1>2. ASSUME pass = "frontiers", NEW b \in Block
      PROVE  StrictDominators(b) = PathStrictDominators(b) /\ ((doms[b] # NoBlock) = (b \in Reachable))
  <2>1. Exact(doms)
    BY <1>2 DEF IInv, InFrontiers
  <2>2. StrictDominators(b) = PathStrictDominators(b)
    BY <2>1, ChainIsStrict DEF Exact
  <2>3. doms[b] # NoBlock <=> b \in Reachable
    BY <2>1 DEF Exact, InTree
  <2> QED BY <2>2, <2>3
<1> QED BY <1>1, <1>2 DEF DominatorsExact

LEMMA FrontiersFromInv ==
  ASSUME IInv, pass = "done", NEW b \in Block
  PROVE  df[b] \ {cfg.entry} = PathFrontier(b) \ {cfg.entry}
<1>1. stack = <<>> /\ Finished /\ pass # "order"
  BY DEF IInv, OrderPart
<1>2. CfgOk /\ Numbered
  BY <1>1, InvNumbered
<1>3. Exact(doms) /\ df = FrontiersOf(Len(post_order) + 1)
  BY <1>1 DEF Finished
<1>4. \A y \in Reachable : PlaceOf(y) + (Len(post_order) + 1) > Len(post_order) + 1
  <2> TAKE y \in Reachable
  <2>1. PlaceOf(y) \in Nat /\ PlaceOf(y) >= 1 /\ Len(post_order) \in Nat
    BY <1>2 DEF Numbered
  <2> QED BY <2>1
<1>5. df[b] = {y \in Reachable : ~(Cardinality(Preds(y)) < 2) /\ b \in Runners(y)}
  BY <1>3, <1>4 DEF FrontiersOf
<1>6. \A y : y \in df[b] \ {cfg.entry} <=> y \in PathFrontier(b) \ {cfg.entry}
  <2>1. \A y \in PathFrontier(b) : y \in Reachable
    BY DEF PathFrontier
  <2> QED BY <1>2, <1>3, <1>5, <2>1, FrontierLemma
<1> QED BY <1>6

\* The iterator returns the blocks reachable from the entry, each once, and an edge that goes
\* up in its order closes a cycle; in every round of the iteration of Cooper, Harvey and Kennedy
\* a block's way up the tree holds all its dominators, and at the end nothing else; and the
\* walks from the predecessors of joins find exactly the frontiers (CfgPostOrder, DomTree,
\* DFSet), whatever the graph: irreducible, with blocks that cannot be reached, or the reversed
\* graph of PostDomTree.
THEOREM Dominance == Spec => []DominanceExact
<1>1. IInv => DominanceExact
  BY OrderExactFromInv, DominatorsFromInv, FrontiersFromInv DEF DominanceExact, FrontiersExact
<1> QED BY <1>1, Invariant, PTL

-----------------------------------------------------------------------------
(***************************************************************************)
(* Post-dominance: what is reached in a graph against the edges.           *)
(***************************************************************************)
\* Each edge of `next` is in `back` the other way round.
Against(D, next, back) == \A b, c \in D : c \in next[b] => b \in back[c]

\* A path taken backwards, which the end of the path shows: the nodes that lead back to y.
LEMMA PathBack ==
  ASSUME NEW D, IsFiniteSet(D), NEW next \in [D -> SUBSET D], NEW back \in [D -> SUBSET D],
         Against(D, next, back), NEW y \in D, NEW avoid, y \notin avoid,
         NEW x \in ReachSteps(next, {y}, avoid)
  PROVE  y \in ReachSteps(back, {x}, avoid)
<1> DEFINE R == ReachSteps(next, {y}, avoid)
           B(v) == ReachSteps(back, {v}, avoid)
           T == {v \in D : y \in B(v)}
<1>1. LeastClosed(R, D, next, {y}, avoid)
  BY ReachLemma
<1>2. \A v \in D : LeastClosed(B(v), D, back, {v}, avoid)
  BY ReachLemma
<1> HIDE DEF R, B
<1>3. {y} \ avoid \subseteq T
  <2>1. y \in B(y)
    BY <1>2 DEF LeastClosed
  <2> QED BY <2>1
<1>4. ASSUME NEW b \in T \cap R, NEW c \in next[b] \ avoid PROVE c \in T
  <2>1. b \in D /\ c \in D /\ b \notin avoid /\ y \in B(b)
    BY <1>1, <1>4 DEF LeastClosed
  <2>2. b \in B(c)
    <3>1. b \in back[c]
      BY <1>4, <2>1 DEF Against
    <3>2. c \in B(c)
      BY <1>2, <1>4, <2>1 DEF LeastClosed
    <3> QED BY <1>2, <2>1, <3>1, <3>2 DEF LeastClosed
  <2>3. B(b) \subseteq B(c)
    <3>1. {b} \ avoid \subseteq B(c) /\ \A v \in B(c) \cap B(b) : back[v] \ avoid \subseteq B(c)
      BY <1>2, <2>1, <2>2 DEF LeastClosed
    <3> QED BY <1>2, <2>1, <3>1 DEF LeastClosed
  <2> QED BY <2>1, <2>3
<1>5. R \subseteq T
  BY <1>1, <1>3, <1>4 DEF LeastClosed
<1> QED BY <1>5 DEF R, B

\* Nothing is reached from where only avoided nodes are.
LEMMA NoStart ==
  ASSUME NEW D, IsFiniteSet(D), NEW next \in [D -> SUBSET D], NEW y \in D, NEW avoid, y \in avoid
  PROVE  ReachSteps(next, {y}, avoid) = {}
<1>1. LeastClosed(ReachSteps(next, {y}, avoid), D, next, {y}, avoid)
  BY ReachLemma
<1> QED BY <1>1 DEF LeastClosed

\* The edges of the function and those of its reversed graph.
LEMMA ForwardLemma ==
  ASSUME CfgOk
  PROVE  /\ ForwardSuccs \in [Block -> SUBSET Block] /\ \A b \in Block : ForwardSuccs[b] = Preds(b)
         /\ Against(Block, ForwardSuccs, cfg.succs) /\ Against(Block, cfg.succs, ForwardSuccs)
<1>1. ForwardSuccs \in [Block -> SUBSET Block] /\ \A b \in Block : ForwardSuccs[b] = Preds(b)
  BY DEF ForwardSuccs, Preds
<1>2. Against(Block, ForwardSuccs, cfg.succs) /\ Against(Block, cfg.succs, ForwardSuccs)
  BY <1>1, CfgLemma DEF Against, Succs
<1> QED BY <1>1, <1>2

\* The ways of the function from b to the exit are those of the reversed graph from its entry
\* to b.
LEMMA WaysOut ==
  ASSUME CfgOk, Reversed, NEW a \in Block, NEW b \in Block
  PROVE  /\ Ends(b) <=> b \in Reachable
         /\ PathPostDominates(a, b) <=> PathDominates(a, b)
<1>1. cfg.entry = DummyExit /\ cfg.entry \in Block /\ IsFiniteSet(Block) /\ cfg.succs \in [Block -> SUBSET Block]
  BY CfgLemma DEF Reversed
<1>2. ASSUME NEW avoid, b \notin avoid, cfg.entry \notin avoid
      PROVE  cfg.entry \in ReachSteps(ForwardSuccs, {b}, avoid) <=> b \in ReachSteps(cfg.succs, {cfg.entry}, avoid)
  BY <1>1, <1>2, ForwardLemma, PathBack
<1>3. Ends(b) <=> b \in Reachable
  BY <1>1, <1>2 DEF Ends, Reachable
<1>4. cfg.entry \in ReachSteps(ForwardSuccs, {b}, {a}) <=> b \in ReachSteps(cfg.succs, {cfg.entry}, {a})
  <2>1. CASE a = b
    <3>1. ReachSteps(ForwardSuccs, {b}, {a}) = {}
      BY <1>1, <2>1, ForwardLemma, NoStart
    <3>2. b \notin ReachSteps(cfg.succs, {cfg.entry}, {a})
      BY <2>1, AroundLemma DEF Around
    <3> QED BY <3>1, <3>2
  <2>2. CASE a = cfg.entry
    <3>1. ReachSteps(cfg.succs, {cfg.entry}, {a}) = {}
      BY <1>1, <2>2, NoStart
    <3>2. LeastClosed(ReachSteps(ForwardSuccs, {b}, {a}), Block, ForwardSuccs, {b}, {a})
      BY <1>1, ForwardLemma, ReachLemma
    <3> QED BY <2>2, <3>1, <3>2 DEF LeastClosed
  <2>3. CASE a # b /\ a # cfg.entry
    BY <1>2, <2>3
  <2> QED BY <2>1, <2>2, <2>3
<1> QED BY <1>1, <1>3, <1>4 DEF PathPostDominates, PathDominates

\* The function may be skipped: from the exit one gets straight back to the dummy entry, past
\* every block of the function.
LEMMA SkipLemma ==
  ASSUME CfgOk, Reversed
  PROVE  DummyEntry \in Succs(cfg.entry)
<1>1. PICK fn \in Reversals : cfg = PostGraph(fn)
  BY ReversalsAssumption DEF CfgOk, Reversed
<1>2. DummyEntry \in Block /\ DummyExit \in Block /\ DummyExit \in DummySuccs(fn)
  BY DummyAssumption DEF DummySuccs
<1>3. cfg.succs[DummyExit] =
        {p \in Block : DummyExit \in CASE p = DummyEntry -> DummySuccs(fn)
                                       [] p = DummyExit -> {}
                                       [] p \in fn.exits -> {DummyExit}
                                       [] OTHER -> fn.succs[p]}
  BY <1>1, <1>2 DEF PostGraph
<1>4. (CASE DummyEntry = DummyEntry -> DummySuccs(fn)
         [] DummyEntry = DummyExit -> {}
         [] DummyEntry \in fn.exits -> {DummyExit}
         [] OTHER -> fn.succs[DummyEntry]) = DummySuccs(fn)
  <2>1. DummyEntry \notin fn.exits /\ DummyEntry # DummyExit
    BY ReversalsAssumption, DummyAssumption
  <2> QED BY <2>1
<1> QED BY <1>2, <1>3, <1>4 DEF Reversed, Succs

\* What no block of the function dominates in the reversed graph.
LEMMA NotDominated ==
  ASSUME CfgOk, Reversed, NEW b \in Real
  PROVE  ~PathDominates(b, DummyExit) /\ ~PathDominates(b, DummyEntry)
<1>1. b # DummyExit /\ b # DummyEntry /\ cfg.entry = DummyExit
  BY DummyAssumption DEF Reversed
<1>2. DummyExit \in Around(b)
  BY <1>1, AroundLemma
<1>3. DummyEntry \in Around(b)
  BY <1>1, <1>2, AroundLemma, SkipLemma
<1> QED BY <1>2, <1>3 DEF PathDominates, Around

\* When all is done, tree and frontiers are those of the paths.
LEMMA AtTheEnd ==
  ASSUME IInv, pass = "done"
  PROVE  /\ CfgOk
         /\ \A b \in Block : /\ IsReachable(b) <=> b # cfg.entry /\ b \in Reachable
                             /\ StrictDominators(b) = PathStrictDominators(b)
                             /\ df[b] \subseteq Block
                             /\ df[b] \ {cfg.entry} = PathFrontier(b) \ {cfg.entry}
<1>1. CfgOk /\ Exact(doms) /\ df = FrontiersOf(Len(post_order) + 1)
  BY DEF IInv, Finished
<1>2. ASSUME NEW b \in Block
      PROVE  /\ IsReachable(b) <=> b # cfg.entry /\ b \in Reachable
             /\ StrictDominators(b) = PathStrictDominators(b)
  BY <1>1, ChainIsStrict DEF Exact, InTree
<1>3. \A b \in Block : df[b] \subseteq Block
  BY <1>1, ReachableLemma DEF FrontiersOf
<1>4. \A b \in Block : df[b] \ {cfg.entry} = PathFrontier(b) \ {cfg.entry}
  BY FrontiersFromInv
<1> QED BY <1>1, <1>2, <1>3, <1>4

\* A block in the frontier, in words of the function.
LEMMA DecidesLemma ==
  ASSUME IInv, pass = "done", Reversed, NEW b \in Real, NEW c \in Block, c # DummyExit
  PROVE  c \in df[b] <=> /\ \E s \in ForwardSuccs[c] : PathPostDominates(b, s)
                         /\ c = b \/ ~PathPostDominates(b, c)
<1>0. CfgOk /\ b \in Block /\ cfg.entry = DummyExit
  BY AtTheEnd, DummyAssumption DEF Reversed
<1>1. c \in df[b] <=> c \in PathFrontier(b)
  BY <1>0, AtTheEnd
<1>2. b \in PathStrictDominators(c) <=> c # b /\ PathPostDominates(b, c)
  BY <1>0, WaysOut DEF PathStrictDominators
<1>3. ForwardSuccs[c] = Preds(c) /\ Preds(c) \subseteq Block
  BY <1>0, ForwardLemma, CfgLemma
<1>4. \A p \in Preds(c) : PathPostDominates(b, p) <=> p \in Reachable /\ PathDominates(b, p)
  BY <1>0, <1>3, WaysOut DEF PathDominates
<1>5. \A p \in Preds(c) : p \in Reachable => c \in Reachable
  BY <1>0, <1>3, CfgLemma, ReachableLemma
<1> QED BY <1>1, <1>2, <1>3, <1>4, <1>5 DEF PathFrontier

LEMMA ControlFromInv == ASSUME IInv PROVE ControlDependence
<1> SUFFICES ASSUME pass = "done", Reversed, NEW b \in Real
             PROVE  /\ IsReachable(b) = Ends(b)
                    /\ \A a \in Real \ {b} : StrictlyDominates(a, b) = PathPostDominates(a, b)
                    /\ Frontiers(b) =
                          {c \in Real : /\ \E s \in ForwardSuccs[c] : PathPostDominates(b, s)
                                        /\ c = b \/ ~PathPostDominates(b, c)}
                    /\ DummyEntry \in df[b] <=>
                          \E e \in ForwardSuccs[DummyEntry] \ {DummyExit} : PathPostDominates(b, e)
  BY DEF ControlDependence
<1>0. /\ CfgOk /\ cfg.entry = DummyExit /\ b \in Block /\ Real \subseteq Block
      /\ DummyEntry \in Block /\ DummyEntry # DummyExit /\ b # DummyEntry /\ b # DummyExit
      /\ DummyEntry \notin Real /\ DummyExit \notin Real
      /\ \A c \in Block : c \in Real \/ c = DummyEntry \/ c = DummyExit
  BY AtTheEnd, DummyAssumption DEF Reversed
<1>1. IsReachable(b) = Ends(b)
  <2>1. IsReachable(b) <=> Ends(b)
    BY <1>0, AtTheEnd, WaysOut
  <2> QED BY <2>1 DEF IsReachable, Ends
<1>2. ASSUME NEW a \in Real \ {b} PROVE StrictlyDominates(a, b) = PathPostDominates(a, b)
  <2>1. a \in StrictDominators(b) <=> PathPostDominates(a, b)
    BY <1>0, AtTheEnd, WaysOut DEF PathStrictDominators
  <2> QED BY <2>1 DEF StrictlyDominates, PathPostDominates
<1>3. \A c : c \in Frontiers(b) <=> /\ c \in Real
                                    /\ \E s \in ForwardSuccs[c] : PathPostDominates(b, s)
                                    /\ c = b \/ ~PathPostDominates(b, c)
  <2>1. \A c : c \in Frontiers(b) <=> c \in Real /\ c \in df[b]
    BY <1>0, AtTheEnd DEF Frontiers
  <2>2. \A c \in Real : c \in Block /\ c # DummyExit
    BY <1>0
  <2> QED BY <2>1, <2>2, DecidesLemma
<1>4. DummyEntry \in df[b] <=>
        \E e \in ForwardSuccs[DummyEntry] \ {DummyExit} : PathPostDominates(b, e)
  <2>1. DummyEntry \in df[b] <=> /\ \E s \in ForwardSuccs[DummyEntry] : PathPostDominates(b, s)
                                 /\ DummyEntry = b \/ ~PathPostDominates(b, DummyEntry)
    BY <1>0, DecidesLemma
  <2>2. ~PathPostDominates(b, DummyExit) /\ ~PathPostDominates(b, DummyEntry)
    BY <1>0, WaysOut, NotDominated, CfgLemma
  <2> QED BY <2>1, <2>2
<1> QED BY <1>1, <1>2, <1>3, <1>4

\* What the post-dominator tree and the post-dominance frontiers say of every function: a block
\* is reachable in the reversed graph exactly if the function can end from it, one strictly
\* post-dominates another exactly if no way from the other to an exit avoids it, and the
\* frontier of a block holds exactly the branches that decide whether it runs, and the dummy
\* entry exactly if entering the function decides it (PostDomTree::compute, PDFSet).
THEOREM PostDominance == Spec => []ControlDependence
<1>1. IInv => ControlDependence
  BY ControlFromInv
<1> QED BY <1>1, Invariant, PTL

-----------------------------------------------------------------------------
(***************************************************************************)
(* Strongly connected components: what the iterator's order says of them.  *)
(***************************************************************************)
LEMMA ReachedLeast ==
  ASSUME CfgOk, NEW b \in Block, NEW T, Succs(b) \subseteq T,
         \A c \in T \cap ReachedFrom(b) : Succs(c) \subseteq T
  PROVE  ReachedFrom(b) \subseteq T
<1>1. LeastClosed(ReachedFrom(b), Block, cfg.succs, Succs(b), {})
  BY CfgLemma, CfgReach DEF ReachedFrom
<1>2. Succs(b) \ {} = Succs(b) /\ \A c : cfg.succs[c] \ {} = Succs(c)
  BY DEF Succs
<1> QED BY <1>1, <1>2 DEF LeastClosed

\* What can be reached from what can be reached.
LEMMA ReachedOn ==
  ASSUME CfgOk, NEW b \in Block, NEW c \in ReachedFrom(b)
  PROVE  c \in Block /\ ReachedFrom(c) \subseteq ReachedFrom(b)
<1>1. c \in Block /\ Succs(c) \subseteq ReachedFrom(b)
  BY ReachedFromLemma
<1>2. \A d \in ReachedFrom(b) : Succs(d) \subseteq ReachedFrom(b)
  BY ReachedFromLemma
<1> QED BY <1>1, <1>2, ReachedLeast

\* Over the first edge, then on.
LEMMA ReachedFirst ==
  ASSUME CfgOk, NEW b \in Block, NEW c \in ReachedFrom(b)
  PROVE  \E s \in Succs(b) : s \in Block /\ (c = s \/ c \in ReachedFrom(s))
<1> DEFINE T == {d \in ReachedFrom(b) : \E s \in Succs(b) : s \in Block /\ (d = s \/ d \in ReachedFrom(s))}
<1>1. Succs(b) \subseteq Block /\ Succs(b) \subseteq ReachedFrom(b)
  BY CfgLemma, ReachedFromLemma
<1>2. Succs(b) \subseteq T
  BY <1>1
<1>3. ASSUME NEW d \in T, NEW e \in Succs(d) PROVE e \in T
  <2>1. PICK s \in Succs(b) : s \in Block /\ (d = s \/ d \in ReachedFrom(s))
    BY <1>3
  <2>2. e \in ReachedFrom(s)
    BY <2>1, ReachedFromLemma
  <2>3. e \in ReachedFrom(b)
    BY <1>3, ReachedFromLemma
  <2> QED BY <2>1, <2>2, <2>3
<1> HIDE DEF T
<1>4. ReachedFrom(b) \subseteq T
  BY <1>2, <1>3, ReachedLeast
<1> QED BY <1>4 DEF T

\* Being on one cycle is an equivalence.
LEMMA CycleLemma ==
  ASSUME CfgOk
  PROVE  /\ \A a, b : OnCycle(a, b) => OnCycle(b, a)
         /\ \A a, b, c \in Block : OnCycle(a, b) /\ OnCycle(b, c) => OnCycle(a, c)
         /\ \A a, b \in Block : OnCycle(a, b) => ReachedFrom(a) = ReachedFrom(b)
         /\ \A a, b \in Block : OnCycle(a, b) /\ a \in Reachable => b \in Reachable
<1>1. ASSUME NEW a \in Block, NEW b \in Block, OnCycle(a, b)
      PROVE  ReachedFrom(a) = ReachedFrom(b)
  BY <1>1, ReachedOn DEF OnCycle
<1>2. ASSUME NEW a \in Block, NEW b \in Block, NEW c \in Block, OnCycle(a, b), OnCycle(b, c)
      PROVE  OnCycle(a, c)
  <2>1. CASE a = b \/ b = c
    BY <1>2, <2>1
  <2>2. CASE a # b /\ b # c
    <3>1. b \in ReachedFrom(a) /\ b \in ReachedFrom(c) /\ a \in ReachedFrom(b) /\ c \in ReachedFrom(b)
      BY <1>2, <2>2 DEF OnCycle
    <3> QED BY <3>1, ReachedOn DEF OnCycle
  <2> QED BY <2>1, <2>2
<1>3. ASSUME NEW a \in Block, NEW b \in Block, OnCycle(a, b), a \in Reachable PROVE b \in Reachable
  <2>1. ReachedFrom(a) \subseteq Reachable
    <3>1. Succs(a) \subseteq Reachable /\ \A c \in Reachable \cap ReachedFrom(a) : Succs(c) \subseteq Reachable
      BY <1>3, ReachableLemma
    <3> QED BY <3>1, ReachedLeast
  <2> QED BY <1>3, <2>1 DEF OnCycle
<1>4. \A a, b : OnCycle(a, b) => OnCycle(b, a)
  BY DEF OnCycle
<1> QED BY <1>1, <1>2, <1>3, <1>4

\* Whatever u leads to was returned before some block of u's component, or is one.
Leads(po, u) == \A v \in ReachedFrom(u) : \E w \in Block : OnCycle(u, w) /\ (v = w \/ Before(po, v, w))

\* While a block of its component is still visited, nothing is said of a finished block.
Anchored(ns, po) ==
  \A u \in Block : ns[u] = "finished" =>
    (\E w \in Block : ns[w] = "visited" /\ OnCycle(u, w)) \/ Leads(po, u)

LEMMA LeadsOn ==
  ASSUME NEW po \in Seq(Block), NEW top \in Block, NEW u, Leads(po, u)
  PROVE  Leads(Append(po, top), u)
<1>1. \A b, c : Before(po, b, c) => Before(Append(po, top), b, c)
  BY BeforeLemma DEF Returning
<1> QED BY <1>1 DEF Leads

\* A visited block leads to the top of the stack.
LEMMA VisitedLeads ==
  ASSUME CfgOk, NEW ns, NEW st, NEW po, OrderInv(ns, st, po),
         NEW n \in Nat, n = Len(st), n > 0, ns[st[n]] = "visited",
         NEW x \in Block, ns[x] = "visited", x # st[n]
  PROVE  st[n] \in ReachedFrom(x)
<1>1. DOMAIN st = 1..n /\ n \in 1..n
  BY LenProperties DEF OrderInv, OrderTypes
<1>2. PICK k \in 1..n : st[k] = x /\ OnTop(ns, st, k)
  BY <1>1 DEF OrderInv, Waits
<1>3. k < n
  BY <1>2
<1> QED BY <1>1, <1>2, <1>3 DEF OrderInv, Pushes

\* The component of a block is anchored until its first block is returned.
LEMMA AnchoredPop ==
  ASSUME CfgOk, NEW ns, NEW st, NEW po, OrderInv(ns, st, po), Anchored(ns, po),
         NEW n \in Nat, n = Len(st), n > 0, ns[st[n]] = "visited",
         NEW ns2, ns2 = [ns EXCEPT ![st[n]] = "finished"]
  PROVE  Anchored(ns2, Append(po, st[n]))
<1>0. /\ ns \in [Block -> States] /\ st \in Seq(Block) /\ po \in Seq(Block)
      /\ DOMAIN st = 1..n /\ n \in 1..n
  BY LenProperties DEF OrderInv, OrderTypes
<1>1. PICK top \in Block : top = st[n]
  BY <1>0, ElementOfSeq
<1>2. /\ ns2 \in [Block -> States] /\ ns2[top] = "finished" /\ ns[top] = "visited"
      /\ \A b \in Block : b # top => ns2[b] = ns[b]
      /\ "unvisited" # "visited" /\ "unvisited" # "finished" /\ "visited" # "finished"
  BY <1>0, <1>1 DEF States
<1>3. PICK st2, po2 : st2 = SubSeq(st, 1, n - 1) /\ po2 = Append(po, top)
  OBVIOUS
<1>4. OrderInv(ns2, st2, po2)
  <2>1. ns[st[n]] # "unvisited" /\ ns[st[n]] # "finished"
    BY <1>1, <1>2
  <2> QED BY <1>1, <1>3, <2>1, OrderPop
<1>5. Returning(po, top, po2)
  BY <1>0, <1>3, BeforeLemma
<1>6. ASSUME ~ \E x \in Block : ns2[x] = "visited" /\ OnCycle(top, x),
             NEW v \in ReachedFrom(top)
      PROVE  ns2[v] = "finished"
  <2> DEFINE T == {b \in Block : ns2[b] = "finished"}
  <2>1. ASSUME NEW b \in T, b = top \/ b \in ReachedFrom(top), NEW s \in Succs(b) PROVE s \in T
    <3>1. s \in Block /\ ns2[s] # "unvisited"
      BY <1>4, <2>1, CfgLemma DEF OrderInv, Waits
    <3>2. s \in ReachedFrom(top)
      BY <2>1, ReachedFromLemma
    <3>3. ns2[s] # "visited"
      <4> SUFFICES ASSUME ns2[s] = "visited" PROVE FALSE
        OBVIOUS
      <4>1. s # top /\ ns[s] = "visited"
        BY <1>2, <3>1
      <4>2. top \in ReachedFrom(s)
        BY <1>1, <1>2, <3>1, <4>1, VisitedLeads
      <4> QED BY <1>6, <3>1, <3>2, <4>2 DEF OnCycle
    <3> QED BY <1>2, <3>1, <3>3 DEF States
  <2>2. top \in T
    BY <1>2
  <2> HIDE DEF T
  <2>3. ReachedFrom(top) \subseteq T
    BY <2>1, <2>2, ReachedLeast
  <2> QED BY <1>6, <2>3 DEF T
<1>7. ASSUME NEW u \in Block, OnCycle(u, top)
      PROVE  (\E w \in Block : ns2[w] = "visited" /\ OnCycle(u, w)) \/ Leads(po2, u)
  <2>1. CASE \E x \in Block : ns2[x] = "visited" /\ OnCycle(top, x)
    BY <1>7, <2>1, CycleLemma
  <2>2. CASE ~ \E x \in Block : ns2[x] = "visited" /\ OnCycle(top, x)
    <3>1. ASSUME NEW v \in ReachedFrom(u) PROVE v = top \/ Before(po2, v, top)
      <4>1. v \in ReachedFrom(top)
        BY <1>7, <3>1, CycleLemma
      <4>2. v \in Block /\ ns2[v] = "finished"
        BY <1>6, <2>2, <4>1, ReachedOn
      <4>3. v # top => v \in ToSet(po)
        BY <1>2, <4>2 DEF OrderInv, Returned
      <4> QED BY <1>5, <4>3 DEF Returning
    <3> QED BY <1>7, <3>1 DEF Leads
  <2> QED BY <2>1, <2>2
<1>8. ASSUME NEW u \in Block, ns2[u] = "finished"
      PROVE  (\E w \in Block : ns2[w] = "visited" /\ OnCycle(u, w)) \/ Leads(po2, u)
  <2>1. CASE OnCycle(u, top)
    BY <1>7, <2>1
  <2>2. CASE ~OnCycle(u, top)
    <3>1. u # top /\ ns[u] = "finished"
      BY <1>2, <1>8, <2>2 DEF OnCycle
    <3>2. CASE Leads(po, u)
      BY <1>0, <1>3, <3>2, LeadsOn
    <3>3. CASE \E w \in Block : ns[w] = "visited" /\ OnCycle(u, w)
      BY <1>2, <2>2, <3>3
    <3> QED BY <3>1, <3>2, <3>3 DEF Anchored
  <2> QED BY <2>1, <2>2
<1> QED BY <1>1, <1>3, <1>8 DEF Anchored

LEMMA AnchoredVisit ==
  ASSUME NEW ns, NEW b \in Block, NEW po, ns \in [Block -> States], Anchored(ns, po),
         ns[b] = "unvisited", NEW ns2, ns2 = [ns EXCEPT ![b] = "visited"]
  PROVE  Anchored(ns2, po)
<1>1. /\ ns2[b] = "visited" /\ \A c \in Block : c # b => ns2[c] = ns[c]
      /\ "unvisited" # "visited" /\ "unvisited" # "finished" /\ "visited" # "finished"
  OBVIOUS
<1> QED BY <1>1 DEF Anchored

\* At the end every block is led by the first block of its component.
Leading ==
  \A u \in Reachable : \A v \in ReachedFrom(u) :
    \E w \in Reachable : OnCycle(u, w) /\ (v = w \/ PlaceOf(v) < PlaceOf(w))

LEMMA LeadingLemma ==
  ASSUME CfgOk, OrderInv(node_state, <<>>, post_order), Anchored(node_state, post_order)
  PROVE  Leading
<1>1. OrderedBy(post_order)
  BY OrderEnds
<1>2. \A b \in Block : node_state[b] # "visited"
  <2>1. DOMAIN <<>> = {}
    OBVIOUS
  <2> QED BY <2>1 DEF OrderInv, Waits
<1>3. ASSUME NEW u \in Reachable, NEW v \in ReachedFrom(u)
      PROVE  \E w \in Reachable : OnCycle(u, w) /\ (v = w \/ PlaceOf(v) < PlaceOf(w))
  <2>1. u \in Block /\ node_state[u] = "finished"
    BY <1>1, ReachableLemma DEF OrderInv, Returned, OrderedBy
  <2>2. PICK w \in Block : OnCycle(u, w) /\ (v = w \/ Before(post_order, v, w))
    BY <1>2, <1>3, <2>1 DEF Anchored, Leads
  <2>3. w \in Reachable
    BY <2>1, <2>2, CycleLemma
  <2> QED BY <1>1, <2>2, <2>3, BeforePlaces
<1> QED BY <1>3 DEF Leading

-----------------------------------------------------------------------------
(***************************************************************************)
(* The searches for components.  B, n, sn, r and wk stand for              *)
(* block_to_scc, scc_count, seen, root and work.                           *)
(***************************************************************************)
\* The components numbered up to n are those of the paths, and what leads to a component is
\* in one with a number not larger.
Grouped(B, n) ==
  \A a \in Block : B[a] \in 1..n => a \in Reachable /\ \A b \in Reachable : B[b] = B[a] <=> OnCycle(a, b)
Used(B, n) == \A c \in 1..n : \E b \in Block : B[b] = c
Lower(B, n) == \A a \in Block : B[a] \in 1..n => \A p \in Preds(a) : p \in Reachable => B[p] \in 1..B[a]
Groups(B, n) == n \in Nat /\ Grouped(B, n) /\ Used(B, n) /\ Lower(B, n)

\* Between searches, the blocks up to the root are in components.
Between(B, n, sn, r) ==
  /\ B \in [Block -> 0..n] /\ Groups(B, n)
  /\ sn = {b \in Block : B[b] \in 1..n}
  /\ r \in Nat /\ 1 <= r /\ r <= Len(post_order) + 1
  /\ \A b \in Reachable : PlaceOf(b) + r > Len(post_order) + 1 => b \in sn

\* The search from x meets only blocks of its component, which has none of the earlier numbers.
Marked(B, n, wk) == {b \in Block : B[b] = n} \cup ToSet(wk)
Searching(B, n, sn, r, wk, x) ==
  /\ B \in [Block -> 0..n] /\ n \in Nat \ {0} /\ Groups(B, n - 1) /\ wk \in Seq(Block)
  /\ sn = {b \in Block : B[b] \in 1..n} \cup ToSet(wk)
  /\ r \in Nat /\ 1 <= r /\ r <= Len(post_order) + 1
  /\ x \in Reachable /\ PlaceOf(x) + r = Len(post_order) + 2
  /\ \A b \in Reachable : PlaceOf(b) > PlaceOf(x) => B[b] \in 1..(n - 1)
  /\ x \in Marked(B, n, wk)
  /\ \A b \in Marked(B, n, wk) : b \in Reachable /\ OnCycle(x, b)
  /\ \A b \in Reachable : OnCycle(x, b) => B[b] \notin 1..(n - 1)
  /\ \A b \in Block : B[b] = n => \A p \in Preds(b) : p \in Reachable => p \in sn

\* The blocks are taken in reverse post-order.
LEMMA RootLemma ==
  ASSUME CfgOk, Numbered, NEW r \in 1..Len(post_order)
  PROVE  /\ Len(cfg_rpo) = Len(post_order) /\ Root(r) \in Reachable
         /\ PlaceOf(Root(r)) + r = Len(post_order) + 1
<1>1. cfg_rpo = rpo
  BY DEF cfg_rpo, rpo
<1>2. PICK n \in Nat : n = Len(post_order)
  BY DEF Numbered
<1>3. rpo[r] \in Reachable /\ PlaceOf(rpo[r]) = n + 1 - r
  BY <1>2, RpoLemma
<1>4. (n + 1 - r) + r = n + 1
  BY <1>2
<1> QED BY <1>1, <1>2, <1>3, <1>4, RpoLemma DEF Root

LEMMA RootSeen ==
  ASSUME CfgOk, Numbered, NEW B, NEW n, NEW sn, NEW r, Between(B, n, sn, r),
         r <= Len(post_order), Root(r) \in sn
  PROVE  Between(B, n, sn, r + 1)
<1>1. PICK N \in Nat : N = Len(post_order)
  BY DEF Numbered
<1>2. r \in Nat /\ 1 <= r /\ r <= N /\ r \in 1..N /\ r + 1 \in Nat /\ 1 <= r + 1 /\ r + 1 <= N + 1
  BY <1>1 DEF Between
<1>3. Root(r) \in Reachable /\ PlaceOf(Root(r)) + r = N + 1
  BY <1>1, <1>2, RootLemma
<1>4. ASSUME NEW b \in Reachable, PlaceOf(b) + (r + 1) > N + 1 PROVE b \in sn
  <2>1. PlaceOf(b) \in Nat /\ PlaceOf(Root(r)) \in Nat
    BY <1>3 DEF Numbered
  <2>2. PlaceOf(b) + r > N + 1 \/ PlaceOf(b) = PlaceOf(Root(r))
    BY <1>2, <1>3, <1>4, <2>1
  <2>3. PlaceOf(b) = PlaceOf(Root(r)) => b = Root(r)
    BY <1>3 DEF Numbered
  <2> QED BY <1>1, <2>2, <2>3 DEF Between
<1> QED BY <1>1, <1>2, <1>4 DEF Between

LEMMA RootFound ==
  ASSUME CfgOk, Numbered, NEW B, NEW n, NEW sn, NEW r, Between(B, n, sn, r),
         r <= Len(post_order), NEW x, x = Root(r), x \notin sn
  PROVE  Searching(B, n + 1, sn \cup {x}, r + 1, <<x>>, x)
<1>1. PICK N \in Nat : N = Len(post_order)
  BY DEF Numbered
<1>2. r \in Nat /\ 1 <= r /\ r <= N /\ r \in 1..N /\ r + 1 \in Nat /\ 1 <= r + 1 /\ r + 1 <= N + 1
  BY <1>1 DEF Between
<1>3. x \in Reachable /\ PlaceOf(x) + r = N + 1 /\ x \in Block
  BY <1>1, <1>2, RootLemma, ReachableLemma
<1>4. /\ n \in Nat /\ n + 1 \in Nat \ {0} /\ (n + 1) - 1 = n /\ 0..n \subseteq 0..(n + 1)
      /\ n + 1 \notin 0..n /\ 1..n \subseteq 0..n /\ \A k \in 0..n : k \in 1..(n + 1) <=> k \in 1..n
  <2>1. n \in Nat
    BY DEF Between, Groups
  <2> QED BY <2>1
<1>5. B \in [Block -> 0..n] /\ Groups(B, n) /\ sn = {b \in Block : B[b] \in 1..n}
  BY DEF Between
<1>6. B \in [Block -> 0..(n + 1)] /\ \A b \in Block : B[b] # n + 1 /\ (B[b] \in 1..(n + 1) <=> B[b] \in 1..n)
  BY <1>4, <1>5
<1>7. <<x>> \in Seq(Block) /\ ToSet(<<x>>) = {x}
  BY <1>3 DEF ToSet
<1>8. Marked(B, n + 1, <<x>>) = {x}
  BY <1>6, <1>7 DEF Marked
<1>9. OnCycle(x, x)
  BY DEF OnCycle
<1>10. sn \cup {x} = {b \in Block : B[b] \in 1..(n + 1)} \cup ToSet(<<x>>)
  BY <1>5, <1>6, <1>7
<1>11. PlaceOf(x) + (r + 1) = N + 2
  <2>1. PlaceOf(x) \in Nat
    BY <1>3 DEF Numbered
  <2> QED BY <1>2, <1>3, <2>1
<1>12. ASSUME NEW b \in Reachable, PlaceOf(b) > PlaceOf(x) PROVE B[b] \in 1..n
  <2>1. PlaceOf(b) \in Nat /\ PlaceOf(x) \in Nat
    BY <1>3 DEF Numbered
  <2>2. PlaceOf(b) + r > N + 1
    BY <1>2, <1>3, <1>12, <2>1
  <2>3. b \in sn
    BY <1>1, <2>2 DEF Between
  <2> QED BY <1>5, <2>3
<1>13. ASSUME NEW b \in Reachable, OnCycle(x, b) PROVE B[b] \notin 1..n
  <2>1. b \in Block /\ OnCycle(b, x)
    BY <1>13, ReachableLemma, CycleLemma
  <2>2. B[b] \in 1..n => B[x] = B[b]
    BY <1>3, <1>5, <2>1 DEF Groups, Grouped
  <2> QED BY <1>3, <1>5, <2>2
<1> QED BY <1>1, <1>2, <1>3, <1>4, <1>5, <1>6, <1>7, <1>8, <1>9, <1>10, <1>11, <1>12, <1>13 DEF Searching

LEMMA ConcatSet ==
  ASSUME NEW S, NEW s \in Seq(S), NEW t \in Seq(S)
  PROVE  s \o t \in Seq(S) /\ ToSet(s \o t) = ToSet(s) \cup ToSet(t)
<1>1. /\ Len(s) \in Nat /\ Len(t) \in Nat /\ ToSet(s) = {s[k] : k \in 1..Len(s)}
      /\ ToSet(t) = {t[k] : k \in 1..Len(t)}
  BY LenProperties, ToSetLemma
<1>2. /\ s \o t \in Seq(S) /\ Len(s \o t) = Len(s) + Len(t)
      /\ \A i \in 1..Len(s) + Len(t) : (s \o t)[i] = IF i <= Len(s) THEN s[i] ELSE t[i - Len(s)]
  BY ConcatProperties
<1>3. ToSet(s \o t) = {(s \o t)[k] : k \in 1..(Len(s) + Len(t))}
  BY <1>2, ToSetLemma
<1>4. \A k \in 1..Len(s) : k \in 1..(Len(s) + Len(t)) /\ (s \o t)[k] = s[k]
  BY <1>1, <1>2
<1>5. \A k \in 1..Len(t) : k + Len(s) \in 1..(Len(s) + Len(t)) /\ (s \o t)[k + Len(s)] = t[k]
  BY <1>1, <1>2
<1>6. \A k \in 1..(Len(s) + Len(t)) :
        \/ k \in 1..Len(s) /\ (s \o t)[k] = s[k]
        \/ k - Len(s) \in 1..Len(t) /\ (s \o t)[k] = t[k - Len(s)]
  BY <1>1, <1>2
<1>7. \A v : v \in ToSet(s \o t) <=> v \in ToSet(s) \cup ToSet(t)
  BY <1>1, <1>3, <1>4, <1>5, <1>6
<1> QED BY <1>2, <1>7

\* The last item, taken away.
LEMMA FrontSet ==
  ASSUME NEW S, NEW s \in Seq(S), s # <<>>
  PROVE  /\ Last(s) \in S /\ Front(s) \in Seq(S) /\ ToSet(s) = ToSet(Front(s)) \cup {Last(s)}
<1>1. Len(s) \in Nat \ {0} /\ Last(s) = s[Len(s)] /\ Last(s) \in S
  BY NotEmpty DEF Last
<1>2. Front(s) \in Seq(S) /\ Popped(Front(s), s)
  BY FrontLemma
<1>3. ToSet(s) = {s[k] : k \in 1..Len(s)} /\ ToSet(Front(s)) = {Front(s)[k] : k \in 1..(Len(s) - 1)}
  BY <1>2, ToSetLemma DEF Popped
<1>4. \A k \in 1..(Len(s) - 1) : k \in 1..Len(s) /\ Front(s)[k] = s[k]
  BY <1>1, <1>2 DEF Popped
<1>5. \A k \in 1..Len(s) : k = Len(s) \/ k \in 1..(Len(s) - 1)
  BY <1>1
<1>6. Len(s) \in 1..Len(s)
  BY <1>1
<1>7. \A v : v \in ToSet(s) <=> v \in ToSet(Front(s)) \cup {Last(s)}
  BY <1>1, <1>3, <1>4, <1>5, <1>6
<1> QED BY <1>1, <1>2, <1>7

\* A predecessor that no search has seen is in the component of the root.
LEMMA Joins ==
  ASSUME CfgOk, Numbered, Leading, NEW B, NEW n, NEW sn, NEW r, NEW wk, NEW x,
         Searching(B, n, sn, r, wk, x),
         NEW b \in Marked(B, n, wk), NEW p \in Preds(b), p \in Reachable, p \notin sn
  PROVE  OnCycle(x, p)
<1>1. b \in Reachable /\ OnCycle(x, b) /\ x \in Reachable /\ x \in Block /\ b \in Block /\ p \in Block
  BY ReachableLemma DEF Searching
<1>2. b \in Succs(p)
  BY <1>1, CfgLemma
<1>3. x \in ReachedFrom(p)
  <2>1. b \in ReachedFrom(p)
    BY <1>1, <1>2, ReachedFromLemma
  <2> QED BY <1>1, <2>1, ReachedOn DEF OnCycle
<1>4. PICK w \in Reachable : OnCycle(p, w) /\ (x = w \/ PlaceOf(x) < PlaceOf(w))
  BY <1>3 DEF Leading
<1>5. CASE x = w
  BY <1>4, <1>5, CycleLemma
<1>6. CASE x # w
  <2>1. PlaceOf(w) > PlaceOf(x)
    <3>1. PlaceOf(w) \in Nat /\ PlaceOf(x) \in Nat
      BY <1>1 DEF Numbered
    <3> QED BY <1>4, <1>6, <3>1
  <2>2. B[w] \in 1..(n - 1) /\ w \in Block /\ n \in Nat
    BY <2>1, ReachableLemma DEF Searching
  <2>3. B[p] = B[w]
    BY <1>4, <2>2, CycleLemma DEF Searching, Groups, Grouped
  <2>4. B[p] \in 1..n
    BY <2>2, <2>3
  <2>5. p \in sn
    BY <1>1, <2>4 DEF Searching
  <2> QED BY <2>5
<1> QED BY <1>5, <1>6

LEMMA SearchGoesOn ==
  ASSUME CfgOk, Numbered, Leading, NEW B, NEW n, NEW sn, NEW r, NEW wk, NEW x,
         Searching(B, n, sn, r, wk, x), wk # <<>>,
         NEW b, b = Last(wk), NEW J, J = {p \in Preds(b) : p \in Reachable} \ sn,
         NEW s \in Ascending(J), NEW B2, B2 = [B EXCEPT ![b] = n]
  PROVE  Searching(B2, n, sn \cup J, r, Front(wk) \o s, x)
<1>1. /\ B \in [Block -> 0..n] /\ n \in Nat \ {0} /\ Groups(B, n - 1) /\ wk \in Seq(Block)
      /\ sn = {c \in Block : B[c] \in 1..n} \cup ToSet(wk)
      /\ x \in Marked(B, n, wk)
      /\ \A c \in Marked(B, n, wk) : c \in Reachable /\ OnCycle(x, c)
      /\ \A c \in Reachable : OnCycle(x, c) => B[c] \notin 1..(n - 1)
      /\ \A c \in Block : B[c] = n => \A p \in Preds(c) : p \in Reachable => p \in sn
  BY DEF Searching
<1>2. b \in Block /\ Front(wk) \in Seq(Block) /\ ToSet(wk) = ToSet(Front(wk)) \cup {b}
  BY <1>1, FrontSet
<1>3. b \in Marked(B, n, wk) /\ b \in Reachable /\ OnCycle(x, b)
  BY <1>1, <1>2 DEF Marked
<1>4. J \subseteq Block /\ J \subseteq Preds(b) /\ s \in Seq(Block) /\ ToSet(s) = J
  <2>1. J \subseteq Block /\ J \subseteq Preds(b)
    BY <1>2, CfgLemma
  <2>2. /\ s \in Seq(J) /\ s \in Seq(Block) /\ \A k \in 1..Len(s) : s[k] \in J
        /\ \A c \in J : \E k \in 1..Len(s) : s[k] = c
    BY <2>1, AscendingLemma
  <2>3. ToSet(s) = {s[k] : k \in 1..Len(s)}
    BY <2>2, ToSetLemma
  <2> QED BY <2>1, <2>2, <2>3
<1> DEFINE wk2 == Front(wk) \o s
           sn2 == sn \cup J
<1>5. wk2 \in Seq(Block) /\ ToSet(wk2) = ToSet(Front(wk)) \cup J
  BY <1>2, <1>4, ConcatSet
<1> HIDE DEF wk2
<1>6. /\ B2 \in [Block -> 0..n] /\ B2[b] = n /\ \A c \in Block : c # b => B2[c] = B[c]
      /\ n \in 1..n /\ n \notin 1..(n - 1) /\ n - 1 \in Nat /\ 1..(n - 1) \subseteq 1..n
  <2>1. n \in 0..n /\ n \in 1..n /\ n \notin 1..(n - 1) /\ n - 1 \in Nat /\ 1..(n - 1) \subseteq 1..n
    BY <1>1
  <2> QED BY <1>1, <1>2, <2>1
<1>7. B[b] \notin 1..(n - 1)
  BY <1>1, <1>3
<1>8. \A c \in Block : B2[c] \in 1..(n - 1) \/ B[c] \in 1..(n - 1) => c # b /\ B2[c] = B[c]
  BY <1>6, <1>7
<1>9. Groups(B2, n - 1)
  <2>1. Grouped(B, n - 1) /\ Used(B, n - 1) /\ Lower(B, n - 1)
    BY <1>1 DEF Groups
  <2>2. Grouped(B2, n - 1)
    <3> SUFFICES ASSUME NEW a \in Block, B2[a] \in 1..(n - 1)
                 PROVE  a \in Reachable /\ \A c \in Reachable : B2[c] = B2[a] <=> OnCycle(a, c)
      BY DEF Grouped
    <3>1. B2[a] = B[a] /\ B[a] \in 1..(n - 1)
      BY <1>8
    <3>2. a \in Reachable /\ \A c \in Reachable : B[c] = B[a] <=> OnCycle(a, c)
      BY <2>1, <3>1 DEF Grouped
    <3>3. ASSUME NEW c \in Reachable PROVE B2[c] = B2[a] <=> OnCycle(a, c)
      <4>1. c \in Block
        BY ReachableLemma
      <4>2. CASE c = b
        BY <1>6, <1>7, <3>1, <3>2, <4>2
      <4>3. CASE c # b
        BY <1>6, <3>1, <3>2, <4>1, <4>3
      <4> QED BY <4>2, <4>3
    <3> QED BY <3>2, <3>3
  <2>3. Used(B2, n - 1)
    BY <1>8, <2>1 DEF Used
  <2>4. Lower(B2, n - 1)
    <3> SUFFICES ASSUME NEW a \in Block, B2[a] \in 1..(n - 1), NEW p \in Preds(a), p \in Reachable
                 PROVE  B2[p] \in 1..B2[a]
      BY DEF Lower
    <3>1. B2[a] = B[a] /\ p \in Block
      BY <1>8, CfgLemma
    <3>2. B[p] \in 1..B[a]
      BY <2>1, <3>1 DEF Lower
    <3>3. B[p] \in 1..(n - 1)
      BY <1>1, <3>1, <3>2
    <3> QED BY <1>8, <3>1, <3>2, <3>3
  <2> QED BY <1>6, <2>2, <2>3, <2>4 DEF Groups
<1>10. \A c \in Block : B2[c] \in 1..n <=> B[c] \in 1..n \/ c = b
  BY <1>6
<1>11. sn2 = {c \in Block : B2[c] \in 1..n} \cup ToSet(wk2)
  BY <1>1, <1>2, <1>5, <1>10
<1>12. Marked(B2, n, wk2) = Marked(B, n, wk) \cup J
  <2>1. \A c \in Block : B2[c] = n <=> B[c] = n \/ c = b
    BY <1>6
  <2> QED BY <1>2, <1>5, <2>1 DEF Marked
<1>13. ASSUME NEW c \in Marked(B2, n, wk2) PROVE c \in Reachable /\ OnCycle(x, c)
  <2>1. CASE c \in Marked(B, n, wk)
    BY <1>1, <2>1
  <2>2. CASE c \in J
    BY <1>3, <2>2, Joins
  <2> QED BY <1>12, <1>13, <2>1, <2>2
<1>14. \A c \in Reachable : OnCycle(x, c) => B2[c] \notin 1..(n - 1)
  <2>1. \A c \in Reachable : c \in Block
    BY ReachableLemma
  <2> QED BY <1>1, <1>8, <2>1
<1>15. ASSUME NEW c \in Block, B2[c] = n, NEW p \in Preds(c), p \in Reachable PROVE p \in sn2
  <2>1. CASE c = b
    BY <1>15, <2>1
  <2>2. CASE c # b
    BY <1>1, <1>6, <1>15, <2>2
  <2> QED BY <2>1, <2>2
<1>16. \A c \in Reachable : PlaceOf(c) > PlaceOf(x) => B2[c] \in 1..(n - 1)
  <2>1. \A c \in Reachable : c \in Block
    BY ReachableLemma
  <2>2. \A c \in Reachable : PlaceOf(c) > PlaceOf(x) => B[c] \in 1..(n - 1)
    BY DEF Searching
  <2> QED BY <1>8, <2>1, <2>2
<1>17. x \in Marked(B2, n, wk2)
  BY <1>1, <1>12
<1>18. /\ r \in Nat /\ 1 <= r /\ r <= Len(post_order) + 1
       /\ x \in Reachable /\ PlaceOf(x) + r = Len(post_order) + 2
  BY DEF Searching
<1>19. Searching(B2, n, sn2, r, wk2, x)
  BY <1>1, <1>5, <1>6, <1>9, <1>11, <1>13, <1>14, <1>15, <1>16, <1>17, <1>18 DEF Searching
<1> QED BY <1>19 DEF wk2

\* When nothing is left to look at, the whole component is found.
LEMMA SearchEnds ==
  ASSUME CfgOk, Numbered, NEW B, NEW n, NEW sn, NEW r, NEW x,
         Searching(B, n, sn, r, <<>>, x)
  PROVE  Between(B, n, sn, r)
<1>1. ToSet(<<>>) = {}
  BY DEF ToSet
<1> DEFINE C == {b \in Block : B[b] = n}
<1>2. Marked(B, n, <<>>) = C
  BY <1>1 DEF Marked
<1>3. /\ B \in [Block -> 0..n] /\ n \in Nat \ {0} /\ Groups(B, n - 1)
      /\ sn = {b \in Block : B[b] \in 1..n} /\ x \in C
      /\ \A b \in C : b \in Reachable /\ OnCycle(x, b)
      /\ \A b \in Reachable : OnCycle(x, b) => B[b] \notin 1..(n - 1)
      /\ \A b \in C : \A p \in Preds(b) : p \in Reachable => p \in sn
  BY <1>1, <1>2 DEF Searching
<1>4. /\ n \in 1..n /\ n - 1 \in Nat /\ n \notin 1..(n - 1)
      /\ \A k \in 1..n : k = n \/ k \in 1..(n - 1)
  BY <1>3
<1>5. x \in Block /\ x \in Reachable
  BY <1>3
<1>6. ASSUME NEW b \in Reachable, OnCycle(x, b) PROVE b \in C
  <2>0. b \in Block
    BY ReachableLemma
  <2> SUFFICES ASSUME b \notin C PROVE FALSE
    OBVIOUS
  <2>1. b # x /\ x \in ReachedFrom(b) /\ b \in ReachedFrom(x)
    BY <1>3, <1>6 DEF OnCycle
  <2> DEFINE T == {y \in Block : y \notin C}
  <2>2. ASSUME NEW y \in T, y = b \/ y \in ReachedFrom(b), NEW s \in Succs(y) PROVE s \in T
    <3>1. s \in Block /\ y \in Block /\ y \in Preds(s)
      BY <2>2, CfgLemma
    <3> SUFFICES ASSUME s \in C PROVE FALSE
      BY <3>1
    <3>2. y \in ReachedFrom(x)
      BY <1>5, <2>1, <2>2, ReachedOn
    <3>3. x \in ReachedFrom(y)
      <4>1. s \in ReachedFrom(y) /\ OnCycle(x, s)
        BY <1>3, <3>1, ReachedFromLemma
      <4> QED BY <3>1, <4>1, ReachedOn DEF OnCycle
    <3>4. OnCycle(x, y)
      BY <3>2, <3>3 DEF OnCycle
    <3>5. y \in Reachable
      BY <1>5, <3>1, <3>4, CycleLemma
    <3>6. B[y] \in 1..n /\ B[y] \notin 1..(n - 1)
      BY <1>3, <3>1, <3>4, <3>5
    <3> QED BY <1>4, <2>2, <3>6
  <2>3. b \in T
    BY <2>0
  <2> HIDE DEF T
  <2>4. ReachedFrom(b) \subseteq T
    BY <2>0, <2>2, <2>3, ReachedLeast
  <2> QED BY <1>3, <2>1, <2>4 DEF T
<1>7. Grouped(B, n - 1) /\ Used(B, n - 1) /\ Lower(B, n - 1)
  BY <1>3 DEF Groups
<1>8. Grouped(B, n)
  <2> SUFFICES ASSUME NEW a \in Block, B[a] \in 1..n
               PROVE  a \in Reachable /\ \A b \in Reachable : B[b] = B[a] <=> OnCycle(a, b)
    BY DEF Grouped
  <2>1. CASE B[a] \in 1..(n - 1)
    BY <1>7, <2>1 DEF Grouped
  <2>2. CASE B[a] = n
    <3>1. a \in C /\ a \in Reachable /\ OnCycle(x, a)
      BY <1>3, <2>2
    <3>2. ASSUME NEW b \in Reachable PROVE B[b] = n <=> OnCycle(a, b)
      <4>1. b \in Block
        BY ReachableLemma
      <4>2. B[b] = n => OnCycle(a, b)
        BY <1>3, <1>5, <3>1, <4>1, CycleLemma
      <4>3. OnCycle(a, b) => B[b] = n
        BY <1>5, <1>6, <3>1, <4>1, CycleLemma
      <4> QED BY <4>2, <4>3
    <3> QED BY <2>2, <3>1, <3>2
  <2> QED BY <1>4, <2>1, <2>2
<1>9. Used(B, n)
  <2>1. ASSUME NEW c \in 1..n PROVE \E b \in Block : B[b] = c
    BY <1>3, <1>4, <1>5, <1>7, <2>1 DEF Used
  <2> QED BY <2>1 DEF Used
<1>10. Lower(B, n)
  <2> SUFFICES ASSUME NEW a \in Block, B[a] \in 1..n, NEW p \in Preds(a), p \in Reachable
               PROVE  B[p] \in 1..B[a]
    BY DEF Lower
  <2>1. CASE B[a] \in 1..(n - 1)
    BY <1>7, <2>1 DEF Lower
  <2>2. CASE B[a] = n
    BY <1>3, <2>2
  <2> QED BY <1>4, <2>1, <2>2
<1>11. ASSUME NEW b \in Reachable, PlaceOf(b) + r > Len(post_order) + 1 PROVE b \in sn
  <2>1. PlaceOf(x) + r = Len(post_order) + 2 /\ r \in Nat
    BY DEF Searching
  <2>2. PlaceOf(b) \in Nat /\ PlaceOf(x) \in Nat /\ Len(post_order) \in Nat
    BY <1>5 DEF Numbered
  <2>3. PlaceOf(b) > PlaceOf(x) \/ PlaceOf(b) = PlaceOf(x)
    BY <1>11, <2>1, <2>2
  <2>4. CASE PlaceOf(b) = PlaceOf(x)
    <3>1. b = x
      BY <1>5, <2>4 DEF Numbered
    <3> QED BY <1>3, <1>4, <3>1
  <2>5. CASE PlaceOf(b) > PlaceOf(x)
    <3>1. B[b] \in 1..(n - 1) /\ b \in Block
      BY <2>5, ReachableLemma DEF Searching
    <3>2. B[b] \in 1..n
      BY <1>3, <3>1
    <3> QED BY <1>3, <3>1, <3>2
  <2> QED BY <2>3, <2>4, <2>5
<1>12. r \in Nat /\ 1 <= r /\ r <= Len(post_order) + 1 /\ n \in Nat
  BY <1>3 DEF Searching
<1> QED BY <1>3, <1>8, <1>9, <1>10, <1>11, <1>12 DEF Between, Groups

-----------------------------------------------------------------------------
(***************************************************************************)
(* What the components say of the paths.                                   *)
(***************************************************************************)
\* The components found between two searches.
Found == Between(block_to_scc, scc_count, seen, root)
\* All of them are.
AllFound == Found /\ \A b \in Reachable : b \in seen

LEMMA FoundLemma ==
  ASSUME CfgOk, Found
  PROVE  /\ scc_count \in Nat /\ \A b \in Block : block_to_scc[b] # NoScc => block_to_scc[b] \in Sccs
         /\ \A a \in Block : block_to_scc[a] # NoScc =>
              a \in Reachable /\ BlocksOf(block_to_scc[a]) = {b \in Reachable : OnCycle(a, b)}
<1>1. /\ scc_count \in Nat /\ block_to_scc \in [Block -> 0..scc_count] /\ Grouped(block_to_scc, scc_count)
  BY DEF Found, Between, Groups
<1>2. \A b \in Block : block_to_scc[b] # NoScc => block_to_scc[b] \in Sccs
  BY <1>1 DEF NoScc, Sccs
<1>3. ASSUME NEW a \in Block, block_to_scc[a] # NoScc
      PROVE  a \in Reachable /\ BlocksOf(block_to_scc[a]) = {b \in Reachable : OnCycle(a, b)}
  <2>1. block_to_scc[a] \in 1..scc_count
    BY <1>2, <1>3 DEF Sccs
  <2>2. a \in Reachable /\ \A b \in Reachable : block_to_scc[b] = block_to_scc[a] <=> OnCycle(a, b)
    BY <1>1, <2>1 DEF Grouped
  <2>3. \A b \in Block : block_to_scc[b] = block_to_scc[a] => b \in Reachable
    BY <1>1, <2>1 DEF Grouped
  <2>4. Reachable \subseteq Block
    BY ReachableLemma
  <2>5. \A b : b \in BlocksOf(block_to_scc[a]) <=> b \in {c \in Reachable : OnCycle(a, c)}
    BY <2>2, <2>3, <2>4 DEF BlocksOf
  <2> QED BY <2>2, <2>5
<1> QED BY <1>1, <1>2, <1>3

\* A component is a cycle exactly if its blocks reach themselves.
LEMMA CycleFound ==
  ASSUME CfgOk, Found, NEW a \in Block, block_to_scc[a] # NoScc
  PROVE  IsCycle(block_to_scc[a]) = (a \in ReachedFrom(a))
<1> DEFINE S == BlocksOf(block_to_scc[a])
<1>1. a \in Reachable /\ S = {b \in Reachable : OnCycle(a, b)}
  BY FoundLemma
<1>2. S \subseteq Block /\ a \in S /\ IsFiniteSet(S)
  <2>1. S \subseteq Block /\ a \in S
    BY DEF BlocksOf
  <2> QED BY <2>1, CfgLemma, FS_Subset
<1> HIDE DEF S
<1>3. ASSUME Cardinality(S) > 1 PROVE a \in ReachedFrom(a)
  <2>1. \E b \in S : b # a
    <3> SUFFICES ASSUME \A b \in S : b = a PROVE FALSE
      OBVIOUS
    <3>1. S = {a}
      BY <1>2
    <3>2. Cardinality(S) = 1
      BY <3>1, FS_Singleton
    <3> QED BY <1>3, <3>2
  <2>2. PICK b \in S : b # a
    BY <2>1
  <2>3. b \in Block /\ b \in ReachedFrom(a) /\ a \in ReachedFrom(b)
    BY <1>1, <1>2, <2>2 DEF OnCycle
  <2> QED BY <2>3, ReachedOn
<1>4. ASSUME NEW b \in S, b \in Succs(b) PROVE a \in ReachedFrom(a)
  <2>1. b \in Block /\ OnCycle(a, b) /\ b \in ReachedFrom(b)
    BY <1>1, <1>2, <1>4, ReachedFromLemma
  <2>2. ReachedFrom(a) = ReachedFrom(b)
    BY <2>1, CycleLemma
  <2> QED BY <2>1, <2>2 DEF OnCycle
<1>5. ASSUME a \in ReachedFrom(a) PROVE Cardinality(S) > 1 \/ \E b \in S : b \in Succs(b)
  <2>1. PICK s \in Succs(a) : s \in Block /\ (a = s \/ a \in ReachedFrom(s))
    BY <1>5, ReachedFirst
  <2>2. CASE a = s
    BY <1>2, <2>1, <2>2
  <2>3. CASE a # s
    <3>1. OnCycle(a, s)
      BY <2>1, <2>3, ReachedFromLemma DEF OnCycle
    <3>2. s \in S
      BY <1>1, <2>1, <3>1, CycleLemma
    <3>3. ~(Cardinality(S) < 2)
      BY <1>2, <2>3, <3>2, TwoElements
    <3>4. Cardinality(S) \in Nat
      BY <1>2, FS_CardinalityType
    <3> QED BY <3>3, <3>4
  <2> QED BY <2>2, <2>3
<1>6. IsCycle(block_to_scc[a]) <=> a \in ReachedFrom(a)
  BY <1>3, <1>4, <1>5 DEF IsCycle, S
<1>7. ASSUME NEW P, NEW Q PROVE ((P \/ Q) <=> a \in ReachedFrom(a)) => (P \/ Q) = (a \in ReachedFrom(a))
  OBVIOUS
<1> QED BY <1>6, <1>7 DEF IsCycle

\* At the end of the list, every reachable block is in a component.
LEMMA AllFoundLemma ==
  ASSUME CfgOk, Numbered, Found, root > Len(post_order)
  PROVE  AllFound
<1>1. PICK N \in Nat : N = Len(post_order)
  BY DEF Numbered
<1>2. root \in Nat /\ \A b \in Reachable : PlaceOf(b) + root > N + 1 => b \in seen
  BY <1>1 DEF Found, Between
<1>3. ASSUME NEW b \in Reachable PROVE b \in seen
  <2>1. PlaceOf(b) \in 1..N
    BY <1>1 DEF Numbered
  <2>2. PlaceOf(b) + root > N + 1
    BY <1>1, <1>2, <2>1
  <2> QED BY <1>2, <2>2
<1> QED BY <1>3 DEF AllFound

LEMMA AssignedLemma ==
  ASSUME CfgOk, AllFound, NEW a \in Block
  PROVE  (block_to_scc[a] # NoScc) = (a \in Reachable)
<1>1. block_to_scc[a] # NoScc => a \in Reachable
  BY FoundLemma DEF AllFound
<1>2. a \in Reachable => block_to_scc[a] \in 1..scc_count
  BY DEF AllFound, Found, Between
<1>3. 0 \notin 1..scc_count
  OBVIOUS
<1> QED BY <1>1, <1>2, <1>3 DEF NoScc

\* Around its one entry nothing of a component is reached.
LEMMA HeaderLemma ==
  ASSUME CfgOk, AllFound, OrderedBy(post_order), NEW scc \in Sccs, NEW h \in EntryBlocks(scc),
         ~IsMultiEntry(scc)
  PROVE  BlocksOf(scc) \cap ReachSteps(cfg.succs, {cfg.entry}, {h}) = {}
<1>1. BlocksOf(scc) \subseteq Block /\ EntryBlocks(scc) \subseteq Block /\ IsFiniteSet(EntryBlocks(scc))
  <2>1. BlocksOf(scc) \subseteq Block /\ EntryBlocks(scc) \subseteq Block
    BY DEF BlocksOf, EntryBlocks
  <2> QED BY <2>1, CfgLemma, FS_Subset
<1>2. \A b \in EntryBlocks(scc) : b = h
  <2>1. Cardinality(EntryBlocks(scc)) \in Nat /\ ~(Cardinality(EntryBlocks(scc)) > 1)
    BY <1>1, FS_CardinalityType DEF IsMultiEntry
  <2>2. Cardinality(EntryBlocks(scc)) < 2
    BY <2>1
  <2> QED BY <1>1, <2>2, TwoElements
<1>3. h \in Block /\ h \in BlocksOf(scc)
  BY <1>1 DEF EntryBlocks
<1> DEFINE R == ReachSteps(cfg.succs, {cfg.entry}, {h})
           T == {b \in Block : b \notin BlocksOf(scc)}
<1>4. LeastClosed(R, Block, cfg.succs, {cfg.entry}, {h})
  BY CfgLemma, CfgReach
<1>5. LeastClosed(Reachable, Block, cfg.succs, {cfg.entry}, {})
  BY CfgLemma, CfgReach DEF Reachable
<1>6. R \subseteq Reachable
  BY <1>4, <1>5 DEF LeastClosed
<1> HIDE DEF R
<1>7. {cfg.entry} \ {h} \subseteq T
  <2>1. cfg.entry \in BlocksOf(scc) => cfg.entry \in EntryBlocks(scc)
    BY DEF EntryBlocks
  <2> QED BY <1>2, <2>1, CfgLemma
<1>8. ASSUME NEW b \in T \cap R, NEW c \in cfg.succs[b] \ {h} PROVE c \in T
  <2>1. b \in Block /\ b \in Reachable /\ b \notin BlocksOf(scc)
    BY <1>6, <1>8
  <2>2. c \in Block /\ b \in Preds(c)
    BY <1>8, <2>1, CfgLemma DEF Succs
  <2>3. InReach(b) /\ block_to_scc[b] # scc
    BY <2>1 DEF InReach, OrderedBy, BlocksOf
  <2>4. c \in BlocksOf(scc) => c \in EntryBlocks(scc)
    BY <2>2, <2>3 DEF EntryBlocks
  <2> QED BY <1>2, <1>8, <2>2, <2>4
<1>9. R \subseteq T
  BY <1>4, <1>7, <1>8 DEF LeastClosed
<1> QED BY <1>9 DEF R

-----------------------------------------------------------------------------
(***************************************************************************)
(* The order of the components.  tp, ind and rd stand for topo_order,      *)
(* indegree and ready.                                                     *)
(***************************************************************************)
\* Of two components one of which leads to the other, that one has the smaller number; and
\* each component is known by its first block.
LEMMA SccGraph ==
  ASSUME CfgOk, Numbered, AllFound
  PROVE  /\ \A c \in Sccs : SuccSccs(c) \subseteq Sccs /\ PredSccs(c) \subseteq Sccs
         /\ \A c \in Sccs : \A d \in PredSccs(c) : d < c
         /\ \A c, d \in Sccs : d \in SuccSccs(c) <=> c \in PredSccs(d)
         /\ \A c \in Sccs : TiebreakKey(c) \in BlocksOf(c) /\ TiebreakKey(c) \in Nat
         /\ \A c, d \in Sccs : TiebreakKey(c) = TiebreakKey(d) => c = d
<1>1. /\ scc_count \in Nat /\ block_to_scc \in [Block -> 0..scc_count]
      /\ Used(block_to_scc, scc_count) /\ Lower(block_to_scc, scc_count)
  BY DEF AllFound, Found, Between, Groups
<1>2. ASSUME NEW c \in Sccs, NEW b \in BlocksOf(c), NEW s \in Succs(b), block_to_scc[s] # c
      PROVE  block_to_scc[s] \in Sccs /\ c < block_to_scc[s]
  <2>1. b \in Block /\ block_to_scc[b] = c /\ c # NoScc /\ c \in Nat
    BY <1>1 DEF BlocksOf, Sccs, NoScc
  <2>2. b \in Reachable /\ s \in Reachable /\ s \in Block /\ b \in Preds(s)
    BY <2>1, AssignedLemma, ReachableLemma, CfgLemma
  <2>3. block_to_scc[s] \in 1..scc_count
    BY <2>2, AssignedLemma, FoundLemma DEF Sccs, AllFound
  <2>4. block_to_scc[b] \in 1..block_to_scc[s]
    BY <1>1, <2>2, <2>3 DEF Lower
  <2> QED BY <1>2, <2>1, <2>3, <2>4 DEF Sccs
<1>3. \A c \in Sccs : \A d \in SuccSccs(c) : d \in Sccs /\ c < d
  BY <1>2 DEF SuccSccs
<1>4. \A c \in Sccs : SuccSccs(c) \subseteq Sccs /\ PredSccs(c) \subseteq Sccs
  BY <1>3 DEF PredSccs
<1>5. \A c \in Sccs : \A d \in PredSccs(c) : d < c
  BY <1>3 DEF PredSccs
<1>6. ASSUME NEW c \in Sccs PROVE TiebreakKey(c) \in BlocksOf(c) /\ TiebreakKey(c) \in Nat
  <2>1. PICK N \in Nat : N = Len(post_order)
    BY DEF Numbered
  <2>2. \A b \in BlocksOf(c) : b \in Block /\ b \in Nat /\ b \in Reachable
    <3>1. c # NoScc
      BY <1>1 DEF Sccs, NoScc
    <3> QED BY <3>1, AssignedLemma, CfgLemma DEF BlocksOf
  <2>3. \A b \in BlocksOf(c) : PlaceOf(b) \in 1..N
    BY <2>1, <2>2 DEF Numbered
  <2> DEFINE T == {N - PlaceOf(b) : b \in BlocksOf(c)}
  <2>4. T \subseteq Nat
    BY <2>1, <2>3
  <2>5. T # {}
    <3>1. \E b \in Block : block_to_scc[b] = c
      BY <1>1 DEF Used, Sccs
    <3> QED BY <3>1 DEF BlocksOf
  <2>6. PICK m \in T : \A k \in T : m <= k
    BY <2>4, <2>5, LeastNat
  <2>7. PICK b \in BlocksOf(c) : m = N - PlaceOf(b)
    BY <2>6
  <2>8. \A d \in BlocksOf(c) : PlaceOf(d) <= PlaceOf(b)
    <3> TAKE d \in BlocksOf(c)
    <3>1. N - PlaceOf(b) <= N - PlaceOf(d)
      BY <2>6, <2>7
    <3> QED BY <2>1, <2>3, <3>1
  <2>9. TiebreakKey(c) \in BlocksOf(c)
    BY <2>8 DEF TiebreakKey
  <2> QED BY <2>2, <2>9
<1>7. \A c, d \in Sccs : TiebreakKey(c) = TiebreakKey(d) => c = d
  BY <1>6 DEF BlocksOf
<1>8. \A c, d \in Sccs : d \in SuccSccs(c) <=> c \in PredSccs(d)
  BY DEF PredSccs
<1> QED BY <1>4, <1>5, <1>6, <1>7, <1>8

\* A component is placed after all that lead to it, and before all with a larger first
\* block that could have been placed then.
Awaited(tp, c) == PredSccs(c) \ ToSet(tp)
Distinct(tp) == \A i, j \in 1..Len(tp) : tp[i] = tp[j] => i = j
AfterPreds(tp) ==
  \A i \in 1..Len(tp) : \A p \in PredSccs(tp[i]) : \E j \in 1..Len(tp) : j < i /\ tp[j] = p
Placeable(tp, i, c) ==
  /\ \A j \in 1..Len(tp) : j <= i => tp[j] # c
  /\ \A p \in PredSccs(c) : \E j \in 1..Len(tp) : j < i /\ tp[j] = p
SmallestFirst(tp) ==
  \A i \in 1..Len(tp) : \A c \in Sccs : Placeable(tp, i, c) => TiebreakKey(tp[i]) < TiebreakKey(c)
TopoInv(tp, ind, rd) ==
  /\ tp \in Seq(Sccs) /\ Distinct(tp) /\ AfterPreds(tp) /\ SmallestFirst(tp)
  /\ ind = [c \in Sccs |-> Cardinality(Awaited(tp, c))]
  /\ rd = {c \in Sccs : c \notin ToSet(tp) /\ Awaited(tp, c) = {}}

LEMMA AwaitedLemma ==
  ASSUME CfgOk, Numbered, AllFound, NEW c \in Sccs, NEW tp
  PROVE  /\ IsFiniteSet(Awaited(tp, c)) /\ Cardinality(Awaited(tp, c)) \in Nat
         /\ Cardinality(Awaited(tp, c)) = 0 <=> Awaited(tp, c) = {}
<1>1. IsFiniteSet(Sccs)
  BY FS_Interval DEF AllFound, Found, Between, Groups, Sccs
<1>2. Awaited(tp, c) \subseteq Sccs
  BY SccGraph DEF Awaited
<1>3. IsFiniteSet(Awaited(tp, c))
  BY <1>1, <1>2, FS_Subset
<1> QED BY <1>3, FS_CardinalityType, FS_EmptySet

LEMMA TopoStart ==
  ASSUME CfgOk, Numbered, AllFound,
         NEW ind, ind = [scc \in Sccs |-> IndegreeOf(scc)],
         NEW rd, rd = {scc \in Sccs : ind[scc] = 0}
  PROVE  TopoInv(<<>>, ind, rd)
<1>1. <<>> \in Seq(Sccs) /\ Len(<<>>) = 0 /\ ToSet(<<>>) = {} /\ 1..0 = {}
  BY DEF ToSet
<1>2. Distinct(<<>>) /\ AfterPreds(<<>>) /\ SmallestFirst(<<>>)
  BY <1>1 DEF Distinct, AfterPreds, SmallestFirst
<1>3. \A c \in Sccs : Awaited(<<>>, c) = PredSccs(c)
  BY <1>1 DEF Awaited
<1>4. ind = [c \in Sccs |-> Cardinality(Awaited(<<>>, c))]
  BY <1>3 DEF IndegreeOf
<1>5. \A c : c \in rd <=> c \in Sccs /\ c \notin ToSet(<<>>) /\ Awaited(<<>>, c) = {}
  BY <1>1, <1>4, AwaitedLemma
<1>6. rd = {c \in Sccs : c \notin ToSet(<<>>) /\ Awaited(<<>>, c) = {}}
  BY <1>5
<1> QED BY <1>1, <1>2, <1>4, <1>6 DEF TopoInv

\* The least of the ready components is chosen.
Chosen(rd) == CHOOSE c \in rd : \A d \in rd : TiebreakKey(c) <= TiebreakKey(d)

LEMMA ChosenLemma ==
  ASSUME CfgOk, Numbered, AllFound, NEW rd, rd \subseteq Sccs, rd # {},
         NEW scc, scc = Chosen(rd)
  PROVE  scc \in rd /\ \A d \in rd : d # scc => TiebreakKey(scc) < TiebreakKey(d)
<1>1. \A c \in rd : TiebreakKey(c) \in Nat
  BY SccGraph
<1> DEFINE T == {TiebreakKey(c) : c \in rd}
<1>2. T \subseteq Nat /\ T # {}
  BY <1>1
<1>3. PICK m \in T : \A k \in T : m <= k
  BY <1>2, LeastNat
<1>4. \E c \in rd : \A d \in rd : TiebreakKey(c) <= TiebreakKey(d)
  BY <1>3
<1>5. scc \in rd /\ \A d \in rd : TiebreakKey(scc) <= TiebreakKey(d)
  BY <1>4 DEF Chosen
<1>6. \A d \in rd : d # scc => TiebreakKey(d) # TiebreakKey(scc)
  BY <1>5, SccGraph
<1> QED BY <1>1, <1>5, <1>6

CountedDown(ind, scc) == [c \in Sccs |-> IF c \in SuccSccs(scc) THEN ind[c] - 1 ELSE ind[c]]
NowReady(rd, ind2, scc) == (rd \ {scc}) \cup {c \in SuccSccs(scc) : ind2[c] = 0}

LEMMA TopoGoesOn ==
  ASSUME CfgOk, Numbered, AllFound, NEW tp, NEW ind, NEW rd, TopoInv(tp, ind, rd), rd # {},
         NEW scc, scc = Chosen(rd),
         NEW ind2, ind2 = CountedDown(ind, scc), NEW rd2, rd2 = NowReady(rd, ind2, scc)
  PROVE  TopoInv(Append(tp, scc), ind2, rd2)
<1>0. /\ ind2 = [c \in Sccs |-> IF c \in SuccSccs(scc) THEN ind[c] - 1 ELSE ind[c]]
      /\ rd2 = (rd \ {scc}) \cup {c \in SuccSccs(scc) : ind2[c] = 0}
  BY DEF CountedDown, NowReady
<1>1. /\ tp \in Seq(Sccs) /\ Distinct(tp) /\ AfterPreds(tp) /\ SmallestFirst(tp)
      /\ ind = [c \in Sccs |-> Cardinality(Awaited(tp, c))]
      /\ rd = {c \in Sccs : c \notin ToSet(tp) /\ Awaited(tp, c) = {}}
  BY DEF TopoInv
<1>2. scc \in rd /\ \A d \in rd : d # scc => TiebreakKey(scc) < TiebreakKey(d)
  <2>1. rd \subseteq Sccs
    BY <1>1
  <2> QED BY <2>1, ChosenLemma
<1>3. scc \in Sccs /\ scc \notin ToSet(tp) /\ PredSccs(scc) \subseteq ToSet(tp)
  BY <1>1, <1>2 DEF Awaited
<1>4. PICK tq : tq = Append(tp, scc)
  OBVIOUS
<1>5. PICK n \in Nat : n = Len(tp)
  BY <1>1, LenProperties
<1>6. /\ tq \in Seq(Sccs) /\ ToSet(tq) = ToSet(tp) \cup {scc}
      /\ Len(tq) = n + 1 /\ tq[n + 1] = scc /\ \A i \in 1..n : tq[i] = tp[i]
  <2>0. tp \in Seq(Sccs) /\ scc \in Sccs
    BY <1>1, <1>3
  <2>1. tq \in Seq(Sccs) /\ ToSet(tq) = ToSet(tp) \cup {scc}
    BY <1>4, <2>0, AppendSetLemma
  <2>2. Pushed(tq, tp, scc)
    BY <1>1, <1>3, <1>4, PushLemma
  <2> QED BY <1>5, <2>1, <2>2 DEF Pushed
<1>7. ToSet(tp) = {tp[i] : i \in 1..n}
  BY <1>1, <1>5, ToSetLemma
<1>8. /\ \A i \in 1..(n + 1) : i = n + 1 \/ i \in 1..n
      /\ \A i \in 1..n : i \in 1..(n + 1) /\ i < n + 1 /\ i <= n + 1 /\ ~(n + 1 <= i)
      /\ n + 1 \in 1..(n + 1) /\ n + 1 <= n + 1
  OBVIOUS
<1>9. Distinct(tq)
  <2>1. \A i, j \in 1..(n + 1) : tq[i] = tq[j] => i = j
    <3>1. \A i \in 1..n : tq[i] # scc
      BY <1>3, <1>6, <1>7
    <3>2. \A i, j \in 1..n : tq[i] = tq[j] => i = j
      BY <1>1, <1>5, <1>6 DEF Distinct
    <3> QED BY <1>6, <1>8, <3>1, <3>2
  <2> QED BY <1>6, <2>1 DEF Distinct
<1>10. AfterPreds(tq)
  <2>1. ASSUME NEW i \in 1..(n + 1), NEW p \in PredSccs(tq[i])
        PROVE  \E j \in 1..(n + 1) : j < i /\ tq[j] = p
    <3>1. CASE i = n + 1
      <4>1. p \in ToSet(tp)
        BY <1>3, <1>6, <2>1, <3>1
      <4>2. PICK j \in 1..n : tp[j] = p
        BY <1>7, <4>1
      <4> QED BY <1>6, <1>8, <3>1, <4>2
    <3>2. CASE i \in 1..n
      <4>1. PICK j \in 1..n : j < i /\ tp[j] = p
        BY <1>1, <1>5, <1>6, <2>1, <3>2 DEF AfterPreds
      <4> QED BY <1>6, <1>8, <4>1
    <3> QED BY <1>8, <3>1, <3>2
  <2> QED BY <1>6, <2>1 DEF AfterPreds
<1>11. SmallestFirst(tq)
  <2>1. ASSUME NEW i \in 1..(n + 1), NEW c \in Sccs, Placeable(tq, i, c)
        PROVE  TiebreakKey(tq[i]) < TiebreakKey(c)
    <3>0. /\ \A j \in 1..(n + 1) : j <= i => tq[j] # c
          /\ \A p \in PredSccs(c) : \E j \in 1..(n + 1) : j < i /\ tq[j] = p
      BY <1>6, <2>1 DEF Placeable
    <3>1. CASE i = n + 1
      <4>1. c # scc /\ \A j \in 1..n : tp[j] # c
        BY <1>6, <1>8, <3>0, <3>1
      <4>2. \A p \in PredSccs(c) : \E j \in 1..n : tp[j] = p
        BY <1>6, <1>8, <3>0, <3>1
      <4>3. c \in rd
        BY <1>1, <1>7, <4>1, <4>2 DEF Awaited
      <4> QED BY <1>2, <1>6, <3>1, <4>1, <4>3
    <3>2. CASE i \in 1..n
      <4>1. \A j \in 1..n : j <= i => tp[j] # c
        BY <1>6, <1>8, <3>0
      <4>2. \A p \in PredSccs(c) : \E j \in 1..n : j < i /\ tp[j] = p
        <5> TAKE p \in PredSccs(c)
        <5>1. PICK j \in 1..(n + 1) : j < i /\ tq[j] = p
          BY <3>0
        <5>2. j \in 1..n
          BY <3>2, <5>1
        <5> QED BY <1>6, <5>1, <5>2
      <4>3. Placeable(tp, i, c)
        BY <1>5, <4>1, <4>2 DEF Placeable
      <4> QED BY <1>1, <1>5, <1>6, <3>2, <4>3 DEF SmallestFirst
    <3> QED BY <1>8, <3>1, <3>2
  <2> QED BY <1>6, <2>1 DEF SmallestFirst
<1>12. \A c \in Sccs : c \in SuccSccs(scc) <=> scc \in PredSccs(c)
  BY <1>3, SccGraph
<1>13. SuccSccs(scc) \subseteq Sccs
  BY <1>3, SccGraph
<1>14. \A c \in Sccs : Awaited(tq, c) = Awaited(tp, c) \ {scc}
  BY <1>6 DEF Awaited
<1>15. \A c \in Sccs : scc \in Awaited(tp, c) <=> c \in SuccSccs(scc)
  BY <1>3, <1>12 DEF Awaited
<1>16. ASSUME NEW c \in Sccs PROVE ind2[c] = Cardinality(Awaited(tq, c))
  <2>1. CASE c \in SuccSccs(scc)
    <3>1. Cardinality(Awaited(tp, c) \ {scc}) = Cardinality(Awaited(tp, c)) - 1
      BY <1>15, <2>1, AwaitedLemma, FS_RemoveElement
    <3> QED BY <1>0, <1>1, <1>14, <2>1, <3>1
  <2>2. CASE c \notin SuccSccs(scc)
    <3>1. Awaited(tp, c) \ {scc} = Awaited(tp, c)
      BY <1>15, <2>2
    <3> QED BY <1>0, <1>1, <1>14, <2>2, <3>1
  <2> QED BY <2>1, <2>2
<1>17. ind2 = [c \in Sccs |-> Cardinality(Awaited(tq, c))]
  BY <1>0, <1>16
<1>18. ASSUME NEW c PROVE c \in rd2 <=> c \in Sccs /\ c \notin ToSet(tq) /\ Awaited(tq, c) = {}
  <2>1. ASSUME c \in rd, c # scc PROVE c \in Sccs /\ c \notin ToSet(tq) /\ Awaited(tq, c) = {}
    BY <1>1, <1>6, <1>14, <2>1
  <2>2. ASSUME c \in SuccSccs(scc), ind2[c] = 0
        PROVE  c \in Sccs /\ c \notin ToSet(tq) /\ Awaited(tq, c) = {}
    <3>1. c \in Sccs /\ Awaited(tq, c) = {}
      BY <1>13, <1>16, <2>2, AwaitedLemma
    <3>2. c # scc
      BY <2>2 DEF SuccSccs
    <3>3. c \notin ToSet(tp)
      <4> SUFFICES ASSUME c \in ToSet(tp) PROVE FALSE
        OBVIOUS
      <4>1. PICK i \in 1..n : tp[i] = c
        BY <1>7
      <4>2. scc \in PredSccs(c)
        BY <1>12, <2>2, <3>1
      <4>3. \E j \in 1..n : tp[j] = scc
        BY <1>1, <1>5, <4>1, <4>2 DEF AfterPreds
      <4> QED BY <1>3, <1>7, <4>3
    <3> QED BY <1>6, <2>2, <3>1, <3>2, <3>3
  <2>3. ASSUME c \in Sccs, c \notin ToSet(tq), Awaited(tq, c) = {}
        PROVE  (c \in rd /\ c # scc) \/ (c \in SuccSccs(scc) /\ ind2[c] = 0)
    <3>1. c \notin ToSet(tp) /\ c # scc
      BY <1>6, <2>3
    <3>2. CASE scc \in Awaited(tp, c)
      BY <1>15, <1>16, <2>3, <3>2, AwaitedLemma
    <3>3. CASE scc \notin Awaited(tp, c)
      <4>1. Awaited(tp, c) \ {scc} = {}
        BY <1>14, <2>3
      <4>2. Awaited(tp, c) = {}
        BY <3>3, <4>1
      <4> QED BY <1>1, <2>3, <3>1, <4>2
    <3> QED BY <3>2, <3>3
  <2> QED BY <1>0, <2>1, <2>2, <2>3
<1>19. rd2 = {c \in Sccs : c \notin ToSet(tq) /\ Awaited(tq, c) = {}}
  BY <1>18
<1>20. TopoInv(tq, ind2, rd2)
  BY <1>6, <1>9, <1>10, <1>11, <1>17, <1>19 DEF TopoInv
<1> QED BY <1>4, <1>20

\* No component is left out: of those left out, the one with the least number would be ready.
LEMMA TopoEnds ==
  ASSUME CfgOk, Numbered, AllFound, NEW tp, NEW ind, TopoInv(tp, ind, {})
  PROVE  /\ Len(tp) = scc_count /\ ToSet(tp) = Sccs
         /\ \A i, j \in DOMAIN tp :
              /\ tp[j] \in SuccSccs(tp[i]) => i < j
              /\ (i < j /\ \A k \in i..(j - 1) : tp[j] \notin SuccSccs(tp[k]))
                    => TiebreakKey(tp[i]) < TiebreakKey(tp[j])
<1>1. /\ tp \in Seq(Sccs) /\ Distinct(tp) /\ AfterPreds(tp) /\ SmallestFirst(tp)
      /\ \A c \in Sccs : c \in ToSet(tp) \/ Awaited(tp, c) # {}
  BY DEF TopoInv
<1>2. PICK n \in Nat : n = Len(tp) /\ DOMAIN tp = 1..n
  BY <1>1, LenProperties
<1>3. ToSet(tp) = {tp[i] : i \in 1..n} /\ ToSet(tp) \subseteq Sccs /\ \A i \in 1..n : tp[i] \in Sccs
  BY <1>1, <1>2, ToSetLemma
<1>4. Sccs \subseteq ToSet(tp)
  <2> DEFINE Left == Sccs \ ToSet(tp)
  <2> SUFFICES ASSUME Left # {} PROVE FALSE
    OBVIOUS
  <2>1. Left \subseteq Nat
    BY DEF Sccs
  <2>2. PICK c \in Left : \A d \in Left : c <= d
    BY <2>1, LeastNat
  <2>3. PICK d \in PredSccs(c) : d \notin ToSet(tp)
    BY <1>1, <2>2 DEF Awaited
  <2>4. d \in Left /\ d < c
    BY <2>2, <2>3, SccGraph
  <2> QED BY <2>1, <2>2, <2>4
<1>5. ToSet(tp) = Sccs
  BY <1>3, <1>4
<1>6. n = scc_count
  <2>1. scc_count \in Nat
    BY DEF AllFound, Found, Between, Groups
  <2>2. tp \in [1..n -> 1..scc_count] /\ \A c \in 1..scc_count : \E i \in 1..n : tp[i] = c
    BY <1>1, <1>2, <1>3, <1>5, LenProperties DEF Sccs
  <2>3. tp \in Bijection(1..n, 1..scc_count)
    BY <1>1, <1>2, <2>2 DEF Distinct, Bijection, Injection, Surjection, IsInjective
  <2>4. IsFiniteSet(1..n) /\ Cardinality(1..n) = n /\ Cardinality(1..scc_count) = scc_count
    BY <2>1, FS_Interval
  <2>5. Cardinality(1..scc_count) = Cardinality(1..n)
    BY <2>3, <2>4, FS_Bijection DEF ExistsBijection
  <2> QED BY <2>4, <2>5
<1>7. ASSUME NEW j \in 1..n, NEW i \in 1..n, tp[j] \in SuccSccs(tp[i]) PROVE i < j
  <2>1. tp[i] \in PredSccs(tp[j])
    BY <1>3, <1>7, SccGraph
  <2>2. PICK m \in 1..n : m < j /\ tp[m] = tp[i]
    BY <1>1, <1>2, <2>1 DEF AfterPreds
  <2> QED BY <1>1, <1>2, <2>2 DEF Distinct
<1>8. ASSUME NEW i \in 1..n, NEW j \in 1..n, i < j, \A k \in i..(j - 1) : tp[j] \notin SuccSccs(tp[k])
      PROVE  TiebreakKey(tp[i]) < TiebreakKey(tp[j])
  <2>1. \A k \in 1..n : k <= i => tp[k] # tp[j]
    BY <1>1, <1>2, <1>8 DEF Distinct
  <2>2. ASSUME NEW p \in PredSccs(tp[j]) PROVE \E k \in 1..n : k < i /\ tp[k] = p
    <3>1. PICK m \in 1..n : m < j /\ tp[m] = p
      BY <1>1, <1>2, <2>2 DEF AfterPreds
    <3>2. tp[j] \in SuccSccs(tp[m])
      BY <1>3, <2>2, <3>1, SccGraph
    <3>3. m \notin i..(j - 1)
      BY <1>8, <3>2
    <3>4. m < i
      BY <3>1, <3>3
    <3> QED BY <3>1, <3>4
  <2>3. Placeable(tp, i, tp[j])
    BY <1>2, <2>1, <2>2 DEF Placeable
  <2> QED BY <1>1, <1>2, <1>3, <2>3 DEF SmallestFirst
<1> QED BY <1>2, <1>5, <1>6, <1>7, <1>8

-----------------------------------------------------------------------------
(***************************************************************************)
(* The invariant of the components.                                        *)
(***************************************************************************)
NothingFound ==
  /\ seen = {} /\ block_to_scc = [b \in Block |-> NoScc] /\ scc_count = 0
  /\ root = 1 /\ work = <<>> /\ topo_order = <<>>
FoundOn(x) == Searching(block_to_scc, scc_count, seen, root, work, x)
InTopo == AllFound /\ TopoInv(topo_order, indegree, ready)

ComponentsPart ==
  /\ scc_pass \in {"order", "roots", "search", "topo", "done"}
  /\ scc_pass = "order" \/ stack = <<>>
  /\ scc_pass = "order" => NothingFound
  /\ scc_pass = "roots" => Found /\ topo_order = <<>>
  /\ scc_pass = "search" => topo_order = <<>> /\ \E x \in Block : FoundOn(x)
  /\ scc_pass = "topo" => InTopo
  /\ scc_pass = "done" => InTopo /\ ready = {}

SccInv == IInv /\ Anchored(node_state, post_order) /\ ComponentsPart

LEMMA FrameAnchored ==
  ASSUME cfg' = cfg
  PROVE  Anchored(node_state, post_order)' <=> Anchored(node_state', post_order')
BY CfgFrame DEF Anchored, Leads, Before, OnCycle

LEMMA FrameFound ==
  ASSUME cfg' = cfg, post_order' = post_order
  PROVE  /\ Found' <=> Between(block_to_scc', scc_count', seen', root')
         /\ \A x : FoundOn(x)' <=> Searching(block_to_scc', scc_count', seen', root', work', x)
<1>1. Groups(block_to_scc, scc_count)' <=> Groups(block_to_scc', scc_count')
  BY CfgFrame DEF Groups, Grouped, Used, Lower, OnCycle
<1>2. Groups(block_to_scc, scc_count - 1)' <=> Groups(block_to_scc', scc_count' - 1)
  BY CfgFrame DEF Groups, Grouped, Used, Lower, OnCycle
<1>3. Found' <=> Between(block_to_scc', scc_count', seen', root')
  BY <1>1, CfgFrame, FramePlaces DEF Found, Between
<1>4. \A x : FoundOn(x)' <=> Searching(block_to_scc', scc_count', seen', root', work', x)
  BY <1>2, CfgFrame, FramePlaces DEF FoundOn, Searching, Marked, OnCycle
<1> QED BY <1>3, <1>4

LEMMA FrameTopo ==
  ASSUME cfg' = cfg, post_order' = post_order, UNCHANGED <<root, seen, block_to_scc, scc_count>>
  PROVE  /\ AllFound' <=> AllFound
         /\ TopoInv(topo_order, indegree, ready)' <=> TopoInv(topo_order', indegree', ready')
<1>1. AllFound' <=> AllFound
  BY CfgFrame, FrameFound DEF AllFound, Found
<1>2. Sccs' = Sccs /\ (\A c : BlocksOf(c)' = BlocksOf(c)) /\ \A c : SuccSccs(c)' = SuccSccs(c)
  BY CfgFrame DEF Sccs, BlocksOf, SuccSccs
<1>3. \A c : PredSccs(c)' = PredSccs(c)
  BY <1>2 DEF PredSccs
<1>4. \A c : TiebreakKey(c)' = TiebreakKey(c)
  BY <1>2, FramePlaces DEF TiebreakKey
<1>5. Distinct(topo_order)' <=> Distinct(topo_order')
  BY DEF Distinct
<1>6. AfterPreds(topo_order)' <=> AfterPreds(topo_order')
  BY <1>3 DEF AfterPreds
<1>7. SmallestFirst(topo_order)' <=> SmallestFirst(topo_order')
  BY <1>2, <1>3, <1>4 DEF SmallestFirst, Placeable
<1>8. TopoInv(topo_order, indegree, ready)' <=> TopoInv(topo_order', indegree', ready')
  BY <1>2, <1>3, <1>5, <1>6, <1>7 DEF TopoInv, Awaited
<1> QED BY <1>1, <1>8

LEMMA SccInvInit == ASSUME Init PROVE SccInv
<1>1. IInv
  BY InvInit
<1>2. ComponentsPart
  BY DEF Init, SccInit, ComponentsPart, NothingFound
<1>3. node_state = [b \in Block |-> "unvisited"]
  BY DEF Init, LoopInit, DomInit, IterInit
<1>4. Anchored(node_state, post_order)
  BY <1>3 DEF Anchored
<1> QED BY <1>1, <1>2, <1>4 DEF SccInv

\* The iterator runs before the components are looked for.
LEMMA AnchoredStep ==
  ASSUME SccInv, Order, UNCHANGED componentVars
  PROVE  Anchored(node_state, post_order)' /\ ComponentsPart'
<1>0. /\ CfgOk /\ OrderInv(node_state, stack, post_order) /\ Anchored(node_state, post_order)
      /\ stack # <<>> /\ cfg' = cfg /\ IterStep
  BY DEF SccInv, IInv, OrderPart, Order, IterStep, Visit, Pop
<1>1. scc_pass = "order" /\ scc_pass' = "order" /\ NothingFound'
  BY <1>0 DEF SccInv, ComponentsPart, NothingFound, componentVars, sccVars, topoVars
<1>2. ComponentsPart'
  BY <1>1 DEF ComponentsPart
<1>3. PICK n \in Nat : n = Len(stack)
  BY <1>0, LenProperties DEF OrderInv, OrderTypes
<1>4. n > 0 /\ stack[n] \in Block /\ node_state \in [Block -> States]
  BY <1>0, <1>3, NotEmpty DEF OrderInv, OrderTypes
<1>5. PICK ns2, po2 : ns2 = node_state' /\ po2 = post_order'
  OBVIOUS
<1>6. Anchored(ns2, po2)
  <2>1. CASE Visit
    <3>1. /\ node_state[stack[n]] = "unvisited" /\ po2 = post_order
          /\ ns2 = [node_state EXCEPT ![stack[n]] = "visited"]
      BY <1>3, <1>5, <2>1 DEF Visit, TopBlock
    <3> QED BY <1>0, <1>4, <3>1, AnchoredVisit
  <2>2. CASE Pop
    <3>1. /\ node_state[stack[n]] # "unvisited"
          /\ IF node_state[stack[n]] = "finished" THEN ns2 = node_state /\ po2 = post_order
             ELSE /\ ns2 = [node_state EXCEPT ![stack[n]] = "finished"]
                  /\ po2 = Append(post_order, stack[n])
      BY <1>3, <1>5, <2>2 DEF Pop, TopBlock
    <3>2. CASE node_state[stack[n]] = "finished"
      BY <1>0, <3>1, <3>2
    <3>3. CASE node_state[stack[n]] # "finished"
      <4>1. node_state[stack[n]] = "visited"
        BY <1>4, <3>1, <3>3 DEF States
      <4>2. ns2 = [node_state EXCEPT ![stack[n]] = "finished"] /\ po2 = Append(post_order, stack[n])
        BY <3>1, <3>3
      <4>3. Anchored(ns2, Append(post_order, stack[n]))
        BY <1>0, <1>3, <1>4, <4>1, <4>2, AnchoredPop
      <4> QED BY <4>2, <4>3
    <3> QED BY <3>2, <3>3
  <2> QED BY <1>0, <2>1, <2>2 DEF IterStep
<1> QED BY <1>0, <1>2, <1>5, <1>6, FrameAnchored

\* What else is computed leaves the components as they are.
LEMMA ComponentsUntouched ==
  ASSUME SccInv, UNCHANGED <<cfg, node_state, stack, post_order>>, UNCHANGED componentVars
  PROVE  Anchored(node_state, post_order)' /\ ComponentsPart'
<1>1. Anchored(node_state, post_order)'
  BY FrameAnchored DEF SccInv
<1>2. UNCHANGED <<scc_pass, root, work, seen, block_to_scc, scc_count, indegree, ready, topo_order>>
  BY DEF componentVars, sccVars, topoVars
<1>3. (Found' <=> Found) /\ \A x : FoundOn(x)' <=> FoundOn(x)
  BY <1>2, FrameFound DEF Found, FoundOn
<1>4. InTopo' <=> InTopo
  BY <1>2, FrameTopo DEF InTopo
<1>5. NothingFound' <=> NothingFound
  BY <1>2 DEF NothingFound
<1>6. ComponentsPart'
  BY <1>2, <1>3, <1>4, <1>5 DEF SccInv, ComponentsPart
<1> QED BY <1>1, <1>6

LEMMA FoundStart ==
  ASSUME CfgOk, Numbered, NothingFound
  PROVE  Found
<1>1. PICK N \in Nat : N = Len(post_order)
  BY DEF Numbered
<1>2. block_to_scc = [b \in Block |-> 0] /\ 1..0 = {} /\ 0 \in 0..0 /\ 0 \in Nat
  BY DEF NothingFound, NoScc
<1>3. Groups(block_to_scc, 0)
  BY <1>2 DEF Groups, Grouped, Used, Lower
<1>4. \A b \in Reachable : ~(PlaceOf(b) + 1 > N + 1)
  <2> TAKE b \in Reachable
  <2>1. PlaceOf(b) \in 1..N
    BY <1>1 DEF Numbered
  <2> QED BY <2>1
<1>5. 1 \in Nat /\ 1 <= 1 /\ 1 <= N + 1
  OBVIOUS
<1>6. Between(block_to_scc, 0, {}, 1)
  BY <1>1, <1>2, <1>3, <1>4, <1>5 DEF Between
<1> QED BY <1>6 DEF Found, NothingFound

\* Once the iterator is done, its order is what the searches rest on.
LEMMA SearchesReady ==
  ASSUME SccInv, stack = <<>>
  PROVE  /\ CfgOk /\ OrderedBy(post_order) /\ Numbered /\ Leading
         /\ Len(cfg_rpo) = Len(post_order) /\ \A b : InReach(b) <=> b \in Reachable
<1>1. CfgOk /\ OrderedBy(post_order) /\ Numbered
  BY InvNumbered DEF SccInv
<1>2. OrderInv(node_state, <<>>, post_order) /\ Anchored(node_state, post_order)
  BY DEF SccInv, IInv, OrderPart
<1>3. Leading
  BY <1>1, <1>2, LeadingLemma
<1>4. cfg_rpo = rpo
  BY DEF cfg_rpo, rpo
<1>5. \A b : InReach(b) <=> b \in Reachable
  BY <1>1 DEF InReach, OrderedBy
<1> QED BY <1>1, <1>3, <1>4, <1>5, RpoLemma

OrderSame == UNCHANGED <<cfg, node_state, stack, post_order>>

LEMMA OrderDoneStep ==
  ASSUME SccInv, OrderDone, OrderSame PROVE ComponentsPart'
<1>1. /\ stack = <<>> /\ NothingFound /\ cfg' = cfg /\ post_order' = post_order /\ stack' = stack
      /\ scc_pass' = "roots" /\ topo_order' = topo_order
      /\ UNCHANGED <<root, seen, block_to_scc, scc_count>>
  BY DEF SccInv, ComponentsPart, OrderDone, IterDone, OrderSame, topoVars
<1>2. Found
  BY <1>1, SearchesReady, FoundStart
<1>3. Found'
  BY <1>1, <1>2, FrameFound DEF Found
<1> QED BY <1>1, <1>3 DEF ComponentsPart, NothingFound

LEMMA NextRootStep ==
  ASSUME SccInv, NextRoot, OrderSame PROVE ComponentsPart'
<1>1. /\ stack = <<>> /\ Found /\ topo_order = <<>> /\ cfg' = cfg /\ post_order' = post_order
      /\ stack' = stack /\ topo_order' = topo_order /\ block_to_scc' = block_to_scc
      /\ root' = root + 1 /\ root <= Len(cfg_rpo) /\ scc_pass = "roots"
  BY DEF SccInv, ComponentsPart, NextRoot, OrderSame, topoVars
<1>2. CfgOk /\ Numbered /\ root <= Len(post_order) /\ Between(block_to_scc, scc_count, seen, root)
  BY <1>1, SearchesReady DEF Found
<1>3. CASE Root(root) \in seen
  <2>1. scc_pass' = "roots" /\ UNCHANGED <<seen, scc_count>>
    BY <1>1, <1>3 DEF NextRoot
  <2>2. PICK B, n, sn, r : B = block_to_scc /\ n = scc_count /\ sn = seen /\ r = root
    OBVIOUS
  <2>3. Between(B, n, sn, r + 1)
    BY <1>2, <1>3, <2>2, RootSeen
  <2>4. Found'
    BY <1>1, <2>1, <2>2, <2>3, FrameFound
  <2> QED BY <1>1, <2>1, <2>4 DEF ComponentsPart
<1>4. CASE Root(root) \notin seen
  <2>1. /\ scc_pass' = "search" /\ work' = <<Root(root)>> /\ seen' = seen \cup {Root(root)}
        /\ scc_count' = scc_count + 1
    BY <1>4 DEF NextRoot
  <2>2. PICK B, n, sn, r, x : B = block_to_scc /\ n = scc_count /\ sn = seen /\ r = root /\ x = Root(root)
    OBVIOUS
  <2>3. Searching(B, n + 1, sn \cup {x}, r + 1, <<x>>, x)
    BY <1>2, <1>4, <2>2, RootFound
  <2>4. FoundOn(x)'
    BY <1>1, <2>1, <2>2, <2>3, FrameFound
  <2>5. x \in Block
    <3>1. x \in Reachable
      BY <2>3 DEF Searching
    <3> QED BY <1>2, <3>1, ReachableLemma
  <2>6. \E y \in Block : FoundOn(y)'
    BY <2>4, <2>5
  <2> QED BY <1>1, <2>1, <2>6 DEF ComponentsPart
<1> QED BY <1>3, <1>4

LEMMA SearchStep ==
  ASSUME SccInv, Search, OrderSame PROVE ComponentsPart'
<1>1. /\ stack = <<>> /\ topo_order = <<>> /\ cfg' = cfg /\ post_order' = post_order
      /\ stack' = stack /\ topo_order' = topo_order /\ work # <<>>
      /\ scc_pass' = "search" /\ UNCHANGED <<root, scc_count>>
  BY DEF SccInv, ComponentsPart, Search, OrderSame, topoVars
<1>2. PICK x \in Block : FoundOn(x)
  BY DEF SccInv, ComponentsPart, Search
<1>3. PICK B, n, sn, r, wk, b : /\ B = block_to_scc /\ n = scc_count /\ sn = seen /\ r = root
                                /\ wk = work /\ b = Last(work)
  OBVIOUS
<1>4. PICK J : J = Joining(b)
  OBVIOUS
<1>5. CfgOk /\ Numbered /\ Leading /\ J = {p \in Preds(b) : p \in Reachable} \ sn
  BY <1>1, <1>3, <1>4, SearchesReady DEF Joining
<1>6. block_to_scc' = [B EXCEPT ![b] = n] /\ seen' = sn \cup J
  BY <1>3, <1>4 DEF Search
<1>7. PICK s \in Ascending(J) : work' = Front(wk) \o s
  BY <1>3, <1>4 DEF Search, WorkPopped
<1>8. PICK B2 : B2 = [B EXCEPT ![b] = n]
  OBVIOUS
<1>9. Searching(B2, n, sn \cup J, r, Front(wk) \o s, x)
  BY <1>1, <1>2, <1>3, <1>5, <1>8, SearchGoesOn DEF FoundOn
<1>10. FoundOn(x)'
  BY <1>1, <1>3, <1>6, <1>7, <1>8, <1>9, FrameFound
<1>11. \E y \in Block : FoundOn(y)'
  BY <1>10
<1> QED BY <1>1, <1>11 DEF ComponentsPart

LEMMA SearchDoneStep ==
  ASSUME SccInv, SearchDone, OrderSame PROVE ComponentsPart'
<1>1. /\ stack = <<>> /\ topo_order = <<>> /\ cfg' = cfg /\ post_order' = post_order
      /\ stack' = stack /\ topo_order' = topo_order /\ work = <<>>
      /\ scc_pass' = "roots" /\ UNCHANGED <<root, seen, block_to_scc, scc_count>>
  BY DEF SccInv, ComponentsPart, SearchDone, OrderSame, topoVars
<1>2. PICK x \in Block : FoundOn(x)
  BY DEF SccInv, ComponentsPart, SearchDone
<1>3. CfgOk /\ Numbered
  BY <1>1, SearchesReady
<1>4. Between(block_to_scc, scc_count, seen, root)
  BY <1>1, <1>2, <1>3, SearchEnds DEF FoundOn
<1>5. Found'
  BY <1>1, <1>4, FrameFound
<1> QED BY <1>1, <1>5 DEF ComponentsPart

LEMMA StartTopoStep ==
  ASSUME SccInv, StartTopo, OrderSame PROVE ComponentsPart'
<1>1. /\ stack = <<>> /\ Found /\ topo_order = <<>> /\ cfg' = cfg /\ post_order' = post_order
      /\ stack' = stack /\ topo_order' = topo_order
      /\ scc_pass' = "topo" /\ UNCHANGED <<root, seen, block_to_scc, scc_count>>
      /\ root > Len(cfg_rpo)
  BY DEF SccInv, ComponentsPart, StartTopo, OrderSame
<1>2. CfgOk /\ Numbered /\ root > Len(post_order)
  BY <1>1, SearchesReady
<1>3. AllFound
  BY <1>1, <1>2, AllFoundLemma
<1>4. PICK ind, rd : ind = indegree' /\ rd = ready'
  OBVIOUS
<1>5. ind = [scc \in Sccs |-> IndegreeOf(scc)] /\ rd = {scc \in Sccs : ind[scc] = 0}
  BY <1>4 DEF StartTopo
<1>6. TopoInv(<<>>, ind, rd)
  BY <1>2, <1>3, <1>5, TopoStart
<1>7. InTopo'
  BY <1>1, <1>3, <1>4, <1>6, FrameTopo DEF InTopo
<1> QED BY <1>1, <1>7 DEF ComponentsPart

LEMMA TopoNextStep ==
  ASSUME SccInv, TopoStep, OrderSame PROVE ComponentsPart'
<1>1. /\ stack = <<>> /\ InTopo /\ ready # {} /\ cfg' = cfg /\ post_order' = post_order
      /\ stack' = stack /\ scc_pass' = "topo" /\ UNCHANGED <<root, seen, block_to_scc, scc_count>>
  BY DEF SccInv, ComponentsPart, TopoStep, OrderSame, sccVars
<1>2. CfgOk /\ Numbered
  BY <1>1, SearchesReady
<1>3. PICK tp, ind, rd, scc : tp = topo_order /\ ind = indegree /\ rd = ready /\ scc = Chosen(ready)
  OBVIOUS
<1>4. PICK ind2, rd2 : ind2 = indegree' /\ rd2 = ready'
  OBVIOUS
<1>5. /\ topo_order' = Append(tp, scc)
      /\ ind2 = CountedDown(ind, scc) /\ rd2 = NowReady(rd, ind2, scc)
  BY <1>3, <1>4 DEF TopoStep, Chosen, CountedDown, NowReady
<1>6. TopoInv(Append(tp, scc), ind2, rd2)
  <2>1. AllFound /\ TopoInv(tp, ind, rd) /\ rd # {} /\ scc = Chosen(rd)
    BY <1>1, <1>3 DEF InTopo
  <2> QED BY <1>2, <1>5, <2>1, TopoGoesOn
<1>7. InTopo'
  BY <1>1, <1>4, <1>5, <1>6, FrameTopo DEF InTopo
<1> QED BY <1>1, <1>7 DEF ComponentsPart

LEMMA TopoDoneStep ==
  ASSUME SccInv, TopoDone, OrderSame PROVE ComponentsPart'
<1>1. /\ stack = <<>> /\ InTopo /\ ready = {} /\ cfg' = cfg /\ post_order' = post_order
      /\ stack' = stack /\ scc_pass' = "done" /\ UNCHANGED <<root, seen, block_to_scc, scc_count>>
      /\ UNCHANGED <<indegree, ready, topo_order>>
  BY DEF SccInv, ComponentsPart, TopoDone, OrderSame, topoVars
<1>2. InTopo' /\ ready' = {}
  BY <1>1, FrameTopo DEF InTopo
<1> QED BY <1>1, <1>2 DEF ComponentsPart

LEMMA SccInvNext == ASSUME SccInv, [Next]_flowVars PROVE SccInv'
<1>1. IInv'
  BY InvNext DEF SccInv
<1>2. CASE Dominators
  <2>1. UNCHANGED componentVars
    BY <1>2 DEF Dominators
  <2>2. CASE Order
    BY <1>1, <2>1, <2>2, AnchoredStep DEF SccInv
  <2>3. CASE ~Order
    <3>1. UNCHANGED <<cfg, node_state, stack, post_order>>
      BY <1>2, <2>3 DEF Dominators, DomNext, StartDoms, ProcessBlock, EndRound, FrontierOf, FrontiersDone, iterVars
    <3> QED BY <1>1, <2>1, <3>1, ComponentsUntouched DEF SccInv
  <2> QED BY <2>2, <2>3
<1>3. CASE LoopNest
  <2>1. UNCHANGED componentVars
    BY <1>3 DEF LoopNest
  <2>2. UNCHANGED <<cfg, node_state, stack, post_order>>
    BY <1>3 DEF LoopNest, LoopNext, FindHeader, HeadersDone, StartLoop, Walk, WalkDone, LoopsDone,
                StartIterate, IterateVisit, IteratePop, dtVars, iterVars
  <2> QED BY <1>1, <2>1, <2>2, ComponentsUntouched DEF SccInv
<1>4. CASE Components
  <2>1. OrderSame
    BY <1>4 DEF OrderSame, Components, SccNext, OrderDone, NextRoot, Search, SearchDone, StartTopo, TopoStep, TopoDone, iterVars
  <2>2. ComponentsPart'
    BY <1>4, <2>1, OrderDoneStep, NextRootStep, SearchStep, SearchDoneStep, StartTopoStep,
       TopoNextStep, TopoDoneStep DEF Components, SccNext
  <2>3. Anchored(node_state, post_order)'
    BY <2>1, FrameAnchored DEF OrderSame, SccInv
  <2> QED BY <1>1, <2>2, <2>3 DEF SccInv
<1>5. CASE UNCHANGED flowVars
  <2>1. UNCHANGED <<cfg, node_state, stack, post_order>> /\ UNCHANGED componentVars
    BY <1>5 DEF flowVars, dtVars, iterVars
  <2> QED BY <1>1, <2>1, ComponentsUntouched DEF SccInv
<1> QED BY <1>2, <1>3, <1>4, <1>5 DEF Next

LEMMA SccsFromInv == ASSUME SccInv PROVE SccsExact
<1>1. ASSUME scc_pass \in {"roots", "topo", "done"}
      PROVE  \A a \in Block :
               /\ block_to_scc[a] # NoScc =>
                     /\ BlocksOf(block_to_scc[a]) = {b \in Reachable : OnCycle(a, b)}
                     /\ IsCycle(block_to_scc[a]) = (a \in ReachedFrom(a))
               /\ scc_pass # "roots" => (block_to_scc[a] # NoScc) = (a \in Reachable)
  <2>1. CfgOk /\ Found
    BY <1>1, SearchesReady DEF SccInv, ComponentsPart, InTopo, AllFound
  <2>2. scc_pass # "roots" => AllFound
    BY <1>1 DEF SccInv, ComponentsPart, InTopo
  <2> QED BY <2>1, <2>2, FoundLemma, CycleFound, AssignedLemma
<1>2. ASSUME scc_pass = "done"
      PROVE  /\ CfgOk /\ OrderedBy(post_order) /\ Numbered /\ AllFound
             /\ TopoInv(topo_order, indegree, {})
  BY <1>2, SearchesReady DEF SccInv, ComponentsPart, InTopo
<1>3. ComponentsExact
  BY <1>1, <1>2, HeaderLemma DEF ComponentsExact
<1>4. ASSUME scc_pass = "topo", NEW scc \in Sccs
      PROVE  indegree[scc] = Cardinality(PredSccs(scc) \ ToSet(topo_order))
  <2>1. TopoInv(topo_order, indegree, ready)
    BY <1>4 DEF SccInv, ComponentsPart, InTopo
  <2> QED BY <2>1 DEF TopoInv, Awaited
<1>5. scc_pass = "done" =>
        /\ Len(topo_order) = scc_count /\ ToSet(topo_order) = Sccs
        /\ \A i, j \in DOMAIN topo_order :
              /\ topo_order[j] \in SuccSccs(topo_order[i]) => i < j
              /\ (i < j /\ \A k \in i .. j - 1 : topo_order[j] \notin SuccSccs(topo_order[k]))
                    => TiebreakKey(topo_order[i]) < TiebreakKey(topo_order[j])
  BY <1>2, TopoEnds
<1>6. TopoOrderExact
  BY <1>4, <1>5 DEF TopoOrderExact
<1> QED BY <1>3, <1>6 DEF SccsExact

\* The components are those of the paths, whatever the graph: two blocks are in one exactly if
\* each reaches the other, the blocks that cannot be reached are in none, a component is called
\* a cycle exactly if its blocks reach themselves, and its one entry dominates it; the indegrees
\* count what is still to come, and the order is topological, complete, and decided by the
\* blocks alone (CfgSccAnalysis::compute, compute_topo_order).
THEOREM StronglyConnected == Spec => []SccsExact
<1>1. Init => SccInv
  BY SccInvInit
<1>2. SccInv /\ [Next]_flowVars => SccInv'
  BY SccInvNext
<1>3. SccInv => SccsExact
  BY SccsFromInv
<1> QED BY <1>1, <1>2, <1>3, PTL DEF Spec

-----------------------------------------------------------------------------
(***************************************************************************)
(* Natural loops, as the paths of a graph give them.                       *)
(***************************************************************************)
\* The loop of a header is the least set that holds it, its latches and what leads to a
\* block of the loop other than the header.
LEMMA NaturalLoopLemma ==
  ASSUME CfgOk, NEW h \in Block
  PROVE  /\ NaturalLoop(h) \subseteq Block /\ h \in NaturalLoop(h)
         /\ \A p \in Preds(h) : PathDominates(h, p) => p \in NaturalLoop(h)
         /\ \A b \in NaturalLoop(h) : b # h => Preds(b) \subseteq NaturalLoop(h)
         /\ \A T : /\ h \in T
                   /\ \A p \in Preds(h) : PathDominates(h, p) => p \in T
                   /\ \A b \in T \cap NaturalLoop(h) : b # h => Preds(b) \subseteq T
                   => NaturalLoop(h) \subseteq T
<1> DEFINE back == [b \in Block |-> Preds(b)]
           L == {p \in Preds(h) : PathDominates(h, p)}
           R == ReachSteps(back, L, {h})
<1>1. back \in [Block -> SUBSET Block] /\ L \in SUBSET Block /\ IsFiniteSet(Block)
  BY CfgLemma
<1>2. LeastClosed(R, Block, back, L, {h})
  BY <1>1, ReachLemma
<1>3. \A b \in Block : back[b] = Preds(b)
  OBVIOUS
<1>4. NaturalLoop(h) = {h} \cup R
  BY DEF NaturalLoop
<1> HIDE DEF R, back
<1>5. R \subseteq Block /\ L \ {h} \subseteq R /\ h \notin R /\ \A b \in R : Preds(b) \ {h} \subseteq R
  BY <1>2, <1>3 DEF LeastClosed
<1>6. ASSUME NEW T, h \in T, \A p \in Preds(h) : PathDominates(h, p) => p \in T,
             \A b \in T \cap NaturalLoop(h) : b # h => Preds(b) \subseteq T
      PROVE  NaturalLoop(h) \subseteq T
  <2>1. L \ {h} \subseteq T
    BY <1>6
  <2>2. \A b \in T \cap R : back[b] \ {h} \subseteq T
    BY <1>3, <1>4, <1>5, <1>6
  <2>3. R \subseteq T
    BY <1>2, <2>1, <2>2 DEF LeastClosed
  <2> QED BY <1>4, <1>6, <2>3
<1> QED BY <1>4, <1>5, <1>6

\* The header dominates its loop when only reachable blocks jump to reachable ones.
LEMMA HeaderDominates ==
  ASSUME CfgOk, OnlyReachedJump, NEW h \in Reachable
  PROVE  \A x \in NaturalLoop(h) : x \in Reachable /\ (x = h \/ x \notin Around(h))
<1> DEFINE T == {x \in Reachable : x = h \/ x \notin Around(h)}
<1>1. h \in Block /\ h \in T
  BY ReachableLemma
<1>2. ASSUME NEW p \in Preds(h), PathDominates(h, p) PROVE p \in T
  BY <1>2, CfgLemma, <1>1, ReachableLemma DEF PathDominates, Around, OnlyReachedJump, Edges
<1>3. ASSUME NEW b \in T, b # h, NEW p \in Preds(b) PROVE p \in T
  <2>1. b \in Block /\ p \in Block /\ b \in Succs(p) /\ <<p, b>> \in Edges
    BY ReachableLemma, CfgLemma DEF Edges, Succs
  <2>2. p \in Reachable
    BY <2>1 DEF OnlyReachedJump
  <2>3. p \notin Around(h)
    BY <1>3, <2>1, AroundLemma
  <2> QED BY <2>2, <2>3
<1>4. NaturalLoop(h) \subseteq T
  <2> HIDE DEF T
  <2> QED BY <1>1, <1>2, <1>3, NaturalLoopLemma
<1> QED BY <1>4

\* An entry in a loop is its header.
LEMMA EntryHeads ==
  ASSUME CfgOk, OnlyReachedJump, NEW h \in Reachable, cfg.entry \in NaturalLoop(h)
  PROVE  cfg.entry = h
BY HeaderDominates, AroundLemma

\* Two loops that share a block are nested: the one whose header does not dominate the
\* other header is inside.
LEMMA NestedLemma ==
  ASSUME CfgOk, OnlyReachedJump, NEW h1 \in Reachable, NEW h2 \in Reachable, h1 # h2,
         h1 \in Around(h2), NEW b, b \in NaturalLoop(h1), b \in NaturalLoop(h2)
  PROVE  NaturalLoop(h2) \subseteq NaturalLoop(h1)
<1>0. h1 \in Block /\ h2 \in Block /\ cfg.entry \in Reachable
  BY ReachableLemma
<1>1. h1 \notin NaturalLoop(h2)
  BY HeaderDominates
<1>2. h2 \in NaturalLoop(h1)
  <2> SUFFICES ASSUME h2 \notin NaturalLoop(h1) PROVE FALSE
    OBVIOUS
  <2> DEFINE X == {x \in Reachable : x \in NaturalLoop(h1) => x \in Around(h2)}
  <2>1. cfg.entry \in X
    <3>1. cfg.entry \in NaturalLoop(h1) => cfg.entry = h1
      BY EntryHeads
    <3> QED BY <1>0, <3>1
  <2>2. ASSUME NEW x \in X, NEW y \in Succs(x) PROVE y \in X
    <3>1. x \in Block /\ y \in Reachable /\ y \in Block
      BY ReachableLemma
    <3>2. ASSUME y \in NaturalLoop(h1), y # h1 PROVE y \in Around(h2)
      <4>1. x \in Preds(y)
        BY <3>1, CfgLemma
      <4>2. x \in NaturalLoop(h1)
        BY <1>0, <3>2, <4>1, NaturalLoopLemma
      <4> QED BY <3>2, <4>2, AroundLemma
    <3> QED BY <3>1, <3>2
  <2>3. Reachable \subseteq X
    <3> HIDE DEF X
    <3> QED BY <2>1, <2>2, ReachableLemma
  <2>4. b \in Reachable /\ (b = h2 \/ b \notin Around(h2))
    BY HeaderDominates
  <2> QED BY <2>3, <2>4
<1>3. ASSUME NEW x \in NaturalLoop(h2) \cap NaturalLoop(h1) PROVE Preds(x) \subseteq NaturalLoop(h1)
  BY <1>0, <1>1, <1>3, NaturalLoopLemma
<1> QED BY <1>0, <1>2, <1>3, NaturalLoopLemma

\* What comes earlier in the reverse post-order is not dominated by what comes later.
LEMMA EarlierAround ==
  ASSUME CfgOk, Numbered, Exact(doms), NEW h1 \in Reachable, NEW h2 \in Reachable,
         PlaceOf(h1) > PlaceOf(h2)
  PROVE  h1 # h2 /\ h1 \in Around(h2)
<1>1. h1 \in Block /\ h2 \in Block
  BY ReachableLemma
<1>2. PlaceOf(h1) \in Nat /\ PlaceOf(h2) \in Nat
  BY DEF Numbered
<1>3. h1 # h2
  BY <1>2
<1>4. h2 \notin PathStrictDominators(h1)
  <2> SUFFICES ASSUME h2 \in PathStrictDominators(h1) PROVE FALSE
    OBVIOUS
  <2>1. h2 \in Chain(doms, h1) /\ h1 \in InTree(doms)
    BY <1>1 DEF Exact
  <2>2. PlaceOf(h2) > PlaceOf(h1)
    BY <2>1, ExactLemma DEF Chains
  <2> QED BY <1>2, <2>2
<1> QED BY <1>1, <1>3, <1>4, AroundLemma

\* The latches the dominators give are those of the paths.
LEMMA LatchesLemma ==
  ASSUME CfgOk, \A b \in Block : StrictDominators(b) = PathStrictDominators(b), NEW h \in Reachable
  PROVE  /\ Latches(h) \subseteq Preds(h)
         /\ \A p \in Preds(h) : p \in Latches(h) <=> PathDominates(h, p)
<1>1. h \in Block /\ Preds(h) \subseteq Block /\ h \notin Around(h)
  BY ReachableLemma, CfgLemma, AroundLemma
<1>2. ASSUME NEW p \in Preds(h) PROVE p \in Latches(h) <=> PathDominates(h, p)
  <2>1. p \in Latches(h) <=> h = p \/ h \in PathStrictDominators(p)
    BY <1>1 DEF Latches, Dominates, StrictlyDominates
  <2>2. h \in PathStrictDominators(p) <=> h # p /\ p \in Reachable /\ p \notin Around(h)
    BY <1>1, AroundLemma
  <2>3. PathDominates(h, p) <=> p \in Reachable /\ p \notin Around(h)
    BY DEF PathDominates, Around
  <2> QED BY <1>1, <2>1, <2>2, <2>3
<1> QED BY <1>2 DEF Latches

-----------------------------------------------------------------------------
(***************************************************************************)
(* Up the tree of loops.  P stands for parent, n for the number of loops.  *)
(***************************************************************************)
\* Loops around a loop have smaller indices.
Rising(P, n) == n \in Nat /\ P \in [1..n -> 0..n] /\ \A l \in 1..n : P[l] < l

OutIn(P, l) == LET up[k \in DOMAIN P] == IF P[k] = NoLoop THEN k ELSE up[P[k]] IN up[l]
UnderIn(P, l, lp) ==
  LET under[k \in DOMAIN P \cup {NoLoop}] == k # NoLoop /\ (k = lp \/ under[P[k]]) IN under[l]

OutUp(f, P, n) == f = [k \in 1..n |-> IF P[k] = NoLoop THEN k ELSE f[P[k]]]
UnderUp(f, P, lp, n) == f = [k \in 0..n |-> k # NoLoop /\ (k = lp \/ f[P[k]])]

LEMMA OutUpExists ==
  ASSUME NEW P, NEW n, Rising(P, n)
  PROVE  \E f : OutUp(f, P, n)
<1> DEFINE G == {k \in Nat : k <= n => \E f : OutUp(f, P, k)}
<1>0. n \in Nat /\ \A l \in 1..n : P[l] \in 0..n /\ P[l] < l
  BY DEF Rising
<1>1. 0 \in G
  <2>1. 1..0 = {}
    OBVIOUS
  <2>2. OutUp([k \in 1..0 |-> 0], P, 0)
    BY <2>1 DEF OutUp
  <2> QED BY <2>2
<1>2. ASSUME NEW k \in 0..(n - 1), k \in G PROVE k + 1 \in G
  <2>1. k \in Nat /\ k <= n /\ k + 1 \in 1..n /\ k + 1 \in Nat
    BY <1>0
  <2>2. PICK f : OutUp(f, P, k)
    BY <1>2, <2>1
  <2>3. P[k + 1] = 0 \/ P[k + 1] \in 1..k
    BY <1>0, <2>1
  <2> DEFINE g == [j \in 1..(k + 1) |-> IF j = k + 1 THEN (IF P[j] = NoLoop THEN j ELSE f[P[j]]) ELSE f[j]]
  <2>4. ASSUME NEW j \in 1..(k + 1) PROVE g[j] = IF P[j] = NoLoop THEN j ELSE g[P[j]]
    <3>1. CASE j = k + 1
      <4>1. P[j] # NoLoop => P[j] \in 1..k /\ P[j] \in 1..(k + 1) /\ P[j] # k + 1
        BY <2>1, <2>3, <3>1 DEF NoLoop
      <4> QED BY <3>1, <4>1
    <3>2. CASE j # k + 1
      <4>1. j \in 1..k /\ j \in 1..n
        BY <1>0, <2>1, <3>2
      <4>2. f[j] = IF P[j] = NoLoop THEN j ELSE f[P[j]]
        BY <2>2, <4>1 DEF OutUp
      <4>3. P[j] # NoLoop => P[j] \in 1..(k + 1) /\ P[j] # k + 1
        BY <1>0, <2>1, <4>1 DEF NoLoop
      <4> QED BY <3>2, <4>1, <4>2, <4>3
    <3> QED BY <3>1, <3>2
  <2>5. OutUp(g, P, k + 1)
    <3>1. g = [j \in 1..(k + 1) |-> g[j]]
      OBVIOUS
    <3> HIDE DEF g
    <3> QED BY <2>4, <3>1 DEF OutUp
  <2> QED BY <2>1, <2>5
<1>3. \A k \in 0..n : k \in G
  <2> HIDE DEF G
  <2> QED BY <1>0, <1>1, <1>2, CountUp
<1> QED BY <1>0, <1>3

LEMMA UnderUpExists ==
  ASSUME NEW P, NEW n, Rising(P, n), NEW lp
  PROVE  \E f : UnderUp(f, P, lp, n)
<1> DEFINE G == {k \in Nat : k <= n => \E f : UnderUp(f, P, lp, k)}
<1>0. n \in Nat /\ \A l \in 1..n : P[l] \in 0..n /\ P[l] < l
  BY DEF Rising
<1>1. 0 \in G
  <2> DEFINE g == [k \in 0..0 |-> FALSE]
  <2>1. g = [k \in 0..0 |-> k # NoLoop /\ (k = lp \/ g[P[k]])]
    <3>1. \A k \in 0..0 : k = NoLoop
      BY DEF NoLoop
    <3> QED BY <3>1
  <2>2. UnderUp(g, P, lp, 0)
    BY <2>1 DEF UnderUp
  <2> QED BY <2>2
<1>2. ASSUME NEW k \in 0..(n - 1), k \in G PROVE k + 1 \in G
  <2>1. k \in Nat /\ k <= n /\ k + 1 \in 1..n /\ k + 1 \in Nat
    BY <1>0
  <2>2. PICK f : UnderUp(f, P, lp, k)
    BY <1>2, <2>1
  <2>3. P[k + 1] \in 0..k
    BY <1>0, <2>1
  <2> DEFINE g == [j \in 0..(k + 1) |-> IF j = k + 1 THEN (j = lp \/ f[P[j]]) ELSE f[j]]
  <2>4. ASSUME NEW j \in 0..(k + 1) PROVE g[j] = (j # NoLoop /\ (j = lp \/ g[P[j]]))
    <3>1. CASE j = k + 1
      <4>1. P[j] \in 0..(k + 1) /\ P[j] # k + 1 /\ j # NoLoop
        BY <2>1, <2>3, <3>1 DEF NoLoop
      <4> QED BY <3>1, <4>1
    <3>2. CASE j # k + 1
      <4>1. j \in 0..k
        BY <2>1, <3>2
      <4>2. f[j] = (j # NoLoop /\ (j = lp \/ f[P[j]]))
        BY <2>2, <4>1 DEF UnderUp
      <4>3. j # NoLoop => P[j] \in 0..(k + 1) /\ P[j] # k + 1
        BY <1>0, <2>1, <4>1 DEF NoLoop
      <4>4. j # NoLoop => g[P[j]] = f[P[j]]
        BY <4>3
      <4> QED BY <3>2, <4>1, <4>2, <4>4
    <3> QED BY <3>1, <3>2
  <2>5. UnderUp(g, P, lp, k + 1)
    <3>1. g = [j \in 0..(k + 1) |-> g[j]]
      OBVIOUS
    <3> HIDE DEF g
    <3> QED BY <2>4, <3>1 DEF UnderUp
  <2> QED BY <2>1, <2>5
<1>3. \A k \in 0..n : k \in G
  <2> HIDE DEF G
  <2> QED BY <1>0, <1>1, <1>2, CountUp
<1> QED BY <1>0, <1>3

\* The outermost loop around a loop.
LEMMA OutLemma ==
  ASSUME NEW P, NEW n, Rising(P, n)
  PROVE  /\ \A l \in 1..n : OutIn(P, l) = IF P[l] = NoLoop THEN l ELSE OutIn(P, P[l])
         /\ \A l \in 1..n : OutIn(P, l) \in 1..l /\ P[OutIn(P, l)] = NoLoop
<1> DEFINE f == CHOOSE g : OutUp(g, P, n)
           G == {k \in Nat : \A l \in 1..k : l <= n => OutIn(P, l) \in 1..l /\ P[OutIn(P, l)] = NoLoop}
<1>0. n \in Nat /\ DOMAIN P = 1..n /\ \A l \in 1..n : P[l] \in 0..n /\ P[l] < l
  BY DEF Rising
<1>1. OutUp(f, P, n)
  BY OutUpExists
<1>2. \A l \in 1..n : OutIn(P, l) = f[l]
  BY <1>0 DEF OutIn, OutUp
<1> HIDE DEF f
<1>3. \A l \in 1..n : P[l] # NoLoop => P[l] \in 1..n
  BY <1>0 DEF NoLoop
<1>4. \A l \in 1..n : OutIn(P, l) = IF P[l] = NoLoop THEN l ELSE OutIn(P, P[l])
  BY <1>1, <1>2, <1>3 DEF OutUp
<1>5. 0 \in G
  OBVIOUS
<1>6. ASSUME NEW k \in 0..(n - 1), k \in G PROVE k + 1 \in G
  <2>1. k \in Nat /\ k + 1 \in 1..n /\ k + 1 \in Nat
    BY <1>0
  <2>2. OutIn(P, k + 1) \in 1..(k + 1) /\ P[OutIn(P, k + 1)] = NoLoop
    <3>1. CASE P[k + 1] = NoLoop
      <4>1. OutIn(P, k + 1) = k + 1
        BY <1>4, <2>1, <3>1
      <4> QED BY <2>1, <3>1, <4>1
    <3>2. CASE P[k + 1] # NoLoop
      <4>1. OutIn(P, k + 1) = OutIn(P, P[k + 1])
        BY <1>4, <2>1, <3>2
      <4>2. P[k + 1] \in 1..k /\ P[k + 1] <= n
        BY <1>0, <2>1, <3>2 DEF NoLoop
      <4>3. OutIn(P, P[k + 1]) \in 1..P[k + 1] /\ P[OutIn(P, P[k + 1])] = NoLoop
        BY <1>6, <4>2
      <4> QED BY <2>1, <4>1, <4>2, <4>3
    <3> QED BY <3>1, <3>2
  <2>3. \A l \in 1..(k + 1) : l = k + 1 \/ l \in 1..k
    BY <2>1
  <2> QED BY <1>6, <2>1, <2>2, <2>3
<1>7. \A k \in 0..n : k \in G
  <2> HIDE DEF G
  <2> QED BY <1>0, <1>5, <1>6, CountUp
<1>8. n \in G
  BY <1>0, <1>7
<1> QED BY <1>0, <1>4, <1>8

\* The loops around a loop.
LEMMA UnderLemma ==
  ASSUME NEW P, NEW n, Rising(P, n), NEW lp
  PROVE  /\ ~UnderIn(P, NoLoop, lp)
         /\ \A l \in 1..n : UnderIn(P, l, lp) <=> l = lp \/ UnderIn(P, P[l], lp)
         /\ \A l \in 0..n : UnderIn(P, l, lp) \in BOOLEAN
<1> DEFINE f == CHOOSE g : UnderUp(g, P, lp, n)
<1>0. /\ n \in Nat /\ DOMAIN P = 1..n /\ \A l \in 1..n : P[l] \in 0..n /\ l \in 0..n /\ l # NoLoop
      /\ NoLoop \in 0..n
  BY DEF Rising, NoLoop
<1>1. UnderUp(f, P, lp, n)
  BY UnderUpExists
<1>2. DOMAIN P \cup {NoLoop} = 0..n
  BY <1>0 DEF NoLoop
<1>3. \A l : UnderIn(P, l, lp) = f[l]
  BY <1>2 DEF UnderIn, UnderUp
<1> HIDE DEF f
<1>4. \A l \in 0..n : f[l] = (l # NoLoop /\ (l = lp \/ f[P[l]]))
  BY <1>1 DEF UnderUp
<1>5. f[NoLoop] = FALSE
  BY <1>0, <1>4
<1>6. \A l \in 1..n : f[l] = (l = lp \/ f[P[l]])
  BY <1>0, <1>4
<1>7. \A l \in 0..n : f[l] \in BOOLEAN
  BY <1>4
<1> QED BY <1>0, <1>3, <1>5, <1>6, <1>7

\* What holds of a loop when it holds of the loop around it holds of all.
LEMMA FromAbove ==
  ASSUME NEW P, NEW n, Rising(P, n), NEW G,
         \A l \in 1..n : (P[l] \in 1..n => P[l] \in G) => l \in G
  PROVE  \A l \in 1..n : l \in G
<1> DEFINE T == {k \in Nat : \A l \in 1..k : l <= n => l \in G}
<1>0. n \in Nat /\ \A l \in 1..n : P[l] \in 0..n /\ P[l] < l
  BY DEF Rising
<1>1. 0 \in T
  OBVIOUS
<1>2. ASSUME NEW k \in 0..(n - 1), k \in T PROVE k + 1 \in T
  <2>1. k \in Nat /\ k + 1 \in 1..n /\ k + 1 \in Nat
    BY <1>0
  <2>2. P[k + 1] \in 1..n => P[k + 1] \in 1..k /\ P[k + 1] <= n
    BY <1>0, <2>1
  <2>3. k + 1 \in G
    BY <1>2, <2>1, <2>2
  <2>4. \A l \in 1..(k + 1) : l = k + 1 \/ l \in 1..k
    BY <2>1
  <2> QED BY <1>2, <2>1, <2>3, <2>4
<1>3. \A k \in 0..n : k \in T
  <2> HIDE DEF T
  <2> QED BY <1>0, <1>1, <1>2, CountUp
<1> QED BY <1>0, <1>3

LEMMA UnderOut ==
  ASSUME NEW P, NEW n, Rising(P, n)
  PROVE  \A l \in 1..n : UnderIn(P, l, OutIn(P, l))
<1> DEFINE G == {l \in 1..n : UnderIn(P, l, OutIn(P, l))}
<1>1. ASSUME NEW l \in 1..n, P[l] \in 1..n => P[l] \in G PROVE l \in G
  <2>1. P[l] \in 0..n
    BY DEF Rising
  <2>2. CASE P[l] = NoLoop
    <3>1. OutIn(P, l) = l
      BY <2>2, OutLemma
    <3> QED BY <3>1, UnderLemma
  <2>3. CASE P[l] # NoLoop
    <3>1. P[l] \in 1..n
      BY <2>1, <2>3 DEF NoLoop
    <3>2. OutIn(P, l) = OutIn(P, P[l])
      BY <2>3, OutLemma
    <3> QED BY <1>1, <3>1, <3>2, UnderLemma
  <2> QED BY <2>2, <2>3
<1>2. \A l \in 1..n : l \in G
  <2> HIDE DEF G
  <2> QED BY <1>1, FromAbove
<1> QED BY <1>2

\* Under a loop is under the loop around that.
LEMMA UnderUpward ==
  ASSUME NEW P, NEW n, Rising(P, n), NEW c \in 1..n, NEW lp \in 1..n, P[c] = lp
  PROVE  \A l \in 0..n : UnderIn(P, l, c) => UnderIn(P, l, lp)
<1> DEFINE G == {l \in 1..n : UnderIn(P, l, c) => UnderIn(P, l, lp)}
<1>0. n \in Nat /\ \A l \in 1..n : P[l] \in 0..n
  BY DEF Rising
<1>1. UnderIn(P, lp, lp) /\ UnderIn(P, c, lp)
  BY UnderLemma
<1>2. ASSUME NEW l \in 1..n, P[l] \in 1..n => P[l] \in G PROVE l \in G
  <2>1. P[l] = NoLoop \/ P[l] \in 1..n
    BY <1>0 DEF NoLoop
  <2> QED BY <1>1, <1>2, <2>1, UnderLemma
<1>3. \A l \in 1..n : l \in G
  <2> HIDE DEF G
  <2> QED BY <1>2, FromAbove
<1>4. \A l \in 0..n : l = NoLoop \/ l \in 1..n
  BY <1>0 DEF NoLoop
<1> QED BY <1>3, <1>4, UnderLemma

\* What is under a loop is the loop or under a child of it.
LEMMA UnderChild ==
  ASSUME NEW P, NEW n, Rising(P, n), NEW lp \in 1..n
  PROVE  \A l \in 0..n : UnderIn(P, l, lp) =>
           l = lp \/ \E c \in 1..n : P[c] = lp /\ UnderIn(P, l, c)
<1> DEFINE G == {l \in 1..n : UnderIn(P, l, lp) =>
                   l = lp \/ \E c \in 1..n : P[c] = lp /\ UnderIn(P, l, c)}
<1>0. n \in Nat /\ \A l \in 1..n : P[l] \in 0..n
  BY DEF Rising
<1>1. ASSUME NEW l \in 1..n, P[l] \in 1..n => P[l] \in G PROVE l \in G
  <2>1. P[l] = NoLoop \/ P[l] \in 1..n
    BY <1>0 DEF NoLoop
  <2>2. \A c : UnderIn(P, l, c) <=> l = c \/ UnderIn(P, P[l], c)
    BY UnderLemma
  <2>3. P[l] = lp => P[l] = lp /\ UnderIn(P, l, l)
    BY <2>2
  <2> QED BY <1>1, <2>1, <2>2, <2>3, UnderLemma
<1>2. \A l \in 1..n : l \in G
  <2> HIDE DEF G
  <2> QED BY <1>1, FromAbove
<1>3. \A l \in 0..n : l = NoLoop \/ l \in 1..n
  BY <1>0 DEF NoLoop
<1> QED BY <1>2, <1>3, UnderLemma

\* A child more takes no loop from under another.
OneMore(P, P2, n, o, cur) ==
  /\ Rising(P2, n) /\ P2[o] = cur /\ \A l \in 1..n : l # o => P2[l] = P[l]
  /\ \A l \in 0..n, lp \in 1..n : UnderIn(P, l, lp) => UnderIn(P2, l, lp)

LEMMA UnderMore ==
  ASSUME NEW P, NEW n, Rising(P, n), NEW o \in 1..n, P[o] = NoLoop, NEW cur \in 1..n, cur < o,
         NEW P2, P2 = [P EXCEPT ![o] = cur]
  PROVE  OneMore(P, P2, n, o, cur)
<1>0. n \in Nat /\ P \in [1..n -> 0..n] /\ cur \in 0..n /\ \A l \in 1..n : P[l] \in 0..n /\ P[l] < l
  BY DEF Rising
<1>1. P2 \in [1..n -> 0..n] /\ P2[o] = cur /\ \A l \in 1..n : l # o => P2[l] = P[l]
  BY <1>0
<1>2. Rising(P2, n)
  BY <1>0, <1>1 DEF Rising
<1>3. ASSUME NEW lp \in 1..n PROVE \A l \in 0..n : UnderIn(P, l, lp) => UnderIn(P2, l, lp)
  <2> DEFINE G == {l \in 1..n : UnderIn(P, l, lp) => UnderIn(P2, l, lp)}
  <2>1. ASSUME NEW l \in 1..n, P[l] \in 1..n => P[l] \in G PROVE l \in G
    <3>1. P[l] = NoLoop \/ P[l] \in 1..n
      BY <1>0 DEF NoLoop
    <3>2. UnderIn(P, l, lp) <=> l = lp \/ UnderIn(P, P[l], lp)
      BY UnderLemma
    <3>3. UnderIn(P2, l, lp) <=> l = lp \/ UnderIn(P2, P2[l], lp)
      BY <1>2, UnderLemma
    <3>4. P[l] # NoLoop => P2[l] = P[l]
      BY <1>1
    <3> QED BY <2>1, <3>1, <3>2, <3>3, <3>4, UnderLemma
  <2>2. \A l \in 1..n : l \in G
    <3> HIDE DEF G
    <3> QED BY <2>1, FromAbove
  <2>3. \A l \in 0..n : l = NoLoop \/ l \in 1..n
    BY <1>0 DEF NoLoop
  <2> QED BY <2>2, <2>3, UnderLemma
<1> QED BY <1>1, <1>2, <1>3 DEF OneMore

\* The blocks of the loops a loop is under, H standing for header.
LEMMA UnderInside ==
  ASSUME NEW P, NEW n, Rising(P, n), NEW H,
         \A l \in 1..n : P[l] # NoLoop => NaturalLoop(H[l]) \subseteq NaturalLoop(H[P[l]])
  PROVE  \A l \in 0..n, lp \in 1..n : UnderIn(P, l, lp) => NaturalLoop(H[l]) \subseteq NaturalLoop(H[lp])
<1>0. n \in Nat /\ \A l \in 1..n : P[l] \in 0..n
  BY DEF Rising
<1>1. ASSUME NEW lp \in 1..n
      PROVE  \A l \in 0..n : UnderIn(P, l, lp) => NaturalLoop(H[l]) \subseteq NaturalLoop(H[lp])
  <2> DEFINE G == {l \in 1..n : UnderIn(P, l, lp) => NaturalLoop(H[l]) \subseteq NaturalLoop(H[lp])}
  <2>1. ASSUME NEW l \in 1..n, P[l] \in 1..n => P[l] \in G PROVE l \in G
    <3>1. P[l] = NoLoop \/ (P[l] \in 1..n /\ P[l] # NoLoop)
      BY <1>0 DEF NoLoop
    <3>2. UnderIn(P, l, lp) <=> l = lp \/ UnderIn(P, P[l], lp)
      BY UnderLemma
    <3> QED BY <2>1, <3>1, <3>2, UnderLemma
  <2>2. \A l \in 1..n : l \in G
    <3> HIDE DEF G
    <3> QED BY <2>1, FromAbove
  <2>3. \A l \in 0..n : l = NoLoop \/ l \in 1..n
    BY <1>0 DEF NoLoop
  <2> QED BY <2>2, <2>3, UnderLemma
<1> QED BY <1>1

-----------------------------------------------------------------------------
(***************************************************************************)
(* The walks.  H, P, C, B and wk stand for header, parent, children,       *)
(* block_to_loop and worklist.                                             *)
(***************************************************************************)
\* The headers found: in reverse post-order, each with a latch.
Heads(H) ==
  /\ H \in Seq(Block) /\ Len(H) \in Nat /\ DOMAIN H = 1..Len(H)
  /\ \A l \in 1..Len(H) : H[l] \in Reachable /\ \E p \in Preds(H[l]) : PathDominates(H[l], p)
  /\ \A i, j \in 1..Len(H) : i < j => PlaceOf(H[i]) > PlaceOf(H[j])

OnceIn(s, l) == \E i \in DOMAIN s : \A j \in DOMAIN s : s[j] = l <=> j = i
NeverIn(s, l) == \A j \in DOMAIN s : s[j] # l
Counted(P, C, n) ==
  \A out, l \in 1..n : (P[l] = out => OnceIn(C[out], l)) /\ (P[l] # out => NeverIn(C[out], l))

\* Only loops from lo on have children or blocks, and parents come before their children.
Shape(P, C, B, n, lo) ==
  /\ n \in Nat /\ P \in [1..n -> 0..n] /\ B \in [Block -> 0..n] /\ C \in [1..n -> Seq(1..n)]
  /\ \A l \in 1..n : P[l] # NoLoop => lo <= P[l] /\ P[l] < l
  /\ \A b \in Block : B[b] # NoLoop => lo <= B[b]
  /\ Counted(P, C, n)

\* Blocks and loops are put only where they belong.
Inside(H, P, B) ==
  /\ \A b \in Block : B[b] # NoLoop => b \in NaturalLoop(H[B[b]])
  /\ \A l \in 1..Len(H) : P[l] # NoLoop => NaturalLoop(H[l]) \subseteq NaturalLoop(H[P[l]])

\* The blocks the tree puts in a loop.
Put(P, B, lp) == {b \in Block : UnderIn(P, B[b], lp)}

\* The loops from lo on are whole.
Whole(H, P, B, lo) ==
  \A lp \in 1..Len(H) : lo <= lp => NaturalLoop(H[lp]) \subseteq Put(P, B, lp)

\* During the walk of a loop: its latches, what leads to its blocks and what leads to the
\* headers of its children is in it or waits.
Walking(H, P, B, cur, wk) ==
  /\ \A p \in Preds(H[cur]) : PathDominates(H[cur], p) => p \in Put(P, B, cur) \cup ToSet(wk)
  /\ \A b \in Block : B[b] = cur /\ b # H[cur] => Preds(b) \subseteq Put(P, B, cur) \cup ToSet(wk)
  /\ \A l \in 1..Len(H) : P[l] = cur => Preds(H[l]) \subseteq Put(P, B, cur) \cup ToSet(wk)

\* No block in three loops.
NotThree(H) ==
  \A b \in Block, i, j, k \in 1..Len(H) :
    b \in NaturalLoop(H[i]) /\ b \in NaturalLoop(H[j]) /\ b \in NaturalLoop(H[k]) =>
      i = j \/ j = k \/ i = k

LEMMA ShapeRises ==
  ASSUME NEW P, NEW C, NEW B, NEW n, NEW lo, Shape(P, C, B, n, lo)
  PROVE  /\ Rising(P, n) /\ \A b \in Block : B[b] \in 0..n
         /\ \A l \in 0..n : l = NoLoop \/ (l # NoLoop /\ l \in 1..n)
<1>1. n \in Nat /\ P \in [1..n -> 0..n] /\ \A b \in Block : B[b] \in 0..n
  BY DEF Shape
<1>2. ASSUME NEW l \in 1..n PROVE P[l] < l
  <2>1. l > 0 /\ (P[l] = 0 \/ P[l] < l)
    BY <1>1 DEF Shape, NoLoop
  <2> QED BY <2>1
<1> QED BY <1>1, <1>2 DEF Rising, NoLoop

LEMMA HeadsLemma ==
  ASSUME CfgOk, Numbered, Exact(doms), NEW H, Heads(H)
  PROVE  /\ Len(H) \in Nat /\ \A l \in 1..Len(H) : H[l] \in Reachable /\ H[l] \in Block
         /\ \A i, j \in 1..Len(H) : i < j => H[i] # H[j] /\ H[i] \in Around(H[j])
         /\ \A i, j \in 1..Len(H) : i # j => H[i] # H[j]
<1>1. Len(H) \in Nat /\ \A l \in 1..Len(H) : H[l] \in Reachable /\ H[l] \in Block
  BY ReachableLemma DEF Heads
<1>2. \A i, j \in 1..Len(H) : i < j => H[i] # H[j] /\ H[i] \in Around(H[j])
  BY <1>1, EarlierAround DEF Heads
<1>3. \A i, j \in 1..Len(H) : i # j => i < j \/ j < i
  BY <1>1
<1> QED BY <1>1, <1>2, <1>3

\* Where blocks that were in no loop, and loops that had no parent, are put, the loops
\* only grow.
LEMMA PutGrows ==
  ASSUME NEW P, NEW n, Rising(P, n), NEW B \in [Block -> 0..n], NEW b \in Block, B[b] = NoLoop,
         NEW cur \in 1..n, NEW B2, B2 = [B EXCEPT ![b] = cur]
  PROVE  /\ \A lp \in 1..n : Put(P, B, lp) \subseteq Put(P, B2, lp)
         /\ b \in Put(P, B2, cur) /\ B2[b] = cur /\ \A c \in Block : c # b => B2[c] = B[c]
<1>1. B2[b] = cur /\ \A c \in Block : c # b => B2[c] = B[c]
  OBVIOUS
<1>2. UnderIn(P, cur, cur)
  BY UnderLemma
<1>3. \A lp : ~UnderIn(P, NoLoop, lp)
  BY UnderLemma
<1> QED BY <1>1, <1>2, <1>3 DEF Put

LEMMA UnmappedSound ==
  ASSUME CfgOk, Numbered, Exact(doms), NEW H, Heads(H), NEW P, NEW B, NEW cur \in 1..Len(H),
         Inside(H, P, B), NEW b \in Block, b \in NaturalLoop(H[cur]), B \in [Block -> 0..Len(H)],
         NEW B2, B2 = [B EXCEPT ![b] = cur]
  PROVE  /\ Inside(H, P, B2)
         /\ b # H[cur] => Preds(b) \subseteq NaturalLoop(H[cur])
<1>1. B2[b] = cur /\ \A c \in Block : c # b => B2[c] = B[c]
  OBVIOUS
<1>2. H[cur] \in Block
  BY HeadsLemma
<1>3. b # H[cur] => Preds(b) \subseteq NaturalLoop(H[cur])
  BY <1>2, NaturalLoopLemma
<1> QED BY <1>1, <1>3 DEF Inside

LEMMA UnmappedShape ==
  ASSUME NEW P, NEW C, NEW B, NEW n, NEW cur \in 1..n, Shape(P, C, B, n, cur),
         NEW b \in Block, NEW B2, B2 = [B EXCEPT ![b] = cur]
  PROVE  Shape(P, C, B2, n, cur)
<1>1. n \in Nat /\ B \in [Block -> 0..n] /\ cur \in 0..n /\ cur <= cur
  BY DEF Shape
<1>2. B2 \in [Block -> 0..n] /\ B2[b] = cur /\ \A c \in Block : c # b => B2[c] = B[c]
  BY <1>1
<1>3. \A c \in Block : B2[c] # NoLoop => cur <= B2[c]
  BY <1>1, <1>2 DEF Shape
<1> QED BY <1>2, <1>3 DEF Shape

LEMMA UnmappedWalk ==
  ASSUME CfgOk, NEW H, NEW n, n = Len(H), NEW P, Rising(P, n), NEW B \in [Block -> 0..n],
         NEW cur \in 1..n, NEW wk, NEW wk2, Walking(H, P, B, cur, wk), Whole(H, P, B, cur + 1),
         NEW b \in Block, B[b] = NoLoop, NEW B2, B2 = [B EXCEPT ![b] = cur],
         ToSet(wk) \subseteq ToSet(wk2) \cup {b}, b # H[cur] => Preds(b) \subseteq ToSet(wk2)
  PROVE  Walking(H, P, B2, cur, wk2) /\ Whole(H, P, B2, cur + 1)
<1>1. /\ \A lp \in 1..n : Put(P, B, lp) \subseteq Put(P, B2, lp)
      /\ b \in Put(P, B2, cur) /\ B2[b] = cur /\ \A c \in Block : c # b => B2[c] = B[c]
  BY PutGrows
<1>2. Put(P, B, cur) \cup ToSet(wk) \subseteq Put(P, B2, cur) \cup ToSet(wk2)
  BY <1>1
<1>3. ASSUME NEW p \in Preds(H[cur]), PathDominates(H[cur], p) PROVE p \in Put(P, B2, cur) \cup ToSet(wk2)
  BY <1>2, <1>3 DEF Walking
<1>4. ASSUME NEW c \in Block, B2[c] = cur, c # H[cur] PROVE Preds(c) \subseteq Put(P, B2, cur) \cup ToSet(wk2)
  <2>1. CASE c = b
    BY <1>4, <2>1
  <2>2. CASE c # b
    <3>1. B[c] = cur
      BY <1>1, <1>4, <2>2
    <3>2. Preds(c) \subseteq Put(P, B, cur) \cup ToSet(wk)
      BY <1>4, <3>1 DEF Walking
    <3> QED BY <1>2, <3>2
  <2> QED BY <2>1, <2>2
<1>5. ASSUME NEW l \in 1..Len(H), P[l] = cur PROVE Preds(H[l]) \subseteq Put(P, B2, cur) \cup ToSet(wk2)
  <2>1. Preds(H[l]) \subseteq Put(P, B, cur) \cup ToSet(wk)
    BY <1>5 DEF Walking
  <2> QED BY <1>2, <2>1
<1>6. Whole(H, P, B2, cur + 1)
  BY <1>1 DEF Whole
<1> QED BY <1>3, <1>4, <1>5, <1>6 DEF Walking

LEMMA OutFrom ==
  ASSUME NEW P, NEW C, NEW B, NEW n, NEW cur \in 1..n, Shape(P, C, B, n, cur), NEW l \in 1..n, cur <= l
  PROVE  /\ OutIn(P, l) \in 1..n /\ P[OutIn(P, l)] = NoLoop /\ cur <= OutIn(P, l)
         /\ l = cur => OutIn(P, l) = cur
<1>0. n \in Nat /\ Rising(P, n) /\ \A k \in 1..n : P[k] \in 0..n
  BY ShapeRises DEF Shape
<1> DEFINE G == {k \in 1..n : cur <= k => cur <= OutIn(P, k)}
<1>1. ASSUME NEW k \in 1..n, P[k] \in 1..n => P[k] \in G PROVE k \in G
  <2>1. CASE P[k] = NoLoop
    BY <1>0, <2>1, OutLemma
  <2>2. CASE P[k] # NoLoop
    <3>1. P[k] \in 1..n /\ cur <= P[k]
      BY <1>0, <2>2 DEF Shape, NoLoop
    <3>2. OutIn(P, k) = OutIn(P, P[k])
      BY <1>0, <2>2, OutLemma
    <3> QED BY <1>1, <3>1, <3>2
  <2> QED BY <2>1, <2>2
<1>2. \A k \in 1..n : k \in G
  <2> HIDE DEF G
  <2> QED BY <1>0, <1>1, FromAbove
<1>3. OutIn(P, l) \in 1..l /\ P[OutIn(P, l)] = NoLoop
  BY <1>0, OutLemma
<1>4. OutIn(P, l) \in 1..n
  BY <1>0, <1>3
<1>5. P[cur] = NoLoop
  <2>1. P[cur] # NoLoop => cur <= P[cur] /\ P[cur] < cur
    BY DEF Shape
  <2>2. P[cur] \in 0..n
    BY <1>0
  <2> QED BY <2>1, <2>2, <1>0
<1>6. l = cur => OutIn(P, l) = cur
  BY <1>0, <1>5, OutLemma
<1> QED BY <1>2, <1>3, <1>4, <1>6

LEMMA AppendOnce ==
  ASSUME NEW n, NEW s \in Seq(1..n), NEW o \in 1..n
  PROVE  /\ NeverIn(s, o) => OnceIn(Append(s, o), o)
         /\ \A l : l # o /\ OnceIn(s, l) => OnceIn(Append(s, o), l)
         /\ \A l : l # o /\ NeverIn(s, l) => NeverIn(Append(s, o), l)
<1> DEFINE t == Append(s, o)
           k == Len(s)
<1>1. k \in Nat /\ DOMAIN s = 1..k /\ t \in Seq(1..n) /\ DOMAIN t = 1..(k + 1)
  BY AppendProperties
<1>2. t[k + 1] = o /\ \A j \in 1..k : t[j] = s[j]
  BY AppendProperties
<1> HIDE DEF t, k
<1>3. /\ k + 1 \in 1..(k + 1) /\ \A j \in 1..k : j # k + 1 /\ j \in 1..(k + 1)
      /\ \A j \in 1..(k + 1) : j = k + 1 \/ j \in 1..k
  BY <1>1
<1>4. NeverIn(s, o) => OnceIn(t, o)
  BY <1>1, <1>2, <1>3 DEF NeverIn, OnceIn
<1>5. ASSUME NEW l, l # o, OnceIn(s, l) PROVE OnceIn(t, l)
  <2>1. PICK i \in DOMAIN s : \A j \in DOMAIN s : s[j] = l <=> j = i
    BY <1>5 DEF OnceIn
  <2>2. i \in DOMAIN t /\ i # k + 1
    BY <1>1, <1>3
  <2>3. ASSUME NEW j \in DOMAIN t PROVE t[j] = l <=> j = i
    <3>1. CASE j = k + 1
      BY <1>2, <1>5, <2>2, <3>1
    <3>2. CASE j # k + 1
      <4>1. j \in 1..k /\ j \in DOMAIN s /\ t[j] = s[j]
        BY <1>1, <1>2, <1>3, <3>2
      <4> QED BY <2>1, <4>1
    <3> QED BY <3>1, <3>2
  <2> QED BY <2>2, <2>3 DEF OnceIn
<1>6. ASSUME NEW l, l # o, NeverIn(s, l) PROVE NeverIn(t, l)
  BY <1>1, <1>2, <1>3, <1>6 DEF NeverIn
<1> QED BY <1>4, <1>5, <1>6 DEF t

LEMMA MappedShape ==
  ASSUME NEW P, NEW C, NEW B, NEW n, NEW cur \in 1..n, Shape(P, C, B, n, cur),
         NEW o \in 1..n, P[o] = NoLoop, cur < o,
         NEW P2, P2 = [P EXCEPT ![o] = cur],
         NEW C2, C2 = [C EXCEPT ![cur] = Append(@, o)]
  PROVE  Shape(P2, C2, B, n, cur)
<1>1. /\ n \in Nat /\ P \in [1..n -> 0..n] /\ C \in [1..n -> Seq(1..n)] /\ cur \in 0..n
      /\ B \in [Block -> 0..n] /\ \A b \in Block : B[b] # NoLoop => cur <= B[b]
  BY DEF Shape
<1>2. P2 \in [1..n -> 0..n] /\ P2[o] = cur /\ \A l \in 1..n : l # o => P2[l] = P[l]
  BY <1>1
<1>3. C[cur] \in Seq(1..n) /\ Append(C[cur], o) \in Seq(1..n)
  BY <1>1, AppendProperties
<1>4. /\ C2 \in [1..n -> Seq(1..n)] /\ C2[cur] = Append(C[cur], o)
      /\ \A out \in 1..n : out # cur => C2[out] = C[out]
  BY <1>1, <1>3
<1>5. ASSUME NEW l \in 1..n, P2[l] # NoLoop PROVE cur <= P2[l] /\ P2[l] < l
  <2>1. CASE l = o
    BY <1>2, <2>1
  <2>2. CASE l # o
    BY <1>2, <1>5, <2>2 DEF Shape
  <2> QED BY <2>1, <2>2
<1>6. ASSUME NEW out \in 1..n, NEW l \in 1..n
      PROVE  (P2[l] = out => OnceIn(C2[out], l)) /\ (P2[l] # out => NeverIn(C2[out], l))
  <2>1. NoLoop # out
    BY DEF NoLoop
  <2>2. (P[l] = out => OnceIn(C[out], l)) /\ (P[l] # out => NeverIn(C[out], l))
    BY DEF Shape, Counted
  <2>3. CASE out # cur
    <3>1. l = o => P[l] # out /\ P2[l] # out
      BY <1>2, <2>1, <2>3
    <3> QED BY <1>2, <1>4, <2>2, <2>3, <3>1
  <2>4. CASE out = cur /\ l = o
    <3>1. NeverIn(C[cur], o)
      BY <2>1, <2>2, <2>4
    <3> QED BY <1>2, <1>3, <1>4, <2>4, <3>1, AppendOnce
  <2>5. CASE out = cur /\ l # o
    BY <1>2, <1>3, <1>4, <2>2, <2>5, AppendOnce
  <2> QED BY <2>3, <2>4, <2>5
<1>7. Counted(P2, C2, n)
  BY <1>6 DEF Counted
<1> QED BY <1>1, <1>2, <1>4, <1>5, <1>7 DEF Shape

LEMMA MappedSound ==
  ASSUME CfgOk, Numbered, Exact(doms), OnlyReachedJump, NEW H, Heads(H), NEW n, n = Len(H),
         NEW P, NEW C, NEW B, NEW cur \in 1..n, Shape(P, C, B, n, cur), Inside(H, P, B),
         NEW b \in Block, b \in NaturalLoop(H[cur]), NEW l, l = B[b], l # NoLoop,
         NEW o, o = OutIn(P, l), o # cur, NEW P2, P2 = [P EXCEPT ![o] = cur]
  PROVE  Inside(H, P2, B) /\ Preds(H[l]) \subseteq NaturalLoop(H[cur])
<1>1. n \in Nat /\ Rising(P, n) /\ l \in 1..n /\ cur <= l /\ l \in 0..n
  <2>1. Rising(P, n) /\ l \in 0..n /\ n \in Nat /\ l # 0 /\ cur <= l
    BY ShapeRises DEF Shape, NoLoop
  <2> QED BY <2>1
<1>2. o \in 1..n /\ P[o] = NoLoop /\ cur <= o /\ l # cur
  BY <1>1, OutFrom
<1>3. cur < o
  BY <1>1, <1>2
<1>4. P2[o] = cur /\ \A k \in 1..n : k # o => P2[k] = P[k]
  BY <1>1, <1>2 DEF Rising
<1>5. NaturalLoop(H[l]) \subseteq NaturalLoop(H[o])
  <2>1. UnderIn(P, l, o)
    BY <1>1, UnderOut
  <2> QED BY <1>1, <1>2, <2>1, UnderInside DEF Inside
<1>6. /\ H[cur] \in Reachable /\ H[o] \in Reachable /\ H[cur] # H[o] /\ H[cur] \in Around(H[o])
      /\ H[l] \in Block /\ H[cur] \in Block /\ H[l] # H[cur]
  BY <1>1, <1>2, <1>3, HeadsLemma
<1>7. b \in NaturalLoop(H[l])
  BY DEF Inside
<1>8. NaturalLoop(H[o]) \subseteq NaturalLoop(H[cur])
  BY <1>5, <1>6, <1>7, NestedLemma
<1>9. H[l] \in NaturalLoop(H[cur])
  BY <1>5, <1>6, <1>8, NaturalLoopLemma
<1>10. Preds(H[l]) \subseteq NaturalLoop(H[cur])
  BY <1>6, <1>9, NaturalLoopLemma
<1>11. Inside(H, P2, B)
  BY <1>4, <1>8 DEF Inside
<1> QED BY <1>10, <1>11

\* A block of a loop already under this one.
LEMMA MappedStays ==
  ASSUME NEW H, NEW P, NEW B, NEW cur, NEW wk, NEW wk2, Walking(H, P, B, cur, wk),
         NEW b \in Put(P, B, cur), ToSet(wk) \subseteq ToSet(wk2) \cup {b}
  PROVE  Walking(H, P, B, cur, wk2)
<1>1. Put(P, B, cur) \cup ToSet(wk) \subseteq Put(P, B, cur) \cup ToSet(wk2)
  OBVIOUS
<1> QED BY <1>1 DEF Walking

\* A block of the loop cur that the tree has in another loop l, which is not under cur.
MetIn(H, P, C, B, n, cur, b, l) ==
  /\ Shape(P, C, B, n, cur) /\ Inside(H, P, B) /\ cur \in 1..n
  /\ b \in Block /\ b \in NaturalLoop(H[cur]) /\ l = B[b] /\ l # NoLoop /\ OutIn(P, l) # cur

\* Two deep, a block met again is in a loop that has no parent yet.
LEMMA MetTwoDeep ==
  ASSUME NEW H, NEW n, n = Len(H), NotThree(H), NEW P, NEW C, NEW B, NEW cur, NEW b, NEW l,
         MetIn(H, P, C, B, n, cur, b, l)
  PROVE  P[l] = NoLoop /\ OutIn(P, l) = l /\ l \in 1..n /\ cur < l
<1> USE DEF MetIn
<1>1. n \in Nat /\ Rising(P, n) /\ l \in 1..n /\ cur <= l
  <2>1. Rising(P, n) /\ l \in 0..n /\ n \in Nat /\ l # 0 /\ cur <= l
    BY ShapeRises DEF Shape, NoLoop
  <2> QED BY <2>1
<1>2. l # cur
  BY <1>1, OutFrom
<1>3. b \in NaturalLoop(H[l])
  BY DEF Inside
<1>4. P[l] = NoLoop
  <2> SUFFICES ASSUME P[l] # NoLoop PROVE FALSE
    OBVIOUS
  <2>1. P[l] \in 1..n /\ P[l] < l /\ cur <= P[l]
    <3>1. P[l] \in 0..n /\ P[l] # 0 /\ P[l] < l /\ cur <= P[l]
      BY <1>1 DEF Shape, NoLoop
    <3> QED BY <3>1, <1>1
  <2>2. OutIn(P, l) = OutIn(P, P[l])
    BY <1>1, OutLemma
  <2>3. P[l] # cur
    BY <2>1, <2>2, OutFrom
  <2>4. P[l] # l
    BY <2>1
  <2>5. b \in NaturalLoop(H[P[l]])
    BY <1>1, <1>3 DEF Inside
  <2> QED BY <1>1, <1>2, <1>3, <2>1, <2>3, <2>4, <2>5 DEF NotThree
<1> QED BY <1>1, <1>2, <1>4, OutLemma

\* The loop l put under cur, for the block b, and the walk going on above it.
Joined(P, P2, B, n, cur, b, l) ==
  /\ Rising(P, n) /\ B \in [Block -> 0..n] /\ cur \in 1..n /\ b \in Block
  /\ l \in 1..n /\ B[b] = l /\ P[l] = NoLoop /\ cur < l /\ P2 = [P EXCEPT ![l] = cur]

LEMMA MappedWalk ==
  ASSUME NEW H, NEW n, n = Len(H), NEW P, NEW P2, NEW B, NEW cur, NEW b, NEW l, Joined(P, P2, B, n, cur, b, l),
         NEW wk, NEW wk2, Walking(H, P, B, cur, wk), Whole(H, P, B, cur + 1),
         ToSet(wk) \subseteq ToSet(wk2) \cup {b}, Preds(H[l]) \subseteq ToSet(wk2)
  PROVE  Walking(H, P2, B, cur, wk2) /\ Whole(H, P2, B, cur + 1)
<1> USE DEF Joined
<1>1. /\ Rising(P2, n) /\ P2[l] = cur /\ \A k \in 1..n : k # l => P2[k] = P[k]
      /\ \A k \in 0..n, lp \in 1..n : UnderIn(P, k, lp) => UnderIn(P2, k, lp)
  <2>1. OneMore(P, P2, n, l, cur)
    BY UnderMore
  <2> QED BY <2>1 DEF OneMore
<1>2. \A lp \in 1..n : Put(P, B, lp) \subseteq Put(P2, B, lp)
  BY <1>1 DEF Put
<1>3. b \in Put(P2, B, cur)
  <2>1. UnderIn(P2, cur, cur)
    BY <1>1, UnderLemma
  <2>2. UnderIn(P2, l, cur) <=> l = cur \/ UnderIn(P2, P2[l], cur)
    BY <1>1, UnderLemma
  <2>3. UnderIn(P2, B[b], cur)
    BY <1>1, <2>1, <2>2
  <2> QED BY <2>3 DEF Put
<1>4. Put(P, B, cur) \cup ToSet(wk) \subseteq Put(P2, B, cur) \cup ToSet(wk2)
  BY <1>2, <1>3
<1>5. ASSUME NEW p \in Preds(H[cur]), PathDominates(H[cur], p) PROVE p \in Put(P2, B, cur) \cup ToSet(wk2)
  BY <1>4, <1>5 DEF Walking
<1>6. ASSUME NEW c \in Block, B[c] = cur, c # H[cur] PROVE Preds(c) \subseteq Put(P2, B, cur) \cup ToSet(wk2)
  <2>1. Preds(c) \subseteq Put(P, B, cur) \cup ToSet(wk)
    BY <1>6 DEF Walking
  <2> QED BY <1>4, <2>1
<1>7. ASSUME NEW k \in 1..Len(H), P2[k] = cur PROVE Preds(H[k]) \subseteq Put(P2, B, cur) \cup ToSet(wk2)
  <2>1. CASE k = l
    BY <2>1
  <2>2. CASE k # l
    <3>1. Preds(H[k]) \subseteq Put(P, B, cur) \cup ToSet(wk)
      BY <1>1, <1>7, <2>2 DEF Walking
    <3> QED BY <1>4, <3>1
  <2> QED BY <2>1, <2>2
<1>8. Whole(H, P2, B, cur + 1)
  BY <1>2 DEF Whole
<1> QED BY <1>5, <1>6, <1>7, <1>8 DEF Walking

\* What is put in a loop is in the natural loop.
LEMMA PutFits ==
  ASSUME NEW H, NEW n, n = Len(H), NEW P, NEW C, NEW B, NEW lo, Shape(P, C, B, n, lo), Inside(H, P, B)
  PROVE  \A lp \in 1..n : Put(P, B, lp) \subseteq NaturalLoop(H[lp])
<1>0. /\ Rising(P, n) /\ (\A b \in Block : B[b] \in 0..n)
      /\ \A l \in 1..n : P[l] # NoLoop => NaturalLoop(H[l]) \subseteq NaturalLoop(H[P[l]])
  BY ShapeRises DEF Inside
<1>1. ASSUME NEW lp \in 1..n, NEW b \in Put(P, B, lp) PROVE b \in NaturalLoop(H[lp])
  <2>1. b \in Block /\ UnderIn(P, B[b], lp)
    BY DEF Put
  <2>2. B[b] # NoLoop
    BY <1>0, <2>1, UnderLemma
  <2>3. b \in NaturalLoop(H[B[b]])
    BY <2>1, <2>2 DEF Inside
  <2> QED BY <1>0, <2>1, <2>3, UnderInside
<1> QED BY <1>1

\* At the end of its walk a loop is whole.
LEMMA WalkWhole ==
  ASSUME CfgOk, Numbered, Exact(doms), OnlyReachedJump, NEW H, Heads(H), NEW n, n = Len(H),
         NEW P, NEW C, NEW B, NEW cur \in 1..n, Shape(P, C, B, n, cur), Inside(H, P, B),
         Walking(H, P, B, cur, <<>>), Whole(H, P, B, cur + 1)
  PROVE  Whole(H, P, B, cur)
<1> DEFINE h == H[cur]
           V == Put(P, B, cur)
<1>0. /\ n \in Nat /\ Rising(P, n) /\ (\A b \in Block : B[b] \in 0..n) /\ h \in Block /\ h \in Reachable
      /\ \A l \in 1..n : H[l] \in Block
  BY ShapeRises, HeadsLemma DEF Shape
<1>1. ToSet(<<>>) = {}
  BY DEF ToSet
<1>2. V \subseteq NaturalLoop(h) /\ V \subseteq Block
  BY PutFits DEF Put
<1> HIDE DEF h, V
<1>3. \A p \in Preds(h) : PathDominates(h, p) => p \in V
  BY <1>1 DEF Walking, h, V
<1>4. ASSUME NEW b \in V, b # h PROVE Preds(b) \subseteq V
  <2>1. b \in Block /\ UnderIn(P, B[b], cur) /\ B[b] \in 0..n
    BY <1>0 DEF V, Put
  <2>2. CASE B[b] = cur
    BY <1>1, <1>4, <2>1, <2>2 DEF Walking, h, V
  <2>3. CASE B[b] # cur
    <3>1. PICK c \in 1..n : P[c] = cur /\ UnderIn(P, B[b], c)
      BY <1>0, <2>1, <2>3, UnderChild
    <3>2. cur + 1 <= c
      <4>1. P[c] < c /\ cur \in Nat /\ c \in Nat
        BY <1>0 DEF Rising
      <4> QED BY <3>1, <4>1
    <3>3. Put(P, B, c) \subseteq V
      BY <1>0, <3>1, UnderUpward DEF Put, V
    <3>4. b \in NaturalLoop(H[c])
      <4>1. b \in Put(P, B, c)
        BY <2>1, <3>1 DEF Put
      <4> QED BY <4>1, PutFits
    <3>5. CASE b = H[c]
      BY <1>1, <3>1, <3>5 DEF Walking, V
    <3>6. CASE b # H[c]
      <4>1. Preds(b) \subseteq NaturalLoop(H[c])
        BY <1>0, <3>4, <3>6, NaturalLoopLemma
      <4>2. NaturalLoop(H[c]) \subseteq Put(P, B, c)
        BY <3>2 DEF Whole
      <4> QED BY <3>3, <4>1, <4>2
    <3> QED BY <3>5, <3>6
  <2> QED BY <2>2, <2>3
<1>5. h \in V
  <2> SUFFICES ASSUME h \notin V PROVE FALSE
    OBVIOUS
  <2>1. PICK p \in Preds(h) : PathDominates(h, p)
    BY DEF Heads, h
  <2>2. p \in V /\ p \in Reachable
    BY <1>3, <2>1 DEF PathDominates
  <2> DEFINE T == Block \ V
  <2>3. cfg.entry \in T
    <3>1. cfg.entry \in V => cfg.entry = h
      BY <1>0, <1>2, EntryHeads
    <3> QED BY <3>1, CfgLemma
  <2>4. ASSUME NEW x \in T, NEW y \in Succs(x) PROVE y \in T
    <3>1. x \in Preds(y) /\ y \in Block
      BY CfgLemma
    <3> QED BY <1>4, <3>1
  <2>5. Reachable \subseteq T
    <3> HIDE DEF T
    <3> QED BY <2>3, <2>4, ReachableLemma
  <2> QED BY <2>2, <2>5
<1>6. NaturalLoop(h) \subseteq V
  BY <1>0, <1>3, <1>4, <1>5, NaturalLoopLemma
<1>7. ASSUME NEW lp \in 1..Len(H), cur <= lp PROVE NaturalLoop(H[lp]) \subseteq Put(P, B, lp)
  <2>1. lp = cur \/ cur + 1 <= lp
    BY <1>0, <1>7
  <2> QED BY <1>6, <1>7, <2>1 DEF Whole, h, V
<1> QED BY <1>7 DEF Whole

\* What is asked of the tree, of H, P, C and B.
LEMMA ChildrenCounted ==
  ASSUME NEW P, NEW C, NEW n, Counted(P, C, n), NEW out \in 1..n, NEW l \in 1..n
  PROVE  Cardinality({i \in DOMAIN C[out] : C[out][i] = l}) = (IF P[l] = out THEN 1 ELSE 0)
<1>1. CASE P[l] = out
  <2>1. PICK i \in DOMAIN C[out] : \A j \in DOMAIN C[out] : C[out][j] = l <=> j = i
    BY <1>1 DEF Counted, OnceIn
  <2>2. {j \in DOMAIN C[out] : C[out][j] = l} = {i}
    BY <2>1
  <2> QED BY <1>1, <2>2, FS_Singleton
<1>2. CASE P[l] # out
  <2>1. {j \in DOMAIN C[out] : C[out][j] = l} = {}
    BY <1>2 DEF Counted, NeverIn
  <2> QED BY <1>2, <2>1, FS_EmptySet
<1> QED BY <1>1, <1>2

\* At most two elements, seen one by one.
LEMMA ThreeElements ==
  ASSUME NEW S, IsFiniteSet(S), Cardinality(S) <= 2, NEW i \in S, NEW j \in S, NEW k \in S
  PROVE  i = j \/ j = k \/ i = k
<1> SUFFICES ASSUME i # j, j # k, i # k PROVE FALSE
  OBVIOUS
<1>1. /\ IsFiniteSet(S \ {i}) /\ Cardinality(S \ {i}) = Cardinality(S) - 1 /\ Cardinality(S) \in Nat
  BY FS_CardinalityType, FS_RemoveElement
<1>2. j \in S \ {i} /\ k \in S \ {i}
  OBVIOUS
<1>3. Cardinality(S \ {i}) < 2
  BY <1>1
<1> QED BY <1>1, <1>2, <1>3, TwoElements

LEMMA TwoDeepLemma ==
  ASSUME TwoDeep, Len(header) \in Nat, DOMAIN header = 1..Len(header)
  PROVE  NotThree(header)
<1>1. ASSUME NEW b \in Block, NEW i \in 1..Len(header), NEW j \in 1..Len(header), NEW k \in 1..Len(header),
             b \in NaturalLoop(header[i]), b \in NaturalLoop(header[j]), b \in NaturalLoop(header[k])
      PROVE  i = j \/ j = k \/ i = k
  <2> DEFINE S == {lp \in 1..Len(header) : b \in NaturalLoop(header[lp])}
  <2>1. Cardinality(S) <= 2
    BY DEF TwoDeep, Depth, Loops
  <2>2. IsFiniteSet(S)
    <3>1. IsFiniteSet(1..Len(header))
      BY FS_Interval
    <3> QED BY <3>1, FS_Subset
  <2>3. i \in S /\ j \in S /\ k \in S
    BY <1>1
  <2> HIDE DEF S
  <2> QED BY <2>1, <2>2, <2>3, ThreeElements
<1> QED BY <1>1 DEF NotThree

-----------------------------------------------------------------------------
(***************************************************************************)
(* The iterator over the blocks N of a loop with header h: st, sk and od   *)
(* stand for its states, its stack and the blocks it has returned.         *)
(***************************************************************************)
\* The header stays at the bottom of the stack, and only there, until the end.
BottomUp(h, st, sk, od) ==
  /\ Len(sk) > 0 => /\ sk[1] = h /\ st[h] # "finished"
                    /\ Len(sk) > 1 => st[h] = "visited"
                    /\ \A j \in 2..Len(sk) : sk[j] # h
  /\ sk = <<>> => Len(od) > 0 /\ od[Len(od)] = h

IterInv(N, h, st, sk, od) ==
  /\ st \in [Block -> States] /\ sk \in Seq(Block) /\ od \in Seq(Block)
  /\ ToSet(sk) \subseteq N
  /\ ToSet(od) \subseteq N /\ ToSet(od) = {b \in Block : st[b] = "finished"}
  /\ \A i, j \in 1..Len(od) : od[i] = od[j] => i = j
  /\ \A b \in Block : st[b] = "visited" => b \in ToSet(sk)
  /\ \A b \in Block : st[b] # "unvisited" =>
       \A n \in Succs(b) : n \in N => st[n] # "unvisited" \/ n \in ToSet(sk)
  /\ BottomUp(h, st, sk, od)

LEMMA IterStart ==
  ASSUME CfgOk, NEW N, NEW h \in Block, h \in N
  PROVE  IterInv(N, h, [b \in Block |-> "unvisited"], <<h>>, <<>>)
<1> DEFINE st == [b \in Block |-> "unvisited"]
           sk == <<h>>
           od == <<>>
<1>1. st \in [Block -> States] /\ \A b \in Block : st[b] = "unvisited"
  BY DEF States
<1>2. "unvisited" # "visited" /\ "unvisited" # "finished"
  OBVIOUS
<1>3. sk \in Seq(Block) /\ Len(sk) = 1 /\ sk[1] = h /\ sk # <<>> /\ DOMAIN sk = 1..1
  OBVIOUS
<1>4. od \in Seq(Block) /\ Len(od) = 0 /\ DOMAIN od = {}
  OBVIOUS
<1>5. ToSet(sk) = {h}
  BY <1>3 DEF ToSet
<1>6. ToSet(od) = {}
  BY <1>4 DEF ToSet
<1>7. 1..Len(od) = {} /\ 2..Len(sk) = {}
  BY <1>3, <1>4
<1> HIDE DEF st, sk, od
<1>8. BottomUp(h, st, sk, od)
  <2>1. ~(Len(sk) > 1) /\ st[h] # "finished" /\ sk[1] = h
    BY <1>1, <1>2, <1>3
  <2> QED BY <1>3, <1>7, <2>1 DEF BottomUp
<1> QED BY <1>1, <1>2, <1>3, <1>4, <1>5, <1>6, <1>7, <1>8 DEF IterInv, st, sk, od

LEMMA IterVisitLemma ==
  ASSUME CfgOk, NEW N, NEW h \in Block, NEW st, NEW sk, NEW od, IterInv(N, h, st, sk, od),
         sk # <<>>, NEW b, b = Last(sk), st[b] = "unvisited",
         NEW S, S = {n \in Succs(b) : n # b /\ st[n] = "unvisited" /\ n \in N},
         NEW s \in Ascending(S), NEW st2, st2 = [st EXCEPT ![b] = "visited"]
  PROVE  IterInv(N, h, st2, sk \o s, od)
<1>0. st \in [Block -> States] /\ sk \in Seq(Block) /\ od \in Seq(Block)
  BY DEF IterInv
<1>1. "unvisited" # "visited" /\ "unvisited" # "finished" /\ "visited" # "finished" /\ "visited" \in States
  BY DEF States
<1>2. b \in Block /\ b \in ToSet(sk) /\ Len(sk) \in Nat \ {0} /\ b = sk[Len(sk)]
  BY <1>0, FrontSet, NotEmpty DEF Last
<1>3. st2 \in [Block -> States] /\ st2[b] = "visited" /\ \A c \in Block : c # b => st2[c] = st[c]
  BY <1>0, <1>1, <1>2
<1>4. S \subseteq Block /\ S \in SUBSET Block
  BY <1>2, CfgLemma
<1>5. /\ s \in Seq(Block) /\ Len(s) \in Nat /\ (\A k \in 1..Len(s) : s[k] \in S)
      /\ (\A c \in S : \E k \in 1..Len(s) : s[k] = c)
  BY <1>4, AscendingLemma
<1>6. ToSet(s) = S
  <2>1. ToSet(s) = {s[k] : k \in 1..Len(s)}
    BY <1>5, ToSetLemma
  <2> QED BY <1>5, <2>1
<1>7. sk \o s \in Seq(Block) /\ ToSet(sk \o s) = ToSet(sk) \cup S
  BY <1>0, <1>5, <1>6, ConcatSet
<1>8. /\ Len(sk \o s) = Len(sk) + Len(s)
      /\ \A j \in 1..Len(sk) + Len(s) : (sk \o s)[j] = IF j <= Len(sk) THEN sk[j] ELSE s[j - Len(sk)]
  BY <1>0, <1>5, ConcatProperties
<1> DEFINE sk2 == sk \o s
<1> HIDE DEF sk2
<1>9. ToSet(sk2) \subseteq N
  BY <1>7 DEF IterInv, sk2
<1>10. ToSet(od) \subseteq N /\ ToSet(od) = {c \in Block : st2[c] = "finished"}
  <2>1. \A c \in Block : st2[c] = "finished" <=> st[c] = "finished"
    BY <1>1, <1>2, <1>3
  <2> QED BY <2>1 DEF IterInv
<1>11. ASSUME NEW c \in Block, st2[c] = "visited" PROVE c \in ToSet(sk2)
  <2>1. c = b \/ st[c] = "visited"
    BY <1>3, <1>11
  <2> QED BY <1>2, <1>7, <2>1 DEF IterInv, sk2
<1>12. ASSUME NEW c \in Block, st2[c] # "unvisited", NEW n \in Succs(c), n \in N
       PROVE  st2[n] # "unvisited" \/ n \in ToSet(sk2)
  <2>1. n \in Block
    BY CfgLemma
  <2>2. CASE n = b
    BY <1>1, <1>3, <2>2
  <2>3. CASE n # b
    <3>1. st2[n] = st[n]
      BY <1>3, <2>1, <2>3
    <3>2. CASE c = b
      BY <1>7, <1>12, <2>3, <3>1, <3>2 DEF sk2
    <3>3. CASE c # b
      <4>1. st[c] # "unvisited"
        BY <1>3, <1>12, <3>3
      <4>2. st[n] # "unvisited" \/ n \in ToSet(sk)
        BY <1>12, <4>1 DEF IterInv
      <4> QED BY <1>7, <3>1, <4>2 DEF sk2
    <3> QED BY <3>2, <3>3
  <2> QED BY <2>2, <2>3
<1>13. sk[1] = h /\ st[h] # "finished" /\ (Len(sk) > 1 => st[h] = "visited") /\ \A j \in 2..Len(sk) : sk[j] # h
  BY <1>2 DEF IterInv, BottomUp
<1>14. st2[h] = "visited"
  <2>1. CASE Len(sk) > 1
    BY <1>1, <1>3, <1>13, <2>1
  <2>2. CASE ~(Len(sk) > 1)
    <3>1. \A k \in Nat \ {0} : ~(k > 1) => k = 1
      OBVIOUS
    <3>2. Len(sk) = 1
      BY <1>2, <2>2, <3>1
    <3> QED BY <1>2, <1>3, <1>13, <3>2
  <2> QED BY <2>1, <2>2
<1>15. h \notin S
  <2>1. h = b \/ st[h] = "visited"
    BY <1>3, <1>14
  <2> QED BY <1>1, <2>1
<1>16. BottomUp(h, st2, sk2, od)
  <2>1. sk2[1] = h
    BY <1>2, <1>5, <1>8, <1>13 DEF sk2
  <2>2. ASSUME NEW j \in 2..Len(sk2) PROVE sk2[j] # h
    <3>1. j \in 1..(Len(sk) + Len(s)) /\ (j <= Len(sk) => j \in 2..Len(sk))
          /\ (~(j <= Len(sk)) => j - Len(sk) \in 1..Len(s))
      BY <1>2, <1>5, <1>8 DEF sk2
    <3>2. CASE j <= Len(sk)
      BY <1>8, <1>13, <3>1, <3>2 DEF sk2
    <3>3. CASE ~(j <= Len(sk))
      BY <1>5, <1>8, <1>15, <3>1, <3>3 DEF sk2
    <3> QED BY <3>2, <3>3
  <2>3. sk2 # <<>>
    <3>1. b \in ToSet(sk2)
      BY <1>2, <1>7 DEF sk2
    <3> QED BY <3>1 DEF ToSet
  <2> QED BY <1>1, <1>14, <2>1, <2>2, <2>3 DEF BottomUp
<1>17. sk2 \in Seq(Block)
  BY <1>7 DEF sk2
<1>18. IterInv(N, h, st2, sk2, od)
  BY <1>0, <1>3, <1>9, <1>10, <1>11, <1>12, <1>16, <1>17 DEF IterInv
<1> QED BY <1>18 DEF sk2

LEMMA IterPopLemma ==
  ASSUME CfgOk, NEW N, NEW h \in Block, NEW st, NEW sk, NEW od, IterInv(N, h, st, sk, od),
         sk # <<>>, NEW b, b = Last(sk), st[b] # "unvisited",
         NEW st2, st2 = [st EXCEPT ![b] = "finished"],
         NEW od2, od2 = IF st[b] = "visited" THEN Append(od, b) ELSE od
  PROVE  IterInv(N, h, st2, Front(sk), od2)
<1>0. st \in [Block -> States] /\ sk \in Seq(Block) /\ od \in Seq(Block)
  BY DEF IterInv
<1>1. "unvisited" # "visited" /\ "unvisited" # "finished" /\ "visited" # "finished" /\ "finished" \in States
  BY DEF States
<1>2. /\ b \in Block /\ b \in N /\ Len(sk) \in Nat \ {0} /\ b = sk[Len(sk)]
      /\ Front(sk) \in Seq(Block) /\ ToSet(sk) = ToSet(Front(sk)) \cup {b}
  <2>1. /\ Last(sk) \in Block /\ Front(sk) \in Seq(Block) /\ ToSet(sk) = ToSet(Front(sk)) \cup {Last(sk)}
    BY <1>0, FrontSet
  <2>2. Len(sk) \in Nat \ {0} /\ b = sk[Len(sk)]
    BY <1>0, NotEmpty DEF Last
  <2> QED BY <2>1, <2>2 DEF IterInv
<1>3. st2 \in [Block -> States] /\ st2[b] = "finished" /\ \A c \in Block : c # b => st2[c] = st[c]
  BY <1>0, <1>1, <1>2
<1>4. Len(Front(sk)) = Len(sk) - 1 /\ \A k \in 1..(Len(sk) - 1) : Front(sk)[k] = sk[k]
  BY <1>0, FrontLemma DEF Popped
<1>5. st[b] = "visited" \/ st[b] = "finished"
  BY <1>0, <1>2 DEF States
<1>6. sk[1] = h /\ st[h] # "finished" /\ (Len(sk) > 1 => st[h] = "visited") /\ \A j \in 2..Len(sk) : sk[j] # h
  BY <1>2 DEF IterInv, BottomUp
<1>7. od2 \in Seq(Block) /\ ToSet(od2) = ToSet(od) \cup {b}
  <2>1. CASE st[b] = "visited"
    BY <1>0, <1>2, <2>1, AppendSetLemma
  <2>2. CASE st[b] = "finished"
    <3>1. b \in ToSet(od)
      BY <1>2, <2>2 DEF IterInv
    <3> QED BY <1>0, <1>1, <2>2, <3>1
  <2> QED BY <1>5, <2>1, <2>2
<1> DEFINE sk2 == Front(sk)
<1>8. ToSet(sk2) \subseteq N
  BY <1>2 DEF IterInv
<1>9. ToSet(od2) \subseteq N /\ ToSet(od2) = {c \in Block : st2[c] = "finished"}
  <2>1. \A c \in Block : st2[c] = "finished" <=> c = b \/ st[c] = "finished"
    BY <1>3
  <2>2. ToSet(od) \subseteq N /\ ToSet(od) = {c \in Block : st[c] = "finished"}
    BY DEF IterInv
  <2> QED BY <1>2, <1>7, <2>1, <2>2, ZenonT(60)
<1>10. ASSUME NEW i \in 1..Len(od2), NEW j \in 1..Len(od2), od2[i] = od2[j] PROVE i = j
  <2>0. \A k, l \in 1..Len(od) : od[k] = od[l] => k = l
    BY DEF IterInv
  <2>1. CASE st[b] = "visited"
    <3>1. Len(od) \in Nat /\ Len(od2) = Len(od) + 1 /\ od2[Len(od) + 1] = b
          /\ \A k \in 1..Len(od) : od2[k] = od[k]
      BY <1>0, <1>2, <2>1, AppendProperties
    <3>2. \A k \in 1..Len(od) : od[k] # b
      <4>1. b \notin ToSet(od)
        BY <1>1, <2>1 DEF IterInv
      <4>2. ToSet(od) = {od[k] : k \in 1..Len(od)}
        BY <1>0, ToSetLemma
      <4> QED BY <4>1, <4>2
    <3>3. (i = Len(od) + 1 \/ i \in 1..Len(od)) /\ (j = Len(od) + 1 \/ j \in 1..Len(od))
      BY <3>1
    <3> QED BY <1>10, <2>0, <3>1, <3>2, <3>3
  <2>2. CASE st[b] = "finished"
    BY <1>1, <1>10, <2>0, <2>2
  <2> QED BY <1>5, <2>1, <2>2
<1>11. ASSUME NEW c \in Block, st2[c] = "visited" PROVE c \in ToSet(sk2)
  <2>1. c # b
    BY <1>1, <1>3, <1>11
  <2>2. st[c] = "visited"
    BY <1>3, <1>11, <2>1
  <2> QED BY <1>2, <2>1, <2>2 DEF IterInv
<1>12. ASSUME NEW c \in Block, st2[c] # "unvisited", NEW n \in Succs(c), n \in N
       PROVE  st2[n] # "unvisited" \/ n \in ToSet(sk2)
  <2>1. n \in Block /\ st[c] # "unvisited"
    BY <1>3, <1>12, CfgLemma
  <2>2. st[n] # "unvisited" \/ n \in ToSet(sk)
    BY <1>12, <2>1 DEF IterInv
  <2>3. CASE n = b
    BY <1>1, <1>3, <2>3
  <2>4. CASE n # b
    BY <1>2, <1>3, <2>1, <2>2, <2>4
  <2> QED BY <2>3, <2>4
<1>13. BottomUp(h, st2, sk2, od2)
  <2>1. CASE Len(sk) > 1
    <3>1. Len(sk) \in 2..Len(sk) /\ Len(sk2) > 0 /\ 1 \in 1..(Len(sk) - 1)
      BY <1>2, <1>4, <2>1
    <3>2. b # h /\ sk2[1] = h
      BY <1>2, <1>4, <1>6, <3>1
    <3>3. st2[h] = "visited"
      BY <1>3, <1>6, <2>1, <3>2
    <3>4. ASSUME NEW j \in 2..Len(sk2) PROVE sk2[j] # h
      <4>1. j \in 2..Len(sk) /\ j \in 1..(Len(sk) - 1)
        BY <1>2, <1>4
      <4> QED BY <1>4, <1>6, <4>1
    <3>5. sk2 # <<>>
      BY <3>1
    <3> QED BY <1>1, <3>2, <3>3, <3>4, <3>5 DEF BottomUp
  <2>2. CASE ~(Len(sk) > 1)
    <3>0. \A k \in Nat \ {0} : ~(k > 1) => k = 1
      OBVIOUS
    <3>1. Len(sk) = 1 /\ b = h
      BY <1>2, <1>6, <2>2, <3>0
    <3>2. st[b] = "visited"
      BY <1>5, <1>6, <3>1
    <3>3. Len(od2) > 0 /\ od2[Len(od2)] = h
      <4>1. Len(od) \in Nat /\ Len(od2) = Len(od) + 1 /\ od2[Len(od) + 1] = b
        BY <1>0, <1>2, <3>2, AppendProperties
      <4> QED BY <3>1, <4>1
    <3>4. ~(Len(sk2) > 0)
      BY <1>4, <3>1
    <3> QED BY <3>3, <3>4 DEF BottomUp
  <2> QED BY <2>1, <2>2
<1> HIDE DEF sk2
<1>14. sk2 \in Seq(Block)
  BY <1>2 DEF sk2
<1>15. IterInv(N, h, st2, sk2, od2)
  BY <1>3, <1>7, <1>8, <1>9, <1>10, <1>11, <1>12, <1>13, <1>14 DEF IterInv
<1> QED BY <1>15 DEF sk2

\* When the stack is empty the whole loop has been returned, the header last.
LEMMA IterEnds ==
  ASSUME CfgOk, OnlyReachedJump, NEW h \in Reachable, NEW st, NEW od,
         IterInv(NaturalLoop(h), h, st, <<>>, od)
  PROVE  /\ Len(od) = Cardinality(ToSet(od)) /\ Last(od) = h
         /\ ToSet(od) = NaturalLoop(h)
<1> DEFINE N == NaturalLoop(h)
           F == ToSet(od)
<1>0. h \in Block /\ "visited" # "finished" /\ "unvisited" # "finished" /\ N \subseteq Block
  BY ReachableLemma, NaturalLoopLemma
<1>1. ToSet(<<>>) = {}
  BY DEF ToSet
<1>2. /\ st \in [Block -> States] /\ od \in Seq(Block) /\ F \subseteq N
      /\ F = {b \in Block : st[b] = "finished"} /\ \A i, j \in 1..Len(od) : od[i] = od[j] => i = j
  BY DEF IterInv
<1>3. Len(od) > 0 /\ od[Len(od)] = h
  BY DEF IterInv, BottomUp
<1>4. \A b \in Block : st[b] # "unvisited" => b \in F
  <2>1. \A b \in Block : st[b] # "visited"
    BY <1>1 DEF IterInv
  <2> QED BY <1>2, <2>1 DEF States
<1>5. \A b \in F : \A n \in Succs(b) : n \in N => n \in F
  <2>1. \A b \in F : b \in Block /\ st[b] # "unvisited"
    BY <1>0, <1>2
  <2>2. \A b \in F : \A n \in Succs(b) : n \in N => st[n] # "unvisited"
    BY <1>1, <2>1 DEF IterInv
  <2>3. \A b \in F : Succs(b) \subseteq Block
    BY <2>1, CfgLemma
  <2> QED BY <1>4, <2>2, <2>3
<1>6. h \in F
  <2>1. Len(od) \in 1..Len(od) /\ F = {od[k] : k \in 1..Len(od)}
    BY <1>2, <1>3, ToSetLemma, LenProperties
  <2> QED BY <1>3, <2>1
<1> HIDE DEF F
<1>7. N \subseteq F
  <2> DEFINE X == {x \in Reachable : x \in N => x \in F}
  <2>1. cfg.entry \in X
    <3>1. cfg.entry \in N => cfg.entry = h
      BY EntryHeads
    <3> QED BY <1>6, <3>1, ReachableLemma
  <2>2. ASSUME NEW x \in X, NEW y \in Succs(x) PROVE y \in X
    <3>1. x \in Block /\ y \in Reachable /\ y \in Block
      BY ReachableLemma
    <3>2. ASSUME y \in N, y # h PROVE y \in F
      <4>1. x \in Preds(y)
        BY <3>1, CfgLemma
      <4>2. x \in N
        BY <1>0, <3>2, <4>1, NaturalLoopLemma
      <4> QED BY <1>5, <3>2, <4>2
    <3> QED BY <1>6, <3>1, <3>2
  <2>3. Reachable \subseteq X
    <3> HIDE DEF X
    <3> QED BY <2>1, <2>2, ReachableLemma
  <2>4. \A x \in N : x \in Reachable
    BY HeaderDominates
  <2> QED BY <2>3, <2>4
<1>8. Len(od) = Cardinality(F)
  <2>1. PICK n \in Nat : n = Len(od)
    BY <1>2, LenProperties
  <2>2. od \in [1..n -> F] /\ \A b \in F : \E k \in 1..n : od[k] = b
    <3>1. F = {od[k] : k \in 1..n} /\ od \in [1..n -> Block]
      BY <1>2, <2>1, ToSetLemma, LenProperties DEF F
    <3> QED BY <3>1
  <2>3. od \in Bijection(1..n, F)
    BY <1>2, <2>1, <2>2 DEF Bijection, Injection, Surjection, IsInjective
  <2>4. IsFiniteSet(1..n) /\ Cardinality(1..n) = n
    BY FS_Interval
  <2>5. Cardinality(F) = Cardinality(1..n)
    BY <2>3, <2>4, FS_Bijection DEF ExistsBijection
  <2> QED BY <2>1, <2>4, <2>5
<1>9. Last(od) = h
  BY <1>3 DEF Last
<1> QED BY <1>2, <1>7, <1>8, <1>9 DEF F

-----------------------------------------------------------------------------
(***************************************************************************)
(* The inductive invariant of the loops.                                   *)
(***************************************************************************)
\* While the headers are looked for, no loop has a child, a parent or a block.
Finding ==
  /\ parent \in [1..Len(header) -> {NoLoop}] /\ children \in [1..Len(header) -> {<<>>}]
  /\ block_to_loop = [b \in Block |-> NoLoop] /\ worklist = <<>> /\ body = NoBody
  /\ pass # "done" => header = <<>>
  /\ pass = "done" => /\ at \in Nat /\ 1 <= at /\ Heads(header)
                      /\ \A l \in 1..Len(header) : PlaceOf(header[l]) + at > Len(post_order) + 1

\* The tree is right for the loops from lo on.
Mapped(lo) ==
  /\ Shape(parent, children, block_to_loop, Len(header), lo)
  /\ OnlyReachedJump => Inside(header, parent, block_to_loop)
  /\ OnlyReachedJump /\ TwoDeep => Whole(header, parent, block_to_loop, lo)

AtWalk ==
  /\ cur_lp \in 1..Len(header) /\ worklist \in Seq(Block)
  /\ Shape(parent, children, block_to_loop, Len(header), cur_lp)
  /\ OnlyReachedJump => /\ Inside(header, parent, block_to_loop)
                        /\ ToSet(worklist) \subseteq NaturalLoop(header[cur_lp])
  /\ OnlyReachedJump /\ TwoDeep => /\ Whole(header, parent, block_to_loop, cur_lp + 1)
                                   /\ Walking(header, parent, block_to_loop, cur_lp, worklist)

AtBlocks ==
  /\ body = [lp |-> body.lp, state |-> body.state, stack |-> body.stack, order |-> body.order]
  /\ body.lp \in 1..Len(header)
  /\ OnlyReachedJump /\ TwoDeep =>
       IterInv(NaturalLoop(header[body.lp]), header[body.lp], body.state, body.stack, body.order)

LoopPart ==
  /\ loop_pass \in {"headers", "next", "walk", "mapped", "iterate"}
  /\ loop_pass = "headers" => Finding
  /\ loop_pass # "headers" => pass = "done" /\ Heads(header)
  /\ loop_pass = "next" => cur_lp \in 0..Len(header) /\ worklist = <<>> /\ body = NoBody /\ Mapped(cur_lp + 1)
  /\ loop_pass = "walk" => body = NoBody /\ AtWalk
  /\ loop_pass = "mapped" => body = NoBody /\ Mapped(1)
  /\ loop_pass = "iterate" => Mapped(1) /\ AtBlocks

LoopInv == IInv /\ LoopPart

\* What is in the graph stays there.
LEMMA FrameLoops ==
  ASSUME cfg' = cfg, post_order' = post_order
  PROVE  /\ OnlyReachedJump' <=> OnlyReachedJump
         /\ \A h : NaturalLoop(h)' = NaturalLoop(h)
         /\ \A a, b : PathDominates(a, b)' <=> PathDominates(a, b)
         /\ Heads(header)' <=> Heads(header')
         /\ header' = header => (TwoDeep' <=> TwoDeep)
<1>1. OnlyReachedJump' <=> OnlyReachedJump
  BY CfgFrame DEF OnlyReachedJump, Edges
<1>2. \A a, b : PathDominates(a, b)' <=> PathDominates(a, b)
  BY CfgFrame DEF PathDominates
<1>3. \A h : NaturalLoop(h)' = NaturalLoop(h)
  BY CfgFrame, <1>2 DEF NaturalLoop
<1>4. Heads(header)' <=> Heads(header')
  BY CfgFrame, FramePlaces, <1>2 DEF Heads
<1>5. header' = header => (TwoDeep' <=> TwoDeep)
  BY <1>3 DEF TwoDeep, Depth, Loops
<1> QED BY <1>1, <1>2, <1>3, <1>4, <1>5

LEMMA FrameTree ==
  ASSUME cfg' = cfg, post_order' = post_order, header' = header
  PROVE  /\ Inside(header, parent, block_to_loop)' <=> Inside(header, parent', block_to_loop')
         /\ \A lo : Whole(header, parent, block_to_loop, lo)' <=> Whole(header, parent', block_to_loop', lo)
         /\ \A lo : Shape(parent, children, block_to_loop, Len(header), lo)'
                      <=> Shape(parent', children', block_to_loop', Len(header), lo)
         /\ Walking(header, parent, block_to_loop, cur_lp, worklist)'
              <=> Walking(header, parent', block_to_loop', cur_lp', worklist')
         /\ IterInv(NaturalLoop(header[body.lp]), header[body.lp], body.state, body.stack, body.order)'
              <=> IterInv(NaturalLoop(header[body'.lp]), header[body'.lp], body'.state, body'.stack, body'.order)
<1>1. Inside(header, parent, block_to_loop)' <=> Inside(header, parent', block_to_loop')
  BY FrameLoops DEF Inside
<1>2. \A lp : Put(parent, block_to_loop, lp)' = Put(parent', block_to_loop', lp)
  BY DEF Put, UnderIn
<1>3. \A lo : Whole(header, parent, block_to_loop, lo)' <=> Whole(header, parent', block_to_loop', lo)
  BY <1>2, FrameLoops DEF Whole
<1>4. \A lo : Shape(parent, children, block_to_loop, Len(header), lo)'
                <=> Shape(parent', children', block_to_loop', Len(header), lo)
  BY DEF Shape, Counted, OnceIn, NeverIn
<1>5. Walking(header, parent, block_to_loop, cur_lp, worklist)'
        <=> Walking(header, parent', block_to_loop', cur_lp', worklist')
  <2>1. Put(parent, block_to_loop, cur_lp)' = Put(parent', block_to_loop', cur_lp')
    BY DEF Put, UnderIn
  <2> QED BY <2>1, CfgFrame, FrameLoops DEF Walking
<1>6. IterInv(NaturalLoop(header[body.lp]), header[body.lp], body.state, body.stack, body.order)'
        <=> IterInv(NaturalLoop(header[body'.lp]), header[body'.lp], body'.state, body'.stack, body'.order)
  <2>1. NaturalLoop(header[body.lp])' = NaturalLoop(header[body'.lp])
    BY FrameLoops
  <2> QED BY <2>1, CfgFrame DEF IterInv, BottomUp
<1> QED BY <1>1, <1>3, <1>4, <1>5, <1>6

LEMMA NoHeads == Heads(<<>>)
<1>1. Len(<<>>) = 0 /\ <<>> \in Seq(Block) /\ DOMAIN <<>> = 1..0 /\ 1..0 = {}
  OBVIOUS
<1> QED BY <1>1 DEF Heads

\* Dominators, components and stuttering leave the loops as they are.
LEMMA LoopsUntouched ==
  ASSUME LoopInv, UNCHANGED <<cfg, node_state, stack, post_order, pass, at>>, UNCHANGED loopVars
  PROVE  LoopPart'
<1>1. UNCHANGED <<loop_pass, header, parent, children, block_to_loop, cur_lp, worklist, body>>
  BY DEF loopVars, treeVars
<1>2. /\ OnlyReachedJump' <=> OnlyReachedJump
      /\ TwoDeep' <=> TwoDeep
      /\ Heads(header)' <=> Heads(header)
  BY <1>1, FrameLoops
<1>3. (\A b : PlaceOf(b)' = PlaceOf(b)) /\ (\A h : NaturalLoop(h)' = NaturalLoop(h)) /\ NoBody' = NoBody
  BY FramePlaces, FrameLoops DEF NoBody
<1>4. Finding' <=> Finding
  BY <1>1, <1>2, <1>3 DEF Finding
<1>5. \A lo : Mapped(lo)' <=> Mapped(lo)
  BY <1>1, <1>2, FrameTree DEF Mapped
<1>6. AtWalk' <=> AtWalk
  <2>1. /\ Inside(header, parent, block_to_loop)' <=> Inside(header, parent, block_to_loop)
        /\ Whole(header, parent, block_to_loop, cur_lp + 1)' <=> Whole(header, parent, block_to_loop, cur_lp + 1)
        /\ Shape(parent, children, block_to_loop, Len(header), cur_lp)'
             <=> Shape(parent, children, block_to_loop, Len(header), cur_lp)
        /\ Walking(header, parent, block_to_loop, cur_lp, worklist)'
             <=> Walking(header, parent, block_to_loop, cur_lp, worklist)
    BY <1>1, FrameTree
  <2>2. (ToSet(worklist) \subseteq NaturalLoop(header[cur_lp]))' <=> ToSet(worklist) \subseteq NaturalLoop(header[cur_lp])
    BY <1>1, <1>3
  <2> QED BY <1>1, <1>2, <2>1, <2>2 DEF AtWalk
<1>7. AtBlocks' <=> AtBlocks
  <2>1. IterInv(NaturalLoop(header[body.lp]), header[body.lp], body.state, body.stack, body.order)'
          <=> IterInv(NaturalLoop(header[body.lp]), header[body.lp], body.state, body.stack, body.order)
    BY <1>1, FrameTree
  <2> QED BY <1>1, <1>2, <2>1 DEF AtBlocks
<1>8. Mapped(cur_lp + 1)' <=> Mapped(cur_lp + 1)
  BY <1>1, <1>2, FrameTree DEF Mapped
<1> QED BY <1>1, <1>2, <1>3, <1>4, <1>5, <1>6, <1>7, <1>8 DEF LoopInv, LoopPart

LEMMA DominatorsLoops ==
  ASSUME LoopInv, Dominators
  PROVE  LoopPart'
<1>1. /\ UNCHANGED <<loop_pass, header, parent, children, block_to_loop, cur_lp, worklist, body>>
      /\ pass \in {"order", "doms", "frontiers"} /\ cfg' = cfg
  BY DEF Dominators, loopVars, treeVars, DomNext, Order, IterStep, Visit, Pop, StartDoms, ProcessBlock,
         EndRound, FrontierOf, FrontiersDone
<1>2. pass # "done" /\ loop_pass = "headers" /\ Finding /\ header = <<>>
  <2>1. pass # "done"
    BY <1>1
  <2> QED BY <2>1 DEF LoopInv, LoopPart, Finding
<1>3. pass' = "done" => at' = 1
  BY <1>1 DEF Dominators, DomNext, Order, domVars, StartDoms, ProcessBlock, EndRound, FrontierOf, FrontiersDone
<1>4. Heads(header)'
  <2>1. Heads(<<>>)'
    BY NoHeads, PTL
  <2> QED BY <1>1, <1>2, <2>1
<1>5. Len(header) = 0 /\ 1..Len(header) = {} /\ header' = header
  BY <1>1, <1>2
<1>6. Finding'
  BY <1>1, <1>2, <1>3, <1>4, <1>5 DEF Finding, NoBody
<1> QED BY <1>1, <1>2, <1>6 DEF LoopPart

\* What is known once the dominators are.
LEMMA LoopFacts ==
  ASSUME LoopInv, pass = "done"
  PROVE  /\ CfgOk /\ Numbered /\ Exact(doms) /\ Len(rpo) = Len(post_order)
         /\ \A h \in Reachable : /\ Latches(h) \subseteq Preds(h)
                                 /\ \A p \in Preds(h) : p \in Latches(h) <=> PathDominates(h, p)
<1>1. IInv /\ stack = <<>>
  BY DEF LoopInv, IInv, OrderPart
<1>2. CfgOk /\ Numbered /\ Exact(doms)
  BY <1>1, InvNumbered DEF IInv, Finished
<1>3. \A b \in Block : StrictDominators(b) = PathStrictDominators(b)
  BY <1>1, AtTheEnd
<1> QED BY <1>2, <1>3, RpoLemma, LatchesLemma

LEMMA AppendTotal ==
  ASSUME NEW S, NEW n \in Nat, NEW f \in [1..n -> S], NEW x \in S
  PROVE  Append(f, x) \in [1..(n + 1) -> S]
<1>1. f \in Seq(S) /\ Len(f) = n
  OBVIOUS
<1>2. Append(f, x) \in Seq(S) /\ Len(Append(f, x)) = n + 1
  BY <1>1, AppendProperties
<1> QED BY <1>2, LenProperties

LEMMA FindHeaderStep ==
  ASSUME LoopInv, FindHeader
  PROVE  LoopPart'
<1>1. /\ pass = "done" /\ loop_pass = "headers" /\ at <= Len(rpo) /\ at' = at + 1
      /\ UNCHANGED <<cfg, post_order, pass, loop_pass, block_to_loop, worklist, body>>
      /\ IF Latches(rpo[at]) # {}
         THEN /\ header' = Append(header, rpo[at])
              /\ parent' = Append(parent, NoLoop)
              /\ children' = Append(children, <<>>)
         ELSE UNCHANGED <<header, parent, children>>
  BY DEF FindHeader, iterVars
<1>2. Finding
  BY <1>1 DEF LoopInv, LoopPart
<1>3. CfgOk /\ Numbered /\ Exact(doms) /\ Len(rpo) = Len(post_order)
  BY <1>1, LoopFacts
<1>4. PICK k \in Nat, N \in Nat, n \in Nat : k = at /\ N = Len(post_order) /\ n = Len(header)
  BY <1>1, <1>2, <1>3 DEF Finding, Numbered, Heads
<1>5. PICK h : h = rpo[k]
  OBVIOUS
<1>6. 1 <= k /\ k <= N /\ h \in Reachable /\ PlaceOf(h) = N + 1 - k /\ h \in Block
  <2>1. 1 <= k /\ k <= N
    BY <1>1, <1>2, <1>3, <1>4 DEF Finding
  <2> QED BY <1>3, <1>4, <1>5, <2>1, RpoLemma, ReachableLemma
<1>7. /\ Heads(header) /\ header \in Seq(Block) /\ DOMAIN header = 1..n
      /\ \A l \in 1..n : header[l] \in Reachable /\ PlaceOf(header[l]) + k > N + 1
  BY <1>1, <1>2, <1>4 DEF Finding, Heads
<1>8. \A b \in Reachable : PlaceOf(b) \in Nat
  BY <1>3 DEF Numbered
<1>9. PICK H2 : H2 = header'
  OBVIOUS
<1>10. /\ Heads(H2) /\ \A l \in 1..Len(H2) : PlaceOf(H2[l]) + (k + 1) > N + 1
       /\ parent' \in [1..Len(H2) -> {NoLoop}] /\ children' \in [1..Len(H2) -> {<<>>}]
  <2>0. parent \in [1..n -> {NoLoop}] /\ children \in [1..n -> {<<>>}]
    BY <1>2, <1>4 DEF Finding
  <2>1. CASE Latches(h) = {}
    <3>1. H2 = header /\ parent' = parent /\ children' = children
      BY <1>1, <1>4, <1>5, <1>9, <2>1
    <3>2. ASSUME NEW l \in 1..n PROVE PlaceOf(header[l]) + (k + 1) > N + 1
      BY <1>4, <1>7, <1>8
    <3> QED BY <1>4, <1>7, <2>0, <3>1, <3>2
  <2>2. CASE Latches(h) # {}
    <3>1. H2 = Append(header, h) /\ parent' = Append(parent, NoLoop) /\ children' = Append(children, <<>>)
      BY <1>1, <1>4, <1>5, <1>9, <2>2
    <3>2. /\ H2 \in Seq(Block) /\ Len(H2) = n + 1 /\ DOMAIN H2 = 1..(n + 1) /\ H2[n + 1] = h
          /\ \A l \in 1..n : H2[l] = header[l]
      BY <1>4, <1>6, <1>7, <3>1, AppendProperties
    <3>3. \A l \in 1..(n + 1) : l = n + 1 \/ l \in 1..n
      OBVIOUS
    <3>4. \E p \in Preds(h) : PathDominates(h, p)
      BY <1>1, <1>6, <2>2, LoopFacts
    <3>5. ASSUME NEW l \in 1..(n + 1) PROVE H2[l] \in Reachable /\ \E p \in Preds(H2[l]) : PathDominates(H2[l], p)
      BY <1>4, <1>6, <1>7, <3>2, <3>3, <3>4 DEF Heads
    <3>6. ASSUME NEW i \in 1..(n + 1), NEW j \in 1..(n + 1), i < j PROVE PlaceOf(H2[i]) > PlaceOf(H2[j])
      <4>1. i \in 1..n
        BY <3>6
      <4>2. CASE j = n + 1
        <5>1. PlaceOf(header[i]) + k > N + 1 /\ PlaceOf(header[i]) \in Nat
          BY <1>7, <1>8, <4>1
        <5> QED BY <1>6, <3>2, <4>1, <4>2, <5>1
      <4>3. CASE j \in 1..n
        BY <1>4, <1>7, <3>2, <3>6, <4>1, <4>3 DEF Heads
      <4> QED BY <3>3, <4>2, <4>3
    <3>7. Heads(H2)
      BY <3>2, <3>5, <3>6 DEF Heads
    <3>8. ASSUME NEW l \in 1..(n + 1) PROVE PlaceOf(H2[l]) + (k + 1) > N + 1
      <4>1. CASE l = n + 1
        BY <1>6, <3>2, <4>1
      <4>2. CASE l \in 1..n
        <5>1. PlaceOf(header[l]) + k > N + 1 /\ PlaceOf(header[l]) \in Nat
          BY <1>7, <1>8, <4>2
        <5> QED BY <3>2, <4>2, <5>1
      <4> QED BY <3>3, <4>1, <4>2
    <3>9. parent' \in [1..(n + 1) -> {NoLoop}]
      BY <2>0, <3>1, AppendTotal
    <3>10. children' \in [1..(n + 1) -> {<<>>}]
      BY <2>0, <3>1, AppendTotal
    <3> QED BY <3>2, <3>7, <3>8, <3>9, <3>10
  <2> QED BY <2>1, <2>2
<1>11. /\ Heads(header)' /\ at' \in Nat /\ 1 <= at'
       /\ (\A l \in 1..Len(header) : PlaceOf(header[l]) + at > Len(post_order) + 1)'
  <2>1. Heads(header')
    BY <1>9, <1>10
  <2>2. \A b : PlaceOf(b)' = PlaceOf(b)
    BY <1>1, FramePlaces
  <2> QED BY <1>1, <1>4, <1>6, <1>9, <1>10, <2>1, <2>2, FrameLoops
<1>12. Finding'
  BY <1>1, <1>2, <1>9, <1>10, <1>11 DEF Finding, NoBody
<1> QED BY <1>1, <1>12 DEF LoopPart

\* In steps that only walk, the graph and the headers stay.
LEMMA WalkFrame ==
  ASSUME LoopInv, loop_pass # "headers", UNCHANGED dtVars, header' = header
  PROVE  /\ pass = "done" /\ pass' = "done" /\ Heads(header) /\ Heads(header)'
         /\ cfg' = cfg /\ post_order' = post_order /\ Len(header) \in Nat
         /\ (OnlyReachedJump' <=> OnlyReachedJump) /\ (TwoDeep' <=> TwoDeep)
         /\ \A h : NaturalLoop(h)' = NaturalLoop(h)
         /\ CfgOk /\ Numbered /\ Exact(doms) /\ NoBody' = NoBody
         /\ (TwoDeep => NotThree(header))
<1>1. cfg' = cfg /\ post_order' = post_order /\ pass' = pass
  BY DEF dtVars, iterVars, domVars
<1>2. pass = "done" /\ Heads(header) /\ Len(header) \in Nat /\ DOMAIN header = 1..Len(header)
  BY DEF LoopInv, LoopPart, Heads
<1>3. Heads(header)'
  BY <1>1, <1>2, FrameLoops
<1> QED BY <1>1, <1>2, <1>3, FrameLoops, LoopFacts, TwoDeepLemma DEF NoBody

LEMMA HeadersDoneStep ==
  ASSUME LoopInv, HeadersDone
  PROVE  LoopPart'
<1>1. /\ pass = "done" /\ loop_pass = "headers" /\ loop_pass' = "next" /\ cur_lp' = Len(header)
      /\ UNCHANGED <<cfg, post_order, pass, header, parent, children, block_to_loop, worklist, body>>
  BY DEF HeadersDone, dtVars, iterVars, domVars, treeVars
<1>2. Finding /\ Heads(header)
  BY <1>1 DEF LoopInv, LoopPart, Finding
<1>3. PICK n \in Nat : n = Len(header)
  BY <1>2 DEF Heads
<1>4. /\ parent \in [1..n -> {NoLoop}] /\ children \in [1..n -> {<<>>}]
      /\ \A b \in Block : block_to_loop[b] = NoLoop
  BY <1>2, <1>3 DEF Finding
<1>5. Shape(parent, children, block_to_loop, n, n + 1)
  <2>1. \A out, l \in 1..n : parent[l] # out /\ NeverIn(children[out], l)
    BY <1>4 DEF NoLoop, NeverIn
  <2>2. Counted(parent, children, n)
    BY <2>1 DEF Counted
  <2>3. parent \in [1..n -> 0..n]
    BY <1>4 DEF NoLoop
  <2>4. children \in [1..n -> Seq(1..n)]
    <3>1. <<>> \in Seq(1..n)
      OBVIOUS
    <3>2. {<<>>} \subseteq Seq(1..n)
      BY <3>1
    <3> QED BY <1>4, <3>2
  <2>5. block_to_loop \in [Block -> 0..n]
    BY <1>2 DEF Finding, NoLoop
  <2> QED BY <1>4, <2>2, <2>3, <2>4, <2>5 DEF Shape
<1>6. Inside(header, parent, block_to_loop)
  BY <1>3, <1>4 DEF Inside
<1>7. Whole(header, parent, block_to_loop, n + 1)
  BY <1>3 DEF Whole
<1>8. Mapped(cur_lp + 1)'
  <2>1. Shape(parent, children, block_to_loop, Len(header), cur_lp + 1)'
    <3>1. Shape(parent', children', block_to_loop', Len(header), n + 1)
      BY <1>1, <1>3, <1>5
    <3> QED BY <1>1, <1>3, <3>1 DEF Shape, Counted, OnceIn, NeverIn
  <2>2. Inside(header, parent, block_to_loop)'
    BY <1>1, <1>6, FrameTree
  <2>3. Whole(header, parent, block_to_loop, cur_lp + 1)'
    BY <1>1, <1>3 DEF Whole
  <2> QED BY <2>1, <2>2, <2>3 DEF Mapped
<1>9. Heads(header)'
  BY <1>1, <1>2, FrameLoops
<1>10. body' = NoBody' /\ worklist' = <<>>
  BY <1>1, <1>2 DEF Finding, NoBody
<1> QED BY <1>1, <1>3, <1>8, <1>9, <1>10 DEF LoopPart

\* Loops from a later one on are loops from an earlier one on.
LEMMA ShapeLower ==
  ASSUME NEW P, NEW C, NEW B, NEW n, NEW lo \in Nat, Shape(P, C, B, n, lo + 1)
  PROVE  Shape(P, C, B, n, lo)
<1>1. n \in Nat /\ P \in [1..n -> 0..n] /\ B \in [Block -> 0..n]
  BY DEF Shape
<1>2. ASSUME NEW l \in 1..n, P[l] # NoLoop PROVE lo <= P[l] /\ P[l] < l
  <2>1. P[l] \in Nat /\ lo + 1 <= P[l] /\ P[l] < l
    BY <1>1, <1>2 DEF Shape
  <2> QED BY <2>1
<1>3. ASSUME NEW b \in Block, B[b] # NoLoop PROVE lo <= B[b]
  <2>1. B[b] \in Nat /\ lo + 1 <= B[b]
    BY <1>1, <1>3 DEF Shape
  <2> QED BY <2>1
<1> QED BY <1>2, <1>3 DEF Shape

LEMMA StartLoopStep ==
  ASSUME LoopInv, StartLoop
  PROVE  LoopPart'
<1>1. /\ loop_pass = "next" /\ cur_lp # NoLoop /\ loop_pass' = "walk" /\ UNCHANGED dtVars
      /\ UNCHANGED <<header, parent, children, block_to_loop, cur_lp, body>>
      /\ worklist' \in Ascending(Latches(header[cur_lp]))
  BY DEF StartLoop, treeVars
<1>2. cur_lp \in 0..Len(header) /\ worklist = <<>> /\ body = NoBody /\ Mapped(cur_lp + 1)
  BY <1>1 DEF LoopInv, LoopPart
<1>3. /\ pass' = "done" /\ Heads(header) /\ Heads(header)' /\ cfg' = cfg /\ post_order' = post_order
      /\ (OnlyReachedJump' <=> OnlyReachedJump) /\ (TwoDeep' <=> TwoDeep)
      /\ CfgOk /\ Numbered /\ Exact(doms) /\ NoBody' = NoBody /\ pass = "done" /\ Len(header) \in Nat
      /\ \A h : NaturalLoop(h)' = NaturalLoop(h)
  BY <1>1, WalkFrame
<1>4. PICK n \in Nat, cur \in 1..Len(header) : n = Len(header) /\ cur = cur_lp
  <2>1. cur_lp \in 1..Len(header)
    BY <1>1, <1>2, <1>3 DEF NoLoop
  <2> QED BY <1>3, <2>1
<1>5. PICK wk : wk = worklist'
  OBVIOUS
<1>6. PICK h : h = header[cur]
  OBVIOUS
<1>7. /\ h \in Reachable /\ h \in Block /\ Latches(h) \subseteq Preds(h) /\ Preds(h) \subseteq Block
      /\ \A p \in Preds(h) : p \in Latches(h) <=> PathDominates(h, p)
  BY <1>3, <1>6, HeadsLemma, LoopFacts, CfgLemma
<1>8. wk \in Seq(Block) /\ ToSet(wk) = Latches(h)
  <2>1. wk \in Ascending(Latches(h)) /\ Latches(h) \in SUBSET Block
    BY <1>1, <1>4, <1>5, <1>6, <1>7
  <2>2. /\ wk \in Seq(Block) /\ (\A k \in 1..Len(wk) : wk[k] \in Latches(h))
        /\ \A b \in Latches(h) : \E k \in 1..Len(wk) : wk[k] = b
    BY <2>1, AscendingLemma
  <2>3. ToSet(wk) = {wk[k] : k \in 1..Len(wk)}
    BY <2>2, ToSetLemma
  <2> QED BY <2>2, <2>3
<1>9. Shape(parent, children, block_to_loop, n, cur + 1) /\ Shape(parent, children, block_to_loop, n, cur)
  <2>1. Shape(parent, children, block_to_loop, n, cur + 1)
    BY <1>2, <1>4 DEF Mapped
  <2>2. cur \in Nat
    BY <1>4
  <2> QED BY <2>1, <2>2, ShapeLower
<1>10. ToSet(wk) \subseteq NaturalLoop(h)
  BY <1>3, <1>7, <1>8, NaturalLoopLemma
<1>11. Walking(header, parent, block_to_loop, cur, wk)
  <2>1. \A b \in Block : block_to_loop[b] # cur
    <3> SUFFICES ASSUME NEW b \in Block, block_to_loop[b] = cur PROVE FALSE
      OBVIOUS
    <3>1. cur # NoLoop
      BY <1>4 DEF NoLoop
    <3>2. cur + 1 <= cur
      BY <1>9, <3>1 DEF Shape
    <3> QED BY <1>4, <3>2
  <2>2. \A l \in 1..n : parent[l] # cur
    <3> SUFFICES ASSUME NEW l \in 1..n, parent[l] = cur PROVE FALSE
      OBVIOUS
    <3>1. cur # NoLoop
      BY <1>4 DEF NoLoop
    <3>2. cur + 1 <= cur
      BY <1>9, <3>1 DEF Shape
    <3> QED BY <1>4, <3>2
  <2>3. \A p \in Preds(h) : PathDominates(h, p) => p \in ToSet(wk)
    BY <1>7, <1>8
  <2> QED BY <1>4, <1>6, <2>1, <2>2, <2>3 DEF Walking
<1>12. AtWalk'
  <2>1. Shape(parent, children, block_to_loop, Len(header), cur_lp)'
    <3>1. Shape(parent', children', block_to_loop', Len(header), cur)
      BY <1>1, <1>4, <1>9
    <3> QED BY <1>1, <1>3, <1>4, <3>1 DEF Shape, Counted, OnceIn, NeverIn
  <2>2. OnlyReachedJump' => /\ Inside(header, parent, block_to_loop)'
                            /\ (ToSet(worklist) \subseteq NaturalLoop(header[cur_lp]))'
    <3>1. OnlyReachedJump => Inside(header, parent', block_to_loop')
      BY <1>1, <1>2 DEF Mapped
    <3>2. ToSet(worklist') \subseteq NaturalLoop(header[cur_lp])
      BY <1>4, <1>5, <1>6, <1>10
    <3>3. (ToSet(worklist) \subseteq NaturalLoop(header[cur_lp]))'
      BY <1>1, <1>3, <3>2
    <3> QED BY <1>1, <1>3, <3>1, <3>3, FrameTree
  <2>3. (OnlyReachedJump /\ TwoDeep)' => /\ Whole(header, parent, block_to_loop, cur_lp + 1)'
                                         /\ Walking(header, parent, block_to_loop, cur_lp, worklist)'
    <3>1. Walking(header, parent', block_to_loop', cur_lp', worklist')
      BY <1>1, <1>4, <1>5, <1>11
    <3>2. Walking(header, parent, block_to_loop, cur_lp, worklist)'
      BY <1>1, <1>3, <3>1, FrameTree
    <3>3. OnlyReachedJump /\ TwoDeep => Whole(header, parent, block_to_loop, cur + 1)
      BY <1>2, <1>4 DEF Mapped
    <3>4. OnlyReachedJump /\ TwoDeep => Whole(header, parent, block_to_loop, cur + 1)'
      BY <1>1, <1>3, <3>3, FrameTree
    <3>5. OnlyReachedJump /\ TwoDeep => Whole(header, parent, block_to_loop, cur_lp + 1)'
      BY <1>1, <1>4, <3>4
    <3> QED BY <1>3, <3>2, <3>5
  <2>4. cur_lp' \in 1..Len(header)' /\ worklist' \in Seq(Block)
    BY <1>1, <1>4, <1>5, <1>8
  <2> QED BY <2>1, <2>2, <2>3, <2>4 DEF AtWalk
<1> QED BY <1>1, <1>2, <1>3, <1>12 DEF LoopPart

\* One item of the worklist taken, others pushed.
Taken(wk, b, S, wk2) ==
  /\ b \in Block /\ b \in ToSet(wk) /\ wk2 \in Seq(Block)
  /\ ToSet(wk) \subseteq ToSet(wk2) \cup {b} /\ S \subseteq ToSet(wk2)
  /\ ToSet(wk2) \subseteq ToSet(wk) \cup S

LEMMA ItemTaken ==
  ASSUME NEW wk \in Seq(Block), wk # <<>>, NEW b, b = Last(wk), NEW S \in SUBSET Block, NEW s \in Ascending(S),
         NEW wk2, wk2 = Front(wk) \o s
  PROVE  Taken(wk, b, S, wk2)
<1>1. /\ b \in Block /\ Front(wk) \in Seq(Block) /\ ToSet(wk) = ToSet(Front(wk)) \cup {b}
  BY FrontSet
<1>2. /\ s \in Seq(Block) /\ (\A k \in 1..Len(s) : s[k] \in S)
      /\ (\A c \in S : \E k \in 1..Len(s) : s[k] = c)
  BY AscendingLemma
<1>3. ToSet(s) = S
  <2>1. ToSet(s) = {s[k] : k \in 1..Len(s)}
    BY <1>2, ToSetLemma
  <2> QED BY <1>2, <2>1
<1>4. wk2 \in Seq(Block) /\ ToSet(wk2) = ToSet(Front(wk)) \cup ToSet(s)
  BY <1>1, <1>2, ConcatSet
<1> QED BY <1>1, <1>3, <1>4 DEF Taken

\* What holds during the walk of a loop.
WalkInv(H, P, C, B, cur, wk) ==
  /\ wk \in Seq(Block) /\ Shape(P, C, B, Len(H), cur)
  /\ OnlyReachedJump => Inside(H, P, B) /\ ToSet(wk) \subseteq NaturalLoop(H[cur])
  /\ (OnlyReachedJump /\ TwoDeep) => Whole(H, P, B, cur + 1) /\ Walking(H, P, B, cur, wk)

LEMMA UnmappedStep ==
  ASSUME CfgOk, Numbered, Exact(doms), NEW H, Heads(H), NEW n, n = Len(H),
         NEW P, NEW C, NEW B, NEW cur \in 1..n, NEW wk, WalkInv(H, P, C, B, cur, wk),
         NEW b, NEW S, NEW wk2, Taken(wk, b, S, wk2), B[b] = NoLoop, NEW B2, B2 = [B EXCEPT ![b] = cur],
         b = H[cur] => S = {}, b # H[cur] => S = Preds(b)
  PROVE  WalkInv(H, P, C, B2, cur, wk2)
<1>1. /\ b \in Block /\ b \in ToSet(wk) /\ wk2 \in Seq(Block)
      /\ ToSet(wk) \subseteq ToSet(wk2) \cup {b} /\ S \subseteq ToSet(wk2)
      /\ ToSet(wk2) \subseteq ToSet(wk) \cup S
  BY DEF Taken
<1>2. Shape(P, C, B, n, cur)
  BY DEF WalkInv
<1>3. B \in [Block -> 0..n] /\ Rising(P, n)
  BY <1>2, ShapeRises DEF Shape
<1>4. Shape(P, C, B2, n, cur)
  BY <1>1, <1>2, UnmappedShape
<1>5. ASSUME OnlyReachedJump
      PROVE  Inside(H, P, B2) /\ ToSet(wk2) \subseteq NaturalLoop(H[cur])
  <2>1. Inside(H, P, B) /\ ToSet(wk) \subseteq NaturalLoop(H[cur])
    BY <1>5 DEF WalkInv
  <2>2. b \in NaturalLoop(H[cur])
    BY <1>1, <2>1
  <2>3. Inside(H, P, B2) /\ (b # H[cur] => Preds(b) \subseteq NaturalLoop(H[cur]))
    <3>1. B \in [Block -> 0..Len(H)] /\ cur \in 1..Len(H)
      BY <1>3
    <3> QED BY <1>1, <1>5, <2>1, <2>2, <3>1, UnmappedSound
  <2>4. S \subseteq NaturalLoop(H[cur])
    BY <2>3
  <2> QED BY <1>1, <2>1, <2>3, <2>4
<1>6. ASSUME OnlyReachedJump, TwoDeep
      PROVE  Whole(H, P, B2, cur + 1) /\ Walking(H, P, B2, cur, wk2)
  <2>1. Whole(H, P, B, cur + 1) /\ Walking(H, P, B, cur, wk)
    BY <1>6 DEF WalkInv
  <2>2. b # H[cur] => Preds(b) \subseteq ToSet(wk2)
    BY <1>1
  <2> QED BY <1>1, <1>3, <2>1, <2>2, UnmappedWalk
<1> QED BY <1>1, <1>4, <1>5, <1>6 DEF WalkInv

\* A block met again whose outermost loop is this one already.
LEMMA MetStep ==
  ASSUME NEW H, NEW n, n = Len(H),
         NEW P, NEW C, NEW B, NEW cur \in 1..n, NEW wk, WalkInv(H, P, C, B, cur, wk),
         NEW b, NEW wk2, Taken(wk, b, {}, wk2), NEW l \in 1..n, B[b] = l, OutIn(P, l) = cur
  PROVE  WalkInv(H, P, C, B, cur, wk2)
<1>1. /\ b \in Block /\ wk2 \in Seq(Block)
      /\ ToSet(wk) \subseteq ToSet(wk2) \cup {b} /\ ToSet(wk2) \subseteq ToSet(wk)
  BY DEF Taken
<1>2. Shape(P, C, B, n, cur)
  BY DEF WalkInv
<1>3. b \in Put(P, B, cur)
  <2>1. UnderIn(P, l, cur)
    BY <1>2, ShapeRises, UnderOut
  <2> QED BY <1>1, <2>1 DEF Put
<1>4. ASSUME OnlyReachedJump, TwoDeep
      PROVE  Whole(H, P, B, cur + 1) /\ Walking(H, P, B, cur, wk2)
  <2>1. Whole(H, P, B, cur + 1) /\ Walking(H, P, B, cur, wk)
    BY <1>4 DEF WalkInv
  <2> QED BY <1>1, <1>3, <2>1, MappedStays
<1> QED BY <1>1, <1>4 DEF WalkInv

\* A block met again: the outermost loop around it becomes a child of this one.
LEMMA ChildStep ==
  ASSUME CfgOk, Numbered, Exact(doms), NEW H, Heads(H), TwoDeep => NotThree(H), NEW n, n = Len(H),
         NEW P, NEW C, NEW B, NEW cur \in 1..n, NEW wk, WalkInv(H, P, C, B, cur, wk),
         NEW b, NEW l \in 1..n, l = B[b], NEW wk2, NEW S, Taken(wk, b, S, wk2), S = Preds(H[l]),
         NEW o, o = OutIn(P, l), o # cur,
         NEW P2, P2 = [P EXCEPT ![o] = cur], NEW C2, C2 = [C EXCEPT ![cur] = Append(@, o)]
  PROVE  WalkInv(H, P2, C2, B, cur, wk2)
<1>1. /\ b \in Block /\ b \in ToSet(wk) /\ wk2 \in Seq(Block)
      /\ ToSet(wk) \subseteq ToSet(wk2) \cup {b} /\ Preds(H[l]) \subseteq ToSet(wk2)
      /\ ToSet(wk2) \subseteq ToSet(wk) \cup Preds(H[l])
  BY DEF Taken
<1>2. Shape(P, C, B, n, cur) /\ Rising(P, n) /\ B \in [Block -> 0..n] /\ n \in Nat
  <2>1. Shape(P, C, B, n, cur)
    BY DEF WalkInv
  <2> QED BY <2>1, ShapeRises DEF Shape
<1>3. l # NoLoop /\ cur <= l
  <2>1. l # NoLoop
    BY DEF NoLoop
  <2> QED BY <1>1, <1>2, <2>1 DEF Shape
<1>4. o \in 1..n /\ P[o] = NoLoop /\ cur < o
  <2>1. o \in 1..n /\ P[o] = NoLoop /\ cur <= o
    BY <1>2, <1>3, OutFrom
  <2> QED BY <1>2, <2>1
<1>5. Shape(P2, C2, B, n, cur)
  BY <1>2, <1>4, MappedShape
<1>6. ASSUME OnlyReachedJump
      PROVE  Inside(H, P2, B) /\ ToSet(wk2) \subseteq NaturalLoop(H[cur])
  <2>1. Inside(H, P, B) /\ ToSet(wk) \subseteq NaturalLoop(H[cur])
    BY <1>6 DEF WalkInv
  <2>2. b \in NaturalLoop(H[cur])
    BY <1>1, <2>1
  <2>3. Inside(H, P2, B) /\ Preds(H[l]) \subseteq NaturalLoop(H[cur])
    BY <1>1, <1>2, <1>3, <1>6, <2>1, <2>2, MappedSound
  <2> QED BY <1>1, <2>1, <2>3
<1>7. ASSUME OnlyReachedJump, TwoDeep
      PROVE  Whole(H, P2, B, cur + 1) /\ Walking(H, P2, B, cur, wk2)
  <2>1. /\ Whole(H, P, B, cur + 1) /\ Walking(H, P, B, cur, wk)
        /\ Inside(H, P, B) /\ b \in NaturalLoop(H[cur]) /\ NotThree(H)
    BY <1>1, <1>7 DEF WalkInv
  <2>2. P[l] = NoLoop /\ o = l /\ cur < l
    <3>1. MetIn(H, P, C, B, n, cur, b, l)
      BY <1>1, <1>2, <1>3, <2>1 DEF MetIn
    <3> QED BY <2>1, <3>1, MetTwoDeep
  <2>3. Joined(P, P2, B, n, cur, b, l)
    BY <1>1, <1>2, <2>2 DEF Joined
  <2> QED BY <1>1, <2>1, <2>3, MappedWalk
<1> QED BY <1>1, <1>5, <1>6, <1>7 DEF WalkInv

LEMMA WalkStep ==
  ASSUME LoopInv, Walk
  PROVE  LoopPart'
<1>1. /\ loop_pass = "walk" /\ worklist # <<>> /\ loop_pass' = "walk" /\ UNCHANGED dtVars
      /\ UNCHANGED <<cur_lp, body, header>>
  BY DEF Walk, WalkUnmapped, WalkMapped
<1>2. body = NoBody /\ AtWalk
  BY <1>1 DEF LoopInv, LoopPart
<1>3. /\ pass' = "done" /\ Heads(header) /\ Heads(header)' /\ cfg' = cfg /\ post_order' = post_order
      /\ (OnlyReachedJump' <=> OnlyReachedJump) /\ (TwoDeep' <=> TwoDeep)
      /\ CfgOk /\ Numbered /\ Exact(doms) /\ NoBody' = NoBody /\ Len(header) \in Nat
      /\ (\A h : NaturalLoop(h)' = NaturalLoop(h)) /\ (TwoDeep => NotThree(header))
  BY <1>1, WalkFrame
<1>4. PICK H, n : H = header /\ n = Len(header)
  OBVIOUS
<1>5. PICK cur \in 1..n : cur = cur_lp
  BY <1>2, <1>4 DEF AtWalk
<1>6. PICK P, C, B, wk : P = parent /\ C = children /\ B = block_to_loop /\ wk = worklist
  OBVIOUS
<1>7. PICK P2, C2, B2, wk2 : P2 = parent' /\ C2 = children' /\ B2 = block_to_loop' /\ wk2 = worklist'
  OBVIOUS
<1>8. /\ n = Len(H) /\ Heads(H) /\ (TwoDeep => NotThree(H)) /\ WalkInv(H, P, C, B, cur, wk)
      /\ wk \in Seq(Block) /\ wk # <<>>
  BY <1>1, <1>2, <1>3, <1>4, <1>5, <1>6 DEF AtWalk, WalkInv
<1>9. PICK b : b = Last(wk)
  OBVIOUS
<1>10. b \in Block
  BY <1>8, <1>9, FrontSet
<1>11. WalkInv(H, P2, C2, B2, cur, wk2)
  <2>1. CASE WalkUnmapped(b)
    <3>1. B[b] = NoLoop /\ B2 = [B EXCEPT ![b] = cur] /\ P2 = P /\ C2 = C
      BY <1>5, <1>6, <1>7, <2>1 DEF WalkUnmapped
    <3>2. PICK S : S = IF b = H[cur] THEN {} ELSE Preds(b)
      OBVIOUS
    <3>3. S \in SUBSET Block
      BY <1>3, <1>10, <3>2, CfgLemma
    <3>4. PICK s \in Ascending(S) : wk2 = Front(wk) \o s
      BY <1>4, <1>5, <1>6, <1>7, <2>1, <3>2 DEF WalkUnmapped
    <3>5. Taken(wk, b, S, wk2)
      BY <1>8, <1>9, <3>3, <3>4, ItemTaken
    <3>6. (b = H[cur] => S = {}) /\ (b # H[cur] => S = Preds(b))
      BY <3>2
    <3>7. WalkInv(H, P, C, B2, cur, wk2)
      BY <1>3, <1>8, <3>1, <3>5, <3>6, UnmappedStep
    <3> QED BY <3>1, <3>7
  <2>2. CASE WalkMapped(b)
    <3>1. PICK l, o : l = B[b] /\ o = OutIn(P, l)
      OBVIOUS
    <3>2. OutermostParent(l) = o
      <4>1. Loops = DOMAIN P
        BY <1>4, <1>6, <1>8 DEF Loops, WalkInv, Shape, Heads
      <4> QED BY <1>6, <3>1, <4>1 DEF OutermostParent, OutIn
    <3>3. /\ l # NoLoop /\ B2 = B
          /\ IF o = cur THEN P2 = P /\ C2 = C
             ELSE C2 = [C EXCEPT ![cur] = Append(@, o)] /\ P2 = [P EXCEPT ![o] = cur]
      BY <1>5, <1>6, <1>7, <2>2, <3>1, <3>2 DEF WalkMapped, NewChild
    <3>4. l \in 1..n
      <4>1. l \in 0..n /\ n \in Nat /\ l # 0
        BY <1>8, <1>10, <3>1, <3>3 DEF WalkInv, Shape, NoLoop
      <4> QED BY <4>1
    <3>5. PICK S : S = IF o = cur THEN {} ELSE Preds(H[l])
      OBVIOUS
    <3>6. S \in SUBSET Block
      <4>1. H[l] \in Block
        BY <1>8, <3>4 DEF Heads
      <4> QED BY <1>3, <3>5, <4>1, CfgLemma
    <3>7. PICK s \in Ascending(S) : wk2 = Front(wk) \o s
      BY <1>4, <1>5, <1>6, <1>7, <2>2, <3>1, <3>2, <3>5 DEF WalkMapped, Above
    <3>8. Taken(wk, b, S, wk2)
      BY <1>8, <1>9, <3>6, <3>7, ItemTaken
    <3>9. CASE o = cur
      <4>1. S = {} /\ P2 = P /\ C2 = C /\ B[b] = l /\ OutIn(P, l) = cur
        BY <3>1, <3>3, <3>5, <3>9
      <4>2. WalkInv(H, P, C, B, cur, wk2)
        BY <1>8, <3>4, <3>8, <4>1, MetStep
      <4> QED BY <3>3, <4>1, <4>2
    <3>10. CASE o # cur
      <4>1. S = Preds(H[l]) /\ C2 = [C EXCEPT ![cur] = Append(@, o)] /\ P2 = [P EXCEPT ![o] = cur]
        BY <3>3, <3>5, <3>10
      <4>2. WalkInv(H, P2, C2, B, cur, wk2)
        BY <1>3, <1>8, <3>1, <3>4, <3>8, <3>10, <4>1, ChildStep
      <4> QED BY <3>3, <4>2
    <3> QED BY <3>9, <3>10
  <2> QED BY <1>6, <1>9, <2>1, <2>2 DEF Walk
<1>12. AtWalk'
  <2>1. Shape(parent, children, block_to_loop, Len(header), cur_lp)'
    <3>1. Shape(parent', children', block_to_loop', Len(header), cur)
      BY <1>4, <1>7, <1>11 DEF WalkInv
    <3> QED BY <1>1, <1>3, <1>5, <3>1 DEF Shape, Counted, OnceIn, NeverIn
  <2>2. OnlyReachedJump' => /\ Inside(header, parent, block_to_loop)'
                            /\ (ToSet(worklist) \subseteq NaturalLoop(header[cur_lp]))'
    <3>1. OnlyReachedJump => Inside(header, parent', block_to_loop') /\ ToSet(worklist') \subseteq NaturalLoop(header[cur_lp])
      BY <1>4, <1>5, <1>7, <1>11 DEF WalkInv
    <3>2. NaturalLoop(header[cur_lp])' = NaturalLoop(header[cur_lp]) /\ ToSet(worklist)' = ToSet(worklist')
      BY <1>1, <1>3
    <3> QED BY <1>1, <1>3, <3>1, <3>2, FrameTree
  <2>3. (OnlyReachedJump /\ TwoDeep)' => /\ Whole(header, parent, block_to_loop, cur_lp + 1)'
                                         /\ Walking(header, parent, block_to_loop, cur_lp, worklist)'
    <3>1. OnlyReachedJump /\ TwoDeep => /\ Walking(header, parent', block_to_loop', cur_lp', worklist')
                                        /\ Whole(header, parent', block_to_loop', cur + 1)
      BY <1>1, <1>4, <1>5, <1>7, <1>11 DEF WalkInv
    <3>2. OnlyReachedJump /\ TwoDeep => /\ Walking(header, parent, block_to_loop, cur_lp, worklist)'
                                        /\ Whole(header, parent, block_to_loop, cur + 1)'
      BY <1>1, <1>3, <3>1, FrameTree
    <3>3. OnlyReachedJump /\ TwoDeep => Whole(header, parent, block_to_loop, cur_lp + 1)'
      BY <1>1, <1>5, <3>2
    <3> QED BY <1>3, <3>2, <3>3
  <2>4. cur_lp' \in 1..Len(header)' /\ worklist' \in Seq(Block)
    BY <1>1, <1>4, <1>5, <1>7, <1>11 DEF WalkInv
  <2> QED BY <2>1, <2>2, <2>3, <2>4 DEF AtWalk
<1> QED BY <1>1, <1>2, <1>3, <1>12 DEF LoopPart

\* At the end of its walk, the loop is whole.
LEMMA WalkDoneStep ==
  ASSUME LoopInv, WalkDone
  PROVE  LoopPart'
<1>1. /\ loop_pass = "walk" /\ worklist = <<>> /\ loop_pass' = "next" /\ cur_lp' = cur_lp - 1 /\ UNCHANGED dtVars
      /\ UNCHANGED <<header, parent, children, block_to_loop, worklist, body>>
  BY DEF WalkDone, treeVars
<1>2. body = NoBody /\ AtWalk
  BY <1>1 DEF LoopInv, LoopPart
<1>3. /\ pass' = "done" /\ Heads(header) /\ Heads(header)' /\ cfg' = cfg /\ post_order' = post_order
      /\ (OnlyReachedJump' <=> OnlyReachedJump) /\ (TwoDeep' <=> TwoDeep)
      /\ CfgOk /\ Numbered /\ Exact(doms) /\ NoBody' = NoBody /\ Len(header) \in Nat
  BY <1>1, WalkFrame
<1>4. PICK H, n : H = header /\ n = Len(header)
  OBVIOUS
<1>5. PICK cur \in 1..n : cur = cur_lp
  BY <1>2, <1>4 DEF AtWalk
<1>6. PICK P, C, B : P = parent /\ C = children /\ B = block_to_loop
  OBVIOUS
<1>7. /\ n = Len(H) /\ Heads(H) /\ Shape(P, C, B, n, cur) /\ (OnlyReachedJump => Inside(H, P, B))
      /\ OnlyReachedJump /\ TwoDeep => Whole(H, P, B, cur + 1) /\ Walking(H, P, B, cur, <<>>)
  BY <1>1, <1>2, <1>3, <1>4, <1>5, <1>6 DEF AtWalk
<1>8. OnlyReachedJump /\ TwoDeep => Whole(H, P, B, cur)
  BY <1>3, <1>7, WalkWhole
<1>9. cur - 1 \in 0..n /\ (cur - 1) + 1 = cur
  BY <1>3, <1>4
<1>10. cur_lp' \in 0..Len(header)' /\ cur_lp' + 1 = cur
  BY <1>1, <1>4, <1>5, <1>9
<1>11. Mapped(cur_lp + 1)'
  <2>1. Shape(parent, children, block_to_loop, Len(header), cur)'
    <3>1. Shape(parent', children', block_to_loop', Len(header), cur)
      BY <1>1, <1>4, <1>6, <1>7
    <3> QED BY <1>1, <1>3, <3>1, FrameTree
  <2>2. OnlyReachedJump' => Inside(header, parent, block_to_loop)'
    <3>1. OnlyReachedJump => Inside(header, parent', block_to_loop')
      BY <1>1, <1>4, <1>6, <1>7
    <3> QED BY <1>1, <1>3, <3>1, FrameTree
  <2>3. (OnlyReachedJump /\ TwoDeep)' => Whole(header, parent, block_to_loop, cur)'
    <3>1. OnlyReachedJump /\ TwoDeep => Whole(header, parent', block_to_loop', cur)
      BY <1>1, <1>4, <1>6, <1>8
    <3> QED BY <1>1, <1>3, <3>1, FrameTree
  <2> QED BY <1>10, <2>1, <2>2, <2>3 DEF Mapped
<1> QED BY <1>1, <1>2, <1>3, <1>10, <1>11 DEF LoopPart

\* A tree that is right stays so in steps that leave it alone.
LEMMA MappedFrame ==
  ASSUME cfg' = cfg, post_order' = post_order, UNCHANGED <<header, parent, children, block_to_loop>>, Mapped(1)
  PROVE  Mapped(1)'
<1>1. Shape(parent, children, block_to_loop, Len(header), 1)'
  <2>1. Shape(parent', children', block_to_loop', Len(header), 1)
    BY DEF Mapped
  <2> QED BY <2>1, FrameTree
<1>2. OnlyReachedJump' => Inside(header, parent, block_to_loop)'
  <2>1. OnlyReachedJump => Inside(header, parent', block_to_loop')
    BY DEF Mapped
  <2> QED BY <2>1, FrameLoops, FrameTree
<1>3. (OnlyReachedJump /\ TwoDeep)' => Whole(header, parent, block_to_loop, 1)'
  <2>1. OnlyReachedJump /\ TwoDeep => Whole(header, parent', block_to_loop', 1)
    BY DEF Mapped
  <2> QED BY <2>1, FrameLoops, FrameTree
<1> QED BY <1>1, <1>2, <1>3 DEF Mapped

LEMMA LoopsDoneStep ==
  ASSUME LoopInv, LoopsDone
  PROVE  LoopPart'
<1>1. /\ loop_pass = "next" /\ cur_lp = NoLoop /\ loop_pass' = "mapped" /\ UNCHANGED dtVars
      /\ UNCHANGED <<header, parent, children, block_to_loop, body>>
  BY DEF LoopsDone, treeVars
<1>2. body = NoBody /\ Mapped(1)
  <2>1. cur_lp + 1 = 1
    BY <1>1 DEF NoLoop
  <2> QED BY <1>1, <2>1 DEF LoopInv, LoopPart
<1>3. /\ pass' = "done" /\ Heads(header)' /\ cfg' = cfg /\ post_order' = post_order /\ NoBody' = NoBody
  BY <1>1, WalkFrame
<1>4. Mapped(1)'
  BY <1>1, <1>2, <1>3, MappedFrame
<1> QED BY <1>1, <1>2, <1>3, <1>4 DEF LoopPart

LEMMA StartIterateStep ==
  ASSUME LoopInv, StartIterate
  PROVE  LoopPart'
<1>1. /\ loop_pass = "mapped" /\ loop_pass' = "iterate" /\ UNCHANGED dtVars
      /\ UNCHANGED <<header, parent, children, block_to_loop>>
  BY DEF StartIterate, treeVars
<1>2. Mapped(1)
  BY <1>1 DEF LoopInv, LoopPart
<1>3. /\ pass' = "done" /\ Heads(header) /\ Heads(header)' /\ cfg' = cfg /\ post_order' = post_order
      /\ (OnlyReachedJump' <=> OnlyReachedJump) /\ (TwoDeep' <=> TwoDeep) /\ CfgOk /\ Numbered /\ Exact(doms)
  BY <1>1, WalkFrame
<1>4. PICK lp \in Loops : body' = [NoBody EXCEPT !.lp = lp, !.stack = <<header[lp]>>]
  BY DEF StartIterate
<1>5. lp \in 1..Len(header)
  BY <1>3, <1>4 DEF Loops, Heads
<1>6. PICK h : h = header[lp]
  OBVIOUS
<1>7. h \in Block /\ h \in NaturalLoop(h)
  BY <1>3, <1>5, <1>6, NaturalLoopLemma DEF Heads
<1>8. body' = [lp |-> lp, state |-> [b \in Block |-> "unvisited"], stack |-> <<h>>, order |-> <<>>]
  BY <1>4, <1>6 DEF NoBody
<1>9. IterInv(NaturalLoop(h), h, [b \in Block |-> "unvisited"], <<h>>, <<>>)
  BY <1>3, <1>7, IterStart
<1>10. AtBlocks'
  <2>1. /\ body'.lp = lp /\ body'.state = [b \in Block |-> "unvisited"] /\ body'.stack = <<h>> /\ body'.order = <<>>
    BY <1>8
  <2>2. body' = [lp |-> body'.lp, state |-> body'.state, stack |-> body'.stack, order |-> body'.order]
    BY <1>8, <2>1
  <2>3. IterInv(NaturalLoop(header[body'.lp]), header[body'.lp], body'.state, body'.stack, body'.order)
    BY <1>6, <1>9, <2>1
  <2>4. IterInv(NaturalLoop(header[body.lp]), header[body.lp], body.state, body.stack, body.order)'
    BY <1>1, <1>3, <2>3, FrameTree
  <2>5. body'.lp \in 1..Len(header)'
    BY <1>1, <1>5, <2>1
  <2> QED BY <2>2, <2>4, <2>5 DEF AtBlocks
<1>11. Mapped(1)'
  BY <1>1, <1>2, <1>3, MappedFrame
<1> QED BY <1>1, <1>3, <1>10, <1>11 DEF LoopPart

\* What a loop holds in the tree is its natural loop.
LEMMA PutExact ==
  ASSUME Mapped(1), Heads(header), OnlyReachedJump, TwoDeep
  PROVE  \A lp \in 1..Len(header) : \A b \in Block : IsInLoop(b, lp) <=> b \in NaturalLoop(header[lp])
<1>1. PICK H, n, P, C, B : H = header /\ n = Len(header) /\ P = parent /\ C = children /\ B = block_to_loop
  OBVIOUS
<1>2. Shape(P, C, B, n, 1) /\ Inside(H, P, B) /\ Whole(H, P, B, 1) /\ n = Len(H)
  BY <1>1 DEF Mapped
<1>3. \A lp \in 1..n : Put(P, B, lp) \subseteq NaturalLoop(H[lp])
  BY <1>2, PutFits
<1>4. \A lp \in 1..n : NaturalLoop(H[lp]) \subseteq Put(P, B, lp)
  <2>1. \A lp \in 1..n : 1 <= lp
    BY <1>2 DEF Shape
  <2> QED BY <1>2, <2>1 DEF Whole
<1>5. \A b \in Block : \A lp : IsInLoop(b, lp) <=> UnderIn(P, B[b], lp)
  <2>1. Loops = DOMAIN P
    BY <1>1, <1>2 DEF Loops, Shape, Heads
  <2> QED BY <1>1, <2>1 DEF IsInLoop, UnderIn
<1> QED BY <1>1, <1>3, <1>4, <1>5 DEF Put

LEMMA IterateVisitStep ==
  ASSUME LoopInv, IterateVisit
  PROVE  LoopPart'
<1>1. /\ loop_pass = "iterate" /\ loop_pass' = "iterate" /\ body.stack # <<>> /\ UNCHANGED dtVars
      /\ UNCHANGED <<header, parent, children, block_to_loop>>
  BY DEF IterateVisit, treeVars
<1>2. Mapped(1) /\ AtBlocks
  BY <1>1 DEF LoopInv, LoopPart
<1>3. /\ pass' = "done" /\ Heads(header) /\ Heads(header)' /\ cfg' = cfg /\ post_order' = post_order
      /\ (OnlyReachedJump' <=> OnlyReachedJump) /\ (TwoDeep' <=> TwoDeep) /\ CfgOk /\ Numbered /\ Exact(doms)
  BY <1>1, WalkFrame
<1>4. PICK lp, st, sk, od : /\ body = [lp |-> lp, state |-> st, stack |-> sk, order |-> od]
                            /\ lp = body.lp /\ st = body.state /\ sk = body.stack /\ od = body.order
  BY <1>2 DEF AtBlocks
<1>5. PICK h, N : h = header[lp] /\ N = NaturalLoop(h)
  OBVIOUS
<1>6. lp \in 1..Len(header) /\ h \in Block /\ sk # <<>>
  BY <1>1, <1>2, <1>3, <1>4, <1>5 DEF AtBlocks, Heads
<1>7. PICK b : b = Last(sk)
  OBVIOUS
<1>8. PICK T : T = {n \in Succs(b) : n # b /\ st[n] = "unvisited" /\ IsInLoop(n, lp)}
  OBVIOUS
<1>9. st[b] = "unvisited" /\ \E s \in Ascending(T) : body' = [body EXCEPT !.state[b] = "visited", !.stack = @ \o s]
  <2>1. Last(body.stack) = b /\ body.state = st
    BY <1>4, <1>7
  <2>2. T = {n \in Succs(b) : n # b /\ body.state[n] = "unvisited" /\ IsInLoop(n, body.lp)}
    BY <1>4, <1>8
  <2>3. body.state[b] = "unvisited" /\ \E s \in Ascending(T) : body' = [body EXCEPT !.state[b] = "visited", !.stack = @ \o s]
    BY <2>1, <2>2 DEF IterateVisit
  <2> QED BY <2>1, <2>3
<1>10. PICK s \in Ascending(T) : body' = [body EXCEPT !.state[b] = "visited", !.stack = @ \o s]
  BY <1>9
<1>11. PICK st2 : st2 = [st EXCEPT ![b] = "visited"]
  OBVIOUS
<1>12. body' = [lp |-> lp, state |-> st2, stack |-> sk \o s, order |-> od]
  BY <1>4, <1>10, <1>11
<1>13. ASSUME OnlyReachedJump, TwoDeep
       PROVE  IterInv(N, h, st2, sk \o s, od)
  <2>1. IterInv(N, h, st, sk, od)
    BY <1>2, <1>4, <1>5, <1>13 DEF AtBlocks
  <2>2. b \in Block
    <3>1. sk \in Seq(Block)
      BY <2>1 DEF IterInv
    <3> QED BY <1>6, <1>7, <3>1, FrontSet
  <2>3. Succs(b) \subseteq Block
    BY <1>3, <2>2, CfgLemma
  <2>4. \A n \in Block : IsInLoop(n, lp) <=> n \in N
    BY <1>2, <1>3, <1>5, <1>6, <1>13, PutExact
  <2>5. T = {n \in Succs(b) : n # b /\ st[n] = "unvisited" /\ n \in N}
    BY <1>8, <2>3, <2>4
  <2>6. h \in Block /\ sk # <<>> /\ CfgOk /\ st[b] = "unvisited"
    BY <1>3, <1>6, <1>9
  <2> QED BY <1>7, <1>11, <2>1, <2>5, <2>6, IterVisitLemma
<1>14. AtBlocks'
  <2>1. body'.lp = lp /\ body'.state = st2 /\ body'.stack = sk \o s /\ body'.order = od
    BY <1>12
  <2>2. body' = [lp |-> body'.lp, state |-> body'.state, stack |-> body'.stack, order |-> body'.order]
    BY <1>12, <2>1
  <2>3. ASSUME OnlyReachedJump, TwoDeep
        PROVE  IterInv(NaturalLoop(header[body'.lp]), header[body'.lp], body'.state, body'.stack, body'.order)
    BY <1>5, <1>13, <2>1, <2>3
  <2>4. (OnlyReachedJump /\ TwoDeep)' =>
           IterInv(NaturalLoop(header[body.lp]), header[body.lp], body.state, body.stack, body.order)'
    BY <1>1, <1>3, <2>3, FrameTree
  <2>5. body'.lp \in 1..Len(header)'
    BY <1>1, <1>6, <2>1
  <2> QED BY <2>2, <2>4, <2>5 DEF AtBlocks
<1>15. Mapped(1)'
  BY <1>1, <1>2, <1>3, MappedFrame
<1> QED BY <1>1, <1>3, <1>14, <1>15 DEF LoopPart

LEMMA IteratePopStep ==
  ASSUME LoopInv, IteratePop
  PROVE  LoopPart'
<1>1. /\ loop_pass = "iterate" /\ loop_pass' = "iterate" /\ body.stack # <<>> /\ UNCHANGED dtVars
      /\ UNCHANGED <<header, parent, children, block_to_loop>>
  BY DEF IteratePop, treeVars
<1>2. Mapped(1) /\ AtBlocks
  BY <1>1 DEF LoopInv, LoopPart
<1>3. /\ pass' = "done" /\ Heads(header) /\ Heads(header)' /\ cfg' = cfg /\ post_order' = post_order
      /\ (OnlyReachedJump' <=> OnlyReachedJump) /\ (TwoDeep' <=> TwoDeep) /\ CfgOk /\ Numbered /\ Exact(doms)
  BY <1>1, WalkFrame
<1>4. PICK lp, st, sk, od : /\ body = [lp |-> lp, state |-> st, stack |-> sk, order |-> od]
                            /\ lp = body.lp /\ st = body.state /\ sk = body.stack /\ od = body.order
  BY <1>2 DEF AtBlocks
<1>5. PICK h, N : h = header[lp] /\ N = NaturalLoop(h)
  OBVIOUS
<1>6. lp \in 1..Len(header) /\ h \in Block /\ sk # <<>>
  BY <1>1, <1>2, <1>3, <1>4, <1>5 DEF AtBlocks, Heads
<1>7. PICK b : b = Last(sk)
  OBVIOUS
<1>8. PICK st2, od2 : st2 = [st EXCEPT ![b] = "finished"] /\ od2 = IF st[b] = "visited" THEN Append(od, b) ELSE od
  OBVIOUS
<1>9. /\ st[b] # "unvisited"
      /\ body' = [body EXCEPT !.stack = Front(@), !.state[b] = "finished",
                              !.order = IF st[b] = "visited" THEN Append(@, b) ELSE @]
  BY <1>4, <1>7 DEF IteratePop
<1>10. body' = [lp |-> lp, state |-> st2, stack |-> Front(sk), order |-> od2]
  BY <1>4, <1>8, <1>9
<1>11. ASSUME OnlyReachedJump, TwoDeep
       PROVE  IterInv(N, h, st2, Front(sk), od2)
  <2>1. IterInv(N, h, st, sk, od)
    BY <1>2, <1>4, <1>5, <1>11 DEF AtBlocks
  <2>2. h \in Block /\ sk # <<>> /\ CfgOk /\ st[b] # "unvisited"
    BY <1>3, <1>6, <1>9
  <2> QED BY <1>7, <1>8, <2>1, <2>2, IterPopLemma
<1>12. AtBlocks'
  <2>1. body'.lp = lp /\ body'.state = st2 /\ body'.stack = Front(sk) /\ body'.order = od2
    BY <1>10
  <2>2. body' = [lp |-> body'.lp, state |-> body'.state, stack |-> body'.stack, order |-> body'.order]
    BY <1>10, <2>1
  <2>3. ASSUME OnlyReachedJump, TwoDeep
        PROVE  IterInv(NaturalLoop(header[body'.lp]), header[body'.lp], body'.state, body'.stack, body'.order)
    BY <1>5, <1>11, <2>1, <2>3
  <2>4. (OnlyReachedJump /\ TwoDeep)' =>
           IterInv(NaturalLoop(header[body.lp]), header[body.lp], body.state, body.stack, body.order)'
    BY <1>1, <1>3, <2>3, FrameTree
  <2>5. body'.lp \in 1..Len(header)'
    BY <1>1, <1>6, <2>1
  <2> QED BY <2>2, <2>4, <2>5 DEF AtBlocks
<1>13. Mapped(1)'
  BY <1>1, <1>2, <1>3, MappedFrame
<1> QED BY <1>1, <1>3, <1>12, <1>13 DEF LoopPart

---------------------------------------------------------------------------
LEMMA LoopInvInit == ASSUME Init PROVE LoopInv
<1>1. IInv
  BY InvInit
<1>2. pass = "order" /\ loop_pass = "headers" /\ header = <<>> /\ parent = <<>> /\ children = <<>>
      /\ block_to_loop = [b \in Block |-> NoLoop] /\ worklist = <<>> /\ body = NoBody
  BY DEF Init, LoopInit, DomInit
<1>3. "order" # "done" /\ Len(header) = 0 /\ 1..0 = {}
  BY <1>2
<1>4. parent \in [1..Len(header) -> {NoLoop}] /\ children \in [1..Len(header) -> {<<>>}]
  <2>1. DOMAIN parent = 1..0 /\ DOMAIN children = 1..0
    BY <1>2
  <2>2. parent = [i \in 1..0 |-> NoLoop] /\ children = [i \in 1..0 |-> <<>>]
    BY <1>2, <1>3
  <2> QED BY <1>3, <2>2
<1>5. Finding
  BY <1>2, <1>3, <1>4 DEF Finding
<1> QED BY <1>1, <1>2, <1>5 DEF LoopInv, LoopPart

LEMMA LoopInvNext == ASSUME LoopInv, [Next]_flowVars PROVE LoopInv'
<1>1. IInv'
  BY InvNext DEF LoopInv
<1>2. CASE Dominators
  BY <1>1, <1>2, DominatorsLoops DEF LoopInv
<1>3. CASE LoopNest
  <2>1. LoopPart'
    BY <1>3, FindHeaderStep, HeadersDoneStep, StartLoopStep, WalkStep, WalkDoneStep, LoopsDoneStep,
       StartIterateStep, IterateVisitStep, IteratePopStep DEF LoopNest, LoopNext
  <2> QED BY <1>1, <2>1 DEF LoopInv
<1>4. CASE Components
  <2>1. UNCHANGED <<cfg, node_state, stack, post_order>>
    BY <1>4 DEF Components, SccNext, OrderDone, NextRoot, Search, SearchDone, StartTopo, TopoStep, TopoDone, iterVars
  <2>2. UNCHANGED <<pass, at>> /\ UNCHANGED loopVars
    BY <1>4 DEF Components, domVars
  <2> QED BY <1>1, <2>1, <2>2, LoopsUntouched DEF LoopInv
<1>5. CASE UNCHANGED flowVars
  <2>1. UNCHANGED <<cfg, node_state, stack, post_order, pass, at>> /\ UNCHANGED loopVars
    BY <1>5 DEF flowVars, dtVars, iterVars, domVars
  <2> QED BY <1>1, <2>1, LoopsUntouched DEF LoopInv
<1> QED BY <1>2, <1>3, <1>4, <1>5 DEF Next

LEMMA LoopsSoundFromInv == ASSUME LoopInv PROVE LoopsSound
<1> SUFFICES ASSUME loop_pass = "next", OnlyReachedJump, NEW lp \in Loops
             PROVE  /\ {b \in Block : IsInLoop(b, lp)} \subseteq NaturalLoop(header[lp])
                    /\ parent[lp] # NoLoop => parent[lp] < lp
                    /\ \A out \in Loops :
                          Cardinality({i \in DOMAIN children[out] : children[out][i] = lp})
                             = (IF parent[lp] = out THEN 1 ELSE 0)
  BY DEF LoopsSound
<1>1. PICK H, n, P, C, B, lo : /\ H = header /\ n = Len(header) /\ lo = cur_lp + 1
                               /\ P = parent /\ C = children /\ B = block_to_loop
  OBVIOUS
<1>2. Heads(header) /\ Shape(P, C, B, n, lo) /\ Inside(H, P, B) /\ n = Len(H)
  BY <1>1 DEF LoopInv, LoopPart, Mapped
<1>3. Loops = 1..n
  BY <1>1, <1>2 DEF Loops, Heads
<1>4. {b \in Block : IsInLoop(b, lp)} \subseteq NaturalLoop(header[lp])
  <2>1. Put(P, B, lp) \subseteq NaturalLoop(H[lp])
    BY <1>2, <1>3, PutFits
  <2>2. \A b \in Block : IsInLoop(b, lp) <=> UnderIn(P, B[b], lp)
    <3>1. Loops = DOMAIN P
      BY <1>2, <1>3 DEF Shape
    <3> QED BY <1>1, <3>1 DEF IsInLoop, UnderIn
  <2> QED BY <1>1, <2>1, <2>2 DEF Put
<1>5. parent[lp] # NoLoop => parent[lp] < lp
  BY <1>1, <1>2, <1>3 DEF Shape
<1>6. ASSUME NEW out \in Loops
      PROVE  Cardinality({i \in DOMAIN children[out] : children[out][i] = lp}) = (IF parent[lp] = out THEN 1 ELSE 0)
  <2>1. Counted(P, C, n) /\ lp \in 1..n /\ out \in 1..n
    BY <1>2, <1>3 DEF Shape
  <2>2. Cardinality({i \in DOMAIN C[out] : C[out][i] = lp}) = (IF P[lp] = out THEN 1 ELSE 0)
    BY <2>1, ChildrenCounted
  <2> QED BY <1>1, <2>2
<1> QED BY <1>4, <1>5, <1>6

LEMMA TwoDeepFromInv == ASSUME LoopInv PROVE TwoDeepExact
<1>1. ASSUME loop_pass = "next", cur_lp = NoLoop, OnlyReachedJump, TwoDeep, NEW lp \in Loops
      PROVE  /\ {b \in Block : IsInLoop(b, lp)} = NaturalLoop(header[lp])
             /\ \A b \in Block, out \in Loops :
                   (block_to_loop[b] = out /\ b \in NaturalLoop(header[lp])) =>
                       NaturalLoop(header[out]) \subseteq NaturalLoop(header[lp])
  <2>1. Mapped(1) /\ Heads(header)
    <3>1. cur_lp + 1 = 1
      BY <1>1 DEF NoLoop
    <3> QED BY <1>1, <3>1 DEF LoopInv, LoopPart
  <2>2. \A k \in 1..Len(header) : \A b \in Block : IsInLoop(b, k) <=> b \in NaturalLoop(header[k])
    BY <1>1, <2>1, PutExact
  <2>3. Loops = 1..Len(header)
    BY <2>1 DEF Loops, Heads
  <2>4. NaturalLoop(header[lp]) \subseteq Block
    <3>1. header[lp] \in Block /\ CfgOk
      BY <2>1, <2>3 DEF LoopInv, IInv, Heads
    <3> QED BY <3>1, NaturalLoopLemma
  <2>5. ASSUME NEW b \in Block, NEW out \in Loops, block_to_loop[b] = out, b \in NaturalLoop(header[lp])
        PROVE  NaturalLoop(header[out]) \subseteq NaturalLoop(header[lp])
    <3>1. PICK H, n, P, C, B : H = header /\ n = Len(header) /\ P = parent /\ C = children /\ B = block_to_loop
      OBVIOUS
    <3>2. Shape(P, C, B, n, 1) /\ Inside(H, P, B)
      BY <1>1, <2>1, <3>1 DEF Mapped
    <3>3. UnderIn(P, out, lp)
      <4>1. IsInLoop(b, lp)
        BY <2>2, <2>3, <2>5
      <4>2. Loops = DOMAIN P
        BY <2>3, <3>1, <3>2 DEF Shape
      <4> QED BY <2>5, <3>1, <4>1, <4>2 DEF IsInLoop, UnderIn
    <3>4. Rising(P, n) /\ out \in 0..n /\ lp \in 1..n
      <4>1. Rising(P, n) /\ B[b] \in 0..n
        BY <3>2, ShapeRises
      <4> QED BY <2>3, <2>5, <3>1, <4>1
    <3>5. \A l \in 1..n : P[l] # NoLoop => NaturalLoop(H[l]) \subseteq NaturalLoop(H[P[l]])
      BY <3>1, <3>2 DEF Inside
    <3>6. NaturalLoop(H[out]) \subseteq NaturalLoop(H[lp])
      BY <3>3, <3>4, <3>5, UnderInside
    <3> QED BY <3>1, <3>6
  <2> QED BY <2>2, <2>3, <2>4, <2>5
<1>2. ASSUME loop_pass = "iterate", body.stack = <<>>, OnlyReachedJump, TwoDeep
      PROVE  /\ Len(body.order) = Cardinality(ToSet(body.order))
             /\ Last(body.order) = header[body.lp]
             /\ ToSet(body.order) = NaturalLoop(header[body.lp])
  <2>1. PICK lp, st, sk, od, h : lp = body.lp /\ st = body.state /\ sk = body.stack /\ od = body.order /\ h = header[body.lp]
    OBVIOUS
  <2>2. AtBlocks /\ Heads(header) /\ CfgOk
    BY <1>2 DEF LoopInv, LoopPart, IInv
  <2>3. h \in Reachable /\ IterInv(NaturalLoop(h), h, st, <<>>, od)
    BY <1>2, <2>1, <2>2 DEF AtBlocks, Heads
  <2>4. Len(od) = Cardinality(ToSet(od)) /\ Last(od) = h /\ ToSet(od) = NaturalLoop(h)
    BY <1>2, <2>2, <2>3, IterEnds
  <2> QED BY <2>1, <2>4
<1> QED BY <1>1, <1>2 DEF TwoDeepExact

\* What compute and analyze_loops put in a loop belongs to the natural loop of
\* its header, parents come before their children and hold them once; and where
\* no block is in three loops, each loop holds its natural loop, blocks
\* are mapped to the innermost, and iter_blocks_post_order returns the
\* blocks of a loop, each once, the header last.
THEOREM LoopNesting == Spec => []LoopsExact
<1>1. Init => LoopInv
  BY LoopInvInit
<1>2. LoopInv /\ [Next]_flowVars => LoopInv'
  BY LoopInvNext
<1>3. LoopInv => LoopsExact
  BY LoopsSoundFromInv, TwoDeepFromInv DEF LoopsExact
<1> QED BY <1>1, <1>2, <1>3, PTL DEF Spec
====
