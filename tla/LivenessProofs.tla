-------------------------- MODULE LivenessProofs ---------------------------
(***************************************************************************)
(* What Liveness and InstLiveness find is what the paths to the uses say,  *)
(* for every function and every order of its blocks: the proof of          *)
(* LiveExact.                                                              *)
(***************************************************************************)
EXTENDS Liveness, CommonLemmas

-----------------------------------------------------------------------------
(***************************************************************************)
(* The function.                                                           *)
(***************************************************************************)
FnOk == fn \in Functions
Normal(b, v) == DefinedAs(b, v, FALSE)
Phi(b, v) == DefinedAs(b, v, TRUE)

LEMMA FnLemma ==
  ASSUME FnOk
  PROVE  /\ fn.entry \in Block /\ fn.succs \in [Block -> SUBSET Block]
         /\ fn.args \subseteq Value /\ fn.imms \subseteq Value /\ fn.args \cap fn.imms = {}
         /\ NoValue \notin Value
BY FunctionsAssumption DEF FnOk, IsFunction

\* The instructions of a block.
LEMMA InstLemma ==
  ASSUME FnOk, NEW b \in Block
  PROVE  /\ fn.code[b] \in Seq(Insn) /\ Len(fn.code[b]) \in Nat
         /\ Insts(b) = 1..Len(fn.code[b])
         /\ \A i \in Insts(b) :
              /\ Inst(b, i) \in Insn
              /\ Inst(b, i).uses \in Seq([val : Value, pred : Nat])
              /\ DOMAIN Inst(b, i).uses = 1..Len(Inst(b, i).uses)
              /\ \A k \in DOMAIN Inst(b, i).uses :
                   /\ Inst(b, i).uses[k] \in [val : Value, pred : Nat]
                   /\ IsPhi(Inst(b, i)) => Inst(b, i).uses[k].pred \in Block
              /\ Inst(b, i).res \notin fn.args \cup fn.imms
              /\ \A c \in Block : \A j \in Insts(c) :
                   (Inst(b, i).res = Inst(c, j).res /\ Inst(b, i).res # NoValue) => b = c /\ i = j
              /\ \A j \in Insts(b) :
                   (~IsPhi(Inst(b, j)) /\ Inst(b, i).res \in Operands(Inst(b, j))) => i < j
<1>1. IsFunction(fn)
  BY FunctionsAssumption DEF FnOk
<1>2. fn.code \in [Block -> Seq(Insn)]
  BY <1>1 DEF IsFunction
<1>3. fn.code[b] \in Seq(Insn) /\ Len(fn.code[b]) \in Nat /\ Insts(b) = 1..Len(fn.code[b])
  BY <1>2, LenProperties DEF Insts
<1>4. ASSUME NEW i \in Insts(b)
      PROVE  Inst(b, i) \in Insn /\ Inst(b, i).uses \in Seq([val : Value, pred : Nat])
  <2>1. Inst(b, i) \in Insn
    BY <1>3, <1>4, ElementOfSeq DEF Inst
  <2> QED BY <2>1 DEF Insn
<1>5. ASSUME NEW i \in Insts(b)
      PROVE  DOMAIN Inst(b, i).uses = 1..Len(Inst(b, i).uses)
  BY <1>4, LenProperties
<1>6. ASSUME NEW i \in Insts(b), NEW k \in DOMAIN Inst(b, i).uses
      PROVE  Inst(b, i).uses[k] \in [val : Value, pred : Nat]
  <2>1. PICK s : s = Inst(b, i).uses
    OBVIOUS
  <2>2. s \in Seq([val : Value, pred : Nat]) /\ k \in 1..Len(s)
    BY <2>1, <1>4, <1>5
  <2>3. s[k] \in [val : Value, pred : Nat]
    BY <2>2, ElementOfSeq
  <2> QED BY <2>1, <2>3
<1>7. ASSUME NEW i \in Insts(b), IsPhi(Inst(b, i)), NEW k \in DOMAIN Inst(b, i).uses
      PROVE  Inst(b, i).uses[k].pred \in Block
  BY <1>1, <1>7 DEF IsFunction, IsPhi, Insts, Inst
<1>8. ASSUME NEW i \in Insts(b)
      PROVE  Inst(b, i).res \notin fn.args \cup fn.imms
  BY <1>1 DEF IsFunction, Insts, Inst
<1>9. ASSUME NEW i \in Insts(b), NEW c \in Block, NEW j \in Insts(c),
             Inst(b, i).res = Inst(c, j).res, Inst(b, i).res # NoValue
      PROVE  b = c /\ i = j
  BY <1>1, <1>9 DEF IsFunction, Insts, Inst
<1>10. ASSUME NEW i \in Insts(b), NEW j \in Insts(b),
              ~IsPhi(Inst(b, j)), Inst(b, i).res \in Operands(Inst(b, j))
       PROVE  i < j
  <2>1. PICK k \in DOMAIN Inst(b, j).uses : Inst(b, j).uses[k].val = Inst(b, i).res
    BY <1>10 DEF Operands
  <2> QED BY <1>1, <1>10, <2>1 DEF IsFunction, Insts, Inst, IsPhi
<1> QED BY <1>3, <1>4, <1>5, <1>6, <1>7, <1>8, <1>9, <1>10

LEMMA ReachableLemma ==
  ASSUME FnOk
  PROVE  /\ Reachable \subseteq Block /\ IsFiniteSet(Reachable)
         /\ Cardinality(Reachable) \in Nat
<1>1. fn.succs \in [Block -> SUBSET Block] /\ {fn.entry} \in SUBSET Block
  BY FnLemma
<1>2. IsFiniteSet(Block)
  BY BlockAssumption
<1>3. LeastClosed(ReachSteps(fn.succs, {fn.entry}, {}), Block, fn.succs, {fn.entry}, {})
  BY <1>1, <1>2, ReachLemma
<1>4. Reachable \subseteq Block
  BY <1>3 DEF LeastClosed, Reachable, Reach
<1> QED BY <1>2, <1>4, FS_Subset, FS_CardinalityType

LEMMA PredsLemma ==
  ASSUME FnOk, NEW b \in Block
  PROVE  Preds(b) \subseteq Block
BY DEF Preds

\* What RecordDefs writes down is the definition.
LEMMA DefLemma ==
  ASSUME FnOk, NEW v \in Value, Definitions[v] # NoDef, NEW b \in Block
  PROVE  /\ Definitions[v] = Def("normal", b) <=> Normal(b, v)
         /\ Definitions[v] = Def("phi", b) <=> Phi(b, v)
         /\ ~(Normal(b, v) /\ Phi(b, v))
<1>0. v # NoValue
  BY FnLemma
<1>a. ~(Normal(b, v) /\ Phi(b, v))
  <2> SUFFICES ASSUME Normal(b, v), Phi(b, v) PROVE FALSE
    OBVIOUS
  <2>1. PICK i \in Insts(b) : Inst(b, i).res = v /\ IsPhi(Inst(b, i)) = FALSE
    BY DEF Normal, DefinedAs
  <2>2. PICK j \in Insts(b) : Inst(b, j).res = v /\ IsPhi(Inst(b, j)) = TRUE
    BY DEF Phi, DefinedAs
  <2> QED BY <2>1, <2>2, <1>0, InstLemma
<1>1. CASE \E c \in Reachable : DefinedBy(c, v)
  <2> DEFINE c == CHOOSE c \in Reachable : DefinedBy(c, v)
             i == CHOOSE i \in Insts(c) : Inst(c, i).res = v
  <2>1. c \in Reachable /\ DefinedBy(c, v)
    BY <1>1
  <2>2. c \in Block
    BY <2>1, ReachableLemma
  <2>3. i \in Insts(c) /\ Inst(c, i).res = v
    BY <2>1 DEF DefinedBy
  <2>4. Definitions[v] = Def(IF IsPhi(Inst(c, i)) THEN "phi" ELSE "normal", c)
    BY <1>1 DEF Definitions
  <2> HIDE DEF c, i
  <2>5. \A j \in Insts(b) : Inst(b, j).res = v => b = c /\ j = i
    BY <2>2, <2>3, <1>0, InstLemma
  <2>6. "normal" # "phi"
    OBVIOUS
  <2>7. IsPhi(Inst(c, i)) \in BOOLEAN
    BY DEF IsPhi
  <2>8. Normal(b, v) <=> b = c /\ ~IsPhi(Inst(c, i))
    BY <2>3, <2>5, <2>7 DEF Normal, DefinedAs
  <2>9. Phi(b, v) <=> b = c /\ IsPhi(Inst(c, i))
    BY <2>3, <2>5, <2>7 DEF Phi, DefinedAs
  <2> QED BY <2>4, <2>6, <2>8, <2>9, <1>a DEF Def
<1>2. CASE ~\E c \in Reachable : DefinedBy(c, v)
  <2>1. Definitions[v] = DefOfNoInst(v)
    BY <1>2 DEF Definitions
  <2>2. Definitions[v] = FnArg /\ v \in fn.args
    BY <2>1 DEF DefOfNoInst
  <2>3. ~Normal(b, v) /\ ~Phi(b, v)
    BY <2>2, InstLemma DEF Normal, Phi, DefinedAs
  <2>4. "arg" # "normal" /\ "arg" # "phi"
    OBVIOUS
  <2>5. Definitions[v] # Def("normal", b) /\ Definitions[v] # Def("phi", b)
    <3>1. FnArg.kind = "arg" /\ Def("normal", b).kind = "normal" /\ Def("phi", b).kind = "phi"
      BY DEF FnArg, Def
    <3> QED BY <2>2, <2>4, <3>1
  <2> QED BY <2>3, <2>5
<1> QED BY <1>1, <1>2

-----------------------------------------------------------------------------
(***************************************************************************)
(* The paths to the uses.                                                  *)
(***************************************************************************)
LEMMA LiveInLemma ==
  ASSUME FnOk, NEW v
  PROVE  /\ LiveInBlocks(v) \subseteq Block
         /\ \A b \in LiveInBlocks(v) : ~Normal(b, v)
         /\ \A b \in UsedBlocks(v) : ~Normal(b, v) => b \in LiveInBlocks(v)
         /\ \A s \in LiveInBlocks(v) : \A p \in Preds(s) :
              (~Phi(s, v) /\ ~Normal(p, v)) => p \in LiveInBlocks(v)
         /\ \A T : /\ \A b \in UsedBlocks(v) : ~Normal(b, v) => b \in T
                   /\ \A s \in T \cap LiveInBlocks(v) : \A p \in Preds(s) :
                        (~Phi(s, v) /\ ~Normal(p, v)) => p \in T
                   => LiveInBlocks(v) \subseteq T
<1> DEFINE next == [s \in Block |-> IF DefinedAs(s, v, TRUE) THEN {} ELSE Preds(s)]
           used == UsedBlocks(v)
           avoid == {b \in Block : DefinedAs(b, v, FALSE)}
           R == ReachSteps(next, used, avoid)
<1>1. next \in [Block -> SUBSET Block] /\ used \in SUBSET Block
  BY PredsLemma DEF UsedBlocks
<1>2. /\ R \subseteq Block /\ R \cap avoid = {}
      /\ used \ avoid \subseteq R
      /\ \A b \in R : next[b] \ avoid \subseteq R
      /\ \A T : /\ used \ avoid \subseteq T
                /\ \A b \in T \cap R : next[b] \ avoid \subseteq T
                => R \subseteq T
  <2>1. IsFiniteSet(Block)
    BY BlockAssumption
  <2> HIDE DEF next, used, avoid
  <2>2. LeastClosed(R, Block, next, used, avoid)
    BY <1>1, <2>1, ReachLemma
  <2> QED BY <2>2 DEF LeastClosed
<1>3. LiveInBlocks(v) = R
  BY DEF LiveInBlocks
<1>4. \A s \in Block : next[s] = IF Phi(s, v) THEN {} ELSE Preds(s)
  BY DEF Phi
<1>5. \A b \in Block : b \in avoid <=> Normal(b, v)
  BY DEF Normal
<1>6. \A s \in Block : Preds(s) \subseteq Block
  BY PredsLemma
<1>7. used = UsedBlocks(v)
  OBVIOUS
<1> HIDE DEF next, used, avoid, R
<1>8. \A b \in UsedBlocks(v) : ~Normal(b, v) => b \in R
  BY <1>1, <1>2, <1>5, <1>7
<1>9. \A s \in R : \A p \in Preds(s) : (~Phi(s, v) /\ ~Normal(p, v)) => p \in R
  BY <1>2, <1>4, <1>5, <1>6
<1>10. ASSUME NEW T,
              \A b \in UsedBlocks(v) : ~Normal(b, v) => b \in T,
              \A s \in T \cap R : \A p \in Preds(s) : (~Phi(s, v) /\ ~Normal(p, v)) => p \in T
       PROVE  R \subseteq T
  <2>1. used \ avoid \subseteq T
    BY <1>10, <1>1, <1>5, <1>7
  <2>2. ASSUME NEW b \in T \cap R PROVE next[b] \ avoid \subseteq T
    BY <1>10, <1>2, <1>4, <1>5, <1>6
  <2> QED BY <1>2, <2>1, <2>2
<1>11. \A b \in R : ~Normal(b, v)
  BY <1>2, <1>5
<1> QED BY <1>2, <1>3, <1>8, <1>9, <1>10, <1>11

LEMMA LiveOutLemma ==
  ASSUME FnOk, NEW v, NEW b \in Block
  PROVE  b \in LiveOutBlocks(v)
           <=> \E s \in LiveInBlocks(v) : b \in Preds(s) /\ ~Phi(s, v)
<1>1. LiveInBlocks(v) \subseteq Block
  BY LiveInLemma
<1> QED BY <1>1, FnLemma DEF LiveOutBlocks, Preds, Phi

\* A block that is live out and does not define the value is live in.
LEMMA ThroughLemma ==
  ASSUME FnOk, NEW v, NEW b \in Block, b \in UsedBlocks(v) \/ b \in LiveOutBlocks(v), ~Normal(b, v)
  PROVE  b \in LiveInBlocks(v)
BY LiveInLemma, LiveOutLemma

-----------------------------------------------------------------------------
(***************************************************************************)
(* The uses RecordDefs collects.                                           *)
(***************************************************************************)
Use == [val : Value, block : Block]
UseAt(b, i, k) ==
  [val |-> Inst(b, i).uses[k].val, block |-> UsedIn(b, Inst(b, i), Inst(b, i).uses[k])]
UsesOfInst(b, i) == [k \in DOMAIN Inst(b, i).uses |-> UseAt(b, i, k)]
UsesOfBlock(b) == FlattenSeq([i \in Insts(b) |-> UsesOfInst(b, i)])

LEMMA UseLemma ==
  ASSUME FnOk, NEW b \in Reachable, NEW i \in Insts(b), NEW k \in DOMAIN Inst(b, i).uses
  PROVE  /\ UseAt(b, i, k) \in Use
         /\ UseAt(b, i, k).val \in Vars => UseAt(b, i, k).block \in UsedBlocks(UseAt(b, i, k).val)
<1> DEFINE use == Inst(b, i).uses[k]
<1>1. b \in Block
  BY ReachableLemma
<1>2. use \in [val : Value, pred : Nat] /\ (IsPhi(Inst(b, i)) => use.pred \in Block) /\ i > 0
  BY <1>1, InstLemma
<1>3. UsedIn(b, Inst(b, i), use) \in Block
  BY <1>1, <1>2 DEF UsedIn
<1>4. UseAt(b, i, k).val = use.val /\ UseAt(b, i, k).block = UsedIn(b, Inst(b, i), use)
  BY DEF UseAt
<1>5. UseAt(b, i, k) \in Use
  BY <1>2, <1>3 DEF UseAt, Use
<1>6. ASSUME use.val \in Vars PROVE UsedIn(b, Inst(b, i), use) \in UsedBlocks(use.val)
  <2>1. ~IsImm(use.val)
    BY <1>6 DEF Vars, IsImm
  <2>2. CASE IsPhi(Inst(b, i))
    <3>1. UsedIn(b, Inst(b, i), use) = use.pred
      BY <2>1, <2>2 DEF UsedIn
    <3>2. use = [val |-> use.val, pred |-> use.pred]
      BY <1>2
    <3>3. FeedsPhi(use.pred, use.val)
      BY <2>2, <3>2 DEF FeedsPhi
    <3> QED BY <1>2, <2>2, <3>1, <3>3 DEF UsedBlocks
  <2>3. CASE ~IsPhi(Inst(b, i))
    <3>1. UsedIn(b, Inst(b, i), use) = b
      BY <2>3 DEF UsedIn
    <3>2. UsedAfter(b, 0, use.val)
      BY <1>2, <2>3 DEF UsedAfter, Operands
    <3> QED BY <1>1, <3>1, <3>2 DEF UsedBlocks
  <2> QED BY <2>2, <2>3
<1> QED BY <1>4, <1>5, <1>6

LEMMA UseFoundLemma ==
  ASSUME FnOk, NEW v \in Vars, NEW c \in UsedBlocks(v)
  PROVE  \E b \in Reachable : \E i \in Insts(b) : \E k \in DOMAIN Inst(b, i).uses :
           UseAt(b, i, k) = [val |-> v, block |-> c]
<1>0. ~IsImm(v)
  BY DEF Vars, IsImm
<1>1. CASE c \in Reachable /\ UsedAfter(c, 0, v)
  <2>1. PICK j \in Insts(c) : ~IsPhi(Inst(c, j)) /\ v \in Operands(Inst(c, j))
    BY <1>1 DEF UsedAfter
  <2>2. PICK k \in DOMAIN Inst(c, j).uses : Inst(c, j).uses[k].val = v
    BY <2>1 DEF Operands
  <2>3. UseAt(c, j, k) = [val |-> v, block |-> c]
    BY <2>1, <2>2 DEF UseAt, UsedIn
  <2> QED BY <1>1, <2>3
<1>2. CASE FeedsPhi(c, v)
  <2>1. PICK s \in Reachable : \E i \in Insts(s) :
          /\ IsPhi(Inst(s, i))
          /\ \E k \in DOMAIN Inst(s, i).uses : Inst(s, i).uses[k] = [val |-> v, pred |-> c]
    BY <1>2 DEF FeedsPhi
  <2>2. PICK i \in Insts(s) :
          /\ IsPhi(Inst(s, i))
          /\ \E k \in DOMAIN Inst(s, i).uses : Inst(s, i).uses[k] = [val |-> v, pred |-> c]
    BY <2>1
  <2>3. PICK k \in DOMAIN Inst(s, i).uses : Inst(s, i).uses[k] = [val |-> v, pred |-> c]
    BY <2>2
  <2>4. Inst(s, i).uses[k].val = v /\ Inst(s, i).uses[k].pred = c
    BY <2>3
  <2>5. UseAt(s, i, k) = [val |-> v, block |-> c]
    BY <1>0, <2>2, <2>4 DEF UseAt, UsedIn
  <2> QED BY <2>5
<1> QED BY <1>1, <1>2 DEF UsedBlocks

LEMMA UsesOfInstLemma ==
  ASSUME FnOk, NEW b \in Reachable, NEW i \in Insts(b)
  PROVE  /\ UsesOfInst(b, i) \in Seq(Use)
         /\ ToSet(UsesOfInst(b, i)) = {UseAt(b, i, k) : k \in DOMAIN Inst(b, i).uses}
<1>1. b \in Block
  BY ReachableLemma
<1>2. DOMAIN Inst(b, i).uses = 1..Len(Inst(b, i).uses) /\ Len(Inst(b, i).uses) \in Nat
  BY <1>1, InstLemma, LenProperties
<1>3. PICK n \in Nat : DOMAIN Inst(b, i).uses = 1..n
  BY <1>2
<1>4. \A k \in 1..n : UseAt(b, i, k) \in Use
  BY <1>3, UseLemma
<1>5. UsesOfInst(b, i) = [k \in 1..n |-> UseAt(b, i, k)]
  BY <1>3 DEF UsesOfInst
<1>6. UsesOfInst(b, i) \in Seq(Use)
  BY <1>4, <1>5, IsASeq
<1> QED BY <1>3, <1>5, <1>6 DEF ToSet

LEMMA UsesOfBlockLemma ==
  ASSUME FnOk, NEW b \in Reachable
  PROVE  /\ UsesOfBlock(b) \in Seq(Use)
         /\ \A u : u \in ToSet(UsesOfBlock(b))
              <=> \E i \in Insts(b) : \E k \in DOMAIN Inst(b, i).uses : u = UseAt(b, i, k)
<1> DEFINE s == [i \in Insts(b) |-> UsesOfInst(b, i)]
<1>1. PICK n \in Nat : Insts(b) = 1..n
  BY ReachableLemma, InstLemma
<1>2. s \in Seq(Seq(Use)) /\ Len(s) = n
  <2>1. s = [i \in 1..n |-> UsesOfInst(b, i)]
    BY <1>1
  <2>2. \A i \in 1..n : UsesOfInst(b, i) \in Seq(Use)
    BY <1>1, UsesOfInstLemma
  <2> QED BY <2>1, <2>2, IsASeq
<1>3. \A i \in 1..n : ToSet(s[i]) = {UseAt(b, i, k) : k \in DOMAIN Inst(b, i).uses}
  BY <1>1, UsesOfInstLemma
<1>4. UsesOfBlock(b) = FlattenSeq(s)
  BY DEF UsesOfBlock
<1> HIDE DEF s
<1>5. UsesOfBlock(b) \in Seq(Use) /\ ToSet(UsesOfBlock(b)) = UNION {ToSet(s[k]) : k \in 1..n}
  BY <1>2, <1>4, FlattenLemma
<1>6. ASSUME NEW u
      PROVE  u \in ToSet(UsesOfBlock(b))
               <=> \E i \in Insts(b) : \E k \in DOMAIN Inst(b, i).uses : u = UseAt(b, i, k)
  <2>1. u \in ToSet(UsesOfBlock(b)) <=> \E i \in 1..n : u \in ToSet(s[i])
    BY <1>5
  <2>2. \A i \in 1..n : u \in ToSet(s[i]) <=> \E k \in DOMAIN Inst(b, i).uses : u = UseAt(b, i, k)
    BY <1>3
  <2> QED BY <1>1, <2>1, <2>2
<1> QED BY <1>5, <1>6

\* An order of the reachable blocks has every one of them.
LEMMA OrderLemma ==
  ASSUME FnOk, NEW order \in SetToSeqs(Reachable)
  PROVE  \E n \in Nat : /\ order \in [1..n -> Reachable]
                       /\ \A b \in Reachable : \E j \in 1..n : order[j] = b
<1> DEFINE n == Cardinality(Reachable)
           D == 1..n
<1>1. n \in Nat /\ IsFiniteSet(Reachable)
  BY ReachableLemma
<1>2. order \in [D -> Reachable] /\ \A i, j \in D : i # j => order[i] # order[j]
  BY DEF SetToSeqs
<1>3. IsFiniteSet(D) /\ Cardinality(D) = n
  BY <1>1, FS_Interval
<1>4. order \in Injection(D, Reachable)
  BY <1>2 DEF Injection, IsInjective
<1> HIDE DEF D
<1>5. order \in Surjection(D, Reachable)
  BY <1>1, <1>3, <1>4, FS_Injection
<1>6. \A b \in Reachable : \E j \in D : order[j] = b
  BY <1>5 DEF Surjection
<1> QED BY <1>1, <1>2, <1>6 DEF D

\* The uses collected are those of the reachable blocks, whatever their order.
LEMMA UsesLemma ==
  ASSUME FnOk, NEW order \in SetToSeqs(Reachable)
  PROVE  /\ UsesIn(order) \in Seq(Use)
         /\ \A u \in ToSet(UsesIn(order)) : u.val \in Vars => u.block \in UsedBlocks(u.val)
         /\ \A v \in Vars : \A b \in UsedBlocks(v) :
              [val |-> v, block |-> b] \in ToSet(UsesIn(order))
<1>1. PICK n \in Nat : /\ order \in [1..n -> Reachable]
                      /\ \A b \in Reachable : \E j \in 1..n : order[j] = b
  BY OrderLemma
<1> DEFINE s == [j \in 1..n |-> UsesOfBlock(order[j])]
<1>2. s \in Seq(Seq(Use)) /\ Len(s) = n
  <2>1. \A j \in 1..n : UsesOfBlock(order[j]) \in Seq(Use)
    BY <1>1, UsesOfBlockLemma
  <2> QED BY <2>1, IsASeq
<1>3. UsesIn(order) = FlattenSeq(s)
  <2>1. DOMAIN order = 1..n
    BY <1>1
  <2> QED BY <2>1 DEF UsesIn, UsesOfBlock, UsesOfInst, UseAt
<1>4. \A j \in 1..n : s[j] = UsesOfBlock(order[j])
  OBVIOUS
<1> HIDE DEF s
<1>5. UsesIn(order) \in Seq(Use) /\ ToSet(UsesIn(order)) = UNION {ToSet(s[j]) : j \in 1..n}
  BY <1>2, <1>3, FlattenLemma
<1>6. ASSUME NEW u \in ToSet(UsesIn(order)), u.val \in Vars PROVE u.block \in UsedBlocks(u.val)
  <2>1. PICK j \in 1..n : u \in ToSet(UsesOfBlock(order[j]))
    BY <1>4, <1>5
  <2>2. order[j] \in Reachable
    BY <1>1
  <2>3. PICK b \in Reachable : b = order[j]
    BY <2>2
  <2>4. PICK i \in Insts(b) : \E k \in DOMAIN Inst(b, i).uses : u = UseAt(b, i, k)
    BY <2>1, <2>3, UsesOfBlockLemma
  <2>5. PICK k \in DOMAIN Inst(b, i).uses : u = UseAt(b, i, k)
    BY <2>4
  <2> QED BY <1>6, <2>5, UseLemma
<1>7. ASSUME NEW v \in Vars, NEW c \in UsedBlocks(v)
      PROVE  [val |-> v, block |-> c] \in ToSet(UsesIn(order))
  <2>1. PICK b \in Reachable : \E i \in Insts(b) : \E k \in DOMAIN Inst(b, i).uses :
           UseAt(b, i, k) = [val |-> v, block |-> c]
    BY UseFoundLemma
  <2>2. [val |-> v, block |-> c] \in ToSet(UsesOfBlock(b))
    BY <2>1, UsesOfBlockLemma
  <2>3. PICK j \in 1..n : order[j] = b
    BY <1>1
  <2> QED BY <1>4, <1>5, <2>2, <2>3
<1> QED BY <1>5, <1>6, <1>7

-----------------------------------------------------------------------------
(***************************************************************************)
(* The inductive invariant.  ins, outs and cs stand for live_ins,          *)
(* live_outs and calls: a step changes them one after the other.           *)
(***************************************************************************)
Call == [block : Block, val : Value, todo : SUBSET Block]
LiveSets == [Block -> SUBSET Value]

\* The state.
Types ==
  /\ FnOk
  /\ pass \in {"defs", "uses", "insts", "done", "panic"}
  /\ live_ins \in LiveSets /\ live_outs \in LiveSets
  /\ uses \in Seq(Use) /\ calls \in Seq(Call)

\* Between the walks nothing waits, and before them nothing has been found.
Idle ==
  /\ pass \in {"defs", "insts", "done"} => calls = <<>> /\ uses = <<>>
  /\ pass = "defs" => live_ins = Empty(Block) /\ live_outs = Empty(Block)
  /\ pass \in {"uses", "insts"} => defs = Definitions

\* Only what a path leads to a use of is found, and only if it is defined; what is live
\* out of a block is live into it or defined there.
Found(ins, outs) ==
  \A b \in Block :
    /\ \A v \in ins[b] : v \in Vars /\ defs[v] # NoDef /\ b \in LiveInBlocks(v)
    /\ \A v \in outs[b] : v \in Vars /\ b \in LiveOutBlocks(v)

\* A waiting call has been to its block, and has predecessors of it to do.
Waiting(ins, cs) ==
  \A k \in DOMAIN cs :
    /\ cs[k].val \in ins[cs[k].block]
    /\ ~Phi(cs[k].block, cs[k].val)
    /\ cs[k].todo \subseteq Preds(cs[k].block)

\* What is live into a block is live out of its predecessors, or a waiting call has the
\* predecessor to do.
Walked(ins, outs, cs) ==
  \A b \in Block : \A v \in ins[b] : ~Phi(b, v) =>
    \A p \in Preds(b) :
      \/ v \in outs[p]
      \/ \E k \in DOMAIN cs : cs[k].block = b /\ cs[k].val = v /\ p \in cs[k].todo

Arrived(ins, outs) ==
  \A b \in Block : \A v \in outs[b] : v \in ins[b] \/ Normal(b, v)

\* A use is to be visited, or the value is live into its block or defined there.
Visited(ins, us) ==
  \A v \in Vars : \A b \in UsedBlocks(v) :
    \/ [val |-> v, block |-> b] \in ToSet(us)
    \/ defs[v] # NoDef /\ (v \in ins[b] \/ Normal(b, v))
ToVisit(us) == \A u \in ToSet(us) : u.val \in Vars => u.block \in UsedBlocks(u.val)

\* One call of up_and_mark for a block that is found: it panics, or it is there.
LEMMA UpLemma ==
  ASSUME FnOk, pass = "uses", defs = Definitions, live_ins \in LiveSets,
         NEW outs \in LiveSets, NEW outer \in Seq(Call), NEW b \in Block, NEW v \in Vars,
         Found(live_ins, outs), Waiting(live_ins, outer), Walked(live_ins, outs, outer),
         \A c \in Block : \A w \in outs[c] :
           w \in live_ins[c] \/ Normal(c, w) \/ (c = b /\ w = v),
         b \in UsedBlocks(v) \/ b \in LiveOutBlocks(v),
         UpAndMark(b, v, outer)
  PROVE  /\ live_ins' \in LiveSets /\ calls' \in Seq(Call)
         /\ \/ pass' = "panic"
            \/ /\ pass' = "uses" /\ defs[v] # NoDef
               /\ Found(live_ins', outs) /\ Arrived(live_ins', outs)
               /\ Waiting(live_ins', calls') /\ Walked(live_ins', outs, calls')
               /\ \A c \in Block : live_ins[c] \subseteq live_ins'[c]
               /\ v \in live_ins'[b] \/ Normal(b, v)
<1>0. v \in Value
  BY DEF Vars
<1>1. CASE defs[v] = NoDef
  <2>1. pass' = "panic" /\ calls' = outer /\ live_ins' = live_ins
    BY <1>1 DEF UpAndMark
  <2> QED BY <2>1
<1>2. CASE defs[v] # NoDef
  <2>1. /\ defs[v] = Def("normal", b) <=> Normal(b, v)
        /\ defs[v] = Def("phi", b) <=> Phi(b, v)
    BY <1>0, <1>2, DefLemma
  <2>2. pass' = "uses"
    BY <1>2 DEF UpAndMark
  <2>3. CASE Normal(b, v) \/ v \in live_ins[b]
    <3>1. calls' = outer /\ live_ins' = live_ins
      BY <1>2, <2>1, <2>3 DEF UpAndMark
    <3>2. Arrived(live_ins, outs)
      BY <2>3 DEF Arrived
    <3> QED BY <1>2, <2>2, <2>3, <3>1, <3>2
  <2>4. CASE ~Normal(b, v) /\ v \notin live_ins[b]
    <3> DEFINE ins == [live_ins EXCEPT ![b] = @ \cup {v}]
    <3>1. live_ins' = ins
      BY <1>2, <2>1, <2>4 DEF UpAndMark
    <3>2. calls' = IF Phi(b, v) THEN outer
                   ELSE Append(outer, [block |-> b, val |-> v, todo |-> Preds(b)])
      BY <1>2, <2>1, <2>4 DEF UpAndMark
    <3>3. ins \in LiveSets /\ \A c \in Block : ins[c] = IF c = b THEN live_ins[b] \cup {v} ELSE live_ins[c]
      BY <1>0 DEF LiveSets
    <3> HIDE DEF ins
    <3>4. b \in LiveInBlocks(v)
      BY <2>4, ThroughLemma
    <3>5. Found(ins, outs)
      BY <1>2, <3>3, <3>4 DEF Found
    <3>6. Arrived(ins, outs)
      BY <3>3 DEF Arrived
    <3>7. outer \in Seq(Call) /\ \A k \in DOMAIN outer : outer[k] \in Call
      BY LenProperties, ElementOfSeq
    <3>8. \A k \in DOMAIN outer :
            /\ outer[k].val \in ins[outer[k].block]
            /\ ~Phi(outer[k].block, outer[k].val)
            /\ outer[k].todo \subseteq Preds(outer[k].block)
      <4>1. \A k \in DOMAIN outer : outer[k].block \in Block
        BY <3>7 DEF Call
      <4> QED BY <3>3, <4>1 DEF Waiting
    <3>9. \A c \in Block : \A w \in ins[c] : ~(c = b /\ w = v) => w \in live_ins[c]
      BY <3>3
    <3>10. CASE Phi(b, v)
      <4>1. calls' = outer
        BY <3>2, <3>10
      <4>2. Waiting(ins, outer)
        BY <3>8 DEF Waiting
      <4>3. Walked(ins, outs, outer)
        BY <3>9, <3>10 DEF Walked
      <4>4. \A c \in Block : live_ins[c] \subseteq ins[c]
        BY <3>3
      <4>5. v \in ins[b]
        BY <3>3
      <4> QED BY <1>2, <2>2, <3>1, <3>3, <3>5, <3>6, <4>1, <4>2, <4>3, <4>4, <4>5
    <3>11. CASE ~Phi(b, v)
      <4> DEFINE call == [block |-> b, val |-> v, todo |-> Preds(b)]
                 cs == Append(outer, call)
      <4>1. calls' = cs
        BY <3>2, <3>11
      <4>2. call \in Call /\ call.block = b /\ call.val = v /\ call.todo = Preds(b)
        BY <1>0, PredsLemma DEF Call
      <4> HIDE DEF call
      <4>3. cs \in Seq(Call) /\ Pushed(cs, outer, call)
        BY <4>2, PushLemma
      <4> HIDE DEF cs
      <4>4. PICK n \in Nat : n = Len(outer) /\ DOMAIN outer = 1..n
        BY LenProperties
      <4>5. /\ DOMAIN cs = 1..(n + 1) /\ cs[n + 1] = call
            /\ \A k \in 1..n : cs[k] = outer[k]
        BY <4>3, <4>4, LenProperties DEF Pushed
      <4>6. \A k \in 1..(n + 1) : k = n + 1 \/ k \in 1..n
        BY <4>4
      <4>7. n + 1 \in 1..(n + 1) /\ \A k \in 1..n : k \in 1..(n + 1)
        BY <4>4
      <4>8. v \in ins[b]
        BY <3>3
      <4>9. Waiting(ins, cs)
        <5> SUFFICES ASSUME NEW k \in DOMAIN cs
                     PROVE  /\ cs[k].val \in ins[cs[k].block]
                            /\ ~Phi(cs[k].block, cs[k].val)
                            /\ cs[k].todo \subseteq Preds(cs[k].block)
          BY DEF Waiting
        <5>1. CASE k = n + 1
          BY <5>1, <4>2, <4>5, <4>8, <3>11
        <5>2. CASE k \in 1..n
          BY <5>2, <4>4, <4>5, <3>8
        <5> QED BY <4>5, <4>6, <5>1, <5>2
      <4>10. Walked(ins, outs, cs)
        <5> SUFFICES ASSUME NEW c \in Block, NEW w \in ins[c], ~Phi(c, w), NEW p \in Preds(c)
                     PROVE  \/ w \in outs[p]
                            \/ \E k \in DOMAIN cs : cs[k].block = c /\ cs[k].val = w /\ p \in cs[k].todo
          BY DEF Walked
        <5>1. CASE c = b /\ w = v
          BY <5>1, <4>2, <4>5, <4>7
        <5>2. CASE ~(c = b /\ w = v)
          <6>1. w \in live_ins[c]
            BY <3>9, <5>2
          <6>2. \/ w \in outs[p]
                \/ \E k \in DOMAIN outer : outer[k].block = c /\ outer[k].val = w /\ p \in outer[k].todo
            BY <6>1 DEF Walked
          <6> QED BY <6>2, <4>4, <4>5, <4>7
        <5> QED BY <5>1, <5>2
      <4>11. \A c \in Block : live_ins[c] \subseteq ins[c]
        BY <3>3
      <4> QED BY <1>2, <2>2, <3>1, <3>3, <3>5, <3>6, <4>1, <4>3, <4>8, <4>9, <4>10, <4>11
    <3> QED BY <3>10, <3>11
  <2> QED BY <2>3, <2>4
<1> QED BY <1>1, <1>2

\* What the function says does not change while it is analysed.
LEMMA FrameLemma ==
  ASSUME fn' = fn
  PROVE  /\ FnOk' <=> FnOk
         /\ Definitions' = Definitions /\ Reachable' = Reachable /\ Vars' = Vars
         /\ \A b : Preds(b)' = Preds(b)
         /\ \A b, v : (Normal(b, v)' <=> Normal(b, v)) /\ (Phi(b, v)' <=> Phi(b, v))
         /\ \A v : /\ UsedBlocks(v)' = UsedBlocks(v)
                  /\ LiveInBlocks(v)' = LiveInBlocks(v)
                  /\ LiveOutBlocks(v)' = LiveOutBlocks(v)
         /\ \A b, i, v : LiveAt(b, i, v)' <=> LiveAt(b, i, v)
<1>1. Reachable' = Reachable
  BY DEF Reachable, Reach
<1>2. \A b : Preds(b)' = Preds(b)
  BY DEF Preds
<1>3. \A b, v, phi : DefinedAs(b, v, phi)' <=> DefinedAs(b, v, phi)
  BY DEF DefinedAs, Insts, Inst
<1>4. \A b, i, v : UsedAfter(b, i, v)' <=> UsedAfter(b, i, v)
  BY DEF UsedAfter, Insts, Inst
<1>5. \A b, v : FeedsPhi(b, v)' <=> FeedsPhi(b, v)
  BY <1>1 DEF FeedsPhi, Insts, Inst
<1>6. \A v : UsedBlocks(v)' = UsedBlocks(v)
  BY <1>1, <1>4, <1>5 DEF UsedBlocks
<1>7. \A v : LiveInBlocks(v)' = LiveInBlocks(v)
  BY DEF LiveInBlocks, UsedBlocks, DefinedAs, Preds, UsedAfter, FeedsPhi, Insts, Inst, Reachable, Reach
<1>8. \A v : LiveOutBlocks(v)' = LiveOutBlocks(v)
  BY <1>3, <1>7 DEF LiveOutBlocks
<1>9. \A b, i, v : LiveAt(b, i, v)' <=> LiveAt(b, i, v)
  BY <1>4, <1>8 DEF LiveAt, DefinedAfter, Insts, Inst
<1>10. Definitions' = Definitions
  BY DEF Definitions, DefinedBy, DefOfNoInst, Insts, Inst, Reachable, Reach
<1> QED BY <1>1, <1>2, <1>3, <1>6, <1>7, <1>8, <1>9, <1>10 DEF FnOk, Normal, Phi, Vars

-----------------------------------------------------------------------------
(***************************************************************************)
(* InstLiveness: a block backwards.                                        *)
(***************************************************************************)
AfterIs(f, b) ==
  f = [i \in Insts(b) |->
         IF i = Len(fn.code[b]) THEN live_outs[b] ELSE LiveBefore(Inst(b, i + 1), f[i + 1])]

\* The step from what is live after an instruction to what is live before it.
LEMMA LiveBeforeLemma ==
  ASSUME FnOk, NEW b \in Block, NEW i \in Insts(b), i + 1 \in Insts(b)
  PROVE  LiveBefore(Inst(b, i + 1), {v \in Vars : LiveAt(b, i + 1, v)}) = {v \in Vars : LiveAt(b, i, v)}
<1> DEFINE next == Inst(b, i + 1)
<1>1. i \in Nat /\ Insts(b) \subseteq Nat
  BY InstLemma
<1>2. \A j \in Insts(b) : j > i <=> j = i + 1 \/ j > i + 1
  BY <1>1
<1>3. \A v : DefinedAfter(b, i, v) <=> next.res = v \/ DefinedAfter(b, i + 1, v)
  BY <1>2 DEF DefinedAfter
<1>4. \A v : UsedAfter(b, i, v) <=> (~IsPhi(next) /\ v \in Operands(next)) \/ UsedAfter(b, i + 1, v)
  BY <1>2 DEF UsedAfter
<1>5. \A v \in Vars : v \in LiveOperands(next) <=> ~IsPhi(next) /\ v \in Operands(next)
  BY DEF LiveOperands, Vars, IsImm
<1>6. LiveOperands(next) \subseteq Vars
  <2> SUFFICES ASSUME NEW v \in LiveOperands(next) PROVE v \in Vars
    OBVIOUS
  <2>1. v \in Operands(next) /\ ~IsImm(v)
    BY DEF LiveOperands
  <2>2. PICK k \in DOMAIN next.uses : v = next.uses[k].val
    BY <2>1 DEF Operands
  <2>3. next.uses[k] \in [val : Value, pred : Nat]
    BY InstLemma
  <2> QED BY <2>1, <2>2, <2>3 DEF Vars, IsImm
<1>7. ASSUME NEW v \in Vars, ~IsPhi(next), v \in Operands(next) PROVE ~DefinedAfter(b, i, v)
  <2> SUFFICES ASSUME NEW j \in Insts(b), j > i, Inst(b, j).res = v PROVE FALSE
    BY DEF DefinedAfter
  <2>1. j < i + 1
    BY <1>7, InstLemma
  <2> QED BY <1>1, <2>1
<1>8. ASSUME NEW v
      PROVE  v \in LiveBefore(next, {w \in Vars : LiveAt(b, i + 1, w)}) <=> v \in Vars /\ LiveAt(b, i, v)
  <2> HIDE DEF next
  <2>1. v \in LiveBefore(next, {w \in Vars : LiveAt(b, i + 1, w)})
          <=> (v \in Vars /\ LiveAt(b, i + 1, v) /\ v # next.res) \/ v \in LiveOperands(next)
    BY DEF LiveBefore, ResultRemoved
  <2>2. CASE v \notin Vars
    BY <1>6, <2>1, <2>2
  <2>3. CASE v \in Vars
    <3>1. LiveAt(b, i, v) <=> /\ next.res # v /\ ~DefinedAfter(b, i + 1, v)
                              /\ \/ v \in LiveOperands(next)
                                 \/ UsedAfter(b, i + 1, v) \/ b \in LiveOutBlocks(v)
      BY <1>3, <1>4, <1>5, <2>3 DEF LiveAt
    <3>2. v \in LiveOperands(next) => next.res # v /\ ~DefinedAfter(b, i + 1, v)
      BY <1>3, <1>5, <1>7, <2>3
    <3>3. LiveAt(b, i + 1, v)
            <=> ~DefinedAfter(b, i + 1, v) /\ (UsedAfter(b, i + 1, v) \/ b \in LiveOutBlocks(v))
      BY DEF LiveAt
    <3> QED BY <2>1, <2>3, <3>1, <3>2, <3>3
  <2> QED BY <2>2, <2>3
<1> QED BY <1>8

LEMMA LiveAfterLemma ==
  ASSUME FnOk, NEW b \in Block, live_outs[b] = {v \in Vars : b \in LiveOutBlocks(v)}
  PROVE  \A i \in Insts(b) : LiveAfter(b)[i] = {v \in Vars : LiveAt(b, i, v)}
<1> DEFINE g == [i \in Insts(b) |-> {v \in Vars : LiveAt(b, i, v)}]
           f == CHOOSE h : AfterIs(h, b)
<1>1. PICK n \in Nat : n = Len(fn.code[b]) /\ Insts(b) = 1..n
  BY InstLemma
<1>2. n \in Insts(b) => {v \in Vars : LiveAt(b, n, v)} = live_outs[b]
  <2>1. \A j \in Insts(b) : ~(j > n)
    BY <1>1
  <2>2. \A v : LiveAt(b, n, v) <=> b \in LiveOutBlocks(v)
    BY <2>1 DEF LiveAt, DefinedAfter, UsedAfter
  <2> QED BY <2>2
<1>3. \A i \in 1..n : i # n => i + 1 \in 1..n
  BY <1>1
<1>4. \A i \in Insts(b) : g[i] = IF i = n THEN live_outs[b] ELSE LiveBefore(Inst(b, i + 1), g[i + 1])
  <2> TAKE i \in Insts(b)
  <2>1. CASE i = n
    BY <1>2, <2>1
  <2>2. CASE i # n
    <3>1. i + 1 \in Insts(b)
      BY <1>1, <1>3, <2>2
    <3> QED BY <2>2, <3>1, LiveBeforeLemma
  <2> QED BY <2>1, <2>2
<1>5. AfterIs(g, b)
  BY <1>1, <1>4 DEF AfterIs
<1>6. AfterIs(f, b)
  BY <1>5
<1>7. LiveAfter(b) = f
  BY DEF LiveAfter, AfterIs
<1> HIDE DEF f, g
<1>8. \A i \in 1..n : f[i] = IF i = n THEN live_outs[b] ELSE LiveBefore(Inst(b, i + 1), f[i + 1])
  BY <1>1, <1>6 DEF AfterIs
<1> DEFINE G == {k \in Nat : k < n => f[n - k] = g[n - k]}
<1>9. 0 \in G
  <2>1. n - 0 = n
    BY <1>1
  <2>2. 0 < n => n \in 1..n
    BY <1>1
  <2>3. 0 < n => f[n] = g[n]
    BY <1>1, <1>4, <1>8, <2>2
  <2> QED BY <2>1, <2>3
<1>10. ASSUME NEW k \in 0..(n - 1), k \in G PROVE k + 1 \in G
  <2> SUFFICES ASSUME k + 1 < n PROVE f[n - (k + 1)] = g[n - (k + 1)]
    BY <1>10
  <2>1. PICK i \in Nat : i = n - (k + 1) /\ i + 1 = n - k
    BY <1>1
  <2>2. i \in 1..n /\ i # n /\ k < n
    BY <1>1, <2>1
  <2>3. f[i + 1] = g[i + 1]
    BY <1>10, <2>1, <2>2
  <2>4. f[i] = LiveBefore(Inst(b, i + 1), f[i + 1]) /\ g[i] = LiveBefore(Inst(b, i + 1), g[i + 1])
    BY <1>1, <1>4, <1>8, <2>2
  <2> QED BY <2>1, <2>3, <2>4
<1> HIDE DEF G
<1>11. \A k \in 0..n : k \in G
  <2>1. 0 \in Nat
    OBVIOUS
  <2> QED BY <1>1, <1>9, <1>10, <2>1, CountUp
<1>12. ASSUME NEW i \in 1..n PROVE f[i] = g[i]
  <2>1. n - i \in 0..n /\ n - i < n /\ n - (n - i) = i
    BY <1>1
  <2> QED BY <1>11, <2>1 DEF G
<1> QED BY <1>1, <1>7, <1>12 DEF g

-----------------------------------------------------------------------------
(***************************************************************************)
(* When the walks are over.                                                *)
(***************************************************************************)
\* A walk that has been to everything has found what the paths say.
LEMMA WalkedLemma ==
  ASSUME FnOk, defs = Definitions, NEW ins \in LiveSets, NEW outs \in LiveSets,
         Found(ins, outs), Arrived(ins, outs), Walked(ins, outs, <<>>), Visited(ins, <<>>),
         NEW v \in Vars
  PROVE  /\ \A b \in Block : v \in ins[b] <=> b \in LiveInBlocks(v)
         /\ \A b \in Block : v \in outs[b] <=> b \in LiveOutBlocks(v)
<1> DEFINE T == {b \in Block : v \in ins[b]}
<1>1. DOMAIN <<>> = {} /\ ToSet(<<>>) = {}
  BY DEF ToSet
<1>2. \A b \in UsedBlocks(v) : ~Normal(b, v) => b \in T
  <2>1. UsedBlocks(v) \subseteq Block
    BY DEF UsedBlocks
  <2> QED BY <1>1, <2>1 DEF Visited
<1>3. ASSUME NEW s \in T, ~Phi(s, v), NEW p \in Preds(s) PROVE v \in outs[p] /\ p \in Block
  BY <1>1, <1>3, PredsLemma DEF Walked
<1>4. ASSUME NEW s \in T, NEW p \in Preds(s), ~Phi(s, v), ~Normal(p, v) PROVE p \in T
  BY <1>3, <1>4 DEF Arrived
<1>5. LiveInBlocks(v) \subseteq T
  <2> HIDE DEF T
  <2>1. \A s \in T \cap LiveInBlocks(v) : \A p \in Preds(s) : (~Phi(s, v) /\ ~Normal(p, v)) => p \in T
    BY <1>4
  <2> QED BY <1>2, <2>1, LiveInLemma
<1>6. \A b \in Block : v \in ins[b] <=> b \in LiveInBlocks(v)
  BY <1>5 DEF Found
<1>7. ASSUME NEW b \in Block, b \in LiveOutBlocks(v) PROVE v \in outs[b]
  <2>1. PICK s \in LiveInBlocks(v) : b \in Preds(s) /\ ~Phi(s, v)
    BY <1>7, LiveOutLemma
  <2> QED BY <1>3, <1>5, <2>1
<1> QED BY <1>6, <1>7 DEF Found

WalkSound ==
  pass \in {"uses", "insts"} =>
    /\ Found(live_ins, live_outs) /\ Arrived(live_ins, live_outs)
    /\ Waiting(live_ins, calls) /\ Walked(live_ins, live_outs, calls)
    /\ Visited(live_ins, uses) /\ ToVisit(uses)

IInv == Types /\ Idle /\ WalkSound /\ InstsLiveExact

LEMMA ExactLemma ==
  ASSUME IInv, pass = "insts", NEW v \in Vars
  PROVE  /\ \A b \in Block : v \in live_ins[b] <=> b \in LiveInBlocks(v)
         /\ \A b \in Block : v \in live_outs[b] <=> b \in LiveOutBlocks(v)
BY WalkedLemma DEF IInv, Types, Idle, WalkSound

-----------------------------------------------------------------------------
(***************************************************************************)
(* Every step keeps the invariant.                                         *)
(***************************************************************************)
LEMMA InitStep == Init => IInv
<1> SUFFICES ASSUME Init PROVE IInv
  OBVIOUS
<1>1. Empty(Block) \in LiveSets
  BY DEF Empty, LiveSets
<1>2. Types
  BY <1>1 DEF Init, Types, FnOk
<1>3. pass = "defs"
  BY DEF Init
<1>4. Idle
  BY DEF Init, Idle
<1>5. WalkSound /\ InstsLiveExact
  BY <1>3 DEF WalkSound, InstsLiveExact
<1> QED BY <1>2, <1>4, <1>5 DEF IInv

LEMMA RecordDefsStep ==
  ASSUME IInv, RecordDefs
  PROVE  IInv'
<1>0. /\ FnOk /\ fn' = fn /\ pass = "defs" /\ pass' = "uses"
      /\ live_ins' = live_ins /\ live_outs' = live_outs /\ calls' = calls
      /\ defs' = Definitions
  BY DEF IInv, Types, RecordDefs, sets
<1>1. PICK order \in SetToSeqs(Reachable) : uses' = UsesIn(order)
  BY DEF RecordDefs
<1>2. /\ uses' \in Seq(Use)
      /\ \A u \in ToSet(uses') : u.val \in Vars => u.block \in UsedBlocks(u.val)
      /\ \A v \in Vars : \A b \in UsedBlocks(v) : [val |-> v, block |-> b] \in ToSet(uses')
  BY <1>0, <1>1, UsesLemma
<1>3. /\ calls = <<>> /\ live_ins = Empty(Block) /\ live_outs = Empty(Block)
  BY <1>0 DEF IInv, Idle
<1>4. \A b \in Block : live_ins'[b] = {} /\ live_outs'[b] = {}
  BY <1>0, <1>3 DEF Empty
<1>5. FnOk' /\ Definitions' = Definitions
  BY <1>0, FrameLemma
<1>6. Types'
  <2>1. FnOk' /\ pass' = "uses" /\ uses' \in Seq(Use)
    BY <1>0, <1>2, <1>5
  <2>2. live_ins' \in LiveSets /\ live_outs' \in LiveSets /\ calls' \in Seq(Call)
    BY <1>0 DEF IInv, Types
  <2> QED BY <2>1, <2>2 DEF Types
<1>7. Idle'
  BY <1>0, <1>5 DEF Idle
<1>8. Found(live_ins, live_outs)' /\ Arrived(live_ins, live_outs)' /\ Walked(live_ins, live_outs, calls)'
  BY <1>4 DEF Found, Arrived, Walked
<1>9. Waiting(live_ins, calls)'
  BY <1>0, <1>3 DEF Waiting
<1>10. Visited(live_ins, uses)'
  BY <1>0, <1>2, FrameLemma DEF Visited
<1>11. ToVisit(uses)'
  BY <1>0, <1>2, FrameLemma DEF ToVisit
<1>12. InstsLiveExact'
  BY <1>0 DEF InstsLiveExact
<1> QED BY <1>6, <1>7, <1>8, <1>9, <1>10, <1>11, <1>12 DEF IInv, WalkSound

\* The parts of the invariant about a walk, when only the walk moves.
LEMMA WalkFrame ==
  ASSUME fn' = fn, defs' = defs, NEW ins, NEW outs, NEW cs, NEW us,
         live_ins' = ins, live_outs' = outs, calls' = cs, uses' = us,
         Found(ins, outs), Arrived(ins, outs), Waiting(ins, cs), Walked(ins, outs, cs),
         Visited(ins, us), ToVisit(us)
  PROVE  WalkSound'
<1>1. Found(live_ins, live_outs)'
  BY FrameLemma DEF Found
<1>2. Arrived(live_ins, live_outs)'
  BY FrameLemma DEF Arrived
<1>3. Waiting(live_ins, calls)'
  BY FrameLemma DEF Waiting
<1>4. Walked(live_ins, live_outs, calls)'
  BY FrameLemma DEF Walked
<1>5. Visited(live_ins, uses)'
  BY FrameLemma DEF Visited
<1>6. ToVisit(uses)'
  BY FrameLemma DEF ToVisit
<1> QED BY <1>1, <1>2, <1>3, <1>4, <1>5, <1>6 DEF WalkSound

\* What is left to show of a step of the walks.
LEMMA WalkStep ==
  ASSUME IInv, pass = "uses", fn' = fn, defs' = defs,
         live_ins' \in LiveSets, live_outs' \in LiveSets,
         uses' \in Seq(Use), calls' \in Seq(Call),
         \/ pass' = "panic"
         \/ /\ pass' = "uses"
            /\ Found(live_ins', live_outs') /\ Arrived(live_ins', live_outs')
            /\ Waiting(live_ins', calls') /\ Walked(live_ins', live_outs', calls')
            /\ Visited(live_ins', uses') /\ ToVisit(uses')
  PROVE  IInv'
<1>1. pass' \in {"uses", "panic"}
  OBVIOUS
<1>2. FnOk' /\ Definitions' = Definitions
  BY FrameLemma DEF IInv, Types
<1>3. Types'
  BY <1>1, <1>2 DEF Types
<1>4. Idle'
  <2>1. defs = Definitions
    BY DEF IInv, Idle
  <2>2. pass' \notin {"defs", "insts", "done"}
    BY <1>1
  <2> QED BY <1>2, <2>1, <2>2 DEF Idle
<1>5. InstsLiveExact'
  BY <1>1 DEF InstsLiveExact
<1>6. WalkSound'
  <2>1. CASE pass' = "panic"
    BY <2>1 DEF WalkSound
  <2>2. CASE pass' # "panic"
    BY <2>2, WalkFrame
  <2> QED BY <2>1, <2>2
<1> QED BY <1>3, <1>4, <1>5, <1>6 DEF IInv

LEMMA VisitUseStep ==
  ASSUME IInv, VisitUse
  PROVE  IInv'
<1>0. /\ FnOk /\ fn' = fn /\ pass = "uses" /\ defs' = defs /\ live_outs' = live_outs
      /\ calls = <<>> /\ uses # <<>> /\ uses' = Tail(uses)
      /\ defs = Definitions
  BY DEF IInv, Types, Idle, VisitUse
<1>1. /\ live_ins \in LiveSets /\ live_outs \in LiveSets /\ uses \in Seq(Use) /\ calls \in Seq(Call)
      /\ Found(live_ins, live_outs) /\ Arrived(live_ins, live_outs)
      /\ Waiting(live_ins, calls) /\ Walked(live_ins, live_outs, calls)
      /\ Visited(live_ins, uses) /\ ToVisit(uses)
  BY <1>0 DEF IInv, Types, WalkSound
<1>2. /\ Head(uses) \in Use /\ Tail(uses) \in Seq(Use)
      /\ ToSet(uses) = {Head(uses)} \cup ToSet(Tail(uses))
  BY <1>0, <1>1, TailLemma
<1>3. PICK v, b : v = Head(uses).val /\ b = Head(uses).block
  OBVIOUS
<1>4. v \in Value /\ b \in Block /\ Head(uses) = [val |-> v, block |-> b]
  BY <1>2, <1>3 DEF Use
<1>5. IF IsImm(v) THEN UNCHANGED <<pass, calls, live_ins, val_live_blocks>> ELSE UpAndMark(b, v, <<>>)
  BY <1>3 DEF VisitUse
<1>6. ToVisit(Tail(uses))
  BY <1>1, <1>2 DEF ToVisit
<1>7. CASE IsImm(v)
  <2>1. pass' = pass /\ calls' = calls /\ live_ins' = live_ins
    BY <1>5, <1>7
  <2>2. v \notin Vars
    BY <1>7 DEF Vars, IsImm
  <2>3. \A w, c : [val |-> w, block |-> c] = Head(uses) => w = v
    BY <1>4
  <2>4. Visited(live_ins, Tail(uses))
    BY <1>1, <1>2, <2>2, <2>3 DEF Visited
  <2> QED BY <1>0, <1>1, <1>2, <1>6, <2>1, <2>4, WalkStep
<1>8. CASE ~IsImm(v)
  <2>1. v \in Vars
    BY <1>4, <1>8 DEF Vars, IsImm
  <2>2. b \in UsedBlocks(v)
    BY <1>1, <1>2, <1>3, <2>1 DEF ToVisit
  <2>3. UpAndMark(b, v, <<>>)
    BY <1>5, <1>8
  <2>4. \A c \in Block : \A w \in live_outs[c] :
          w \in live_ins[c] \/ Normal(c, w) \/ (c = b /\ w = v)
    BY <1>1 DEF Arrived
  <2>5. /\ live_ins' \in LiveSets /\ calls' \in Seq(Call)
        /\ \/ pass' = "panic"
           \/ /\ pass' = "uses" /\ defs[v] # NoDef
              /\ Found(live_ins', live_outs) /\ Arrived(live_ins', live_outs)
              /\ Waiting(live_ins', calls') /\ Walked(live_ins', live_outs, calls')
              /\ \A c \in Block : live_ins[c] \subseteq live_ins'[c]
              /\ v \in live_ins'[b] \/ Normal(b, v)
    BY <1>0, <1>1, <1>4, <2>1, <2>2, <2>3, <2>4, UpLemma
  <2>6. CASE pass' = "panic"
    BY <1>0, <1>1, <1>2, <2>5, <2>6, WalkStep
  <2>7. CASE pass' # "panic"
    <3>1. PICK ins : ins = live_ins'
      OBVIOUS
    <3>2. UsedBlocks(v) \subseteq Block /\ \A w : UsedBlocks(w) \subseteq Block
      BY DEF UsedBlocks
    <3>3. Visited(ins, Tail(uses))
      <4> SUFFICES ASSUME NEW w \in Vars, NEW c \in UsedBlocks(w)
                   PROVE  \/ [val |-> w, block |-> c] \in ToSet(Tail(uses))
                          \/ defs[w] # NoDef /\ (w \in ins[c] \/ Normal(c, w))
        BY DEF Visited
      <4>1. CASE [val |-> w, block |-> c] = Head(uses)
        <5>1. w = v /\ c = b
          BY <1>4, <4>1
        <5> QED BY <2>5, <2>7, <3>1, <5>1
      <4>2. CASE [val |-> w, block |-> c] # Head(uses)
        <5>1. \/ [val |-> w, block |-> c] \in ToSet(Tail(uses))
              \/ defs[w] # NoDef /\ (w \in live_ins[c] \/ Normal(c, w))
          BY <1>1, <1>2, <4>2 DEF Visited
        <5>2. live_ins[c] \subseteq ins[c]
          BY <2>5, <2>7, <3>1, <3>2
        <5> QED BY <5>1, <5>2
      <4> QED BY <4>1, <4>2
    <3> QED BY <1>0, <1>1, <1>2, <1>6, <2>5, <2>7, <3>1, <3>3, WalkStep
  <2> QED BY <2>6, <2>7
<1> QED BY <1>7, <1>8

\* The predecessors of a block have a least one.
LEMMA LeastLemma ==
  ASSUME NEW todo \in SUBSET Block, todo # {}
  PROVE  (CHOOSE p \in todo : \A q \in todo : p <= q) \in todo
<1>1. \E p \in todo : \A q \in todo : p <= q
  BY BlockAssumption, LeastNat
<1> QED BY <1>1

LEMMA NextPredStep ==
  ASSUME IInv, NextPred
  PROVE  IInv'
<1>0. /\ FnOk /\ fn' = fn /\ pass = "uses" /\ defs' = defs /\ uses' = uses
      /\ calls # <<>> /\ Last(calls).todo # {}
      /\ defs = Definitions
  BY DEF IInv, Types, Idle, NextPred
<1>1. /\ live_ins \in LiveSets /\ live_outs \in LiveSets /\ uses \in Seq(Use) /\ calls \in Seq(Call)
      /\ Found(live_ins, live_outs) /\ Arrived(live_ins, live_outs)
      /\ Waiting(live_ins, calls) /\ Walked(live_ins, live_outs, calls)
      /\ Visited(live_ins, uses) /\ ToVisit(uses)
  BY <1>0 DEF IInv, Types, WalkSound
<1>2. PICK n \in Nat \ {0} : n = Len(calls) /\ DOMAIN calls = 1..n
  BY <1>0, <1>1, NotEmpty, LenProperties
<1>3. calls[n] \in Call /\ Last(calls) = calls[n] /\ n \in 1..n
  BY <1>0, <1>1, <1>2, NotEmpty DEF Last
<1>4. PICK b, v, todo : calls[n] = [block |-> b, val |-> v, todo |-> todo]
                        /\ b \in Block /\ v \in Value /\ todo \in SUBSET Block
  <2>1. calls[n] = [block |-> calls[n].block, val |-> calls[n].val, todo |-> calls[n].todo]
        /\ calls[n].block \in Block /\ calls[n].val \in Value /\ calls[n].todo \in SUBSET Block
    BY <1>3 DEF Call
  <2> QED BY <2>1
<1>5. v \in live_ins[b] /\ ~Phi(b, v) /\ todo \subseteq Preds(b) /\ todo # {}
  BY <1>0, <1>1, <1>2, <1>3, <1>4 DEF Waiting
<1> DEFINE p == CHOOSE q \in todo : \A r \in todo : q <= r
           call == [block |-> b, val |-> v, todo |-> todo \ {p}]
           outer == Append(Front(calls), call)
           outs == [live_outs EXCEPT ![p] = @ \cup {v}]
<1>6. p \in todo
  BY <1>4, <1>5, LeastLemma
<1>7. live_outs' = outs /\ UpAndMark(p, v, outer)
  <2>1. [calls[n] EXCEPT !.todo = Rest(@, p)] = call
    BY <1>4 DEF Rest
  <2>2. Last(calls).val = v /\ Last(calls).todo = todo
    BY <1>3, <1>4
  <2> QED BY <1>3, <2>1, <2>2 DEF NextPred
<1>8. p \in Block /\ p \in Preds(b)
  BY <1>4, <1>5, <1>6
<1> HIDE DEF p
<1>9. call \in Call /\ call.block = b /\ call.val = v /\ call.todo = todo \ {p}
  BY <1>4 DEF Call
<1> HIDE DEF call
<1>10. outer \in Seq(Call) /\ Replaced(outer, calls, call)
  BY <1>0, <1>1, <1>9, ReplaceLemma
<1> HIDE DEF outer
<1>11. /\ DOMAIN outer = 1..n /\ outer[n] = call
       /\ \A k \in 1..n : k # n => outer[k] = calls[k]
  <2>1. Len(outer) = n /\ outer[n] = call /\ \A k \in 1..(n - 1) : outer[k] = calls[k]
    BY <1>2, <1>10 DEF Replaced
  <2>2. DOMAIN outer = 1..n
    BY <1>10, <2>1, LenProperties
  <2>3. \A k \in 1..n : k # n => k \in 1..(n - 1)
    BY <1>2
  <2> QED BY <2>1, <2>2, <2>3
<1>12. outs \in LiveSets /\ \A c \in Block : outs[c] = IF c = p THEN live_outs[p] \cup {v} ELSE live_outs[c]
  BY <1>1, <1>4, <1>8 DEF LiveSets
<1> HIDE DEF outs
<1>13. v \in Vars /\ b \in LiveInBlocks(v)
  BY <1>1, <1>4, <1>5 DEF Found
<1>14. p \in LiveOutBlocks(v)
  BY <1>0, <1>5, <1>8, <1>13, LiveOutLemma
<1>15. Found(live_ins, outs)
  BY <1>1, <1>12, <1>13, <1>14 DEF Found
<1>16. Waiting(live_ins, outer)
  <2> SUFFICES ASSUME NEW k \in 1..n
               PROVE  /\ outer[k].val \in live_ins[outer[k].block]
                      /\ ~Phi(outer[k].block, outer[k].val)
                      /\ outer[k].todo \subseteq Preds(outer[k].block)
    BY <1>11 DEF Waiting
  <2>1. CASE k = n
    BY <1>5, <1>9, <1>11, <2>1
  <2>2. CASE k # n
    BY <1>1, <1>2, <1>11, <2>2 DEF Waiting
  <2> QED BY <2>1, <2>2
<1>17. Walked(live_ins, outs, outer)
  <2> SUFFICES ASSUME NEW c \in Block, NEW w \in live_ins[c], ~Phi(c, w), NEW q \in Preds(c)
               PROVE  \/ w \in outs[q]
                      \/ \E k \in DOMAIN outer : outer[k].block = c /\ outer[k].val = w /\ q \in outer[k].todo
    BY DEF Walked
  <2>0. q \in Block
    BY <1>0, PredsLemma
  <2>1. CASE w \in live_outs[q]
    BY <1>12, <2>0, <2>1
  <2>2. CASE w \notin live_outs[q]
    <3>1. PICK k \in 1..n : calls[k].block = c /\ calls[k].val = w /\ q \in calls[k].todo
      BY <1>1, <1>2, <2>2 DEF Walked
    <3>2. CASE k # n
      BY <1>11, <3>1, <3>2
    <3>3. CASE k = n
      <4>1. c = b /\ w = v /\ q \in todo
        BY <1>4, <3>1, <3>3
      <4>2. CASE q = p
        BY <1>12, <2>0, <4>1, <4>2
      <4>3. CASE q # p
        BY <1>3, <1>9, <1>11, <4>1, <4>3
      <4> QED BY <4>2, <4>3
    <3> QED BY <3>2, <3>3
  <2> QED BY <2>1, <2>2
<1>18. \A c \in Block : \A w \in outs[c] : w \in live_ins[c] \/ Normal(c, w) \/ (c = p /\ w = v)
  BY <1>1, <1>12 DEF Arrived
<1>19. /\ live_ins' \in LiveSets /\ calls' \in Seq(Call)
       /\ \/ pass' = "panic"
          \/ /\ pass' = "uses" /\ defs[v] # NoDef
             /\ Found(live_ins', outs) /\ Arrived(live_ins', outs)
             /\ Waiting(live_ins', calls') /\ Walked(live_ins', outs, calls')
             /\ \A c \in Block : live_ins[c] \subseteq live_ins'[c]
             /\ v \in live_ins'[p] \/ Normal(p, v)
  BY <1>0, <1>1, <1>7, <1>8, <1>10, <1>12, <1>13, <1>14, <1>15, <1>16, <1>17, <1>18, UpLemma
<1>20. CASE pass' = "panic"
  BY <1>0, <1>1, <1>7, <1>12, <1>19, <1>20, WalkStep
<1>21. CASE pass' # "panic"
  <2>1. PICK ins : ins = live_ins'
    OBVIOUS
  <2>2. \A w : UsedBlocks(w) \subseteq Block
    BY DEF UsedBlocks
  <2>3. \A c \in Block : live_ins[c] \subseteq ins[c]
    BY <1>19, <1>21, <2>1
  <2>4. Visited(ins, uses)
    BY <1>1, <2>2, <2>3 DEF Visited
  <2> QED BY <1>0, <1>1, <1>7, <1>12, <1>19, <1>21, <2>1, <2>4, WalkStep
<1> QED BY <1>20, <1>21

LEMMA ReturnStep ==
  ASSUME IInv, Return
  PROVE  IInv'
<1>0. /\ fn' = fn /\ pass = "uses" /\ pass' = pass /\ defs' = defs /\ uses' = uses
      /\ live_ins' = live_ins /\ live_outs' = live_outs
      /\ calls # <<>> /\ Last(calls).todo = {} /\ calls' = Front(calls)
  BY DEF Return, sets
<1>1. /\ live_ins \in LiveSets /\ live_outs \in LiveSets /\ uses \in Seq(Use) /\ calls \in Seq(Call)
      /\ Found(live_ins, live_outs) /\ Arrived(live_ins, live_outs)
      /\ Waiting(live_ins, calls) /\ Walked(live_ins, live_outs, calls)
      /\ Visited(live_ins, uses) /\ ToVisit(uses)
  BY <1>0 DEF IInv, Types, WalkSound
<1>2. PICK n \in Nat \ {0} : n = Len(calls) /\ DOMAIN calls = 1..n
  BY <1>0, <1>1, NotEmpty, LenProperties
<1>3. Last(calls) = calls[n]
  BY <1>2 DEF Last
<1>4. PICK cs : cs = Front(calls)
  OBVIOUS
<1>5. cs \in Seq(Call) /\ DOMAIN cs = 1..(n - 1) /\ \A k \in 1..(n - 1) : cs[k] = calls[k]
  <2>1. cs \in Seq(Call) /\ Popped(cs, calls)
    BY <1>0, <1>1, <1>4, FrontLemma
  <2> QED BY <1>2, <2>1, LenProperties DEF Popped
<1>6. \A k \in 1..n : k = n \/ k \in 1..(n - 1)
  BY <1>2
<1>7. \A k \in 1..(n - 1) : k \in 1..n
  BY <1>2
<1>8. Waiting(live_ins, cs)
  BY <1>1, <1>2, <1>5, <1>7 DEF Waiting
<1>9. Walked(live_ins, live_outs, cs)
  BY <1>0, <1>1, <1>2, <1>3, <1>5, <1>6 DEF Walked
<1> QED BY <1>0, <1>1, <1>4, <1>5, <1>8, <1>9, WalkStep

LEMMA UsesDoneStep ==
  ASSUME IInv, UsesDone
  PROVE  IInv'
<1>0. /\ fn' = fn /\ pass = "uses" /\ pass' = "insts" /\ defs' = defs /\ uses' = uses
      /\ live_ins' = live_ins /\ live_outs' = live_outs /\ calls' = calls
      /\ calls = <<>> /\ uses = <<>>
  BY DEF UsesDone, sets
<1>1. FnOk' /\ Definitions' = Definitions
  BY <1>0, FrameLemma DEF IInv, Types
<1>2. Types'
  BY <1>0, <1>1 DEF IInv, Types
<1>3. Idle'
  BY <1>0, <1>1 DEF IInv, Idle
<1>4. WalkSound'
  BY <1>0, WalkFrame DEF IInv, WalkSound
<1>5. InstsLiveExact'
  BY <1>0 DEF InstsLiveExact
<1> QED BY <1>2, <1>3, <1>4, <1>5 DEF IInv

LEMMA ComputeInstsStep ==
  ASSUME IInv, ComputeInsts
  PROVE  IInv'
<1>0. /\ fn' = fn /\ pass = "insts" /\ pass' = "done" /\ uses' = uses
      /\ live_ins' = live_ins /\ live_outs' = live_outs /\ calls' = calls
      /\ inst_live' = [b \in Block |-> IF b \in Reachable THEN LiveAfter(b) ELSE <<>>]
  BY DEF ComputeInsts, sets
<1>1. FnOk /\ FnOk' /\ Reachable' = Reachable /\ Reachable \subseteq Block
  BY <1>0, FrameLemma, ReachableLemma DEF IInv, Types
<1>2. Types'
  BY <1>0, <1>1 DEF IInv, Types
<1>3. Idle'
  BY <1>0 DEF IInv, Idle
<1>4. WalkSound'
  BY <1>0 DEF WalkSound
<1>5. ASSUME NEW b \in Reachable, NEW i \in Insts(b)
      PROVE  inst_live'[b][i] = {v \in Vars : LiveAt(b, i, v)}
  <2>1. b \in Block
    BY <1>1
  <2>2. live_outs[b] \subseteq Vars
    BY <1>0, <2>1 DEF IInv, WalkSound, Found
  <2>3. \A v \in Vars : v \in live_outs[b] <=> b \in LiveOutBlocks(v)
    BY <1>0, <2>1, ExactLemma
  <2>4. live_outs[b] = {v \in Vars : b \in LiveOutBlocks(v)}
    BY <2>2, <2>3
  <2>5. LiveAfter(b)[i] = {v \in Vars : LiveAt(b, i, v)}
    BY <1>1, <2>1, <2>4, LiveAfterLemma
  <2> QED BY <1>0, <2>1, <2>5
<1>6. InstsLiveExact'
  <2>1. \A b : Insts(b)' = Insts(b)
    BY <1>0 DEF Insts
  <2>2. Vars' = Vars /\ \A b, i, v : LiveAt(b, i, v)' <=> LiveAt(b, i, v)
    BY <1>0, FrameLemma
  <2> QED BY <1>1, <1>5, <2>1, <2>2 DEF InstsLiveExact
<1> QED BY <1>2, <1>3, <1>4, <1>6 DEF IInv

LEMMA RecomputeStep ==
  ASSUME IInv, Recompute
  PROVE  IInv'
<1>0. /\ fn' \in Reusing /\ pass = "done" /\ pass' = "defs" /\ uses' = uses /\ calls' = calls
      /\ live_ins' = Empty(Block) /\ live_outs' = Empty(Block)
  BY DEF Recompute, Cleared
<1>1. Empty(Block) \in LiveSets
  BY DEF Empty, LiveSets
<1>2. FnOk'
  BY <1>0, ReusingAssumption DEF FnOk
<1>3. Types'
  BY <1>0, <1>1, <1>2 DEF IInv, Types
<1>4. Idle'
  <2>1. calls = <<>> /\ uses = <<>>
    BY <1>0 DEF IInv, Idle
  <2>2. Empty(Block)' = Empty(Block)
    BY DEF Empty
  <2> QED BY <1>0, <2>1, <2>2 DEF Idle
<1>5. WalkSound' /\ InstsLiveExact'
  BY <1>0 DEF WalkSound, InstsLiveExact
<1> QED BY <1>3, <1>4, <1>5 DEF IInv

LEMMA StutterStep ==
  ASSUME IInv, UNCHANGED vars
  PROVE  IInv'
<1>0. /\ fn' = fn /\ pass' = pass /\ defs' = defs /\ uses' = uses /\ calls' = calls
      /\ live_ins' = live_ins /\ live_outs' = live_outs /\ inst_live' = inst_live
  BY DEF vars, sets
<1>1. Types'
  BY <1>0 DEF IInv, Types, FnOk
<1>2. Idle'
  BY <1>0, FrameLemma DEF IInv, Idle, Empty
<1>3. WalkSound'
  BY <1>0, WalkFrame DEF IInv, WalkSound
<1>4. InstsLiveExact'
  <2>1. \A b : Insts(b)' = Insts(b)
    BY <1>0 DEF Insts
  <2>2. Vars' = Vars /\ Reachable' = Reachable /\ \A b, i, v : LiveAt(b, i, v)' <=> LiveAt(b, i, v)
    BY <1>0, FrameLemma
  <2> QED BY <1>0, <2>1, <2>2 DEF IInv, InstsLiveExact
<1> QED BY <1>1, <1>2, <1>3, <1>4 DEF IInv

-----------------------------------------------------------------------------
(***************************************************************************)
(* The theorems.                                                           *)
(***************************************************************************)
\* However far the walks have come, only live values are found, what a walk has passed
\* by is in a waiting call, and every use is visited or to be visited
\* (Liveness::compute, up_and_mark).
THEOREM Walks == Spec => []IInv
<1>1. Init => IInv
  BY InitStep
<1>2. IInv /\ [Next]_vars => IInv'
  <2> SUFFICES ASSUME IInv, [Next]_vars PROVE IInv'
    OBVIOUS
  <2> QED BY RecordDefsStep, VisitUseStep, NextPredStep, ReturnStep, UsesDoneStep,
             ComputeInstsStep, RecomputeStep, StutterStep DEF Next
<1> QED BY <1>1, <1>2, PTL DEF Spec

\* Liveness and InstLiveness find what the paths to the uses say, in any function, from
\* the uses in any order, and also when they are computed again (liveness.rs).
THEOREM Live == Spec => []LiveExact
<1>1. IInv => LiveExact
  <2> SUFFICES ASSUME IInv PROVE LiveExact
    OBVIOUS
  <2>1. InstsLiveExact
    BY DEF IInv
  <2>2. ASSUME pass = "uses", NEW b \in Block, NEW v \in live_ins[b], defs[v] # Def("phi", b),
               NEW p \in Preds(b)
        PROVE  \/ v \in live_outs[p]
               \/ \E k \in DOMAIN calls : calls[k].block = b /\ calls[k].val = v /\ p \in calls[k].todo
    <3>1. FnOk /\ defs = Definitions /\ Found(live_ins, live_outs) /\ Walked(live_ins, live_outs, calls)
      BY <2>2 DEF IInv, Types, Idle, WalkSound
    <3>2. v \in Value /\ defs[v] # NoDef
      BY <3>1 DEF Found, Vars
    <3>3. ~Phi(b, v)
      BY <2>2, <3>1, <3>2, DefLemma
    <3> QED BY <3>1, <3>3 DEF Walked
  <2>3. ASSUME pass = "insts", NEW v \in Vars
        PROVE  /\ {b \in Block : v \in live_ins[b]} = LiveInBlocks(v)
               /\ {b \in Block : v \in live_outs[b]} = LiveOutBlocks(v)
    <3>1. /\ \A b \in Block : v \in live_ins[b] <=> b \in LiveInBlocks(v)
          /\ \A b \in Block : v \in live_outs[b] <=> b \in LiveOutBlocks(v)
      BY <2>3, ExactLemma
    <3>2. LiveInBlocks(v) \subseteq Block
      BY LiveInLemma DEF IInv, Types
    <3>3. LiveOutBlocks(v) \subseteq Block
      BY DEF LiveOutBlocks
    <3> QED BY <3>1, <3>2, <3>3
  <2>4. BlocksLiveExact
    BY <2>2, <2>3 DEF BlocksLiveExact
  <2> QED BY <2>1, <2>4 DEF LiveExact
<1> QED BY <1>1, Walks, PTL

-----------------------------------------------------------------------------
(***************************************************************************)
(* call_live_values: over the layout.                                      *)
(***************************************************************************)
\* The instructions in the order of the layout.
InstsOf(b) == [i \in Insts(b) |-> <<b, i>>]
LayoutOrder == FlattenSeq([n \in DOMAIN fn.layout |-> InstsOf(fn.layout[n])])

\* The instruction at n of the order is the one at pos[n] of the block at row[n] of the
\* layout.
LayoutPlaces(row, pos, N) ==
  /\ \A n \in 1..N : /\ row[n] \in DOMAIN fn.layout
                     /\ fn.layout[row[n]] \in Block
                     /\ pos[n] \in Insts(fn.layout[row[n]])
                     /\ LayoutOrder[n] = <<fn.layout[row[n]], pos[n]>>
  /\ \A m \in DOMAIN fn.layout : \A i \in Insts(fn.layout[m]) :
       \E n \in 1..N : row[n] = m /\ pos[n] = i
  /\ \A m, n \in 1..N : m < n => row[m] < row[n] \/ (row[m] = row[n] /\ pos[m] < pos[n])

LEMMA LayoutOrderLemma ==
  ASSUME FnOk
  PROVE  \E N \in Nat : N = Len(LayoutOrder) /\ \E row, pos : LayoutPlaces(row, pos, N)
<1>1. fn.layout \in Seq(Block)
  BY FunctionsAssumption DEF FnOk, IsFunction
<1>2. PICK L \in Nat : L = Len(fn.layout) /\ DOMAIN fn.layout = 1..L
  BY <1>1, LenProperties
<1>3. \A n \in 1..L : fn.layout[n] \in Block
  BY <1>1, <1>2, ElementOfSeq
<1> DEFINE s == [n \in DOMAIN fn.layout |-> InstsOf(fn.layout[n])]
<1>4. ASSUME NEW b \in Block
      PROVE  /\ InstsOf(b) \in Seq(Block \X Nat) /\ Insts(b) = 1..Len(InstsOf(b))
             /\ \A i \in Insts(b) : InstsOf(b)[i] = <<b, i>>
  <2>1. PICK k \in Nat : Insts(b) = 1..k
    BY InstLemma
  <2>2. InstsOf(b) = [i \in 1..k |-> <<b, i>>]
    BY <2>1 DEF InstsOf
  <2>3. \A i \in 1..k : <<b, i>> \in Block \X Nat
    OBVIOUS
  <2>4. InstsOf(b) \in Seq(Block \X Nat) /\ Len(InstsOf(b)) = k
    BY <2>2, <2>3, IsASeq
  <2> QED BY <2>1, <2>2, <2>4
<1>5. s \in Seq(Seq(Block \X Nat)) /\ Len(s) = L
  <2>1. s = [n \in 1..L |-> InstsOf(fn.layout[n])]
    BY <1>2
  <2>2. \A n \in 1..L : InstsOf(fn.layout[n]) \in Seq(Block \X Nat)
    BY <1>3, <1>4
  <2> DEFINE t == [n \in 1..L |-> InstsOf(fn.layout[n])]
  <2>3. t \in Seq(Seq(Block \X Nat)) /\ Len(t) = L
    BY <2>2, IsASeq
  <2> QED BY <2>1, <2>3
<1>6. LayoutOrder = FlattenSeq(s)
  BY DEF LayoutOrder
<1>7. \A n \in 1..L : s[n] = InstsOf(fn.layout[n])
  BY <1>2
<1> HIDE DEF s
<1>8. PICK row, pos : Places(row, pos, FlattenSeq(s), s, L)
  BY <1>5, FlattenPlaces
<1>9. FlattenSeq(s) \in Seq(Block \X Nat)
  BY <1>5, FlattenLemma
<1>10. PICK N \in Nat : N = Len(LayoutOrder)
  BY <1>6, <1>9, LenProperties
<1>11. /\ row \in [1..N -> 1..L]
       /\ \A i \in 1..N : pos[i] \in 1..Len(s[row[i]]) /\ LayoutOrder[i] = s[row[i]][pos[i]]
       /\ \A m \in 1..L : \A k \in 1..Len(s[m]) : \E i \in 1..N : row[i] = m /\ pos[i] = k
       /\ \A i, j \in 1..N : i < j => row[i] < row[j] \/ (row[i] = row[j] /\ pos[i] < pos[j])
  BY <1>6, <1>8, <1>10 DEF Places
<1>12. ASSUME NEW n \in 1..N
       PROVE  /\ row[n] \in DOMAIN fn.layout /\ fn.layout[row[n]] \in Block
              /\ pos[n] \in Insts(fn.layout[row[n]])
              /\ LayoutOrder[n] = <<fn.layout[row[n]], pos[n]>>
  <2>1. PICK m \in 1..L : m = row[n]
    BY <1>11
  <2>2. PICK b \in Block : b = fn.layout[m]
    BY <1>3
  <2>3. s[m] = InstsOf(b) /\ pos[n] \in 1..Len(s[m]) /\ LayoutOrder[n] = s[m][pos[n]]
    BY <1>7, <1>11, <2>1, <2>2
  <2>4. pos[n] \in Insts(b) /\ LayoutOrder[n] = <<b, pos[n]>>
    BY <1>4, <2>3
  <2> QED BY <1>2, <2>1, <2>2, <2>4
<1>13. ASSUME NEW m \in 1..L, NEW i \in Insts(fn.layout[m])
       PROVE  \E n \in 1..N : row[n] = m /\ pos[n] = i
  <2>1. i \in 1..Len(s[m])
    BY <1>3, <1>4, <1>7
  <2> QED BY <1>11, <2>1
<1>14. \A m, n \in 1..N : m < n => row[m] < row[n] \/ (row[m] = row[n] /\ pos[m] < pos[n])
  BY <1>11
<1>15. \A m \in DOMAIN fn.layout : \A i \in Insts(fn.layout[m]) :
         \E n \in 1..N : row[n] = m /\ pos[n] = i
  BY <1>2, <1>13
<1>16. LayoutPlaces(row, pos, N)
  BY <1>12, <1>14, <1>15 DEF LayoutPlaces
<1> QED BY <1>10, <1>16

\* What is known of the instruction at a place of the order.
CallAt(p) == Inst(p[1], p[2]).kind = "call"
ResAt(p) == Inst(p[1], p[2]).res
LiveAfterCall(p) == IF p[1] \in Reachable THEN inst_live[p[1]][p[2]] ELSE {}

\* v is live after one of the first n instructions, a call, and no call from there on
\* defines it.
Survives(n, v) ==
  \E m \in 1..n : /\ CallAt(LayoutOrder[m]) /\ v \in LiveAfterCall(LayoutOrder[m])
                  /\ \A k \in m..n : CallAt(LayoutOrder[k]) => ResAt(LayoutOrder[k]) # v

\* The recursion of call_live_values.
CallsUp(f, N) ==
  f = [n \in 0..N |->
         IF n = 0 THEN {}
         ELSE IF CallAt(LayoutOrder[n])
              THEN AfterCall(f[n - 1], LiveAfterCall(LayoutOrder[n]), ResAt(LayoutOrder[n]))
              ELSE f[n - 1]]

LEMMA SurvivesLemma ==
  ASSUME NEW n \in Nat, NEW v
  PROVE  /\ ~Survives(0, v)
         /\ Survives(n + 1, v) <=>
              IF CallAt(LayoutOrder[n + 1])
              THEN /\ Survives(n, v) \/ v \in LiveAfterCall(LayoutOrder[n + 1])
                   /\ v # ResAt(LayoutOrder[n + 1])
              ELSE Survives(n, v)
<1> DEFINE Kept(m, l) == \A k \in m..l : CallAt(LayoutOrder[k]) => ResAt(LayoutOrder[k]) # v
           Here(m) == CallAt(LayoutOrder[m]) /\ v \in LiveAfterCall(LayoutOrder[m])
           last == CallAt(LayoutOrder[n + 1]) => ResAt(LayoutOrder[n + 1]) # v
<1>1. \A l \in Nat : Survives(l, v) <=> \E m \in 1..l : Here(m) /\ Kept(m, l)
  BY DEF Survives
<1>2. 0 \in Nat /\ 1..0 = {}
  OBVIOUS
<1>3. \A m \in 1..n : m \in 1..(n + 1) /\ (m..(n + 1) = (m..n) \cup {n + 1})
  OBVIOUS
<1>4. \A m \in 1..n : Kept(m, n + 1) <=> Kept(m, n) /\ last
  BY <1>3
<1>5. (n + 1)..(n + 1) = {n + 1} /\ n + 1 \in 1..(n + 1) /\ n + 1 \in Nat
  OBVIOUS
<1>6. Kept(n + 1, n + 1) <=> last
  BY <1>5
<1>7. \A m \in 1..(n + 1) : m \in 1..n \/ m = n + 1
  OBVIOUS
<1>8. (\E m \in 1..(n + 1) : Here(m) /\ Kept(m, n + 1))
        <=> (\E m \in 1..n : Here(m) /\ Kept(m, n) /\ last) \/ (Here(n + 1) /\ last)
  <2> HIDE DEF Here, Kept, last
  <2> QED BY <1>3, <1>4, <1>5, <1>6, <1>7
<1>9. Survives(n + 1, v) <=> (Survives(n, v) \/ Here(n + 1)) /\ last
  <2> HIDE DEF Here, Kept, last
  <2> QED BY <1>1, <1>5, <1>8
<1>10. ~Survives(0, v)
  BY <1>1, <1>2
<1> QED BY <1>9, <1>10

LEMMA CallsUpLemma ==
  ASSUME FnOk, \A b \in Reachable : \A i \in Insts(b) : inst_live[b][i] \subseteq Vars,
         NEW N \in Nat, N = Len(LayoutOrder),
         NEW row, NEW pos, LayoutPlaces(row, pos, N)
  PROVE  CallLiveValues = {v \in Vars : Survives(N, v)}
<1> DEFINE g == [n \in 0..N |-> {v \in Vars : Survives(n, v)}]
           f == CHOOSE h : CallsUp(h, N)
<1>1. \A n \in 1..N : LiveAfterCall(LayoutOrder[n]) \subseteq Vars
  BY DEF LiveAfterCall, LayoutPlaces
<1>2. \A n \in 0..N : g[n] = {v \in Vars : Survives(n, v)}
  OBVIOUS
<1>3. \A n \in 1..N : g[n] = IF CallAt(LayoutOrder[n])
                           THEN AfterCall(g[n - 1], LiveAfterCall(LayoutOrder[n]), ResAt(LayoutOrder[n]))
                           ELSE g[n - 1]
  <2> TAKE n \in 1..N
  <2>1. PICK k \in Nat : n = k + 1 /\ n - 1 = k /\ k \in 0..N /\ n \in 0..N
    OBVIOUS
  <2>2. g[n] = {v \in Vars : Survives(n, v)} /\ g[k] = {v \in Vars : Survives(k, v)}
    BY <1>2, <2>1
  <2> HIDE DEF g
  <2>3. \A v : Survives(n, v) <=>
              IF CallAt(LayoutOrder[n])
              THEN /\ Survives(k, v) \/ v \in LiveAfterCall(LayoutOrder[n])
                   /\ v # ResAt(LayoutOrder[n])
              ELSE Survives(k, v)
    BY <2>1, SurvivesLemma
  <2>4. CASE CallAt(LayoutOrder[n])
    <3>1. \A v : v \in g[n] <=> v \in AfterCall(g[k], LiveAfterCall(LayoutOrder[n]), ResAt(LayoutOrder[n]))
      BY <1>1, <2>2, <2>3, <2>4 DEF AfterCall
    <3> QED BY <2>1, <2>4, <3>1
  <2>5. CASE ~CallAt(LayoutOrder[n])
    <3>1. \A v : v \in g[n] <=> v \in g[k]
      BY <2>2, <2>3, <2>5
    <3> QED BY <2>1, <2>5, <3>1
  <2> QED BY <2>4, <2>5
<1>4. g[0] = {} /\ 0 \in 0..N
  BY <1>2, SurvivesLemma
<1>5. \A n \in 0..N : n = 0 \/ (n \in 1..N /\ n # 0)
  OBVIOUS
<1>6. CallsUp(g, N)
  <2>1. g = [n \in 0..N |-> g[n]]
    OBVIOUS
  <2> HIDE DEF g
  <2>2. \A n \in 0..N : g[n] = IF n = 0 THEN {}
                               ELSE IF CallAt(LayoutOrder[n])
                                    THEN AfterCall(g[n - 1], LiveAfterCall(LayoutOrder[n]), ResAt(LayoutOrder[n]))
                                    ELSE g[n - 1]
    BY <1>3, <1>4, <1>5
  <2> QED BY <2>1, <2>2 DEF CallsUp
<1>7. CallsUp(f, N)
  BY <1>6
<1>8. CallLiveValues = f[N]
  <2>1. FlattenSeq([n \in DOMAIN fn.layout |-> [i \in Insts(fn.layout[n]) |-> <<fn.layout[n], i>>]]) = LayoutOrder
    BY DEF LayoutOrder, InstsOf
  <2> QED BY <2>1 DEF CallLiveValues, CallsUp, CallAt, ResAt, LiveAfterCall
<1> HIDE DEF f, g
<1>9. /\ f[0] = {}
      /\ \A n \in 1..N : f[n] = IF CallAt(LayoutOrder[n])
                               THEN AfterCall(f[n - 1], LiveAfterCall(LayoutOrder[n]), ResAt(LayoutOrder[n]))
                               ELSE f[n - 1]
  <2>1. \A n \in 0..N : f[n] = IF n = 0 THEN {}
                               ELSE IF CallAt(LayoutOrder[n])
                                    THEN AfterCall(f[n - 1], LiveAfterCall(LayoutOrder[n]), ResAt(LayoutOrder[n]))
                                    ELSE f[n - 1]
    BY <1>7 DEF CallsUp
  <2>2. \A n \in 1..N : n \in 0..N /\ n # 0
    OBVIOUS
  <2> QED BY <1>4, <2>1, <2>2
<1> DEFINE G == {n \in 0..N : f[n] = g[n]}
<1>10. 0 \in G
  BY <1>4, <1>9
<1>11. ASSUME NEW n \in 0..(N - 1), n \in G PROVE n + 1 \in G
  <2>1. n + 1 \in 1..N /\ n + 1 \in 0..N /\ (n + 1) - 1 = n
    OBVIOUS
  <2>2. f[n] = g[n]
    BY <1>11
  <2> QED BY <1>3, <1>9, <2>1, <2>2
<1> HIDE DEF G
<1>12. \A n \in 0..N : n \in G
  <2>1. 0 \in Nat
    OBVIOUS
  <2> QED BY <1>10, <1>11, <2>1, CountUp
<1>13. N \in 0..N
  OBVIOUS
<1> QED BY <1>2, <1>8, <1>12, <1>13 DEF G

\* Where the definition dominates the uses, no value is live in what is reached around it.
LEMMA AroundDef ==
  ASSUME FnOk, NEW v \in Vars, NEW d \in Block, Normal(d, v),
         UsedBlocks(v) \cap Reach({fn.entry}, {d}) = {},
         NEW b \in Reach({fn.entry}, {d})
  PROVE  b \in Block /\ b \notin UsedBlocks(v) /\ b \notin LiveOutBlocks(v)
<1> DEFINE R == Reach({fn.entry}, {d})
           T == Block \ R
<1>1. fn.succs \in [Block -> SUBSET Block] /\ {fn.entry} \in SUBSET Block /\ IsFiniteSet(Block)
  BY FnLemma, BlockAssumption
<1>2. LeastClosed(R, Block, fn.succs, {fn.entry}, {d})
  BY <1>1, ReachLemma DEF Reach
<1> HIDE DEF R
<1>3. R \subseteq Block /\ \A p \in R : fn.succs[p] \ {d} \subseteq R
  BY <1>2 DEF LeastClosed
<1>4. UsedBlocks(v) \subseteq T
  BY DEF UsedBlocks, R
<1>5. \A s \in LiveInBlocks(v) : s # d /\ s \in Block
  BY LiveInLemma
<1>6. \A s \in LiveInBlocks(v) : \A p \in Preds(s) : p \in R => s \in R
  BY <1>3, <1>5 DEF Preds
<1>7. \A s \in T \cap LiveInBlocks(v) : \A p \in Preds(s) : p \in T
  BY <1>6 DEF Preds
<1>8. LiveInBlocks(v) \subseteq T
  <2> HIDE DEF T
  <2>1. \A c \in UsedBlocks(v) : ~Normal(c, v) => c \in T
    BY <1>4
  <2>2. \A s \in T \cap LiveInBlocks(v) : \A p \in Preds(s) : (~Phi(s, v) /\ ~Normal(p, v)) => p \in T
    BY <1>7
  <2> QED BY <2>1, <2>2, LiveInLemma
<1>9. b \in R /\ b \in Block
  BY <1>3 DEF R
<1>10. b \notin LiveOutBlocks(v)
  BY <1>6, <1>8, <1>9, LiveOutLemma
<1> QED BY <1>4, <1>9, <1>10

\* Every reachable block is in the layout.
LEMMA LaidOutLemma ==
  ASSUME FnOk
  PROVE  Reachable \subseteq ToSet(fn.layout) /\ ToSet(fn.layout) \subseteq Block
<1>1. /\ {fn.entry} \cup UNION {fn.succs[a] : a \in Block} \subseteq ToSet(fn.layout)
      /\ fn.layout \in Seq(Block)
  BY FunctionsAssumption DEF FnOk, IsFunction
<1>2. fn.succs \in [Block -> SUBSET Block] /\ {fn.entry} \in SUBSET Block /\ IsFiniteSet(Block)
  BY FnLemma, BlockAssumption
<1>3. LeastClosed(Reachable, Block, fn.succs, {fn.entry}, {})
  BY <1>2, ReachLemma DEF Reach, Reachable
<1>4. {fn.entry} \ {} \subseteq ToSet(fn.layout)
  BY <1>1
<1>5. \A a \in ToSet(fn.layout) \cap Reachable : fn.succs[a] \ {} \subseteq ToSet(fn.layout)
  BY <1>1, ReachableLemma
<1>6. Reachable \subseteq ToSet(fn.layout)
  BY <1>3, <1>4, <1>5 DEF LeastClosed
<1>7. \A n \in DOMAIN fn.layout : fn.layout[n] \in Block
  BY <1>1, ElementOfSeq, LenProperties
<1> QED BY <1>6, <1>7 DEF ToSet

\* An instruction comes before another in the layout when its place in the order does.
LEMMA BeforeLemma ==
  ASSUME FnOk, NEW N \in Nat, NEW row, NEW pos, LayoutPlaces(row, pos, N),
         NEW m \in 1..N, NEW k \in 1..N
  PROVE  ComesBefore(LayoutOrder[m], LayoutOrder[k]) <=> m < k
<1>1. \A x, y \in DOMAIN fn.layout : fn.layout[x] = fn.layout[y] => x = y
  BY FunctionsAssumption DEF FnOk, IsFunction
<1>2. DOMAIN fn.layout \subseteq Nat
  BY FunctionsAssumption, LenProperties DEF FnOk, IsFunction
<1>3. /\ row[m] \in DOMAIN fn.layout /\ fn.layout[row[m]] \in Block
      /\ pos[m] \in Insts(fn.layout[row[m]]) /\ LayoutOrder[m] = <<fn.layout[row[m]], pos[m]>>
      /\ row[k] \in DOMAIN fn.layout /\ fn.layout[row[k]] \in Block
      /\ pos[k] \in Insts(fn.layout[row[k]]) /\ LayoutOrder[k] = <<fn.layout[row[k]], pos[k]>>
  BY DEF LayoutPlaces
<1>4. row[m] \in Nat /\ row[k] \in Nat /\ pos[m] \in Nat /\ pos[k] \in Nat
  <2>1. \A b \in Block : Insts(b) \subseteq Nat
    <3> SUFFICES ASSUME NEW b \in Block PROVE Insts(b) \subseteq Nat
      OBVIOUS
    <3>1. Insts(b) = 1..Len(fn.code[b]) /\ Len(fn.code[b]) \in Nat
      BY InstLemma
    <3> QED BY <3>1
  <2> QED BY <1>2, <1>3, <2>1
<1>5. /\ m < k => row[m] < row[k] \/ (row[m] = row[k] /\ pos[m] < pos[k])
      /\ k < m => row[k] < row[m] \/ (row[k] = row[m] /\ pos[k] < pos[m])
  BY DEF LayoutPlaces
<1>6. m < k <=> (row[m] < row[k] \/ (row[m] = row[k] /\ pos[m] < pos[k]))
  <2>1. m < k \/ k < m \/ m = k
    OBVIOUS
  <2> QED BY <1>4, <1>5, <2>1
<1>7. ComesBefore(LayoutOrder[m], LayoutOrder[k]) <=>
        \/ fn.layout[row[m]] = fn.layout[row[k]] /\ pos[m] < pos[k]
        \/ \E x, y \in DOMAIN fn.layout :
             x < y /\ fn.layout[x] = fn.layout[row[m]] /\ fn.layout[y] = fn.layout[row[k]]
  BY <1>3 DEF ComesBefore
<1>8. fn.layout[row[m]] = fn.layout[row[k]] <=> row[m] = row[k]
  BY <1>1, <1>3
<1>9. (\E x, y \in DOMAIN fn.layout :
         x < y /\ fn.layout[x] = fn.layout[row[m]] /\ fn.layout[y] = fn.layout[row[k]])
      <=> row[m] < row[k]
  BY <1>1, <1>3
<1> QED BY <1>6, <1>7, <1>8, <1>9

\* What a call's place says of it, and where calls are.
LEMMA CallPlacesLemma ==
  ASSUME FnOk, NEW N \in Nat, NEW row, NEW pos, LayoutPlaces(row, pos, N)
  PROVE  /\ \A m \in 1..N : CallAt(LayoutOrder[m]) <=> LayoutOrder[m] \in LayoutCalls
         /\ \A c \in LayoutCalls : \E m \in 1..N : LayoutOrder[m] = c
         /\ Calls \subseteq LayoutCalls
         /\ \A c, d \in LayoutCalls :
              (CallResult(c) = CallResult(d) /\ CallResult(c) # NoValue) => c = d
<1>1. Reachable \subseteq ToSet(fn.layout) /\ ToSet(fn.layout) \subseteq Block
  BY LaidOutLemma
<1>2. \A c : c \in LayoutCalls <=>
        \E b \in ToSet(fn.layout) : \E i \in Insts(b) : c = <<b, i>> /\ Inst(b, i).kind = "call"
  BY DEF LayoutCalls
<1>3. \A c : c \in Calls <=>
        \E b \in Reachable : \E i \in Insts(b) : c = <<b, i>> /\ Inst(b, i).kind = "call"
  BY DEF Calls
<1>4. Calls \subseteq LayoutCalls
  BY <1>1, <1>2, <1>3
<1>5. ASSUME NEW m \in 1..N PROVE CallAt(LayoutOrder[m]) <=> LayoutOrder[m] \in LayoutCalls
  <2>1. PICK b, i : b \in ToSet(fn.layout) /\ i \in Insts(b) /\ LayoutOrder[m] = <<b, i>>
    BY DEF LayoutPlaces, ToSet
  <2>2. CallAt(LayoutOrder[m]) <=> Inst(b, i).kind = "call"
    BY <2>1 DEF CallAt
  <2> QED BY <1>2, <2>1, <2>2
<1>6. ASSUME NEW c \in LayoutCalls PROVE \E m \in 1..N : LayoutOrder[m] = c
  <2>1. PICK b, i : b \in ToSet(fn.layout) /\ i \in Insts(b) /\ c = <<b, i>>
    BY <1>2
  <2>2. PICK n \in DOMAIN fn.layout : fn.layout[n] = b
    BY <2>1 DEF ToSet
  <2>3. PICK m \in 1..N : row[m] = n /\ pos[m] = i
    BY <2>1, <2>2 DEF LayoutPlaces
  <2>4. LayoutOrder[m] = <<fn.layout[n], i>>
    BY <2>3 DEF LayoutPlaces
  <2> QED BY <2>1, <2>2, <2>4
<1>7. ASSUME NEW c \in LayoutCalls, NEW d \in LayoutCalls,
             CallResult(c) = CallResult(d), CallResult(c) # NoValue
      PROVE  c = d
  <2>1. PICK b, i : b \in Block /\ i \in Insts(b) /\ c = <<b, i>>
    BY <1>1, <1>2
  <2>2. PICK e, j : e \in Block /\ j \in Insts(e) /\ d = <<e, j>>
    BY <1>1, <1>2
  <2>3. Inst(b, i).res = Inst(e, j).res /\ Inst(b, i).res # NoValue
    BY <1>7, <2>1, <2>2 DEF CallResult
  <2>4. b = e /\ i = j
    BY <2>1, <2>2, <2>3, InstLemma
  <2> QED BY <2>1, <2>2, <2>4
<1> QED BY <1>4, <1>5, <1>6, <1>7

LEMMA CallsLemma ==
  ASSUME IInv, pass = "done"
  PROVE  CallLiveValues = LiveAcrossCalls \ LostResults
<1>0. FnOk /\ InstsLiveExact
  BY DEF IInv, Types
<1>1. \A b \in Reachable : \A i \in Insts(b) : inst_live[b][i] = {v \in Vars : LiveAt(b, i, v)}
  BY <1>0 DEF InstsLiveExact
<1>2. PICK N \in Nat : N = Len(LayoutOrder) /\ \E row, pos : LayoutPlaces(row, pos, N)
  BY <1>0, LayoutOrderLemma
<1>3. PICK row, pos : LayoutPlaces(row, pos, N)
  BY <1>2
<1>4. CallLiveValues = {v \in Vars : Survives(N, v)}
  <2>1. \A b \in Reachable : \A i \in Insts(b) : inst_live[b][i] \subseteq Vars
    BY <1>1
  <2> QED BY <1>0, <1>2, <1>3, <2>1, CallsUpLemma
<1>5. /\ \A m \in 1..N : CallAt(LayoutOrder[m]) <=> LayoutOrder[m] \in LayoutCalls
      /\ \A c \in LayoutCalls : \E m \in 1..N : LayoutOrder[m] = c
      /\ Calls \subseteq LayoutCalls
      /\ \A c, d \in LayoutCalls :
           (CallResult(c) = CallResult(d) /\ CallResult(c) # NoValue) => c = d
  BY <1>0, <1>3, CallPlacesLemma
<1>6. \A m, k \in 1..N : ComesBefore(LayoutOrder[m], LayoutOrder[k]) <=> m < k
  BY <1>0, <1>3, BeforeLemma
<1>7. \A c : ResAt(c) = CallResult(c)
  BY DEF ResAt, CallResult
<1>8. ASSUME NEW v \in Vars, NEW m \in 1..N
      PROVE  (CallAt(LayoutOrder[m]) /\ v \in LiveAfterCall(LayoutOrder[m])) <=>
               (LayoutOrder[m] \in Calls /\ LiveAt(LayoutOrder[m][1], LayoutOrder[m][2], v))
  <2>1. PICK b, i : i \in Insts(b) /\ LayoutOrder[m] = <<b, i>>
    BY <1>3 DEF LayoutPlaces
  <2>2. CallAt(LayoutOrder[m]) <=> Inst(b, i).kind = "call"
    BY <2>1 DEF CallAt
  <2>3. LayoutOrder[m] \in Calls <=> b \in Reachable /\ Inst(b, i).kind = "call"
    BY <2>1 DEF Calls
  <2>4. v \in LiveAfterCall(LayoutOrder[m]) <=> b \in Reachable /\ LiveAt(b, i, v)
    BY <1>1, <2>1 DEF LiveAfterCall
  <2> QED BY <2>1, <2>2, <2>3, <2>4
<1>9. ASSUME NEW v \in Vars, Survives(N, v) PROVE v \in LiveAcrossCalls \ LostResults
  <2>1. PICK m \in 1..N : /\ CallAt(LayoutOrder[m]) /\ v \in LiveAfterCall(LayoutOrder[m])
                          /\ \A k \in m..N : CallAt(LayoutOrder[k]) => ResAt(LayoutOrder[k]) # v
    BY <1>9 DEF Survives
  <2>2. PICK c : c = LayoutOrder[m]
    OBVIOUS
  <2>3. c \in Calls /\ LiveAt(c[1], c[2], v)
    BY <1>8, <2>1, <2>2
  <2>4. m \in m..N
    OBVIOUS
  <2>5. CallResult(c) # v
    BY <1>7, <2>1, <2>2, <2>4
  <2>6. ASSUME NEW d \in LayoutCalls, CallResult(d) = v, ComesBefore(c, d) PROVE FALSE
    <3>1. PICK k \in 1..N : LayoutOrder[k] = d
      BY <1>5
    <3>2. m < k
      BY <1>6, <2>2, <2>6, <3>1
    <3>3. k \in m..N /\ CallAt(LayoutOrder[k])
      BY <1>5, <3>1, <3>2
    <3> QED BY <1>7, <2>1, <2>6, <3>1, <3>3
  <2>7. v \in LiveAcrossCalls
    BY <2>3, <2>5 DEF LiveAcrossCalls
  <2>8. v \notin LostResults
    BY <2>3, <2>5, <2>6 DEF LostResults
  <2> QED BY <2>7, <2>8
<1>10. ASSUME NEW v \in LiveAcrossCalls, ~Survives(N, v) PROVE v \in LostResults
  <2>0. v \in Vars /\ v # NoValue
    BY <1>0, FnLemma DEF LiveAcrossCalls, Vars
  <2>1. ASSUME NEW c \in Calls, LiveAt(c[1], c[2], v), CallResult(c) # v
        PROVE  \E d \in LayoutCalls : CallResult(d) = v /\ ComesBefore(c, d)
    <3>1. PICK m \in 1..N : LayoutOrder[m] = c
      BY <1>5
    <3>2. CallAt(LayoutOrder[m]) /\ v \in LiveAfterCall(LayoutOrder[m])
      BY <1>8, <2>0, <2>1, <3>1
    <3>3. PICK k \in m..N : CallAt(LayoutOrder[k]) /\ ResAt(LayoutOrder[k]) = v
      BY <1>10, <3>2 DEF Survives
    <3>4. k \in 1..N /\ k # m
      BY <1>7, <2>1, <3>1, <3>3
    <3>5. m < k
      BY <3>3, <3>4
    <3>6. ComesBefore(c, LayoutOrder[k])
      BY <1>6, <3>1, <3>4, <3>5
    <3> QED BY <1>5, <1>7, <3>3, <3>4, <3>6
  <2>2. PICK c \in Calls : LiveAt(c[1], c[2], v) /\ CallResult(c) # v
    BY DEF LiveAcrossCalls
  <2>3. PICK d \in LayoutCalls : CallResult(d) = v
    BY <2>1, <2>2
  <2>4. \A e \in LayoutCalls : CallResult(e) = v => e = d
    BY <1>5, <2>0, <2>3
  <2>5. \A a \in Calls : (LiveAt(a[1], a[2], v) /\ CallResult(a) # v) => ComesBefore(a, d)
    BY <2>1, <2>4
  <2> QED BY <2>3, <2>5 DEF LostResults
<1>11. LiveAcrossCalls \subseteq Vars
  BY DEF LiveAcrossCalls
<1> QED BY <1>4, <1>9, <1>10, <1>11

\* Where a block follows those that dominate it, and definitions dominate uses, no value is
\* live after a call that comes before the one it is the result of.
LEMMA NothingLost ==
  ASSUME FnOk, LayoutFollowsDefs, DefsDominateUses
  PROVE  LostResults = {}
<1> SUFFICES ASSUME NEW v \in LostResults PROVE FALSE
  OBVIOUS
<1>1. v \in LiveAcrossCalls /\ v \in Vars
  BY DEF LostResults, LiveAcrossCalls
<1>2. PICK d \in LayoutCalls :
         /\ CallResult(d) = v
         /\ \A c \in Calls : (LiveAt(c[1], c[2], v) /\ CallResult(c) # v) => ComesBefore(c, d)
  BY DEF LostResults
<1>3. PICK c \in Calls : LiveAt(c[1], c[2], v) /\ CallResult(c) # v
  BY <1>1 DEF LiveAcrossCalls
<1>4. PICK b, i : b \in Reachable /\ i \in Insts(b) /\ c = <<b, i>>
  BY DEF Calls
<1>5. PICK e, j : e \in ToSet(fn.layout) /\ j \in Insts(e) /\ d = <<e, j>> /\ Inst(e, j).kind = "call"
  BY DEF LayoutCalls
<1>6. /\ b \in Block /\ e \in Block
      /\ \A l \in Insts(b) : l > 0
  <2>1. b \in Block /\ e \in Block
    BY <1>4, <1>5, ReachableLemma, LaidOutLemma
  <2>2. Insts(b) = 1..Len(fn.code[b]) /\ Len(fn.code[b]) \in Nat
    BY <2>1, InstLemma
  <2> QED BY <2>1, <2>2
<1>7. LiveAt(b, i, v) /\ Inst(e, j).res = v /\ ComesBefore(c, d)
  BY <1>2, <1>3, <1>4, <1>5 DEF CallResult
<1>8. CASE b = e /\ i < j
  <2>1. DefinedAfter(b, i, v)
    BY <1>5, <1>7, <1>8 DEF DefinedAfter
  <2> QED BY <1>7, <2>1 DEF LiveAt
<1>9. CASE \E m, n \in DOMAIN fn.layout : m < n /\ fn.layout[m] = b /\ fn.layout[n] = e
  <2>1. b \in Reach({fn.entry}, {e})
    BY <1>4, <1>9 DEF LayoutFollowsDefs
  <2>2. IsPhi(Inst(e, j)) = FALSE
    <3>1. "call" # "phi"
      OBVIOUS
    <3> QED BY <1>5, <3>1 DEF IsPhi
  <2>3. Normal(e, v)
    BY <1>5, <1>7, <2>2 DEF Normal, DefinedAs
  <2>4. UsedBlocks(v) \cap Reach({fn.entry}, {e}) = {}
    BY <1>1, <1>6, <2>3 DEF DefsDominateUses, Normal
  <2>5. b \notin UsedBlocks(v) /\ b \notin LiveOutBlocks(v)
    BY <1>1, <1>6, <2>1, <2>3, <2>4, AroundDef
  <2>6. UsedAfter(b, i, v)
    BY <1>7, <2>5 DEF LiveAt
  <2>7. UsedAfter(b, 0, v)
    BY <1>6, <2>6 DEF UsedAfter
  <2> QED BY <1>4, <1>6, <2>5, <2>7 DEF UsedBlocks
<1>10. (b = e /\ i < j) \/ \E m, n \in DOMAIN fn.layout : m < n /\ fn.layout[m] = b /\ fn.layout[n] = e
  BY <1>4, <1>5, <1>7 DEF ComesBefore
<1> QED BY <1>8, <1>9, <1>10

-----------------------------------------------------------------------------
(***************************************************************************)
(* How often a value is used.                                              *)
(***************************************************************************)
\* The uses of v in a sequence of them, and in the blocks.
Positions(us, v) == {m \in 1..Len(us) : us[m].val = v}
Left(us, v) == Cardinality(Positions(us, v))
FoundAt(b, i, v) == {k \in DOMAIN Inst(b, i).uses : Inst(b, i).uses[k].val = v}
AllUses(v) == UNION {UNION {{<<b, i>>} \X FoundAt(b, i, v) : i \in Insts(b)} : b \in Reachable}

\* Sets of which each element is the partner of one of the other are equally large.
LEMMA PairedLemma ==
  ASSUME NEW S, IsFiniteSet(S), NEW T, NEW g \in [S -> T],
         \A x, y \in S : g[x] = g[y] => x = y,
         \A t \in T : \E x \in S : g[x] = t
  PROVE  IsFiniteSet(T) /\ Cardinality(T) = Cardinality(S)
<1>1. g \in Bijection(S, T)
  BY DEF Bijection, Injection, Surjection, IsInjective
<1> QED BY <1>1, FS_Bijection DEF ExistsBijection

\* The use at m of those of a block is of the operand opd[m] of the instruction ins[m].
UsesPlaced(ins, opd, b) ==
  LET N == Len(UsesOfBlock(b))
  IN /\ \A m \in 1..N : /\ ins[m] \in Insts(b) /\ opd[m] \in DOMAIN Inst(b, ins[m]).uses
                        /\ UsesOfBlock(b)[m] = UseAt(b, ins[m], opd[m])
     /\ \A i \in Insts(b) : \A k \in DOMAIN Inst(b, i).uses :
          \E m \in 1..N : ins[m] = i /\ opd[m] = k
     /\ \A m, n \in 1..N : (ins[m] = ins[n] /\ opd[m] = opd[n]) => m = n

LEMMA UsesPlacedLemma ==
  ASSUME FnOk, NEW b \in Reachable
  PROVE  \E ins, opd : UsesPlaced(ins, opd, b)
<1> DEFINE s == [i \in Insts(b) |-> UsesOfInst(b, i)]
<1>1. PICK n \in Nat : Insts(b) = 1..n
  BY ReachableLemma, InstLemma
<1>2. s \in Seq(Seq(Use)) /\ Len(s) = n
  <2>1. s = [i \in 1..n |-> UsesOfInst(b, i)]
    BY <1>1
  <2>2. \A i \in 1..n : UsesOfInst(b, i) \in Seq(Use)
    BY <1>1, UsesOfInstLemma
  <2> DEFINE t == [i \in 1..n |-> UsesOfInst(b, i)]
  <2>3. t \in Seq(Seq(Use)) /\ Len(t) = n
    BY <2>2, IsASeq
  <2> QED BY <2>1, <2>3
<1>3. ASSUME NEW i \in Insts(b)
      PROVE  /\ DOMAIN Inst(b, i).uses = 1..Len(s[i])
             /\ \A k \in DOMAIN Inst(b, i).uses : s[i][k] = UseAt(b, i, k)
  <2>1. s[i] = UsesOfInst(b, i)
    OBVIOUS
  <2>2. b \in Block
    BY ReachableLemma
  <2>3. PICK l \in Nat : DOMAIN Inst(b, i).uses = 1..l
    BY <2>2, InstLemma, LenProperties
  <2>4. UsesOfInst(b, i) = [k \in 1..l |-> UseAt(b, i, k)]
    BY <2>3 DEF UsesOfInst
  <2>5. Len(UsesOfInst(b, i)) = l
    BY <2>4
  <2> QED BY <2>1, <2>3, <2>4, <2>5
<1>4. UsesOfBlock(b) = FlattenSeq(s)
  BY DEF UsesOfBlock
<1> HIDE DEF s
<1>5. UsesOfBlock(b) \in Seq(Use) /\ \E row, col : Places(row, col, UsesOfBlock(b), s, n)
  BY <1>2, <1>4, FlattenLemma, FlattenPlaces
<1>6. PICK N \in Nat : N = Len(UsesOfBlock(b))
  BY <1>5, LenProperties
<1>7. PICK row, col : Places(row, col, UsesOfBlock(b), s, n)
  BY <1>5
<1>8. /\ row \in [1..N -> 1..n] /\ col \in [1..N -> Nat]
      /\ \A i \in 1..N : col[i] \in 1..Len(s[row[i]]) /\ UsesOfBlock(b)[i] = s[row[i]][col[i]]
      /\ \A m \in 1..n : \A k \in 1..Len(s[m]) : \E i \in 1..N : row[i] = m /\ col[i] = k
      /\ \A i, j \in 1..N : i < j => row[i] < row[j] \/ (row[i] = row[j] /\ col[i] < col[j])
  BY <1>6, <1>7 DEF Places
<1>9. ASSUME NEW m \in 1..N
      PROVE  /\ row[m] \in Insts(b) /\ col[m] \in DOMAIN Inst(b, row[m]).uses
             /\ UsesOfBlock(b)[m] = UseAt(b, row[m], col[m])
  <2>1. PICK i, k : i \in Insts(b) /\ i = row[m] /\ k = col[m]
    BY <1>1, <1>8
  <2>2. k \in 1..Len(s[i]) /\ UsesOfBlock(b)[m] = s[i][k]
    BY <1>8, <2>1
  <2> QED BY <1>3, <2>1, <2>2
<1>10. ASSUME NEW i \in Insts(b), NEW k \in DOMAIN Inst(b, i).uses
       PROVE  \E m \in 1..N : row[m] = i /\ col[m] = k
  <2>1. i \in 1..n /\ k \in 1..Len(s[i])
    BY <1>1, <1>3
  <2> QED BY <1>8, <2>1
<1>11. ASSUME NEW m \in 1..N, NEW l \in 1..N, row[m] = row[l], col[m] = col[l] PROVE m = l
  <2>1. row[m] \in Nat /\ col[m] \in Nat
    BY <1>8
  <2>2. ~(row[m] < row[m]) /\ ~(col[m] < col[m])
    BY <2>1
  <2>3. ~(m < l) /\ ~(l < m)
    BY <1>8, <1>11, <2>2
  <2> QED BY <2>3
<1>12. UsesPlaced(row, col, b)
  BY <1>6, <1>9, <1>10, <1>11 DEF UsesPlaced
<1> QED BY <1>12

\* An order of the reachable blocks has each of them once.
LEMMA OnceLemma ==
  ASSUME FnOk, NEW order \in SetToSeqs(Reachable)
  PROVE  \A i, j \in DOMAIN order : order[i] = order[j] => i = j
BY DEF SetToSeqs

\* The uses of v that RecordDefs collects are the uses of v.
LEMMA TotalLemma ==
  ASSUME FnOk, NEW order \in SetToSeqs(Reachable), NEW v
  PROVE  Left(UsesIn(order), v) = Cardinality(AllUses(v))
<1>1. PICK n \in Nat : /\ order \in [1..n -> Reachable]
                      /\ \A b \in Reachable : \E j \in 1..n : order[j] = b
  BY OrderLemma
<1> DEFINE s == [j \in 1..n |-> UsesOfBlock(order[j])]
           us == UsesIn(order)
<1>2. s \in Seq(Seq(Use)) /\ Len(s) = n
  <2>1. \A j \in 1..n : UsesOfBlock(order[j]) \in Seq(Use)
    BY <1>1, UsesOfBlockLemma
  <2> QED BY <2>1, IsASeq
<1>3. us = FlattenSeq(s)
  <2>1. DOMAIN order = 1..n
    BY <1>1
  <2> QED BY <2>1 DEF UsesIn, UsesOfBlock, UsesOfInst, UseAt
<1>4. \A j \in 1..n : s[j] = UsesOfBlock(order[j])
  OBVIOUS
<1>5. us \in Seq(Use)
  BY UsesLemma
<1> HIDE DEF s, us
<1>6. PICK N \in Nat : N = Len(us)
  BY <1>5, LenProperties
<1>7. PICK row, col : Places(row, col, us, s, n)
  BY <1>2, <1>3, FlattenPlaces
<1>8. /\ row \in [1..N -> 1..n] /\ col \in [1..N -> Nat]
      /\ \A i \in 1..N : col[i] \in 1..Len(s[row[i]]) /\ us[i] = s[row[i]][col[i]]
      /\ \A m \in 1..n : \A k \in 1..Len(s[m]) : \E i \in 1..N : row[i] = m /\ col[i] = k
      /\ \A i, j \in 1..N : i < j => row[i] < row[j] \/ (row[i] = row[j] /\ col[i] < col[j])
  BY <1>6, <1>7 DEF Places
<1> DEFINE At(b) == CHOOSE p : UsesPlaced(p[1], p[2], b)
           Place(m) == <<<<order[row[m]], At(order[row[m]])[1][col[m]]>>, At(order[row[m]])[2][col[m]]>>
           S == Positions(us, v)
           g == [m \in S |-> Place(m)]
<1>9. ASSUME NEW b \in Reachable PROVE UsesPlaced(At(b)[1], At(b)[2], b)
  <2>1. PICK ins, opd : UsesPlaced(ins, opd, b)
    BY UsesPlacedLemma
  <2>2. UsesPlaced(<<ins, opd>>[1], <<ins, opd>>[2], b)
    BY <2>1
  <2>3. \E p : UsesPlaced(p[1], p[2], b)
    BY <2>2
  <2> QED BY <2>3
<1> HIDE DEF At
<1>10. ASSUME NEW m \in 1..N
       PROVE  \E b \in Reachable : \E i \in Insts(b) : \E k \in DOMAIN Inst(b, i).uses :
                /\ b = order[row[m]] /\ i = At(b)[1][col[m]] /\ k = At(b)[2][col[m]]
                /\ col[m] \in 1..Len(UsesOfBlock(b))
                /\ us[m] = UseAt(b, i, k)
  <2>1. PICK j \in 1..n : j = row[m]
    BY <1>8
  <2>2. PICK b \in Reachable : b = order[j]
    BY <1>1
  <2>3. s[j] = UsesOfBlock(b) /\ col[m] \in 1..Len(s[j]) /\ us[m] = s[j][col[m]]
    BY <1>4, <1>8, <2>1, <2>2
  <2>4. UsesPlaced(At(b)[1], At(b)[2], b)
    BY <1>9
  <2>5. PICK ins, opd : ins = At(b)[1] /\ opd = At(b)[2]
    OBVIOUS
  <2>6. /\ ins[col[m]] \in Insts(b) /\ opd[col[m]] \in DOMAIN Inst(b, ins[col[m]]).uses
        /\ UsesOfBlock(b)[col[m]] = UseAt(b, ins[col[m]], opd[col[m]])
    BY <2>3, <2>4, <2>5 DEF UsesPlaced
  <2> QED BY <2>1, <2>2, <2>3, <2>5, <2>6
<1>11. IsFiniteSet(S)
  <2>1. IsFiniteSet(1..N)
    BY FS_Interval
  <2>2. S \subseteq 1..N
    BY <1>6 DEF Positions
  <2> QED BY <2>1, <2>2, FS_Subset
<1>12. \A m \in S : m \in 1..N /\ us[m].val = v
  BY <1>6 DEF Positions
<1>13. \A b, i, k : UseAt(b, i, k).val = Inst(b, i).uses[k].val
  BY DEF UseAt
<1>14. ASSUME NEW m \in S PROVE Place(m) \in AllUses(v)
  <2>1. PICK b, i, k :
           /\ b \in Reachable /\ i \in Insts(b) /\ k \in DOMAIN Inst(b, i).uses
           /\ b = order[row[m]] /\ i = At(b)[1][col[m]] /\ k = At(b)[2][col[m]]
           /\ us[m] = UseAt(b, i, k)
    BY <1>10, <1>12
  <2>2. k \in FoundAt(b, i, v)
    <3>1. Inst(b, i).uses[k].val = v
      <4>1. us[m].val = v /\ us[m] = UseAt(b, i, k)
        BY <1>12, <2>1
      <4>2. UseAt(b, i, k).val = Inst(b, i).uses[k].val
        BY <1>13
      <4> QED BY <4>1, <4>2
    <3> QED BY <2>1, <3>1 DEF FoundAt
  <2>3. Place(m) = <<<<b, i>>, k>>
    BY <2>1
  <2> HIDE DEF Place
  <2>4. <<<<b, i>>, k>> \in {<<b, i>>} \X FoundAt(b, i, v)
    BY <2>2
  <2>5. <<<<b, i>>, k>> \in AllUses(v)
    <3> DEFINE Of(c) == UNION {{<<c, j>>} \X FoundAt(c, j, v) : j \in Insts(c)}
    <3>1. <<<<b, i>>, k>> \in Of(b)
      BY <2>1, <2>4
    <3>2. AllUses(v) = UNION {Of(c) : c \in Reachable}
      BY DEF AllUses
    <3> HIDE DEF Of
    <3> QED BY <2>1, <3>1, <3>2
  <2> QED BY <2>3, <2>5
<1>15. ASSUME NEW l \in S, NEW m \in S, Place(l) = Place(m) PROVE l = m
  <2>1. l \in 1..N /\ m \in 1..N
    BY <1>12
  <2>2. PICK b, i, k :
           b \in Reachable /\ b = order[row[l]] /\ i = At(b)[1][col[l]] /\ k = At(b)[2][col[l]]
           /\ col[l] \in 1..Len(UsesOfBlock(b))
    BY <1>10, <2>1
  <2>3. PICK c, j, o :
           c \in Reachable /\ c = order[row[m]] /\ j = At(c)[1][col[m]] /\ o = At(c)[2][col[m]]
           /\ col[m] \in 1..Len(UsesOfBlock(c))
    BY <1>10, <2>1
  <2>4. Place(l) = <<<<b, i>>, k>> /\ Place(m) = <<<<c, j>>, o>>
    BY <2>2, <2>3
  <2>5. b = c /\ i = j /\ k = o
    BY <1>15, <2>4
  <2>6. UsesPlaced(At(b)[1], At(b)[2], b)
    BY <1>9, <2>2
  <2>7. col[l] = col[m]
    <3>1. PICK ins, opd : ins = At(b)[1] /\ opd = At(b)[2]
      OBVIOUS
    <3>2. PICK x, y : x = col[l] /\ y = col[m]
      OBVIOUS
    <3>3. ins[x] = ins[y] /\ opd[x] = opd[y] /\ x \in 1..Len(UsesOfBlock(b)) /\ y \in 1..Len(UsesOfBlock(b))
      BY <2>2, <2>3, <2>5, <3>1, <3>2
    <3>4. UsesPlaced(ins, opd, b)
      BY <2>6, <3>1
    <3>5. x = y
      BY <3>3, <3>4 DEF UsesPlaced
    <3> QED BY <3>2, <3>5
  <2>8. row[l] = row[m]
    <3>1. row[l] \in 1..n /\ row[m] \in 1..n /\ DOMAIN order = 1..n
      BY <1>1, <1>8, <2>1
    <3>2. order[row[l]] = order[row[m]]
      BY <2>2, <2>3, <2>5
    <3> QED BY <3>1, <3>2, OnceLemma
  <2>9. row[l] \in Nat /\ col[l] \in Nat
    BY <1>8, <2>1
  <2>10. ~(row[l] < row[l]) /\ ~(col[l] < col[l])
    BY <2>9
  <2>11. ~(l < m) /\ ~(m < l)
    BY <1>8, <2>1, <2>7, <2>8, <2>10
  <2> QED BY <2>1, <2>11
<1>16. ASSUME NEW t \in AllUses(v) PROVE \E m \in S : Place(m) = t
  <2>1. PICK b, i, k :
          b \in Reachable /\ i \in Insts(b) /\ k \in FoundAt(b, i, v) /\ t = <<<<b, i>>, k>>
    BY DEF AllUses
  <2>2. k \in DOMAIN Inst(b, i).uses /\ Inst(b, i).uses[k].val = v
    BY <2>1 DEF FoundAt
  <2>3. PICK ins, opd : ins = At(b)[1] /\ opd = At(b)[2]
    OBVIOUS
  <2>4. UsesPlaced(ins, opd, b)
    BY <1>9, <2>1, <2>3
  <2>5. PICK c \in 1..Len(UsesOfBlock(b)) : ins[c] = i /\ opd[c] = k
    BY <2>1, <2>2, <2>4 DEF UsesPlaced
  <2>6. PICK j \in 1..n : order[j] = b
    BY <1>1, <2>1
  <2>7. c \in 1..Len(s[j])
    BY <1>4, <2>5, <2>6
  <2>8. PICK m \in 1..N : row[m] = j /\ col[m] = c
    BY <1>8, <2>7
  <2>9. Place(m) = t
    BY <2>1, <2>3, <2>5, <2>6, <2>8
  <2>10. us[m] = UseAt(b, i, k)
    <3>1. us[m] = s[j][c] /\ s[j] = UsesOfBlock(b)
      BY <1>4, <1>8, <2>6, <2>8
    <3>2. UsesOfBlock(b)[c] = UseAt(b, ins[c], opd[c])
      BY <2>4, <2>5 DEF UsesPlaced
    <3> QED BY <2>5, <3>1, <3>2
  <2>11. m \in S
    BY <1>6, <1>13, <2>2, <2>8, <2>10 DEF Positions
  <2> QED BY <2>9, <2>11
<1>17. g \in [S -> AllUses(v)] /\ \A m \in S : g[m] = Place(m)
  BY <1>14
<1> HIDE DEF g, Place, S
<1>18. \A x, y \in S : g[x] = g[y] => x = y
  BY <1>15, <1>17
<1>19. \A t \in AllUses(v) : \E x \in S : g[x] = t
  BY <1>16, <1>17
<1>20. Cardinality(AllUses(v)) = Cardinality(S)
  BY <1>11, <1>17, <1>18, <1>19, PairedLemma
<1> QED BY <1>20 DEF S, us, Left

\* One use less.
LEMMA LeftLemma ==
  ASSUME NEW us \in Seq(Use), NEW v
  PROVE  /\ Left(us, v) \in Nat
         /\ us = <<>> => Left(us, v) = 0
         /\ us # <<>> => Left(us, v) = Left(Tail(us), v) + (IF Head(us).val = v THEN 1 ELSE 0)
<1>1. PICK N \in Nat : N = Len(us)
  BY LenProperties
<1>2. IsFiniteSet(Positions(us, v)) /\ Left(us, v) \in Nat
  <2>1. IsFiniteSet(1..N)
    BY FS_Interval
  <2>2. Positions(us, v) \subseteq 1..N
    BY <1>1 DEF Positions
  <2> QED BY <2>1, <2>2, FS_Subset, FS_CardinalityType DEF Left
<1>3. ASSUME us = <<>> PROVE Left(us, v) = 0
  <2>1. Positions(us, v) = {}
    BY <1>3 DEF Positions
  <2> QED BY <2>1, FS_EmptySet DEF Left
<1>4. ASSUME us # <<>>
      PROVE  Left(us, v) = Left(Tail(us), v) + (IF Head(us).val = v THEN 1 ELSE 0)
  <2> DEFINE T == Positions(us, v) \ {1}
             S == Positions(Tail(us), v)
             g == [m \in S |-> m + 1]
  <2>1. /\ N # 0 /\ Head(us) = us[1] /\ Len(Tail(us)) = N - 1
        /\ \A k \in 1..(N - 1) : Tail(us)[k] = us[k + 1]
    BY <1>1, <1>4, TailLemma
  <2>2. \A m : m \in S <=> m \in 1..(N - 1) /\ us[m + 1].val = v
    BY <2>1 DEF Positions
  <2>3. \A m : m \in T <=> m \in 1..N /\ m # 1 /\ us[m].val = v
    BY <1>1 DEF Positions
  <2> HIDE DEF S, T
  <2>4. IsFiniteSet(S)
    <3>1. IsFiniteSet(1..N) /\ S \subseteq 1..N
      BY <2>2, FS_Interval
    <3> QED BY <3>1, FS_Subset
  <2>5. \A m \in S : m + 1 \in T
    <3> TAKE m \in S
    <3>1. m + 1 \in 1..N /\ m + 1 # 1
      BY <2>2
    <3> QED BY <2>2, <2>3, <3>1
  <2>6. ASSUME NEW t \in T PROVE \E m \in S : m + 1 = t
    <3>1. t - 1 \in 1..(N - 1) /\ (t - 1) + 1 = t
      BY <2>3
    <3>2. t - 1 \in S
      BY <2>2, <2>3, <3>1
    <3> QED BY <3>1, <3>2
  <2>7. g \in [S -> T] /\ \A m \in S : g[m] = m + 1
    BY <2>5
  <2> HIDE DEF g
  <2>8. \A x, y \in S : g[x] = g[y] => x = y
    <3>1. \A x \in S : x \in Nat
      BY <2>2
    <3> QED BY <2>7, <3>1
  <2>9. \A t \in T : \E m \in S : g[m] = t
    BY <2>6, <2>7
  <2>10. Cardinality(T) = Cardinality(S)
    BY <2>4, <2>7, <2>8, <2>9, PairedLemma
  <2>11. Cardinality(T) = IF 1 \in Positions(us, v) THEN Left(us, v) - 1 ELSE Left(us, v)
    BY <1>2, FS_RemoveElement DEF T, Left
  <2>12. 1 \in Positions(us, v) <=> Head(us).val = v
    <3>1. 1 \in 1..N
      BY <1>1, <2>1
    <3> QED BY <1>1, <2>1, <3>1 DEF Positions
  <2>13. Left(Tail(us), v) = Cardinality(S) /\ Cardinality(S) \in Nat
    BY <2>4, FS_CardinalityType DEF S, Left
  <2> QED BY <1>2, <2>10, <2>11, <2>12, <2>13
<1> QED BY <1>2, <1>3, <1>4

\* The uses counted and those left to count are all of them; of the blocks, too.
Counted(count, us) == \A v \in Value : count[v] + Left(us, v) = Cardinality(AllUses(v))
Recorded(blocks, us) ==
  \A v \in Vars :
    /\ blocks[v] \subseteq UsedBlocks(v)
    /\ \A b \in UsedBlocks(v) : b \in blocks[v] \/ [val |-> v, block |-> b] \in ToSet(us)

CountInv ==
  /\ runs \in Nat \ {0}
  /\ val_use_count \in [Value -> Nat] /\ val_use_blocks \in [Value -> SUBSET Block]
  /\ (runs = 1 /\ pass = "defs") => \A v \in Value : val_use_count[v] = 0 /\ val_use_blocks[v] = {}
  /\ (runs = 1 /\ pass \in {"uses", "insts"}) =>
        Counted(val_use_count, uses) /\ Recorded(val_use_blocks, uses)

LEMMA CountFrame ==
  ASSUME fn' = fn, NEW count, NEW blocks, NEW us,
         val_use_count' = count, val_use_blocks' = blocks, uses' = us,
         Counted(count, us), Recorded(blocks, us)
  PROVE  Counted(val_use_count, uses)' /\ Recorded(val_use_blocks, uses)'
<1>1. \A v : AllUses(v)' = AllUses(v)
  BY DEF AllUses, FoundAt, Insts, Inst, Reachable, Reach
<1>2. Counted(val_use_count, uses)'
  BY <1>1 DEF Counted, Left, Positions
<1>3. Recorded(val_use_blocks, uses)'
  BY FrameLemma DEF Recorded
<1> QED BY <1>2, <1>3

LEMMA CountInit == Init => CountInv
<1> SUFFICES ASSUME Init PROVE CountInv
  OBVIOUS
<1>1. runs = 1 /\ pass = "defs" /\ val_use_count = [v \in Value |-> 0] /\ val_use_blocks = Empty(Value)
  BY DEF Init
<1>2. pass \notin {"uses", "insts"}
  BY <1>1
<1> QED BY <1>1, <1>2 DEF CountInv, Empty

LEMMA CountVisit ==
  ASSUME IInv, CountInv, VisitUse
  PROVE  CountInv'
<1>0. /\ FnOk /\ fn' = fn /\ runs' = runs /\ pass = "uses"
      /\ uses # <<>> /\ uses' = Tail(uses)
      /\ uses \in Seq(Use)
  BY DEF IInv, Types, VisitUse
<1> DEFINE v == Head(uses).val
           b == Head(uses).block
           count == [val_use_count EXCEPT ![v] = @ + 1]
           blocks == [val_use_blocks EXCEPT ![v] = @ \cup {b}]
<1>1. val_use_count' = count /\ val_use_blocks' = blocks
  BY DEF VisitUse
<1>2. Head(uses) \in ToSet(uses) /\ Head(uses) \in Use
      /\ ToSet(uses) = {Head(uses)} \cup ToSet(Tail(uses)) /\ Tail(uses) \in Seq(Use)
  BY <1>0, TailLemma
<1>3. v \in Value /\ b \in Block /\ Head(uses) = [val |-> v, block |-> b]
  BY <1>2 DEF Use
<1>4. /\ runs \in Nat \ {0} /\ val_use_count \in [Value -> Nat] /\ val_use_blocks \in [Value -> SUBSET Block]
  BY DEF CountInv
<1>5. /\ count \in [Value -> Nat] /\ blocks \in [Value -> SUBSET Block]
      /\ \A w \in Value : /\ count[w] = IF w = v THEN val_use_count[w] + 1 ELSE val_use_count[w]
                          /\ blocks[w] = IF w = v THEN val_use_blocks[w] \cup {b} ELSE val_use_blocks[w]
  <2>1. PICK x, c : x = v /\ c = b
    OBVIOUS
  <2>2. x \in Value /\ c \in Block
    BY <1>3, <2>1
  <2>3. /\ [val_use_count EXCEPT ![x] = @ + 1] \in [Value -> Nat]
        /\ \A w \in Value : [val_use_count EXCEPT ![x] = @ + 1][w]
                              = IF w = x THEN val_use_count[w] + 1 ELSE val_use_count[w]
    BY <1>4, <2>2
  <2>4. /\ [val_use_blocks EXCEPT ![x] = @ \cup {c}] \in [Value -> SUBSET Block]
        /\ \A w \in Value : [val_use_blocks EXCEPT ![x] = @ \cup {c}][w]
                              = IF w = x THEN val_use_blocks[w] \cup {c} ELSE val_use_blocks[w]
    BY <1>4, <2>2
  <2> QED BY <2>1, <2>3, <2>4
<1>6. pass' \in {"uses", "panic"}
  BY <1>0 DEF VisitUse, UpAndMark
<1> HIDE DEF count, blocks
<1>7. ASSUME runs = 1 PROVE Counted(count, Tail(uses)) /\ Recorded(blocks, Tail(uses))
  <2>1. Counted(val_use_count, uses) /\ Recorded(val_use_blocks, uses)
    BY <1>0, <1>7 DEF CountInv
  <2>2. ASSUME NEW w \in Value PROVE count[w] + Left(Tail(uses), w) = Cardinality(AllUses(w))
    <3>1. Left(uses, w) = Left(Tail(uses), w) + (IF v = w THEN 1 ELSE 0)
      BY <1>0, LeftLemma
    <3>2. Left(Tail(uses), w) \in Nat
      BY <1>2, LeftLemma
    <3>3. val_use_count[w] + Left(uses, w) = Cardinality(AllUses(w)) /\ val_use_count[w] \in Nat
      BY <1>4, <2>1 DEF Counted
    <3>4. PICK l \in Nat, c \in Nat : l = Left(Tail(uses), w) /\ c = val_use_count[w]
      BY <3>2, <3>3
    <3>5. CASE v = w
      <4>1. Left(uses, w) = l + 1 /\ count[w] = c + 1
        BY <1>5, <3>1, <3>4, <3>5
      <4>2. (c + 1) + l = c + (l + 1)
        OBVIOUS
      <4> QED BY <3>3, <3>4, <4>1, <4>2
    <3>6. CASE v # w
      <4>1. Left(uses, w) = l /\ count[w] = c
        BY <1>5, <3>1, <3>4, <3>6
      <4> QED BY <3>3, <3>4, <4>1
    <3> QED BY <3>5, <3>6
  <2>3. ASSUME NEW w \in Vars
        PROVE  /\ blocks[w] \subseteq UsedBlocks(w)
               /\ \A c \in UsedBlocks(w) : c \in blocks[w] \/ [val |-> w, block |-> c] \in ToSet(Tail(uses))
    <3>0. w \in Value
      BY DEF Vars
    <3>1. /\ val_use_blocks[w] \subseteq UsedBlocks(w)
          /\ \A c \in UsedBlocks(w) : c \in val_use_blocks[w] \/ [val |-> w, block |-> c] \in ToSet(uses)
      BY <2>1 DEF Recorded
    <3>2. v = w => b \in UsedBlocks(w)
      BY <1>0, <1>2, <1>3 DEF IInv, WalkSound, ToVisit
    <3>3. ASSUME NEW c \in UsedBlocks(w), [val |-> w, block |-> c] \in ToSet(uses)
          PROVE  c \in blocks[w] \/ [val |-> w, block |-> c] \in ToSet(Tail(uses))
      <4>1. CASE [val |-> w, block |-> c] = Head(uses)
        <5>1. w = v /\ c = b
          BY <1>3, <4>1
        <5> QED BY <1>5, <3>0, <5>1
      <4>2. CASE [val |-> w, block |-> c] # Head(uses)
        BY <1>2, <3>3, <4>2
      <4> QED BY <4>1, <4>2
    <3>4. blocks[w] \subseteq UsedBlocks(w) /\ val_use_blocks[w] \subseteq blocks[w]
      BY <1>5, <3>0, <3>1, <3>2
    <3> QED BY <3>1, <3>3, <3>4
  <2> QED BY <2>2, <2>3 DEF Counted, Recorded
<1>8. runs = 1 => Counted(val_use_count, uses)' /\ Recorded(val_use_blocks, uses)'
  BY <1>0, <1>1, <1>7, CountFrame
<1> QED BY <1>0, <1>1, <1>4, <1>5, <1>6, <1>8 DEF CountInv

LEMMA CountStep ==
  ASSUME IInv, CountInv, [Next]_vars
  PROVE  CountInv'
<1>0. /\ runs \in Nat \ {0}
      /\ val_use_count \in [Value -> Nat] /\ val_use_blocks \in [Value -> SUBSET Block]
      /\ (runs = 1 /\ pass = "defs") => \A v \in Value : val_use_count[v] = 0 /\ val_use_blocks[v] = {}
      /\ (runs = 1 /\ pass \in {"uses", "insts"}) =>
            Counted(val_use_count, uses) /\ Recorded(val_use_blocks, uses)
  BY DEF CountInv
<1>1. CASE RecordDefs
  <2>1. /\ FnOk /\ fn' = fn /\ runs' = runs /\ pass = "defs" /\ pass' = "uses"
        /\ val_use_count' = val_use_count /\ val_use_blocks' = val_use_blocks
    BY <1>1 DEF RecordDefs, useVars, IInv, Types
  <2>2. PICK order \in SetToSeqs(Reachable) : uses' = UsesIn(order)
    BY <1>1 DEF RecordDefs
  <2>3. PICK us : us = UsesIn(order)
    OBVIOUS
  <2>4. us \in Seq(Use) /\ \A v \in Vars : \A b \in UsedBlocks(v) : [val |-> v, block |-> b] \in ToSet(us)
    BY <2>1, <2>3, UsesLemma
  <2>5. ASSUME runs = 1 PROVE Counted(val_use_count, us) /\ Recorded(val_use_blocks, us)
    <3>1. \A v \in Value : val_use_count[v] = 0 /\ val_use_blocks[v] = {}
      BY <1>0, <2>1, <2>5
    <3>2. ASSUME NEW v \in Value PROVE val_use_count[v] + Left(us, v) = Cardinality(AllUses(v))
      <4>1. Left(us, v) = Cardinality(AllUses(v)) /\ Left(us, v) \in Nat
        BY <2>1, <2>3, <2>4, TotalLemma, LeftLemma
      <4> QED BY <3>1, <4>1
    <3>3. Recorded(val_use_blocks, us)
      BY <2>4, <3>1 DEF Recorded, Vars
    <3> QED BY <3>2, <3>3 DEF Counted
  <2>6. runs = 1 => Counted(val_use_count, uses)' /\ Recorded(val_use_blocks, uses)'
    BY <2>1, <2>2, <2>3, <2>5, CountFrame
  <2> QED BY <1>0, <2>1, <2>6 DEF CountInv
<1>2. CASE VisitUse
  BY <1>2, CountVisit
<1>3. CASE NextPred \/ Return \/ UsesDone
  <2>1. /\ fn' = fn /\ runs' = runs /\ pass = "uses" /\ uses' = uses
        /\ val_use_count' = val_use_count /\ val_use_blocks' = val_use_blocks
        /\ pass' \in {"uses", "panic", "insts"}
    BY <1>3 DEF NextPred, UpAndMark, Return, UsesDone, useVars
  <2>2. PICK us : us = uses
    OBVIOUS
  <2>3. runs = 1 => Counted(val_use_count, us) /\ Recorded(val_use_blocks, us)
    BY <1>0, <2>1, <2>2
  <2>4. runs = 1 => Counted(val_use_count, uses)' /\ Recorded(val_use_blocks, uses)'
    BY <2>1, <2>2, <2>3, CountFrame
  <2> QED BY <1>0, <2>1, <2>4 DEF CountInv
<1>4. CASE ComputeInsts
  <2>1. runs' = runs /\ pass' = "done" /\ val_use_count' = val_use_count /\ val_use_blocks' = val_use_blocks
    BY <1>4 DEF ComputeInsts, useVars
  <2>2. pass' \notin {"defs", "uses", "insts"}
    BY <2>1
  <2> QED BY <1>0, <2>1, <2>2 DEF CountInv
<1>5. CASE Recompute
  <2>1. runs' = runs + 1 /\ val_use_count' = val_use_count /\ val_use_blocks' = val_use_blocks
    BY <1>5 DEF Recompute, useVars
  <2>2. runs' \in Nat \ {0} /\ runs' # 1
    BY <1>0, <2>1
  <2> QED BY <1>0, <2>1, <2>2 DEF CountInv
<1>6. CASE UNCHANGED vars
  <2>1. /\ fn' = fn /\ runs' = runs /\ pass' = pass /\ uses' = uses
        /\ val_use_count' = val_use_count /\ val_use_blocks' = val_use_blocks
    BY <1>6 DEF vars, useVars
  <2>2. PICK us : us = uses
    OBVIOUS
  <2>3. (runs = 1 /\ pass \in {"uses", "insts"}) => Counted(val_use_count, uses)' /\ Recorded(val_use_blocks, uses)'
    BY <1>0, <2>1, CountFrame
  <2> QED BY <1>0, <2>1, <2>3 DEF CountInv
<1> QED BY <1>1, <1>2, <1>3, <1>4, <1>5, <1>6 DEF Next

LEMMA CountsLemma ==
  ASSUME IInv, CountInv
  PROVE  UseCountsExact
<1> SUFFICES ASSUME runs = 1, pass = "insts", NEW v \in Value
             PROVE  /\ val_use_count[v] = Cardinality(AllUses(v))
                    /\ v \in Vars => val_use_blocks[v] = UsedBlocks(v)
  BY DEF UseCountsExact, AllUses, FoundAt
<1>1. uses = <<>> /\ uses \in Seq(Use)
  BY DEF IInv, Types, Idle
<1>2. Counted(val_use_count, uses) /\ Recorded(val_use_blocks, uses) /\ val_use_count \in [Value -> Nat]
  BY DEF CountInv
<1>3. Left(uses, v) = 0
  BY <1>1, LeftLemma
<1>4. val_use_count[v] + 0 = val_use_count[v]
  BY <1>2
<1>5. ToSet(uses) = {}
  BY <1>1 DEF ToSet
<1> QED BY <1>2, <1>3, <1>4, <1>5 DEF Counted, Recorded

\* In whatever order the blocks are laid out, the values that live across calls are found but
\* for exactly the results of calls laid out after all the calls they survive; none is lost
\* in a layout with the definitions first; and however the walks up from the uses end, every
\* use is counted once (call_live_values, val_use_count, val_use_blocks).
THEOREM CallsLive == Spec => []CallsLiveExact
<1>1. Init => CountInv
  BY CountInit
<1>2. IInv /\ CountInv /\ [Next]_vars => CountInv'
  BY CountStep
<1>3. IInv /\ CountInv => CallsLiveExact
  <2> SUFFICES ASSUME IInv, CountInv PROVE CallsLiveExact
    OBVIOUS
  <2>1. pass = "done" => CallLiveValues = LiveAcrossCalls \ LostResults
    BY CallsLemma
  <2>2. (LayoutFollowsDefs /\ DefsDominateUses) => LostResults = {}
    BY NothingLost DEF IInv, Types
  <2>3. UseCountsExact
    BY CountsLemma
  <2> QED BY <2>1, <2>2, <2>3 DEF CallsLiveExact
<1> QED BY <1>1, <1>2, <1>3, Walks, PTL DEF Spec

=============================================================================
