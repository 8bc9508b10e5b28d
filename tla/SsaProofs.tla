----------------------------- MODULE SsaProofs -----------------------------
(***************************************************************************)
(* Proofs about SSA construction, for every program a frontend may build:  *)
(* the data flow graph stays exact, and no call in progress is disturbed   *)
(* by another.                                                             *)
(***************************************************************************)
EXTENDS SsaBuilder, CommonLemmas

-----------------------------------------------------------------------------
(***************************************************************************)
(* The inductive invariant, part by part.                                  *)
(***************************************************************************)

\* The instructions made so far, and those that no alias has replaced.
Made == 1..Len(insts)
LiveIds == Made \ DOMAIN aliases
BlockOf(i) == insts[i].block

Arg == [value : InstId, pred : Block \cup {None}]
Inst == [kind : {"phi", "def", "use"}, block : Block, args : Seq(Arg)]
FrameSet ==
  [f : {"use"}, var : Var, block : Block]
  \cup [f : {"result"}, phi : InstId]
  \cup [f : {"args"}, var : Var, phi : InstId, preds : Seq(Block), done : Nat]
  \cup [f : {"check"}, todo : Seq(InstId)]
  \cup [f : {"seal"}, block : Block, todo : Seq(Var \X InstId)]
  \cup [f : {"sealall"}, todo : Seq(Block)]

Types ==
  /\ prog \in Program
  /\ insts \in Seq(Inst) /\ Len(insts) <= MaxInsts
  /\ body \in [Block -> Seq(InstId)]
  /\ users \in [InstId -> SUBSET InstId]
  /\ preds \in [Block -> Seq(Block)]
  /\ sealed \in [Block -> BOOLEAN]
  /\ defs \in [Block -> [Var -> 0..Len(insts)]]
  /\ incomplete \in [Block -> Seq(Var \X InstId)]
  /\ DOMAIN aliases \subseteq Made /\ aliases \in [DOMAIN aliases -> Made]
  /\ stack \in Seq(FrameSet)
  /\ ret \in 0..Len(insts)
  /\ panicked \in BOOLEAN
  /\ cur \in Block \cup {None}
  /\ pc \in [Block -> Nat] /\ \A b \in Block : pc[b] <= Len(prog.code[b]) + 1
  /\ held \in 0..Len(insts)

\* The data flow graph: the layout holds the live instructions, these use live values
\* only, and the users of a value are known.
LaidOut == \A b \in Block : ToSet(body[b]) = {i \in LiveIds : BlockOf(i) = b}
ArgsMade == \A i \in Made : ValuesOf(insts[i]) \subseteq Made
ArgsLive == \A i \in LiveIds : ValuesOf(insts[i]) \subseteq LiveIds
UsersKnown == \A v \in InstId : users[v] = {i \in LiveIds : v \in ValuesOf(insts[i])}

\* A phi is removed before the phi that is its alias: chains of aliases end.
AliasesEnd ==
  \E time \in [DOMAIN aliases -> 1..Cardinality(DOMAIN aliases)] :
    \A v \in DOMAIN aliases : aliases[v] \in DOMAIN aliases => time[v] < time[aliases[v]]

GraphSound == LaidOut /\ ArgsMade /\ ArgsLive /\ UsersKnown /\ AliasesEnd

\* Which call a frame may be the callee of, and what the frontend waits for.
At(f) == {k \in 1..Len(stack) : stack[k].f = f}
Below == {<<"args", "use">>, <<"args", "result">>, <<"result", "args">>, <<"seal", "args">>,
          <<"result", "check">>, <<"seal", "check">>, <<"check", "check">>, <<"sealall", "seal">>}
Reading == /\ cur # None /\ pc[cur] < Len(prog.code[cur])
           /\ prog.code[cur][pc[cur] + 1].op = "read"
WellNested(s) ==
  /\ s # <<>> => s[1].f \in {"use", "result", "seal", "sealall"}
  /\ \A k \in 2..Len(s) : <<s[k - 1].f, s[k].f>> \in Below
  /\ \A k \in 1..Len(s) : s[k].f = "check" => \A j \in k..Len(s) : s[j].f = "check"
  /\ \A k \in 1..Len(s) : s[k].f = "seal" => k = 1 \/ (k = 2 /\ s[1].f = "sealall")
StackShape ==
  /\ WellNested(stack)
  /\ stack # <<>> /\ stack[1].f \in {"use", "result"} => Reading

\* The phis whose arguments are being added: alive, defining their variable in their
\* block, whose predecessors the frame holds.  All lookups in progress are of one variable.
ArgsFrameSound(k) ==
  LET phi == stack[k].phi
      block == BlockOf(phi)
  IN /\ phi \in LiveIds /\ insts[phi].kind = "phi"
     /\ Len(insts[phi].args) = stack[k].done
     /\ stack[k].done <= Len(stack[k].preds)
     /\ k < Len(stack) => stack[k].done < Len(stack[k].preds)
     /\ preds[block] = <<>>
     /\ \A j \in 1..stack[k].done : insts[phi].args[j].pred = stack[k].preds[j]
     /\ defs[block][stack[k].var] # None
     /\ k > 1 /\ stack[k - 1].f = "result" => stack[k - 1].phi = phi /\ sealed[block]
     /\ k > 1 /\ stack[k - 1].f = "seal" => stack[k - 1].block = block
Lookups == {k \in 1..Len(stack) : stack[k].f \in {"use", "args"}}
ArgsSound ==
  /\ \A k \in At("args") : ArgsFrameSound(k)
  /\ \A j, k \in Lookups : stack[j].var = stack[k].var
  /\ \A j, k \in At("args") : j # k => BlockOf(stack[j].phi) # BlockOf(stack[k].phi)

\* What a lookup makes and removes is newer than everything its callers work on: no
\* older instruction uses a value as new as the phi it will return.
ResultApart(k) ==
  LET phi == stack[k].phi
  IN /\ phi \in Made
     /\ \A i \in 1..(phi - 1) : \A v \in ValuesOf(insts[i]) : v < phi
     /\ \A j \in At("args") : IF j > k THEN stack[j].phi >= phi ELSE stack[j].phi < phi
     /\ \A j \in At("check") : j > k => \A i \in ToSet(stack[j].todo) : i >= phi
ResultsApart == \A k \in At("result") : ResultApart(k)
TodoMade == \A k \in At("check") : ToSet(stack[k].todo) \subseteq Made

\* Phis without arguments yet: distinct, alive, defining their variable, in blocks
\* that are not sealed.
ItemSound(b, item) ==
  /\ item[2] \in LiveIds
  /\ insts[item[2]].kind = "phi" /\ BlockOf(item[2]) = b /\ insts[item[2]].args = <<>>
  /\ defs[b][item[1]] # None
DistinctPhis(items) == \A m, n \in 1..Len(items) : m # n => items[m][2] # items[n][2]
ItemsSound(b, items) ==
  DistinctPhis(items) /\ \A n \in 1..Len(items) : ItemSound(b, items[n])

UnderWay == {stack[k].phi : k \in At("args")}
PhisOf(items) == {items[n][2] : n \in 1..Len(items)}
Pending == (UNION {PhisOf(incomplete[b]) : b \in Block})
             \cup (UNION {PhisOf(stack[k].todo) : k \in At("seal")})
PendingSound ==
  /\ \A b \in Block : ItemsSound(b, incomplete[b])
  /\ \A b \in Block : sealed[b] => incomplete[b] = <<>>
  /\ \A k \in At("seal") : /\ ItemsSound(stack[k].block, stack[k].todo)
                           /\ incomplete[stack[k].block] = <<>>
                           /\ ~sealed[stack[k].block]
  /\ UnderWay \cap Pending = {}

\* A value that was returned is alive, and its caller waits for it.
RetSound ==
  ret # None =>
    /\ ret \in LiveIds
    /\ stack = <<>> => Reading
    /\ stack # <<>> => Top.f = "args" /\ Top.done < Len(Top.preds)

\* The frontend holds a value once it has read one.
HeldSound ==
  \A b \in Block : \A j \in 1..Len(prog.code[b]) :
    j <= pc[b] /\ prog.code[b][j].op = "read" => held # None

\* No branch to a sealed block is missing.
Closed(b) == \A c \in Block : Contains(prog.dests[c], b) => Filled(c)
SealedClosed ==
  /\ \A b \in Block : sealed[b] => Closed(b)
  /\ \A k \in At("seal") : Closed(stack[k].block)
  /\ At("sealall") # {} => AllFilled

\* The other phis have an argument for each predecessor, and those that are trivial
\* will still be looked at.
ArgPreds(i) == [k \in DOMAIN insts[i].args |-> insts[i].args[k].pred]
Complete == {i \in LiveIds : insts[i].kind = "phi" /\ i \notin Pending /\ i \notin UnderWay}
CompleteSound ==
  \A phi \in Complete :
    /\ Closed(BlockOf(phi))
    /\ \A k \in At("args") : BlockOf(stack[k].phi) = BlockOf(phi) => ArgPreds(phi) = stack[k].preds
    /\ (\A k \in At("args") : BlockOf(stack[k].phi) # BlockOf(phi))
         => ArgPreds(phi) = preds[BlockOf(phi)]
    /\ IsTrivial(phi) => \E k \in At("check") : phi \in ToSet(stack[k].todo)

StackSound == StackShape /\ ArgsSound /\ ResultsApart /\ TodoMade
PhisSound == PendingSound /\ CompleteSound /\ SealedClosed
ClientSound == RetSound /\ HeldSound

IInv == Types /\ GraphSound /\ StackSound /\ PhisSound /\ ClientSound

-----------------------------------------------------------------------------
(***************************************************************************)
(* The model's operators, in states that satisfy the invariant.            *)
(***************************************************************************)

\* A program's blocks are numbered, and each step of the frontend is an operation.
LEMMA ProgramLemma ==
  ASSUME Types
  PROVE  /\ Len(prog.dests) \in Nat /\ Block = 1..Len(prog.dests)
         /\ prog.dests \in [Block -> Seq(Block)]
         /\ prog.code \in [Block -> Seq(Op)]
         /\ prog.fill \in [Block -> Block]
         /\ \A b \in Block : Len(prog.code[b]) \in Nat
         /\ \A b \in Block : \A k \in 1..Len(prog.code[b]) :
              /\ prog.code[b][k] \in Op
              /\ prog.code[b][k].op \in {"write", "emit"} =>
                   \E j \in 1..(k - 1) : prog.code[b][j].op = "read"
<1> DEFINE blocks == 1..Len(prog.dests)
<1>1. /\ prog.dests \in Seq(Seq(blocks))
      /\ prog.code \in [blocks -> Seq(Op)]
      /\ prog.fill \in [blocks -> blocks]
      /\ \A b \in blocks : \A k \in 1..Len(prog.code[b]) :
              prog.code[b][k].op \in {"write", "emit"} =>
                   \E j \in 1..(k - 1) : prog.code[b][j].op = "read"
  BY ProgramAssumption DEF Types, IsProgram
<1>2. Len(prog.dests) \in Nat /\ Block = blocks /\ prog.dests \in [blocks -> Seq(blocks)]
  BY <1>1, LenProperties DEF Block
<1> HIDE DEF blocks
<1>3. \A b \in blocks : /\ Len(prog.code[b]) \in Nat
                        /\ \A k \in 1..Len(prog.code[b]) : prog.code[b][k] \in Op
  BY <1>1, LenProperties
<1> QED BY <1>1, <1>2, <1>3 DEF blocks

\* What instructions and frames are made of.
LEMMA InstLemma ==
  ASSUME Types
  PROVE  /\ Len(insts) \in Nat /\ DOMAIN insts = Made /\ Made \subseteq InstId
         /\ LiveIds \subseteq Made
         /\ \A i \in Made :
              /\ insts[i] \in Inst
              /\ insts[i].block \in Block /\ insts[i].args \in Seq(Arg)
              /\ Len(insts[i].args) \in Nat /\ DOMAIN insts[i].args = 1..Len(insts[i].args)
              /\ \A k \in 1..Len(insts[i].args) : /\ insts[i].args[k] \in Arg
                                                 /\ insts[i].args[k].value \in InstId
              /\ ValuesOf(insts[i]) \subseteq InstId
<1>1. Len(insts) \in Nat /\ DOMAIN insts = Made /\ \A i \in Made : insts[i] \in Inst
  BY LenProperties DEF Types, Made
<1>2. Made \subseteq InstId /\ LiveIds \subseteq Made
  BY <1>1, MaxInstsAssumption DEF Types, Made, InstId, LiveIds
<1>3. ASSUME NEW i \in Made
      PROVE  /\ insts[i].block \in Block /\ insts[i].args \in Seq(Arg)
             /\ Len(insts[i].args) \in Nat /\ DOMAIN insts[i].args = 1..Len(insts[i].args)
             /\ \A k \in 1..Len(insts[i].args) : /\ insts[i].args[k] \in Arg
                                                /\ insts[i].args[k].value \in InstId
  <2>1. insts[i].block \in Block /\ insts[i].args \in Seq(Arg)
    BY <1>1 DEF Inst
  <2>2. \A k \in 1..Len(insts[i].args) : insts[i].args[k] \in Arg
    BY <2>1, LenProperties
  <2> QED BY <2>1, <2>2, LenProperties DEF Arg
<1>4. \A i \in Made : ValuesOf(insts[i]) \subseteq InstId
  BY <1>3 DEF ValuesOf
<1> QED BY <1>1, <1>2, <1>3, <1>4

\* What the frames of each kind of call hold.
LEMMA FrameLemma ==
  ASSUME Types
  PROVE  /\ Len(stack) \in Nat /\ (stack = <<>> <=> Len(stack) = 0)
         /\ \A k \in 1..Len(stack) :
              /\ stack[k] \in FrameSet
              /\ stack[k].f \in {"use", "result", "args", "check", "seal", "sealall"}
              /\ stack[k].f = "use" => stack[k].var \in Var /\ stack[k].block \in Block
              /\ stack[k].f = "result" => stack[k].phi \in InstId
              /\ stack[k].f = "args" =>
                   /\ stack[k] \in [f : {"args"}, var : Var, phi : InstId, preds : Seq(Block), done : Nat]
                   /\ stack[k].var \in Var /\ stack[k].phi \in InstId /\ stack[k].done \in Nat
                   /\ stack[k].preds \in Seq(Block) /\ Len(stack[k].preds) \in Nat
              /\ stack[k].f = "check" => stack[k].todo \in Seq(InstId)
              /\ stack[k].f = "seal" =>
                   /\ stack[k] \in [f : {"seal"}, block : Block, todo : Seq(Var \X InstId)]
                   /\ stack[k].block \in Block /\ stack[k].todo \in Seq(Var \X InstId)
              /\ stack[k].f = "sealall" => stack[k].todo \in Seq(Block)
<1>1. Len(stack) \in Nat /\ \A k \in 1..Len(stack) : stack[k] \in FrameSet
  BY LenProperties DEF Types
<1>2. stack = <<>> <=> Len(stack) = 0
  BY EmptyIff DEF Types
<1>3. ASSUME NEW k \in 1..Len(stack)
      PROVE  /\ stack[k].f \in {"use", "result", "args", "check", "seal", "sealall"}
             /\ stack[k].f = "use" => stack[k].var \in Var /\ stack[k].block \in Block
             /\ stack[k].f = "result" => stack[k].phi \in InstId
             /\ stack[k].f = "args" =>
                  /\ stack[k] \in [f : {"args"}, var : Var, phi : InstId, preds : Seq(Block), done : Nat]
                  /\ stack[k].var \in Var /\ stack[k].phi \in InstId /\ stack[k].done \in Nat
                  /\ stack[k].preds \in Seq(Block)
             /\ stack[k].f = "check" => stack[k].todo \in Seq(InstId)
             /\ stack[k].f = "seal" =>
                  /\ stack[k] \in [f : {"seal"}, block : Block, todo : Seq(Var \X InstId)]
                  /\ stack[k].block \in Block /\ stack[k].todo \in Seq(Var \X InstId)
             /\ stack[k].f = "sealall" => stack[k].todo \in Seq(Block)
  <2> DEFINE x == stack[k]
  <2>1. x \in FrameSet
    BY <1>1
  <2> HIDE DEF x
  <2>2. CASE x \in [f : {"use"}, var : Var, block : Block]
    BY <2>2 DEF x
  <2>3. CASE x \in [f : {"result"}, phi : InstId]
    BY <2>3 DEF x
  <2>4. CASE x \in [f : {"args"}, var : Var, phi : InstId, preds : Seq(Block), done : Nat]
    BY <2>4 DEF x
  <2>5. CASE x \in [f : {"check"}, todo : Seq(InstId)]
    BY <2>5 DEF x
  <2>6. CASE x \in [f : {"seal"}, block : Block, todo : Seq(Var \X InstId)]
    BY <2>6 DEF x
  <2>7. CASE x \in [f : {"sealall"}, todo : Seq(Block)]
    BY <2>7 DEF x
  <2> QED BY <2>1, <2>2, <2>3, <2>4, <2>5, <2>6, <2>7 DEF FrameSet
<1>4. \A k \in 1..Len(stack) : stack[k].f = "args" => Len(stack[k].preds) \in Nat
  BY <1>3, LenProperties
<1> QED BY <1>1, <1>2, <1>3, <1>4

\* Keep keeps the elements that are in a set.
LEMMA KeepLemma ==
  ASSUME NEW S, NEW s \in Seq(S), NEW keep
  PROVE  /\ Keep(s, keep) \in Seq(S)
         /\ ToSet(Keep(s, keep)) = ToSet(s) \cap keep
<1> DEFINE parts == [k \in 1..Len(s) |-> IF s[k] \in keep THEN <<s[k]>> ELSE <<>>]
<1>0. Len(s) \in Nat /\ ToSet(s) = {s[k] : k \in 1..Len(s)} /\ \A k \in 1..Len(s) : s[k] \in S
  BY LenProperties DEF ToSet
<1>1. \A k \in 1..Len(s) : parts[k] \in Seq(S)
  BY <1>0
<1>2. parts \in Seq(Seq(S)) /\ Len(parts) = Len(s)
  BY <1>0, <1>1
<1>3. \A k \in 1..Len(s) : ToSet(parts[k]) = {s[k]} \cap keep
  <2> SUFFICES ASSUME NEW k \in 1..Len(s) PROVE ToSet(parts[k]) = {s[k]} \cap keep
    OBVIOUS
  <2>1. CASE s[k] \in keep
    <3>1. parts[k] = <<s[k]>>
      BY <2>1
    <3>2. ToSet(<<s[k]>>) = {s[k]}
      BY DEF ToSet
    <3> QED BY <3>1, <3>2, <2>1
  <2>2. CASE s[k] \notin keep
    <3>1. parts[k] = <<>>
      BY <2>2
    <3>2. ToSet(<<>>) = {}
      BY DEF ToSet
    <3> QED BY <3>1, <3>2, <2>2
  <2> QED BY <2>1, <2>2
<1>4. Keep(s, keep) = FlattenSeq(parts)
  BY DEF Keep
<1> HIDE DEF parts
<1>5. /\ FlattenSeq(parts) \in Seq(S)
      /\ ToSet(FlattenSeq(parts)) = UNION {ToSet(parts[k]) : k \in 1..Len(s)}
  BY <1>2, FlattenLemma
<1>6. UNION {ToSet(parts[k]) : k \in 1..Len(s)} = ToSet(s) \cap keep
  BY <1>0, <1>3
<1> QED BY <1>4, <1>5, <1>6

\* The layout scanned: exactly the live instructions.
LEMMA ScanLemma ==
  ASSUME Types, LaidOut
  PROVE  Scan \in Seq(InstId) /\ ToSet(Scan) = LiveIds /\ Live = LiveIds
<1> DEFINE s == [b \in Block |-> body[b]]
<1>1. Len(prog.dests) \in Nat /\ Block = 1..Len(prog.dests)
  BY ProgramLemma
<1>2. s \in Seq(Seq(InstId)) /\ Len(s) = Len(prog.dests) /\ \A b \in Block : s[b] = body[b]
  BY <1>1 DEF Types
<1>3. Scan = FlattenSeq(s)
  BY DEF Scan
<1> HIDE DEF s
<1>4. /\ FlattenSeq(s) \in Seq(InstId)
      /\ ToSet(FlattenSeq(s)) = UNION {ToSet(s[b]) : b \in Block}
  BY <1>1, <1>2, FlattenLemma
<1>5. UNION {ToSet(s[b]) : b \in Block} = UNION {{i \in LiveIds : BlockOf(i) = b} : b \in Block}
  BY <1>2 DEF LaidOut
<1>6. \A i \in LiveIds : BlockOf(i) \in Block
  BY InstLemma DEF LiveIds, BlockOf
<1> QED BY <1>3, <1>4, <1>5, <1>6 DEF Live

\* What change_to_alias modifies: the live instructions that use the value.
LEMMA ModifiedLemma ==
  ASSUME Types, LaidOut, NEW v
  PROVE  /\ Modified(v) \in Seq(InstId)
         /\ ToSet(Modified(v)) = {i \in LiveIds : v \in ValuesOf(insts[i])}
<1>1. DOMAIN insts = Made
  BY LenProperties DEF Types, Made
<1> QED BY <1>1, ScanLemma, KeepLemma DEF Modified, LiveIds

\* Following the aliases of a value ends at a live one.
LEMMA ResolveLemma ==
  ASSUME Types, AliasesEnd, NEW v \in Made
  PROVE  ResolveAlias(v) \in LiveIds
<1> DEFINE follow == [i \in InstId |-> IF i \in DOMAIN aliases THEN aliases[i] ELSE i]
           f == CHOOSE f : FollowsUp(f, follow, v, MaxInsts)
           card == Cardinality(DOMAIN aliases)
<1>1. /\ Len(insts) \in Nat /\ MaxInsts \in Nat /\ Len(insts) <= MaxInsts
      /\ Made \subseteq InstId /\ DOMAIN aliases \subseteq Made
      /\ \A i \in DOMAIN aliases : aliases[i] \in Made
  BY LenProperties, MaxInstsAssumption DEF Types, Made, InstId
<1>2. FollowsUp(f, follow, v, MaxInsts)
  BY <1>1, FollowsUpExists
<1>3. ResolveAlias(v) = f[MaxInsts]
  BY DEF ResolveAlias, FollowsUp
<1> HIDE DEF f
<1>4. \A n \in 0..MaxInsts : f[n] = IF n = 0 THEN v ELSE follow[f[n - 1]]
  BY <1>2 DEF FollowsUp
<1>5. \A i \in Made : follow[i] = IF i \in DOMAIN aliases THEN aliases[i] ELSE i
  BY <1>1
<1> HIDE DEF follow
<1>6. card \in Nat /\ card <= MaxInsts
  <2>1. IsFiniteSet(1..MaxInsts) /\ Cardinality(1..MaxInsts) = MaxInsts
    BY <1>1, FS_Interval
  <2>2. DOMAIN aliases \subseteq 1..MaxInsts
    BY <1>1 DEF Made
  <2> QED BY <2>1, <2>2, FS_Subset, FS_CardinalityType
<1> HIDE DEF card
<1>7. PICK time \in [DOMAIN aliases -> 1..card] :
        \A i \in DOMAIN aliases : aliases[i] \in DOMAIN aliases => time[i] < time[aliases[i]]
  BY DEF AliasesEnd, card
<1> DEFINE G == {n \in 0..MaxInsts : /\ f[n] \in Made
                                     /\ f[n] \in DOMAIN aliases => time[f[n]] > n}
<1>8. 0 \in G
  <2>1. f[0] = v
    BY <1>1, <1>4
  <2> QED BY <2>1, <1>1, <1>6, <1>7
<1>9. ASSUME NEW n \in 0..(MaxInsts - 1), n \in G
      PROVE  n + 1 \in G
  <2>1. n + 1 \in 0..MaxInsts /\ n + 1 # 0 /\ (n + 1) - 1 = n
    BY <1>1
  <2>2. f[n + 1] = follow[f[n]]
    BY <2>1, <1>4
  <2>3. f[n] \in Made /\ (f[n] \in DOMAIN aliases => time[f[n]] > n)
    BY <1>9
  <2> DEFINE u == f[n]
  <2> HIDE DEF u
  <2>4. f[n + 1] = IF u \in DOMAIN aliases THEN aliases[u] ELSE u
    BY <2>2, <2>3, <1>5 DEF u
  <2>5. CASE u \in DOMAIN aliases
    <3>1. f[n + 1] = aliases[u] /\ aliases[u] \in Made
      BY <2>4, <2>5, <1>1
    <3>2. ASSUME aliases[u] \in DOMAIN aliases PROVE time[aliases[u]] > n + 1
      <4>1. time[u] > n /\ time[u] < time[aliases[u]]
        BY <3>2, <2>3, <2>5, <1>7 DEF u
      <4>2. time[u] \in Nat /\ time[aliases[u]] \in Nat /\ n \in Nat
        BY <3>2, <2>5, <1>6, <1>7
      <4> QED BY <4>1, <4>2
    <3> QED BY <3>1, <3>2, <2>1
  <2>6. CASE u \notin DOMAIN aliases
    <3>1. f[n + 1] = u
      BY <2>4, <2>6
    <3> QED BY <3>1, <2>1, <2>3, <2>6 DEF u
  <2> QED BY <2>5, <2>6
<1> HIDE DEF G
<1>10. \A n \in 0..MaxInsts : n \in G
  BY <1>1, <1>8, <1>9, CountUp
<1>11. f[MaxInsts] \in Made /\ (f[MaxInsts] \in DOMAIN aliases => time[f[MaxInsts]] > MaxInsts)
  BY <1>10, <1>1 DEF G
<1>12. f[MaxInsts] \notin DOMAIN aliases
  BY <1>11, <1>7, <1>6, <1>1
<1> QED BY <1>3, <1>11, <1>12 DEF LiveIds

\* A value that has no alias is its own end.
LEMMA ResolveUnaliased ==
  ASSUME NEW v \in InstId, v \notin DOMAIN aliases
  PROVE  ResolveAlias(v) = v
<1> DEFINE follow == [i \in InstId |-> IF i \in DOMAIN aliases THEN aliases[i] ELSE i]
           f == CHOOSE f : FollowsUp(f, follow, v, MaxInsts)
           G == {n \in 0..MaxInsts : f[n] = v}
<1>1. FollowsUp(f, follow, v, MaxInsts)
  BY MaxInstsAssumption, FollowsUpExists
<1>2. ResolveAlias(v) = f[MaxInsts]
  BY DEF ResolveAlias, FollowsUp
<1> HIDE DEF f
<1>3. \A n \in 0..MaxInsts : f[n] = IF n = 0 THEN v ELSE follow[f[n - 1]]
  BY <1>1 DEF FollowsUp
<1>4. follow[v] = v
  OBVIOUS
<1> HIDE DEF follow
<1>5. 0 \in G
  BY <1>3, MaxInstsAssumption
<1>6. ASSUME NEW n \in 0..(MaxInsts - 1), n \in G
      PROVE  n + 1 \in G
  <2>1. n + 1 \in 0..MaxInsts /\ n + 1 # 0 /\ (n + 1) - 1 = n
    BY MaxInstsAssumption
  <2> QED BY <2>1, <1>3, <1>4, <1>6
<1> HIDE DEF G
<1>7. \A n \in 0..MaxInsts : n \in G
  BY MaxInstsAssumption, <1>5, <1>6, CountUp
<1>8. f[MaxInsts] = v
  BY <1>7, MaxInstsAssumption DEF G
<1> QED BY <1>2, <1>8

-----------------------------------------------------------------------------
(***************************************************************************)
(* Initial states, and the parts of the invariant that a step leaves alone *)
(* because it leaves alone what they speak about.                          *)
(***************************************************************************)
\* An empty function satisfies the invariant.
LEMMA InitSound == ASSUME Init PROVE IInv
<1> USE DEF Init
<1>1. Len(insts) = 0 /\ Len(stack) = 0 /\ Made = {} /\ LiveIds = {}
  BY DEF Made, LiveIds
<1>2. DOMAIN aliases = {}
  OBVIOUS
<1>3. prog \in Program /\ \A b \in Block : Len(prog.code[b]) \in Nat
  <2>1. prog \in Program
    OBVIOUS
  <2> DEFINE blocks == 1..Len(prog.dests)
  <2>2. prog.dests \in Seq(Seq(blocks)) /\ prog.code \in [blocks -> Seq(Op)]
    BY <2>1, ProgramAssumption DEF IsProgram
  <2>3. Block = blocks
    BY <2>2, LenProperties DEF Block
  <2> HIDE DEF blocks
  <2> QED BY <2>1, <2>2, <2>3, LenProperties
<1>4. Types
  <2>1. \A b \in Block : pc[b] = 0 /\ pc[b] <= Len(prog.code[b]) + 1
    BY <1>3
  <2>2. /\ insts \in Seq(Inst) /\ Len(insts) <= MaxInsts /\ stack \in Seq(FrameSet)
        /\ aliases \in [DOMAIN aliases -> Made] /\ DOMAIN aliases \subseteq Made
    BY <1>1, <1>2, MaxInstsAssumption
  <2>3. /\ body \in [Block -> Seq(InstId)] /\ preds \in [Block -> Seq(Block)]
        /\ incomplete \in [Block -> Seq(Var \X InstId)]
    OBVIOUS
  <2>4. defs \in [Block -> [Var -> 0..Len(insts)]] /\ pc \in [Block -> Nat]
    BY <1>1 DEF None
  <2>5. users \in [InstId -> SUBSET InstId] /\ sealed \in [Block -> BOOLEAN]
    OBVIOUS
  <2>6. ret \in 0..Len(insts) /\ held \in 0..Len(insts)
    BY <1>1 DEF None
  <2>7. cur \in Block \cup {None}
    OBVIOUS
  <2>8. panicked \in BOOLEAN
    OBVIOUS
  <2> HIDE DEF Init
  <2> QED BY <1>3, <2>1, <2>2, <2>3, <2>4, <2>5, <2>6, <2>7, <2>8 DEF Types
<1>5. GraphSound
  <2>1. \A b \in Block : ToSet(body[b]) = {}
    BY DEF ToSet
  <2>2. AliasesEnd
    <3>1. aliases \in [DOMAIN aliases -> 1..Cardinality(DOMAIN aliases)]
      BY <1>2
    <3> QED BY <1>2, <3>1 DEF AliasesEnd
  <2> QED BY <1>1, <2>1, <2>2 DEF GraphSound, LaidOut, ArgsMade, ArgsLive, UsersKnown
<1>6. \A f : At(f) = {}
  BY <1>1 DEF At
<1>7. StackSound
  BY <1>1, <1>6 DEF StackSound, StackShape, WellNested, ArgsSound, ResultsApart, TodoMade, Lookups
<1>8. PhisSound
  <2>1. UnderWay = {} /\ Complete = {}
    BY <1>1, <1>6 DEF UnderWay, Complete
  <2>2. \A b \in Block : incomplete[b] = <<>> /\ Len(incomplete[b]) = 0
    OBVIOUS
  <2> QED BY <1>6, <2>1, <2>2
          DEF PhisSound, PendingSound, CompleteSound, SealedClosed, ItemsSound, DistinctPhis
<1>9. ClientSound
  BY DEF ClientSound, RetSound, HeldSound, None
<1> QED BY <1>4, <1>5, <1>7, <1>8, <1>9 DEF IInv

\* A step that leaves the data flow graph and the aliases alone keeps them sound.
LEMMA GraphKept ==
  ASSUME GraphSound, UNCHANGED <<prog, insts, body, users, aliases>>
  PROVE  GraphSound'
  BY DEF GraphSound, LaidOut, ArgsMade, ArgsLive, UsersKnown, AliasesEnd, Made, LiveIds,
         BlockOf, Block, ValuesOf

\* The frames of one kind are where they were.
SameFrames(f) == At(f)' = At(f) /\ \A k \in At(f) : stack'[k] = stack[k]

\* Sealing goes on: definitions and filled blocks only become more.
DefsKept == \A b \in Block : \A x \in Var : defs[b][x] # None => defs'[b][x] # None
FilledKept == \A b \in Block : Filled(b) => Filled(b)'
TodoKept ==
  \A phi \in Complete : IsTrivial(phi) /\ (\E k \in At("check") : phi \in ToSet(stack[k].todo))
     => \E k \in At("check")' : phi \in ToSet(stack'[k].todo)

\* Filling more blocks and sealing none keeps sealed blocks closed.
LEMMA SealedClosedKept ==
  ASSUME SealedClosed, UNCHANGED <<prog, sealed>>, FilledKept,
         SameFrames("seal"), SameFrames("sealall") \/ AllFilled
  PROVE  SealedClosed' /\ \A b \in Block : Closed(b) => Closed(b)'
  BY DEF SealedClosed, Closed, FilledKept, SameFrames, AllFilled, Block

\* A step that leaves the graph, the predecessors and the seals alone keeps the phis
\* sound, if no definition is undone and no trivial phi drops out of the lists to check.
LEMMA PhisKept ==
  ASSUME Types, PhisSound, UNCHANGED <<prog, insts, aliases, preds, sealed, incomplete>>,
         DefsKept, FilledKept, TodoKept,
         SameFrames("args"), SameFrames("seal"), SameFrames("sealall") \/ AllFilled
  PROVE  PhisSound'
<1>1. SealedClosed' /\ \A b \in Block : Closed(b) => Closed(b)'
  BY SealedClosedKept DEF PhisSound
<1>2. Made' = Made /\ LiveIds' = LiveIds /\ Block' = Block /\ \A i : BlockOf(i)' = BlockOf(i)
  BY DEF Made, LiveIds, Block, BlockOf
<1>3. UnderWay' = UnderWay /\ Pending' = Pending
  BY <1>2 DEF UnderWay, Pending, SameFrames, PhisOf
<1>4. ASSUME NEW b \in Block, NEW items \in Seq(Var \X InstId), ItemsSound(b, items)
      PROVE  ItemsSound(b, items)'
  <2>1. \A n \in 1..Len(items) : items[n][1] \in Var
    BY LenProperties
  <2> QED BY <1>2, <1>4, <2>1 DEF ItemsSound, DistinctPhis, ItemSound, DefsKept
<1>5. PendingSound'
  <2>1. \A b \in Block : incomplete[b] \in Seq(Var \X InstId)
    BY DEF Types
  <2>2. \A k \in At("seal") : stack[k].block \in Block /\ stack[k].todo \in Seq(Var \X InstId)
    BY FrameLemma DEF At
  <2> QED BY <1>2, <1>3, <1>4, <2>1, <2>2 DEF PendingSound, SameFrames, PhisSound
<1>6. CompleteSound'
  <2>1. Complete' = Complete
    BY <1>2, <1>3 DEF Complete
  <2> SUFFICES ASSUME NEW phi \in Complete
               PROVE  (/\ Closed(BlockOf(phi))
                       /\ \A k \in At("args") : BlockOf(stack[k].phi) = BlockOf(phi) => ArgPreds(phi) = stack[k].preds
                       /\ (\A k \in At("args") : BlockOf(stack[k].phi) # BlockOf(phi))
                            => ArgPreds(phi) = preds[BlockOf(phi)]
                       /\ IsTrivial(phi) => \E k \in At("check") : phi \in ToSet(stack[k].todo))'
    BY <2>1 DEF CompleteSound
  <2>2. BlockOf(phi) \in Block
    BY InstLemma DEF Complete, BlockOf, LiveIds
  <2>3. ArgPreds(phi)' = ArgPreds(phi) /\ IsTrivial(phi)' = IsTrivial(phi)
    BY DEF ArgPreds, IsTrivial, Others, ValuesOf
  <2> QED BY <1>1, <1>2, <2>2, <2>3 DEF CompleteSound, PhisSound, SameFrames, TodoKept
<1> QED BY <1>1, <1>5, <1>6 DEF PhisSound

\* Calls stay nested when the innermost one returns, is replaced or calls another.
LEMMA NestedPop ==
  ASSUME NEW S, NEW s \in Seq(S), s # <<>>, WellNested(s), NEW t \in Seq(S), Popped(t, s)
  PROVE  WellNested(t)
<1> DEFINE n == Len(s)
<1>1. n \in Nat \ {0} /\ Len(t) = n - 1 /\ \A k \in 1..(n - 1) : t[k] = s[k]
  BY NotEmpty DEF Popped
<1>2. t # <<>> => t[1] = s[1]
  BY <1>1, NotEmpty
<1>3. ASSUME NEW k \in 2..(n - 1)
      PROVE  <<t[k - 1].f, t[k].f>> \in Below
  <2>1. k \in 2..n /\ k - 1 \in 1..(n - 1) /\ k \in 1..(n - 1)
    BY <1>1
  <2> QED BY <1>1, <2>1 DEF WellNested
<1>4. ASSUME NEW k \in 1..(n - 1), t[k].f = "check", NEW j \in k..(n - 1)
      PROVE  t[j].f = "check"
  <2>1. k \in 1..n /\ j \in k..n /\ j \in 1..(n - 1)
    BY <1>1
  <2> QED BY <1>1, <1>4, <2>1 DEF WellNested
<1>5. ASSUME NEW k \in 1..(n - 1), t[k].f = "seal"
      PROVE  k = 1 \/ (k = 2 /\ t[1].f = "sealall")
  BY <1>1, <1>5 DEF WellNested
<1> QED BY <1>1, <1>2, <1>3, <1>4, <1>5 DEF WellNested

\* Replacing the top keeps the nesting if its caller may call the new frame.
LEMMA NestedReplace ==
  ASSUME NEW S, NEW s \in Seq(S), s # <<>>, WellNested(s), NEW t \in Seq(S), NEW x, Replaced(t, s, x),
         Len(s) = 1 => x.f \in {"use", "result", "seal", "sealall"},
         Len(s) > 1 => <<s[Len(s) - 1].f, x.f>> \in Below
  PROVE  WellNested(t)
<1> DEFINE n == Len(s)
<1>1. n \in Nat \ {0} /\ Len(t) = n /\ t[n] = x /\ \A k \in 1..(n - 1) : t[k] = s[k]
  BY NotEmpty DEF Replaced
<1>2. t[1].f \in {"use", "result", "seal", "sealall"}
  BY <1>1 DEF WellNested
<1>3. ASSUME NEW k \in 2..n
      PROVE  <<t[k - 1].f, t[k].f>> \in Below
  <2>1. k - 1 \in 1..(n - 1) /\ t[k - 1] = s[k - 1]
    BY <1>1
  <2>2. CASE k = n
    BY <1>1, <2>1, <2>2
  <2>3. CASE k # n
    BY <1>1, <2>1, <2>3 DEF WellNested
  <2> QED BY <2>2, <2>3
<1>4. ASSUME NEW k \in 1..n, t[k].f = "check", NEW j \in k..n
      PROVE  t[j].f = "check"
  <2>1. CASE k = n
    BY <1>1, <1>4, <2>1
  <2>2. CASE k # n
    <3>1. k \in 1..(n - 1) /\ s[k].f = "check"
      BY <1>1, <1>4, <2>2
    <3>2. \A i \in k..(n - 1) : t[i] = s[i] /\ s[i].f = "check"
      BY <1>1, <3>1 DEF WellNested
    <3>3. CASE j = n
      <4>1. n - 1 \in k..(n - 1) /\ n > 1
        BY <1>1, <3>1
      <4>2. <<"check", x.f>> \in Below
        BY <3>2, <4>1
      <4> QED BY <1>1, <3>3, <4>2 DEF Below
    <3>4. CASE j # n
      BY <1>1, <3>2, <3>4
    <3> QED BY <3>3, <3>4
  <2> QED BY <2>1, <2>2
<1>5. \A k \in 2..n : s[k].f # "sealall"
  BY DEF WellNested, Below
<1>6. ASSUME NEW k \in 1..n, t[k].f = "seal"
      PROVE  k = 1 \/ (k = 2 /\ t[1].f = "sealall")
  <2>1. CASE k = n
    <3> SUFFICES ASSUME n > 1 PROVE k = 2 /\ t[1].f = "sealall"
      BY <1>1, <2>1
    <3>1. s[n - 1].f = "sealall" /\ n - 1 \in 1..(n - 1) /\ n - 1 \in 1..n
      BY <1>1, <1>6, <2>1 DEF Below
    <3>2. n - 1 = 1
      BY <1>1, <1>5, <3>1
    <3> QED BY <1>1, <2>1, <3>1, <3>2
  <2>2. CASE k # n
    BY <1>1, <1>6, <2>2 DEF WellNested
  <2> QED BY <2>1, <2>2
<1> QED BY <1>1, <1>2, <1>3, <1>4, <1>6 DEF WellNested

\* Pushing keeps the nesting if the top may call the new frame.
LEMMA NestedPush ==
  ASSUME NEW S, NEW s \in Seq(S), WellNested(s), NEW t \in Seq(S), NEW x, Pushed(t, s, x),
         s = <<>> => x.f \in {"use", "result", "seal", "sealall"},
         s # <<>> => <<s[Len(s)].f, x.f>> \in Below
  PROVE  WellNested(t)
<1> DEFINE n == Len(s)
<1>1. n \in Nat /\ Len(t) = n + 1 /\ t[n + 1] = x /\ \A k \in 1..n : t[k] = s[k]
  BY LenProperties DEF Pushed
<1>2. s = <<>> <=> n = 0
  BY EmptyIff
<1>3. t[1].f \in {"use", "result", "seal", "sealall"}
  BY <1>1, <1>2 DEF WellNested
<1>4. ASSUME NEW k \in 2..(n + 1)
      PROVE  <<t[k - 1].f, t[k].f>> \in Below
  <2>1. k - 1 \in 1..n /\ t[k - 1] = s[k - 1]
    BY <1>1
  <2>2. CASE k = n + 1
    <3>1. k - 1 = n /\ t[k] = x
      BY <1>1, <2>2
    <3>2. t[k - 1] = s[n] /\ s # <<>>
      BY <1>1, <1>2, <2>1, <3>1
    <3> QED BY <3>1, <3>2
  <2>3. CASE k # n + 1
    BY <1>1, <2>1, <2>3 DEF WellNested
  <2> QED BY <2>2, <2>3
<1>5. ASSUME NEW k \in 1..(n + 1), t[k].f = "check", NEW j \in k..(n + 1)
      PROVE  t[j].f = "check"
  <2>1. CASE k = n + 1
    BY <1>1, <1>5, <2>1
  <2>2. CASE k # n + 1
    <3>1. k \in 1..n /\ s[k].f = "check"
      BY <1>1, <1>5, <2>2
    <3>2. \A i \in k..n : t[i] = s[i] /\ s[i].f = "check"
      BY <1>1, <3>1 DEF WellNested
    <3>3. CASE j = n + 1
      <4>1. n \in k..n /\ s # <<>>
        BY <1>1, <1>2, <3>1
      <4>2. <<"check", x.f>> \in Below
        BY <3>2, <4>1
      <4> QED BY <1>1, <3>3, <4>2 DEF Below
    <3>4. CASE j # n + 1
      BY <1>1, <3>2, <3>4
    <3> QED BY <3>3, <3>4
  <2> QED BY <2>1, <2>2
<1>6. \A k \in 2..n : s[k].f # "sealall"
  BY DEF WellNested, Below
<1>7. ASSUME NEW k \in 1..(n + 1), t[k].f = "seal"
      PROVE  k = 1 \/ (k = 2 /\ t[1].f = "sealall")
  <2>1. CASE k = n + 1
    <3> SUFFICES ASSUME n > 0 PROVE k = 2 /\ t[1].f = "sealall"
      BY <1>1, <2>1
    <3>1. s[n].f = "sealall" /\ n \in 1..n
      BY <1>1, <1>2, <1>7, <2>1 DEF Below
    <3>2. n = 1
      <4>1. ASSUME n # 1 PROVE FALSE
        <5>1. n \in Nat /\ n > 0
          BY <1>1
        <5> HIDE DEF n
        <5>2. n >= 2
          BY <4>1, <5>1
        <5>3. n \in 2..n
          BY <5>1, <5>2
        <5> QED BY <5>3, <1>6, <3>1 DEF n
      <4> QED BY <4>1
    <3> QED BY <1>1, <2>1, <3>1, <3>2
  <2>2. CASE k # n + 1
    BY <1>1, <1>7, <2>2 DEF WellNested
  <2> QED BY <2>1, <2>2
<1> QED BY <1>1, <1>3, <1>4, <1>5, <1>7 DEF WellNested

\* The frames that hold phis stay sound while the graph does not change.
SameCallers ==
  \A k \in At("args") : k > 1 =>
    /\ stack'[k - 1].f = stack[k - 1].f
    /\ stack[k - 1].f = "result" => stack'[k - 1].phi = stack[k - 1].phi
    /\ stack[k - 1].f = "seal" => stack'[k - 1].block = stack[k - 1].block

\* The calls of add_phi_args stay sound if their frames and their callers stay.
LEMMA ArgsKept ==
  ASSUME Types, ArgsSound, UNCHANGED <<insts, aliases, preds>>, DefsKept,
         \A b \in Block : sealed[b] => sealed'[b],
         SameFrames("args"), SameCallers,
         \A k \in At("args") : k < Len(stack') =>
           k < Len(stack) \/ stack[k].done < Len(stack[k].preds),
         \A j, k \in Lookups' : stack'[j].var = stack'[k].var
  PROVE  ArgsSound'
<1>1. ASSUME NEW k \in At("args")'
      PROVE  ArgsFrameSound(k)'
  <2>1. k \in At("args") /\ stack'[k] = stack[k] /\ k \in 1..Len(stack)
    BY DEF SameFrames, At
  <2>2. ArgsFrameSound(k)
    BY <2>1 DEF ArgsSound
  <2>3. insts[stack[k].phi].block \in Block
    BY <2>2, InstLemma DEF ArgsFrameSound
  <2>4. stack[k].var \in Var
    BY <2>1, FrameLemma DEF At
  <2>5. LiveIds' = LiveIds
    BY DEF LiveIds, Made
  <2>6. k < Len(stack') => stack[k].done < Len(stack[k].preds)
    BY <2>1, <2>2 DEF ArgsFrameSound
  <2>7. defs'[insts[stack[k].phi].block][stack[k].var] # None
    BY <2>2, <2>3, <2>4 DEF ArgsFrameSound, DefsKept, BlockOf
  <2>8. k > 1 /\ stack'[k - 1].f = "result" =>
          stack'[k - 1].phi = stack[k].phi /\ sealed'[insts[stack[k].phi].block]
    BY <2>1, <2>2, <2>3 DEF ArgsFrameSound, BlockOf, SameCallers
  <2>9. k > 1 /\ stack'[k - 1].f = "seal" => stack'[k - 1].block = insts[stack[k].phi].block
    BY <2>1, <2>2, <2>3 DEF ArgsFrameSound, BlockOf, SameCallers
  <2> QED BY <2>1, <2>2, <2>5, <2>6, <2>7, <2>8, <2>9, SMTT(40) DEF ArgsFrameSound, BlockOf
<1>2. \A j, k \in At("args")' : j # k => insts'[stack'[j].phi].block # insts'[stack'[k].phi].block
  BY DEF SameFrames, ArgsSound, BlockOf
<1> QED BY <1>1, <1>2 DEF ArgsSound, BlockOf

\* Nothing new becomes reachable for a lookup that waits, if only lists to check shrink.
LEMMA ResultsKept ==
  ASSUME Types, ResultsApart, TodoMade, UNCHANGED insts, SameFrames("args"), SameFrames("result"),
         \A k \in At("check")' : k \in At("check") /\ ToSet(stack'[k].todo) \subseteq ToSet(stack[k].todo)
  PROVE  ResultsApart' /\ TodoMade'
<1>1. Made' = Made /\ \A i : ValuesOf(insts[i])' = ValuesOf(insts[i])
  BY DEF Made, ValuesOf
<1>2. ASSUME NEW k \in At("result")'
      PROVE  ResultApart(k)'
  <2>1. k \in At("result") /\ stack'[k] = stack[k]
    BY DEF SameFrames
  <2>2. ResultApart(k)
    BY <2>1 DEF ResultsApart
  <2> QED BY <1>1, <2>1, <2>2 DEF ResultApart, SameFrames
<1>3. TodoMade'
  BY <1>1 DEF TodoMade
<1> QED BY <1>2, <1>3 DEF ResultsApart

\* Returning from a call leaves the calls below it as they were.
LEMMA PopKept ==
  ASSUME Types, StackSound, stack # <<>>, Popped(stack', stack), stack' \in Seq(FrameSet),
         Top.f # "args",
         UNCHANGED <<prog, insts, aliases, preds, defs, cur, pc>>,
         \A b \in Block : sealed[b] => sealed'[b]
  PROVE  StackSound'
<1> DEFINE n == Len(stack)
<1>1. /\ n \in Nat \ {0} /\ Len(stack') = n - 1 /\ \A k \in 1..(n - 1) : stack'[k] = stack[k]
      /\ Top = stack[n]
  BY NotEmpty DEF Types, Popped, Top, Last
<1>2. \A f : At(f)' = At(f) \ {n}
  BY <1>1 DEF At
<1>3. \A k \in 1..n : k # n => k \in 1..(n - 1) /\ stack'[k] = stack[k]
  BY <1>1
<1>4. \A f : At(f) \subseteq 1..n
  BY DEF At
<1>5. SameFrames("args")
  BY <1>1, <1>2, <1>3, <1>4 DEF SameFrames, At
<1>6. StackShape'
  <2>1. Reading' = Reading
    BY DEF Reading
  <2>2. WellNested(stack')
    BY NestedPop DEF Types, StackSound, StackShape
  <2>3. stack' # <<>> => stack'[1] = stack[1]
    BY <1>1, NotEmpty
  <2> QED BY <2>1, <2>2, <2>3 DEF StackSound, StackShape
<1>7. ArgsSound'
  <2>1. SameCallers
    BY <1>1, <1>2, <1>4, <1>5 DEF SameCallers, SameFrames, At
  <2>2. \A j, k \in Lookups' : stack'[j].var = stack'[k].var
    BY <1>1, <1>3 DEF StackSound, ArgsSound, Lookups
  <2>3. \A k \in At("args") : k < Len(stack') => k < n
    BY <1>1, <1>4
  <2> QED BY <1>5, <2>1, <2>2, <2>3, ArgsKept DEF StackSound, DefsKept
<1>8. ResultsApart' /\ TodoMade'
  <2>1. Made' = Made /\ \A i : ValuesOf(insts[i])' = ValuesOf(insts[i])
    BY DEF Made, ValuesOf
  <2>2. ASSUME NEW k \in At("result")'
        PROVE  ResultApart(k)'
    <3>1. k \in At("result") /\ stack'[k] = stack[k]
      BY <1>2, <1>3, <1>4
    <3>2. ResultApart(k)
      BY <3>1 DEF StackSound, ResultsApart
    <3> QED BY <2>1, <1>2, <1>3, <1>4, <3>1, <3>2 DEF ResultApart
  <2>3. TodoMade'
    BY <2>1, <1>2, <1>3, <1>4 DEF StackSound, TodoMade
  <2> QED BY <2>2, <2>3 DEF ResultsApart
<1> QED BY <1>6, <1>7, <1>8 DEF StackSound

\* The frames after a call, and after the innermost frame has changed.
LEMMA PushFrames ==
  ASSUME Types, NEW x, Pushed(stack', stack, x)
  PROVE  /\ \A f : f # x.f => SameFrames(f)
         /\ \A f : f = x.f => At(f)' = At(f) \cup {Len(stack) + 1}
         /\ \A k \in 1..Len(stack) : stack'[k] = stack[k]
         /\ \A f : At(f) \subseteq 1..Len(stack)
         /\ SameCallers /\ Lookups \subseteq Lookups'
         /\ Lookups' \subseteq Lookups \cup {Len(stack) + 1}
         /\ x.f \notin {"use", "args"} => Lookups' = Lookups
<1> DEFINE n == Len(stack)
<1>1. n \in Nat /\ Len(stack') = n + 1 /\ stack'[n + 1] = x /\ \A k \in 1..n : stack'[k] = stack[k]
  BY LenProperties DEF Types, Pushed
<1>2. 1..(n + 1) = (1..n) \cup {n + 1} /\ n + 1 \notin 1..n
  BY <1>1
<1> HIDE DEF n
<1>3. \A f : f # x.f => SameFrames(f)
  BY <1>1, <1>2 DEF SameFrames, At, n
<1>4. \A f : f = x.f => At(f)' = At(f) \cup {n + 1}
  BY <1>1, <1>2 DEF At, n
<1>5. \A f : At(f) \subseteq 1..n
  BY DEF At, n
<1>6. SameCallers
  <2>1. \A k \in At("args") : k > 1 => k - 1 \in 1..n
    BY <1>1 DEF At, n
  <2> QED BY <1>1, <2>1 DEF SameCallers
<1>7. /\ Lookups \subseteq Lookups' /\ Lookups' \subseteq Lookups \cup {n + 1}
      /\ x.f \notin {"use", "args"} => Lookups' = Lookups
  BY <1>1, <1>2 DEF Lookups, n
<1> QED BY <1>1, <1>3, <1>4, <1>5, <1>6, <1>7 DEF n

\* Where the frames of each kind are after the top is replaced.
LEMMA ReplaceFrames ==
  ASSUME Types, stack # <<>>, NEW x, Replaced(stack', stack, x)
  PROVE  /\ \A f : f # x.f /\ f # Top.f => SameFrames(f)
         /\ \A f : f = x.f => At(f)' = At(f) \cup {Len(stack)}
         /\ \A f : f = Top.f /\ f # x.f => At(f)' = At(f) \ {Len(stack)}
         /\ \A k \in 1..Len(stack) : k # Len(stack) => stack'[k] = stack[k]
         /\ \A f : At(f) \subseteq 1..Len(stack)
         /\ SameCallers
         /\ Lookups' \subseteq Lookups \cup {Len(stack)}
         /\ x.f \notin {"use", "args"} => Lookups' \subseteq Lookups \ {Len(stack)}
<1> DEFINE n == Len(stack)
<1>1. /\ n \in Nat \ {0} /\ Len(stack') = n /\ stack'[n] = x /\ Top = stack[n]
      /\ \A k \in 1..n : k # n => stack'[k] = stack[k]
  <2>1. n \in Nat \ {0} /\ Top = stack[n]
    BY NotEmpty DEF Types, Top, Last
  <2>2. \A k \in 1..n : k # n => k \in 1..(n - 1)
    BY <2>1
  <2> QED BY <2>1, <2>2 DEF Replaced
<1> HIDE DEF n
<1>2. \A f : f # x.f /\ f # Top.f => SameFrames(f)
  BY <1>1 DEF SameFrames, At, n
<1>3. \A f : f = x.f => At(f)' = At(f) \cup {n}
  BY <1>1 DEF At, n
<1>4. \A f : f = Top.f /\ f # x.f => At(f)' = At(f) \ {n}
  BY <1>1 DEF At, n
<1>5. \A f : At(f) \subseteq 1..n
  BY DEF At, n
<1>6. SameCallers
  <2>1. \A k \in At("args") : k > 1 => k - 1 \in 1..n /\ k - 1 # n
    BY <1>1 DEF At, n
  <2> QED BY <1>1, <2>1 DEF SameCallers
<1>7. /\ Lookups' \subseteq Lookups \cup {n}
      /\ x.f \notin {"use", "args"} => Lookups' \subseteq Lookups \ {n}
  BY <1>1 DEF Lookups, n
<1> QED BY <1>1, <1>2, <1>3, <1>4, <1>5, <1>6, <1>7 DEF n

\* What does not depend on the stack, while the graph does not change.
LEMMA QuietKept ==
  ASSUME IInv, UNCHANGED <<prog, insts, body, users, aliases, panicked>>,
         stack' \in Seq(FrameSet)
  PROVE  /\ GraphSound'
         /\ Block' = Block /\ Made' = Made /\ LiveIds' = LiveIds
         /\ /\ preds' \in [Block -> Seq(Block)]
            /\ sealed' \in [Block -> BOOLEAN]
            /\ defs' \in [Block -> [Var -> 0..Len(insts)]]
            /\ incomplete' \in [Block -> Seq(Var \X InstId)]
            /\ ret' \in 0..Len(insts)
            /\ cur' \in Block \cup {None}
            /\ pc' \in [Block -> Nat]
            /\ \A b \in Block : pc'[b] <= Len(prog.code[b]) + 1
            /\ held' \in 0..Len(insts)
            => Types'
<1>1. Block' = Block /\ Made' = Made /\ LiveIds' = LiveIds
  BY DEF Block, Made, LiveIds
<1>2. FrameSet' = FrameSet /\ Inst' = Inst
  BY <1>1 DEF FrameSet, Inst, Arg
<1>3. GraphSound'
  BY GraphKept DEF IInv
<1> QED BY <1>1, <1>2, <1>3 DEF IInv, Types

-----------------------------------------------------------------------------
(***************************************************************************)
(* use_var: each step keeps the invariant.                                 *)
(***************************************************************************)

\* What a call on top of the stack knows of its caller.
LEMMA TopLemma ==
  ASSUME Types, stack # <<>>
  PROVE  /\ Len(stack) \in Nat \ {0} /\ Len(stack) \in 1..Len(stack)
         /\ Top = stack[Len(stack)]
         /\ Pop \in Seq(FrameSet) /\ Popped(Pop, stack)
         /\ \A x \in FrameSet :
              /\ Push(x) \in Seq(FrameSet) /\ Pushed(Push(x), stack, x)
              /\ ReplaceTop(x) \in Seq(FrameSet) /\ Replaced(ReplaceTop(x), stack, x)
<1>1. stack \in Seq(FrameSet)
  BY DEF Types
<1>2. Len(stack) \in Nat \ {0} /\ Len(stack) \in 1..Len(stack)
  BY <1>1, NotEmpty
<1>3. Top = stack[Len(stack)]
  BY DEF Top, Last
<1>4. Pop \in Seq(FrameSet) /\ Popped(Pop, stack)
  BY <1>1, FrontLemma DEF Pop
<1>5. ASSUME NEW x \in FrameSet
      PROVE  /\ Push(x) \in Seq(FrameSet) /\ Pushed(Push(x), stack, x)
             /\ ReplaceTop(x) \in Seq(FrameSet) /\ Replaced(ReplaceTop(x), stack, x)
  BY <1>1, PushLemma, ReplaceLemma DEF Push, ReplaceTop, Pop
<1> QED BY <1>2, <1>3, <1>4, <1>5

\* Returning a live value from a call of use_var (its frame is not one of those that
\* hold phis) to the frontend or to add_phi_args.
LEMMA ReturnSound ==
  ASSUME IInv, stack # <<>>, Top.f \in {"use", "result"}, stack' = Pop,
         ret' \in LiveIds, UNCHANGED <<prog, dfg, ssa, panicked, client>>
  PROVE  IInv'
<1> DEFINE n == Len(stack)
<1>0. Types /\ GraphSound /\ StackSound /\ PhisSound /\ ClientSound
  BY DEF IInv
<1>1. /\ n \in Nat \ {0} /\ Top = stack[n] /\ stack' \in Seq(FrameSet)
      /\ Len(stack') = n - 1 /\ \A k \in 1..(n - 1) : stack'[k] = stack[k]
  BY <1>0, TopLemma DEF Popped
<1>2. \A f : f # Top.f => SameFrames(f)
  BY <1>1 DEF SameFrames, At
<1>3. UNCHANGED <<prog, insts, body, users, aliases, preds, sealed, defs, incomplete, panicked, cur, pc, held>>
  BY DEF dfg, ssa, client
<1>4. Block' = Block /\ Made' = Made /\ LiveIds' = LiveIds
  BY <1>3 DEF Block, Made, LiveIds
<1>5. Types'
  <2>1. ret' \in 0..Len(insts)
    BY <1>0, InstLemma DEF Made
  <2>2. FrameSet' = FrameSet /\ Inst' = Inst
    BY <1>4 DEF FrameSet, Inst, Arg
  <2> QED BY <1>0, <1>1, <1>3, <1>4, <2>1, <2>2 DEF Types
<1>6. GraphSound'
  BY <1>0, <1>3, GraphKept
<1>7. StackSound'
  BY <1>0, <1>1, <1>3, PopKept DEF Popped
<1>8. PhisSound'
  <2>1. TodoKept
    BY <1>2 DEF TodoKept, SameFrames
  <2>2. DefsKept /\ FilledKept
    BY <1>3 DEF DefsKept, FilledKept, Filled
  <2> QED BY <1>0, <1>2, <1>3, <2>1, <2>2, PhisKept
<1>9. ClientSound'
  <2>1. HeldSound'
    BY <1>0, <1>3, <1>4 DEF ClientSound, HeldSound
  <2>2. Reading' = Reading
    BY <1>3 DEF Reading
  <2>3. ASSUME stack' = <<>> PROVE Reading'
    <3>1. n = 1
      BY <1>1, <2>3, EmptyIff
    <3> QED BY <1>0, <1>1, <2>2, <3>1 DEF StackSound, StackShape
  <2>4. ASSUME stack' # <<>>
        PROVE  (Top.f = "args" /\ Top.done < Len(Top.preds))'
    <3>1. n - 1 \in 1..(n - 1) /\ n \in 2..n /\ n - 1 \in 1..n
      BY <1>1, <2>4, EmptyIff
    <3>2. Top' = stack[n - 1]
      BY <1>1, <3>1 DEF Top, Last
    <3>3. stack[n - 1].f = "args"
      BY <1>0, <1>1, <3>1 DEF StackSound, StackShape, WellNested, Below
    <3>4. stack[n - 1].done < Len(stack[n - 1].preds)
      BY <1>0, <1>1, <3>1, <3>3 DEF StackSound, ArgsSound, ArgsFrameSound, At
    <3> QED BY <3>2, <3>3, <3>4
  <2>5. RetSound'
    BY <1>4, <2>3, <2>4 DEF RetSound
  <2> QED BY <2>1, <2>5 DEF ClientSound
<1> QED BY <1>5, <1>6, <1>7, <1>8, <1>9 DEF IInv

\* use_var returns the definition of the block.
LEMMA UseVarLocalSound == ASSUME IInv, UseVarLocal PROVE IInv'
<1>1. Types /\ GraphSound /\ stack # <<>> /\ Top.f = "use"
  BY DEF IInv, UseVarLocal, Running, Frame
<1>2. Top.block \in Block /\ Top.var \in Var
  BY <1>1, TopLemma, FrameLemma
<1>3. defs[Top.block][Top.var] \in Made
  BY <1>1, <1>2, InstLemma DEF Types, UseVarLocal, Made, None
<1>4. ResolveAlias(defs[Top.block][Top.var]) \in LiveIds
  BY <1>1, <1>3, ResolveLemma DEF GraphSound
<1> QED BY <1>1, <1>4, ReturnSound DEF UseVarLocal

\* use_var returns the phi it has made.
LEMMA UseVarResultSound == ASSUME IInv, UseVarResult PROVE IInv'
<1>1. Types /\ GraphSound /\ stack # <<>> /\ Top.f = "result"
  BY DEF IInv, UseVarResult, Running, Frame
<1>2. Top.phi \in Made
  BY <1>1, TopLemma DEF IInv, StackSound, ResultsApart, ResultApart, At
<1>3. ResolveAlias(Top.phi) \in LiveIds
  BY <1>1, <1>2, ResolveLemma DEF GraphSound
<1> QED BY <1>1, <1>3, ReturnSound DEF UseVarResult

\* A single predecessor is asked instead.
LEMMA UseVarSinglePredSound == ASSUME IInv, UseVarSinglePred PROVE IInv'
<1> DEFINE n == Len(stack)
           x == UseFrame(Top.var, preds[Top.block][1])
<1>0. Types /\ GraphSound /\ StackSound /\ PhisSound /\ ClientSound
  BY DEF IInv
<1>1. /\ stack # <<>> /\ Top.f = "use" /\ Len(preds[Top.block]) = 1
      /\ stack' = ReplaceTop(x)
      /\ UNCHANGED <<prog, insts, body, users, aliases, preds, sealed, defs, incomplete, ret, panicked, cur, pc, held>>
  BY DEF UseVarSinglePred, NoLocal, Running, Frame, dfg, ssa, client
<1>2. n \in Nat \ {0} /\ n \in 1..n /\ Top = stack[n] /\ Top.block \in Block /\ Top.var \in Var
  BY <1>0, <1>1, TopLemma, FrameLemma
<1>3. preds[Top.block][1] \in Block
  <2>1. preds[Top.block] \in Seq(Block)
    BY <1>0, <1>2 DEF Types
  <2> QED BY <1>1, <2>1, LenProperties
<1>4. x \in FrameSet /\ x.f = "use" /\ x.var = Top.var
  BY <1>2, <1>3 DEF FrameSet, UseFrame
<1> HIDE DEF x
<1>5. stack' \in Seq(FrameSet) /\ Replaced(stack', stack, x)
  BY <1>0, <1>1, <1>4, TopLemma
<1>6. /\ \A f : SameFrames(f) \/ f = "use"
      /\ SameCallers /\ Lookups' \subseteq Lookups \cup {n}
      /\ \A k \in 1..n : k # n => stack'[k] = stack[k]
      /\ stack'[n] = x /\ Len(stack') = n
  BY <1>0, <1>1, <1>4, <1>5, ReplaceFrames DEF Replaced
<1>7. Types' /\ GraphSound'
  BY <1>0, <1>1, <1>5, QuietKept DEF Types
<1>8. StackSound'
  <2>1. WellNested(stack')
    <3>1. n > 1 => n \in 2..n /\ <<stack[n - 1].f, x.f>> \in Below
      BY <1>0, <1>1, <1>2, <1>4 DEF StackSound, StackShape, WellNested
    <3> QED BY <1>0, <1>1, <1>4, <1>5, <3>1, NestedReplace DEF Types, StackSound, StackShape
  <2>2. StackShape'
    BY <1>0, <1>1, <1>2, <1>4, <1>6, <2>1 DEF StackSound, StackShape, Reading
  <2>3. \A j, k \in Lookups' : stack'[j].var = stack'[k].var
    <3>1. n \in Lookups
      BY <1>1, <1>2 DEF Lookups
    <3> QED BY <1>0, <1>2, <1>4, <1>6, <3>1 DEF StackSound, ArgsSound, Lookups
  <2>4. ArgsSound'
    <3>1. DefsKept /\ \A k \in At("args") : k < Len(stack') => k < Len(stack)
      BY <1>1, <1>6 DEF DefsKept
    <3> QED BY <1>0, <1>1, <1>6, <2>3, <3>1, ArgsKept DEF StackSound
  <2>5. ResultsApart' /\ TodoMade'
    BY <1>0, <1>1, <1>6, ResultsKept DEF StackSound, SameFrames
  <2> QED BY <2>2, <2>4, <2>5 DEF StackSound
<1>9. PhisSound'
  <2>1. TodoKept /\ DefsKept /\ FilledKept
    BY <1>1, <1>6 DEF TodoKept, SameFrames, DefsKept, FilledKept, Filled
  <2> QED BY <1>0, <1>1, <1>6, <2>1, PhisKept
<1>10. ClientSound'
  <2>1. ret = None
    BY <1>0, <1>1 DEF ClientSound, RetSound
  <2>2. Block' = Block
    BY <1>1 DEF Block
  <2> QED BY <1>0, <1>1, <2>1, <2>2 DEF ClientSound, RetSound, HeldSound
<1> QED BY <1>7, <1>8, <1>9, <1>10 DEF IInv

\* The frontend or add_phi_args asks for the value of a variable.
LEMMA CallUseVarSound ==
  ASSUME IInv, NEW b \in Block, NEW var \in Var, stack' = Push(UseFrame(var, b)), ret = None,
         stack = <<>> => Reading,
         stack # <<>> => Top.f = "args" /\ Top.done < Len(Top.preds) /\ Top.var = var,
         UNCHANGED <<prog, dfg, ssa, ret, panicked, client>>
  PROVE  IInv'
<1> DEFINE n == Len(stack)
           x == UseFrame(var, b)
<1>0. Types /\ GraphSound /\ StackSound /\ PhisSound /\ ClientSound
  BY DEF IInv
<1>1. UNCHANGED <<prog, insts, body, users, aliases, preds, sealed, defs, incomplete, ret, panicked, cur, pc, held>>
  BY DEF dfg, ssa, client
<1>2. x \in FrameSet /\ x.f = "use" /\ x.var = var
  BY DEF FrameSet, UseFrame
<1>3. n \in Nat /\ (stack = <<>> <=> n = 0)
  BY <1>0, FrameLemma
<1> HIDE DEF x
<1>4. stack' \in Seq(FrameSet) /\ Pushed(stack', stack, x)
  BY <1>0, <1>2, PushLemma DEF Types, Push, x
<1>5. /\ \A f : SameFrames(f) \/ f = "use"
      /\ SameCallers /\ Lookups' \subseteq Lookups \cup {n + 1}
      /\ \A k \in 1..n : stack'[k] = stack[k]
      /\ stack'[n + 1] = x /\ Len(stack') = n + 1
  BY <1>0, <1>2, <1>4, PushFrames DEF Pushed
<1>6. Types' /\ GraphSound'
  BY <1>0, <1>1, <1>4, QuietKept DEF Types
<1>7. StackSound'
  <2>1. WellNested(stack')
    <3>1. stack # <<>> => stack[n].f = "args"
      BY DEF Top, Last
    <3>2. <<"args", "use">> \in Below
      BY DEF Below
    <3> QED BY <1>0, <1>2, <1>4, <3>1, <3>2, NestedPush DEF Types, StackSound, StackShape
  <2>2. StackShape'
    <3>1. Reading' = Reading
      BY <1>1 DEF Reading
    <3>2. CASE stack = <<>>
      BY <2>1, <3>1, <3>2 DEF StackShape
    <3>3. CASE stack # <<>>
      <4>1. stack'[1] = stack[1]
        BY <1>3, <1>5, <3>3
      <4> QED BY <1>0, <2>1, <3>1, <3>3, <4>1 DEF StackSound, StackShape
    <3> QED BY <3>2, <3>3
  <2>3. \A j, k \in Lookups' : stack'[j].var = stack'[k].var
    <3>1. CASE stack = <<>>
      <4>1. Lookups = {}
        BY <1>3, <3>1 DEF Lookups
      <4> QED BY <4>1, <1>5
    <3>2. CASE stack # <<>>
      <4>1. n \in Lookups /\ stack[n].var = var
        BY <1>3, <3>2 DEF Lookups, Top, Last
      <4>2. \A k \in Lookups : stack[k].var = var /\ stack'[k] = stack[k]
        BY <1>0, <1>5, <4>1 DEF StackSound, ArgsSound, Lookups
      <4> QED BY <1>2, <1>5, <4>2
    <3> QED BY <3>1, <3>2
  <2>4. ArgsSound'
    <3>1. ASSUME NEW k \in At("args"), k < Len(stack')
          PROVE  k < Len(stack) \/ stack[k].done < Len(stack[k].preds)
      <4>1. k \in 1..n
        BY DEF At
      <4>2. k < n \/ k = n
        BY <1>3, <1>5, <4>1
      <4> QED BY <1>3, <4>1, <4>2 DEF Top, Last
    <3> QED BY <1>0, <1>1, <1>5, <2>3, <3>1, ArgsKept DEF StackSound, DefsKept
  <2>5. ResultsApart' /\ TodoMade'
    BY <1>0, <1>1, <1>5, ResultsKept DEF StackSound, SameFrames
  <2> QED BY <2>2, <2>4, <2>5 DEF StackSound
<1>8. PhisSound'
  <2>1. TodoKept /\ DefsKept /\ FilledKept
    BY <1>1, <1>5 DEF TodoKept, SameFrames, DefsKept, FilledKept, Filled
  <2> QED BY <1>0, <1>1, <1>5, <2>1, PhisKept
<1>9. ClientSound'
  <2>1. Block' = Block
    BY <1>1 DEF Block
  <2> QED BY <1>0, <1>1, <2>1 DEF ClientSound, RetSound, HeldSound
<1> QED BY <1>6, <1>7, <1>8, <1>9 DEF IInv

\* add_phi_args asks the next predecessor.
LEMMA NextPredSound == ASSUME IInv, NextPred PROVE IInv'
<1>1. Types /\ stack # <<>> /\ Top.f = "args" /\ Top.done < Len(Top.preds)
  BY DEF IInv, NextPred, Running, Frame
<1>2. Top.var \in Var /\ Top.preds \in Seq(Block) /\ Top.done \in Nat
  BY <1>1, TopLemma, FrameLemma
<1>3. Top.preds[Top.done + 1] \in Block
  BY <1>1, <1>2, LenProperties
<1> QED BY <1>1, <1>2, <1>3, CallUseVarSound DEF NextPred

\* The frontend reads a variable.
LEMMA ReadVarSound == ASSUME IInv, ReadVar PROVE IInv'
<1>1. Types /\ stack = <<>> /\ Reading /\ cur \in Block
  BY DEF IInv, ReadVar, AtOp, Idle, Busy, Reading, Types
<1>2. OpVar \in Var
  <2>1. pc[cur] \in Nat /\ Len(prog.code[cur]) \in Nat
    BY <1>1, ProgramLemma DEF Types
  <2>2. pc[cur] + 1 \in 1..Len(prog.code[cur])
    BY <1>1, <2>1 DEF Reading
  <2>3. prog.code[cur][pc[cur] + 1] \in Op /\ prog.code[cur][pc[cur] + 1].op = "read"
    BY <1>1, <2>2, ProgramLemma DEF Reading
  <2> QED BY <2>3 DEF Op, OpVar
<1> QED BY <1>1, <1>2, CallUseVarSound DEF ReadVar

-----------------------------------------------------------------------------
(***************************************************************************)
(* remove_trivial_phi where it removes nothing, and sealing.               *)
(***************************************************************************)

\* Nothing is returned while the innermost call is not add_phi_args.
LEMMA ClientKept ==
  ASSUME IInv, ret' = None, UNCHANGED <<prog, pc, held>>
  PROVE  ClientSound'
<1>1. Block' = Block
  BY DEF Block
<1> QED BY <1>1 DEF IInv, ClientSound, RetSound, HeldSound

\* Only add_phi_args and the frontend take a returned value.
LEMMA NothingReturned ==
  ASSUME IInv, stack # <<>>, Top.f # "args"
  PROVE  ret = None
  BY DEF IInv, ClientSound, RetSound

\* remove_trivial_phi leaves a phi that is not trivial, or removed already.
LEMMA KeepPhiSound == ASSUME IInv, KeepPhi PROVE IInv'
<1> DEFINE n == Len(stack)
           x == CheckFrame(Tail(Top.todo))
<1>0. Types /\ GraphSound /\ StackSound /\ PhisSound /\ ClientSound
  BY DEF IInv
<1>1. /\ stack # <<>> /\ Top.f = "check" /\ Top.todo # <<>> /\ (IsCandidate => ~IsTrivial(Candidate))
      /\ stack' = ReplaceTop(x)
      /\ UNCHANGED <<prog, insts, body, users, aliases, preds, sealed, defs, incomplete, ret, panicked, cur, pc, held>>
  BY DEF KeepPhi, Running, Frame, dfg, ssa, client
<1>2. n \in Nat \ {0} /\ n \in 1..n /\ Top = stack[n] /\ Top.todo \in Seq(InstId)
  BY <1>0, <1>1, TopLemma, FrameLemma
<1>3. /\ Tail(Top.todo) \in Seq(InstId) /\ Candidate = Head(Top.todo)
      /\ ToSet(Top.todo) = {Candidate} \cup ToSet(Tail(Top.todo))
  BY <1>1, <1>2, TailLemma DEF Candidate
<1>4. x \in FrameSet /\ x.f = "check" /\ x.todo = Tail(Top.todo)
  BY <1>3 DEF FrameSet, CheckFrame
<1> HIDE DEF x
<1>5. stack' \in Seq(FrameSet) /\ Replaced(stack', stack, x)
  BY <1>0, <1>1, <1>4, TopLemma
<1>6. /\ \A f : SameFrames(f) \/ f = "check"
      /\ At("check")' = At("check") \cup {n} /\ n \in At("check")
      /\ SameCallers /\ Lookups' \subseteq Lookups \ {n}
      /\ \A k \in 1..n : k # n => stack'[k] = stack[k]
      /\ \A f : At(f) \subseteq 1..n
      /\ stack'[n] = x /\ Len(stack') = n
  BY <1>0, <1>1, <1>2, <1>4, <1>5, ReplaceFrames DEF Replaced, At
<1>7. Types' /\ GraphSound'
  BY <1>0, <1>1, <1>5, QuietKept DEF Types
<1>8. StackSound'
  <2>1. WellNested(stack')
    <3>1. n > 1 => n \in 2..n /\ <<stack[n - 1].f, x.f>> \in Below
      BY <1>0, <1>1, <1>2, <1>4 DEF StackSound, StackShape, WellNested
    <3>2. n # 1
      BY <1>0, <1>1, <1>2 DEF StackSound, StackShape, WellNested
    <3> QED BY <1>0, <1>1, <1>4, <1>5, <3>1, <3>2, NestedReplace DEF Types, StackSound, StackShape
  <2>2. StackShape'
    <3>1. n # 1
      BY <1>0, <1>1, <1>2 DEF StackSound, StackShape, WellNested
    <3> QED BY <1>0, <1>1, <1>2, <1>6, <2>1, <3>1 DEF StackSound, StackShape, Reading
  <2>3. \A j, k \in Lookups' : stack'[j].var = stack'[k].var
    BY <1>0, <1>6 DEF StackSound, ArgsSound, Lookups
  <2>4. ArgsSound'
    <3>1. DefsKept /\ \A k \in At("args") : k < Len(stack') => k < Len(stack)
      BY <1>1, <1>6 DEF DefsKept
    <3> QED BY <1>0, <1>1, <1>6, <2>3, <3>1, ArgsKept DEF StackSound
  <2>5. ResultsApart' /\ TodoMade'
    <3>1. \A k \in At("check")' : k \in At("check") /\ ToSet(stack'[k].todo) \subseteq ToSet(stack[k].todo)
      BY <1>2, <1>3, <1>4, <1>6
    <3> QED BY <1>0, <1>1, <1>6, <3>1, ResultsKept DEF StackSound
  <2> QED BY <2>2, <2>4, <2>5 DEF StackSound
<1>9. PhisSound'
  <2>1. TodoKept
    <3> SUFFICES ASSUME NEW phi \in Complete, IsTrivial(phi), NEW k \in At("check"), phi \in ToSet(stack[k].todo)
                 PROVE  \E j \in At("check")' : phi \in ToSet(stack'[j].todo)
      BY DEF TodoKept
    <3>1. phi # Candidate
      <4>1. phi = Candidate => IsCandidate
        BY DEF IsCandidate, Complete, LiveIds
      <4> QED BY <1>1, <4>1
    <3>2. k \in At("check")' /\ phi \in ToSet(stack'[k].todo)
      BY <1>2, <1>3, <1>4, <1>6, <3>1
    <3> QED BY <3>2
  <2>2. DefsKept /\ FilledKept
    BY <1>1 DEF DefsKept, FilledKept, Filled
  <2> QED BY <1>0, <1>1, <1>6, <2>1, <2>2, PhisKept
<1>10. ClientSound'
  BY <1>1, ClientKept, NothingReturned
<1> QED BY <1>7, <1>8, <1>9, <1>10 DEF IInv

\* remove_trivial_phi has looked at its whole list.
LEMMA CheckedSound == ASSUME IInv, Checked PROVE IInv'
<1> DEFINE n == Len(stack)
<1>0. Types /\ GraphSound /\ StackSound /\ PhisSound /\ ClientSound
  BY DEF IInv
<1>1. /\ stack # <<>> /\ Top.f = "check" /\ Top.todo = <<>> /\ stack' = Pop
      /\ UNCHANGED <<prog, insts, body, users, aliases, preds, sealed, defs, incomplete, ret, panicked, cur, pc, held>>
  BY DEF Checked, Running, Frame, dfg, ssa, client
<1>2. /\ n \in Nat \ {0} /\ Top = stack[n] /\ stack' \in Seq(FrameSet) /\ Popped(stack', stack)
      /\ Len(stack') = n - 1 /\ \A k \in 1..(n - 1) : stack'[k] = stack[k]
  BY <1>0, <1>1, TopLemma DEF Popped
<1>3. \A f : f # "check" => SameFrames(f)
  BY <1>1, <1>2 DEF SameFrames, At
<1>4. Types' /\ GraphSound'
  BY <1>0, <1>1, <1>2, QuietKept DEF Types
<1>5. StackSound'
  BY <1>0, <1>1, <1>2, PopKept
<1>6. PhisSound'
  <2>1. TodoKept
    <3> SUFFICES ASSUME NEW phi, NEW k \in At("check"), phi \in ToSet(stack[k].todo)
                 PROVE  \E j \in At("check")' : phi \in ToSet(stack'[j].todo)
      BY DEF TodoKept
    <3>1. k # n
      BY <1>1, <1>2 DEF ToSet
    <3>2. k \in 1..(n - 1)
      BY <1>2, <3>1 DEF At
    <3> QED BY <1>2, <3>2 DEF At
  <2>2. DefsKept /\ FilledKept
    BY <1>1 DEF DefsKept, FilledKept, Filled
  <2> QED BY <1>0, <1>1, <1>3, <2>1, <2>2, PhisKept
<1>7. ClientSound'
  BY <1>1, ClientKept, NothingReturned
<1> QED BY <1>4, <1>5, <1>6, <1>7 DEF IInv

\* The block being sealed is the only call besides seal_all.
LEMMA SealTop ==
  ASSUME Types, StackSound, stack # <<>>, Top.f = "seal"
  PROVE  /\ At("args") = {} /\ At("result") = {} /\ At("check") = {} /\ Lookups = {}
         /\ At("seal") = {Len(stack)}
<1> DEFINE n == Len(stack)
<1>1. n \in Nat \ {0} /\ n \in 1..n /\ Top = stack[n]
  BY TopLemma
<1>2. n = 1 \/ (n = 2 /\ stack[1].f = "sealall")
  BY <1>1 DEF StackSound, StackShape, WellNested
<1>3. \A k \in 1..n : stack[k].f \in {"seal", "sealall"} /\ (stack[k].f = "seal" => k = n)
  BY <1>1, <1>2
<1> QED BY <1>1, <1>3 DEF At, Lookups

\* seal_block marks the block once its incomplete phis are done.
LEMMA SealSound == ASSUME IInv, Seal PROVE IInv'
<1> DEFINE n == Len(stack)
           b == Top.block
<1>0. Types /\ GraphSound /\ StackSound /\ PhisSound /\ ClientSound
  BY DEF IInv
<1>1. /\ stack # <<>> /\ Top.f = "seal" /\ Top.todo = <<>> /\ stack' = Pop
      /\ sealed' = [sealed EXCEPT ![b] = TRUE]
      /\ UNCHANGED <<prog, insts, body, users, aliases, preds, defs, incomplete, ret, panicked, cur, pc, held>>
  BY DEF Seal, Running, Frame, dfg, client
<1>2. /\ n \in Nat \ {0} /\ n \in 1..n /\ Top = stack[n] /\ stack' \in Seq(FrameSet) /\ Popped(stack', stack)
      /\ Len(stack') = n - 1 /\ \A k \in 1..(n - 1) : stack'[k] = stack[k]
  BY <1>0, <1>1, TopLemma DEF Popped
<1>3. b \in Block
  BY <1>0, <1>1, <1>2, FrameLemma
<1>4. /\ \A f : f # "seal" => SameFrames(f)
      /\ At("args") = {} /\ At("result") = {} /\ At("check") = {} /\ At("seal") = {n} /\ At("seal")' = {}
  <2>1. At("args") = {} /\ At("result") = {} /\ At("check") = {} /\ At("seal") = {n}
    BY <1>0, <1>1, SealTop
  <2>2. \A f : f # "seal" => SameFrames(f)
    BY <1>1, <1>2 DEF SameFrames, At
  <2>3. At("seal")' = At("seal") \ {n}
    BY <1>2 DEF At
  <2> QED BY <2>1, <2>2, <2>3
<1>5. \A c \in Block : sealed'[c] = (sealed[c] \/ c = b)
  BY <1>0, <1>1 DEF Types
<1>6. Types' /\ GraphSound'
  <2>1. sealed' \in [Block -> BOOLEAN]
    BY <1>0, <1>1 DEF Types
  <2> QED BY <1>0, <1>1, <1>2, <2>1, QuietKept DEF Types
<1>7. StackSound'
  BY <1>0, <1>1, <1>2, <1>5, PopKept
<1>8. PhisSound'
  <2>1. Block' = Block /\ Made' = Made /\ LiveIds' = LiveIds
    BY <1>1 DEF Block, Made, LiveIds
  <2>2. UnderWay' = {} /\ UnderWay = {}
    BY <1>4 DEF UnderWay, SameFrames
  <2>3. Pending' = Pending
    <3>1. PhisOf(stack[n].todo) = {}
      BY <1>1, <1>2 DEF PhisOf
    <3>2. \A c \in Block : PhisOf(incomplete[c])' = PhisOf(incomplete[c])
      BY <1>1 DEF PhisOf
    <3> QED BY <1>4, <2>1, <3>1, <3>2 DEF Pending
  <2>4. incomplete[b] = <<>> /\ Closed(b)
    BY <1>0, <1>2, <1>4 DEF PhisSound, PendingSound, SealedClosed
  <2>5. \A c \in Block : Closed(c)' = Closed(c)
    BY <1>1, <2>1 DEF Closed, Filled
  <2>6. PendingSound'
    <3>1. \A c \in Block : ItemsSound(c, incomplete[c])'
      BY <1>0, <1>1, <2>1 DEF PhisSound, PendingSound, ItemsSound, DistinctPhis, ItemSound, BlockOf
    <3> QED BY <1>0, <1>1, <1>4, <1>5, <2>1, <2>2, <2>4, <3>1 DEF PhisSound, PendingSound
  <2>7. SealedClosed'
    <3>1. At("sealall")' # {} => AllFilled'
      BY <1>0, <1>1, <1>4, <2>1 DEF PhisSound, SealedClosed, SameFrames, AllFilled, Filled
    <3> QED BY <1>0, <1>4, <1>5, <2>1, <2>4, <2>5, <3>1 DEF PhisSound, SealedClosed
  <2>8. CompleteSound'
    <3>1. Complete' = Complete
      BY <1>1, <2>1, <2>2, <2>3 DEF Complete
    <3>2. At("args")' = {} /\ At("check")' = {}
      BY <1>4 DEF SameFrames
    <3>3. ASSUME NEW phi \in Complete
          PROVE  /\ Closed(BlockOf(phi))' /\ ArgPreds(phi)' = preds'[insts'[phi].block]
                 /\ ~IsTrivial(phi)'
      <4>1. BlockOf(phi) \in Block /\ BlockOf(phi)' = BlockOf(phi)
        BY <1>0, <1>1, InstLemma DEF Complete, BlockOf
      <4>2. Closed(BlockOf(phi)) /\ ArgPreds(phi) = preds[BlockOf(phi)] /\ ~IsTrivial(phi)
        BY <1>0, <1>4 DEF PhisSound, CompleteSound
      <4>3. ArgPreds(phi)' = ArgPreds(phi) /\ IsTrivial(phi)' = IsTrivial(phi)
        BY <1>1 DEF ArgPreds, IsTrivial, Others, ValuesOf
      <4>4. Closed(BlockOf(phi))' = Closed(BlockOf(phi))
        BY <1>1, <2>1 DEF Closed, Filled, BlockOf
      <4> QED BY <1>1, <4>1, <4>2, <4>3, <4>4 DEF BlockOf
    <3> QED BY <3>1, <3>2, <3>3 DEF CompleteSound, BlockOf
  <2> QED BY <2>6, <2>7, <2>8 DEF PhisSound
<1>9. ClientSound'
  BY <1>1, ClientKept, NothingReturned
<1> QED BY <1>6, <1>7, <1>8, <1>9 DEF IInv

-----------------------------------------------------------------------------
(***************************************************************************)
(* The frontend between its calls.                                         *)
(***************************************************************************)

\* Between calls there are no frames.
LEMMA IdleLemma ==
  ASSUME stack = <<>>, UNCHANGED stack
  PROVE  /\ \A f : At(f) = {} /\ At(f)' = {} /\ SameFrames(f)
         /\ UnderWay = {} /\ UnderWay' = {}
         /\ StackSound'
<1>1. Len(stack) = 0 /\ Len(stack') = 0 /\ stack' = <<>>
  OBVIOUS
<1>2. \A f : At(f) = {} /\ At(f)' = {}
  BY <1>1 DEF At
<1>3. Lookups' = {}
  BY <1>1 DEF Lookups
<1>4. UnderWay = {} /\ UnderWay' = {}
  BY <1>2 DEF UnderWay
<1>5. StackShape'
  BY <1>1 DEF StackShape, WellNested
<1>6. ArgsSound' /\ ResultsApart' /\ TodoMade'
  BY <1>2, <1>3 DEF ArgsSound, ResultsApart, TodoMade
<1> QED BY <1>2, <1>4, <1>5, <1>6 DEF SameFrames, StackSound

\* What the frontend knows of its next operation.
LEMMA OpLemma ==
  ASSUME IInv, NEW op, AtOp(op)
  PROVE  /\ stack = <<>> /\ ~panicked /\ cur \in Block /\ pc[cur] \in Nat
         /\ pc[cur] + 1 \in 1..Len(prog.code[cur]) /\ Len(prog.code[cur]) \in Nat
         /\ prog.code[cur][pc[cur] + 1] \in Op /\ prog.code[cur][pc[cur] + 1].op = op
         /\ op \in {"write", "emit"} => held \in Made
         /\ op # "read" => ret = None
         /\ op \in {"def", "read", "write"} => OpVar \in Var
<1>1. /\ Types /\ stack = <<>> /\ ~panicked /\ cur \in Block
      /\ pc[cur] < Len(prog.code[cur]) /\ prog.code[cur][pc[cur] + 1].op = op
  BY DEF IInv, AtOp, Idle, Busy, Types
<1>2. pc[cur] \in Nat /\ Len(prog.code[cur]) \in Nat
  BY <1>1, ProgramLemma DEF Types
<1>3. pc[cur] + 1 \in 1..Len(prog.code[cur])
  BY <1>1, <1>2
<1>4. prog.code[cur][pc[cur] + 1] \in Op
  BY <1>1, <1>3, ProgramLemma
<1>5. ASSUME op \in {"write", "emit"} PROVE held \in Made
  <2> DEFINE k == pc[cur] + 1
  <2>0. k \in 1..Len(prog.code[cur]) /\ prog.code[cur][k].op \in {"write", "emit"}
    BY <1>1, <1>3, <1>5
  <2> HIDE DEF k
  <2>1. PICK j \in 1..(k - 1) : prog.code[cur][j].op = "read"
    BY <1>1, <2>0, ProgramLemma
  <2>2. j \in 1..Len(prog.code[cur]) /\ j <= pc[cur]
    BY <1>2, <1>3 DEF k
  <2>3. held # None
    BY <1>1, <2>1, <2>2 DEF IInv, ClientSound, HeldSound
  <2> QED BY <1>1, <2>3 DEF Types, Made, None
<1>6. op # "read" => ret = None
  BY <1>1 DEF IInv, ClientSound, RetSound, Reading
<1>7. op \in {"def", "read", "write"} => OpVar \in Var
  BY <1>1, <1>4 DEF Op, OpVar
<1> QED BY <1>1, <1>2, <1>3, <1>4, <1>5, <1>6, <1>7

\* An operation is done.
LEMMA AdvanceLemma ==
  ASSUME Types, cur \in Block, pc[cur] <= Len(prog.code[cur]), Advance, UNCHANGED prog
  PROVE  /\ pc' \in [Block -> Nat] /\ \A b \in Block : pc'[b] <= Len(prog.code[b]) + 1
         /\ \A b \in Block : pc'[b] = IF b = cur THEN pc[cur] + 1 ELSE pc[b]
         /\ FilledKept
<1>1. /\ pc \in [Block -> Nat] /\ pc[cur] \in Nat /\ Len(prog.code[cur]) \in Nat
      /\ \A b \in Block : pc[b] <= Len(prog.code[b]) + 1
  BY ProgramLemma DEF Types
<1>2. pc' \in [Block -> Nat] /\ \A b \in Block : pc'[b] = IF b = cur THEN pc[cur] + 1 ELSE pc[b]
  BY <1>1 DEF Advance
<1>3. \A b \in Block : pc'[b] <= Len(prog.code[b]) + 1
  BY <1>1, <1>2
<1>4. ~Filled(cur)
  BY <1>1 DEF Filled
<1>5. \A b \in Block : Filled(b) => pc'[b] = pc[b]
  BY <1>2, <1>4
<1> QED BY <1>2, <1>3, <1>5 DEF FilledKept, Filled

\* The program has been read as far as HeldSound says.
LEMMA HeldKept ==
  ASSUME Types, HeldSound, cur \in Block, UNCHANGED <<prog, held>>,
         pc[cur] < Len(prog.code[cur]) => prog.code[cur][pc[cur] + 1].op # "read",
         \A b \in Block : pc'[b] = IF b = cur THEN pc[cur] + 1 ELSE pc[b]
  PROVE  HeldSound'
<1>1. Block' = Block
  BY DEF Block
<1>2. ASSUME NEW b \in Block, NEW j \in 1..Len(prog.code[b]), j <= pc'[b], prog.code[b][j].op = "read"
      PROVE  held # None
  <2>1. pc[cur] \in Nat /\ Len(prog.code[b]) \in Nat /\ pc[b] \in Nat
    BY ProgramLemma DEF Types
  <2>2. j <= pc[b]
    <3>1. CASE b # cur
      BY <1>2, <3>1
    <3>2. CASE b = cur
      <4>1. j <= pc[cur] + 1
        BY <1>2, <3>2
      <4>2. j # pc[cur] + 1
        BY <1>2, <2>1, <3>2
      <4> QED BY <2>1, <3>2, <4>1, <4>2
    <3> QED BY <3>1, <3>2
  <2> QED BY <1>2, <2>2 DEF HeldSound
<1> QED BY <1>1, <1>2 DEF HeldSound

\* The frontend goes on with another block.
LEMMA SwitchToBlockSound == ASSUME IInv, SwitchToBlock PROVE IInv'
<1>0. Types /\ GraphSound /\ StackSound /\ PhisSound /\ ClientSound
  BY DEF IInv
<1>1. /\ stack = <<>> /\ ~Busy
      /\ UNCHANGED <<prog, insts, body, users, aliases, preds, sealed, defs, incomplete, stack, ret, panicked, pc, held>>
  BY DEF SwitchToBlock, Idle, dfg, ssa
<1>2. cur' \in Block
  BY <1>0, ProgramLemma DEF SwitchToBlock
<1>3. Types' /\ GraphSound' /\ Block' = Block
  BY <1>0, <1>1, <1>2, QuietKept DEF Types
<1>4. StackSound' /\ \A f : At(f) = {} /\ SameFrames(f)
  BY <1>1, IdleLemma
<1>5. PhisSound'
  <2>1. TodoKept /\ DefsKept /\ FilledKept
    BY <1>1, <1>4 DEF TodoKept, DefsKept, FilledKept, Filled
  <2> QED BY <1>0, <1>1, <1>4, <2>1, PhisKept
<1>6. ret = None
  <2>1. Reading => Busy
    BY <1>0, ProgramLemma DEF Reading, Busy, Filled, Types
  <2> QED BY <1>0, <1>1, <2>1 DEF ClientSound, RetSound
<1>7. ClientSound'
  BY <1>1, <1>6, ClientKept
<1> QED BY <1>3, <1>4, <1>5, <1>7 DEF IInv

\* The frontend takes the value it has read.
LEMMA HoldValueSound == ASSUME IInv, HoldValue PROVE IInv'
<1>0. Types /\ GraphSound /\ StackSound /\ PhisSound /\ ClientSound
  BY DEF IInv
<1>1. /\ stack = <<>> /\ ret # None /\ held' = ret /\ ret' = None /\ Advance
      /\ UNCHANGED <<prog, insts, body, users, aliases, preds, sealed, defs, incomplete, stack, panicked, cur>>
  BY OpLemma DEF HoldValue, dfg, ssa
<1>2. cur \in Block /\ pc[cur] <= Len(prog.code[cur])
  BY OpLemma DEF HoldValue
<1>3. pc' \in [Block -> Nat] /\ (\A b \in Block : pc'[b] <= Len(prog.code[b]) + 1) /\ FilledKept
  BY <1>0, <1>1, <1>2, AdvanceLemma
<1>4. Types' /\ GraphSound' /\ Block' = Block
  <2>1. ret' \in 0..Len(insts) /\ held' \in 0..Len(insts)
    BY <1>0, <1>1, InstLemma DEF Types, None
  <2> QED BY <1>0, <1>1, <1>3, <2>1, QuietKept DEF Types
<1>5. StackSound' /\ \A f : At(f) = {} /\ SameFrames(f)
  BY <1>1, IdleLemma
<1>6. PhisSound'
  <2>1. TodoKept /\ DefsKept
    BY <1>1, <1>5 DEF TodoKept, DefsKept
  <2> QED BY <1>0, <1>1, <1>3, <1>5, <2>1, PhisKept
<1>7. ClientSound'
  BY <1>1 DEF ClientSound, RetSound, HeldSound
<1> QED BY <1>4, <1>5, <1>6, <1>7 DEF IInv

\* def_var with the value the frontend holds.
LEMMA WriteVarSound == ASSUME IInv, WriteVar PROVE IInv'
<1>0. Types /\ GraphSound /\ StackSound /\ PhisSound /\ ClientSound
  BY DEF IInv
<1>1. /\ defs' = [defs EXCEPT ![cur][OpVar] = held] /\ Advance
      /\ UNCHANGED <<prog, insts, body, users, aliases, preds, sealed, incomplete, stack, ret, panicked, cur, held>>
  BY DEF WriteVar, dfg
<1>2. /\ stack = <<>> /\ cur \in Block /\ pc[cur] <= Len(prog.code[cur]) /\ OpVar \in Var
      /\ held \in Made /\ ret = None /\ prog.code[cur][pc[cur] + 1].op # "read"
  BY OpLemma DEF WriteVar
<1>3. /\ pc' \in [Block -> Nat] /\ \A b \in Block : pc'[b] <= Len(prog.code[b]) + 1
      /\ \A b \in Block : pc'[b] = IF b = cur THEN pc[cur] + 1 ELSE pc[b]
      /\ FilledKept
  BY <1>0, <1>1, <1>2, AdvanceLemma
<1>4. defs' \in [Block -> [Var -> 0..Len(insts)]] /\ DefsKept
  <2>1. held \in 0..Len(insts) /\ held # None
    BY <1>0, <1>2, InstLemma DEF Made, None
  <2> QED BY <1>0, <1>1, <1>2, <2>1 DEF Types, DefsKept
<1>5. Types' /\ GraphSound' /\ Block' = Block
  BY <1>0, <1>1, <1>3, <1>4, QuietKept DEF Types
<1>6. StackSound' /\ \A f : At(f) = {} /\ SameFrames(f)
  BY <1>1, <1>2, IdleLemma
<1>7. PhisSound'
  <2>1. TodoKept
    BY <1>6 DEF TodoKept
  <2> QED BY <1>0, <1>1, <1>3, <1>4, <1>6, <2>1, PhisKept
<1>8. ClientSound'
  <2>1. HeldSound'
    BY <1>0, <1>1, <1>2, <1>3, HeldKept DEF ClientSound
  <2> QED BY <1>1, <1>2, <2>1 DEF ClientSound, RetSound
<1> QED BY <1>5, <1>6, <1>7, <1>8 DEF IInv

\* A branch makes no predecessor of a block all of whose branches are there.
LEMMA BranchSound == ASSUME IInv, Branch PROVE IInv'
<1> DEFINE to(b) == {n \in 1..Len(prog.dests[cur]) : prog.dests[cur][n] = b}
           new(b) == [k \in 1..Cardinality(to(b)) |-> cur]
<1>0. Types /\ GraphSound /\ StackSound /\ PhisSound /\ ClientSound
  BY DEF IInv
<1>1. /\ stack = <<>> /\ cur \in Block /\ pc[cur] = Len(prog.code[cur]) /\ ~Filled(cur) /\ Advance
      /\ preds' = [b \in Block |-> preds[b] \o new(b)]
      /\ UNCHANGED <<prog, insts, body, users, aliases, sealed, defs, incomplete, stack, ret, panicked, cur, held>>
  BY <1>0 DEF Branch, Idle, Busy, dfg, Types
<1>2. Len(prog.code[cur]) \in Nat /\ prog.dests[cur] \in Seq(Block) /\ Len(prog.dests[cur]) \in Nat
  <2>1. prog.dests[cur] \in Seq(Block) /\ Len(prog.code[cur]) \in Nat
    BY <1>0, <1>1, ProgramLemma
  <2> QED BY <2>1, LenProperties
<1>3. ASSUME NEW b \in Block
      PROVE  /\ preds'[b] \in Seq(Block)
             /\ Closed(b) => preds'[b] = preds[b]
  <2>1. preds[b] \in Seq(Block) /\ preds'[b] = preds[b] \o new(b)
    BY <1>0, <1>1 DEF Types
  <2>2. Cardinality(to(b)) \in Nat
    <3>1. IsFiniteSet(1..Len(prog.dests[cur]))
      BY <1>2, FS_Interval
    <3> QED BY <3>1, FS_Subset, FS_CardinalityType
  <2> DEFINE c == Cardinality(to(b))
  <2> HIDE DEF new
  <2>3. new(b) \in Seq(Block) /\ Len(new(b)) = c
    <3> USE DEF new
    <3>1. c \in Nat
      BY <2>2
    <3>2. new(b) = [k \in 1..c |-> cur]
      OBVIOUS
    <3> HIDE DEF c, new
    <3> QED BY <1>1, <3>1, <3>2
  <2>4. ASSUME Closed(b) PROVE preds'[b] = preds[b]
    <3>1. ~Contains(prog.dests[cur], b)
      BY <1>1, <2>4 DEF Closed
    <3>2. to(b) = {}
      BY <3>1 DEF Contains
    <3>3. c = 0
      BY <3>2, FS_EmptySet
    <3> HIDE DEF c
    <3>4. new(b) = <<>>
      BY <2>3, <3>3, EmptyIff
    <3>5. /\ Len(preds[b] \o new(b)) = Len(preds[b]) /\ preds[b] \o new(b) \in Seq(Block)
          /\ \A i \in 1..Len(preds[b]) : (preds[b] \o new(b))[i] = preds[b][i]
      BY <2>1, <2>3, <3>3, LenProperties, ConcatProperties
    <3> QED BY <2>1, <3>5, SeqEqual
  <2> QED BY <2>1, <2>3, <2>4, ConcatProperties
<1> HIDE DEF new
<1>4. preds' \in [Block -> Seq(Block)]
  BY <1>1, <1>3
<1>5. /\ pc' \in [Block -> Nat] /\ \A b \in Block : pc'[b] <= Len(prog.code[b]) + 1
      /\ \A b \in Block : pc'[b] = IF b = cur THEN pc[cur] + 1 ELSE pc[b]
      /\ FilledKept
  BY <1>0, <1>1, <1>2, AdvanceLemma
<1>6. Types' /\ GraphSound' /\ Block' = Block /\ Made' = Made /\ LiveIds' = LiveIds
  BY <1>0, <1>1, <1>4, <1>5, QuietKept DEF Types
<1>7. StackSound' /\ UnderWay = {} /\ UnderWay' = {} /\ \A f : At(f) = {} /\ At(f)' = {} /\ SameFrames(f)
  BY <1>1, IdleLemma
<1>8. SealedClosed' /\ \A b \in Block : Closed(b) => Closed(b)'
  BY <1>0, <1>1, <1>5, <1>7, SealedClosedKept DEF PhisSound
<1>9. Pending' = Pending
  BY <1>1, <1>6, <1>7 DEF Pending, PhisOf
<1>10. PendingSound'
  <2>1. \A b \in Block : ItemsSound(b, incomplete[b])'
    BY <1>0, <1>1, <1>6, SMTT(40) DEF PhisSound, PendingSound, ItemsSound, DistinctPhis, ItemSound, BlockOf
  <2> QED BY <1>0, <1>1, <1>6, <1>7, <2>1 DEF PhisSound, PendingSound
<1>11. CompleteSound'
  <2>1. Complete' = Complete
    BY <1>1, <1>6, <1>7, <1>9 DEF Complete
  <2>2. ASSUME NEW phi \in Complete
        PROVE  Closed(BlockOf(phi))' /\ ArgPreds(phi)' = preds'[insts'[phi].block] /\ ~IsTrivial(phi)'
    <3>1. BlockOf(phi) \in Block /\ BlockOf(phi)' = BlockOf(phi)
      BY <1>0, <1>1, InstLemma DEF Complete, BlockOf
    <3>2. Closed(BlockOf(phi)) /\ ArgPreds(phi) = preds[BlockOf(phi)] /\ ~IsTrivial(phi)
      BY <1>0, <1>7 DEF PhisSound, CompleteSound
    <3>3. ArgPreds(phi)' = ArgPreds(phi) /\ IsTrivial(phi)' = IsTrivial(phi)
      BY <1>1 DEF ArgPreds, IsTrivial, Others, ValuesOf
    <3>4. preds'[BlockOf(phi)] = preds[BlockOf(phi)]
      BY <1>3, <3>1, <3>2
    <3>5. Closed(BlockOf(phi))' = Closed(insts[phi].block)'
      BY <1>1 DEF BlockOf, Closed
    <3> QED BY <1>1, <1>8, <3>1, <3>2, <3>3, <3>4, <3>5 DEF BlockOf
  <2> QED BY <1>7, <2>1, <2>2 DEF CompleteSound, BlockOf
<1>12. ClientSound'
  <2>1. ret = None
    BY <1>0, <1>1, <1>2 DEF ClientSound, RetSound, Reading
  <2>2. HeldSound'
    BY <1>0, <1>1, <1>2, <1>5, HeldKept DEF ClientSound
  <2> QED BY <1>1, <2>1, <2>2 DEF ClientSound, RetSound
<1> QED BY <1>6, <1>7, <1>8, <1>10, <1>11, <1>12 DEF IInv, PhisSound

-----------------------------------------------------------------------------
(***************************************************************************)
(* Inserting an instruction.                                               *)
(***************************************************************************)

\* A new instruction that uses live values leaves the others as they were.
LEMMA InsertKept ==
  ASSUME Types, GraphSound, NEW inst \in Inst, NEW list \in Seq(InstId), InsertInst(inst, list),
         ValuesOf(inst) \subseteq LiveIds, ToSet(list) = ToSet(body[inst.block]) \cup {Fresh},
         UNCHANGED <<prog, aliases>>
  PROVE  /\ Fresh \in InstId /\ Fresh = Len(insts) + 1 /\ Fresh \notin Made
         /\ insts' \in Seq(Inst) /\ Len(insts') = Fresh /\ Len(insts') <= MaxInsts
         /\ insts'[Fresh] = inst /\ \A i \in Made : insts'[i] = insts[i]
         /\ Made' = Made \cup {Fresh} /\ LiveIds' = LiveIds \cup {Fresh} /\ Fresh \notin LiveIds
         /\ Block' = Block /\ Inst' = Inst /\ FrameSet' = FrameSet
         /\ body' \in [Block -> Seq(InstId)] /\ users' \in [InstId -> SUBSET InstId]
         /\ DOMAIN aliases' \subseteq Made' /\ aliases' \in [DOMAIN aliases' -> Made']
         /\ GraphSound'
<1>1. /\ Fresh <= MaxInsts /\ insts' = Append(insts, inst)
      /\ users' = [v \in InstId |-> IF v \in ValuesOf(inst) THEN users[v] \cup {Fresh} ELSE users[v]]
      /\ body' = [body EXCEPT ![inst.block] = list]
  BY DEF InsertInst
<1>2. /\ Len(insts) \in Nat /\ Fresh = Len(insts) + 1 /\ DOMAIN insts = Made /\ Made \subseteq InstId
      /\ LiveIds \subseteq Made /\ insts \in Seq(Inst) /\ inst.block \in Block
  BY InstLemma DEF Types, Fresh, Inst
<1> HIDE DEF Fresh
<1>3. Fresh \in InstId /\ Fresh \in Nat /\ Fresh \notin Made
  BY <1>1, <1>2, MaxInstsAssumption DEF InstId, Made
<1>4. /\ insts' \in Seq(Inst) /\ Len(insts') = Fresh /\ insts'[Fresh] = inst
      /\ \A i \in Made : insts'[i] = insts[i]
  BY <1>1, <1>2, AppendProperties DEF Made
<1>5. Made' = Made \cup {Fresh}
  BY <1>2, <1>3, <1>4 DEF Made
<1>6. DOMAIN aliases \subseteq Made /\ LiveIds' = LiveIds \cup {Fresh} /\ Fresh \notin LiveIds
  BY <1>3, <1>5, <1>2 DEF LiveIds, Types
<1>7. Block' = Block /\ Inst' = Inst /\ FrameSet' = FrameSet
  BY DEF Block, Inst, Arg, FrameSet
<1>8. body' \in [Block -> Seq(InstId)] /\ users' \in [InstId -> SUBSET InstId]
  BY <1>1, <1>3 DEF Types
<1>9. DOMAIN aliases' \subseteq Made' /\ aliases' \in [DOMAIN aliases' -> Made']
  BY <1>5 DEF Types
<1>10. /\ \A i \in Made : ValuesOf(insts'[i]) = ValuesOf(insts[i])
       /\ ValuesOf(insts'[Fresh]) = ValuesOf(inst)
  BY <1>4
<1>11. GraphSound'
  <2>1. LaidOut'
    <3>1. ASSUME NEW b \in Block
          PROVE  ToSet(body'[b]) = {i \in LiveIds' : insts'[i].block = b}
      <4>1. ToSet(body[b]) = {i \in LiveIds : insts[i].block = b}
        BY DEF GraphSound, LaidOut, BlockOf
      <4>2. CASE b = inst.block
        <5>1. ToSet(body'[b]) = ToSet(body[b]) \cup {Fresh}
          BY <1>1, <4>2 DEF Types
        <5> QED BY <1>2, <1>4, <1>6, <4>1, <4>2, <5>1
      <4>3. CASE b # inst.block
        <5>1. body'[b] = body[b]
          BY <1>1, <4>3 DEF Types
        <5> QED BY <1>2, <1>4, <1>6, <4>1, <4>3, <5>1
      <4> QED BY <4>2, <4>3
    <3> QED BY <1>7, <3>1 DEF LaidOut, BlockOf
  <2>2. ArgsMade'
    BY <1>2, <1>5, <1>10 DEF GraphSound, ArgsMade
  <2>3. ArgsLive'
    BY <1>2, <1>6, <1>10 DEF GraphSound, ArgsLive
  <2>4. UsersKnown'
    <3>1. ASSUME NEW v \in InstId
          PROVE  users'[v] = {i \in LiveIds' : v \in ValuesOf(insts'[i])}
      <4>1. users[v] = {i \in LiveIds : v \in ValuesOf(insts[i])}
        BY DEF GraphSound, UsersKnown
      <4>2. users'[v] = IF v \in ValuesOf(inst) THEN users[v] \cup {Fresh} ELSE users[v]
        BY <1>1
      <4> QED BY <1>2, <1>6, <1>10, <4>1, <4>2
    <3> QED BY <3>1 DEF UsersKnown
  <2>5. AliasesEnd'
    BY DEF GraphSound, AliasesEnd
  <2> QED BY <2>1, <2>2, <2>3, <2>4, <2>5 DEF GraphSound
<1> QED BY <1>1, <1>2, <1>3, <1>4, <1>5, <1>6, <1>7, <1>8, <1>9, <1>11

\* The frontend inserts an instruction that is no phi.
LEMMA AppendSound ==
  ASSUME IInv, NEW kind \in {"def", "use"}, NEW args \in Seq(Arg), stack = <<>>, cur \in Block,
         AppendInst(kind, cur, args), \A k \in 1..Len(args) : args[k].value \in LiveIds,
         defs' \in [Block -> [Var -> 0..Len(insts')]], DefsKept, FilledKept,
         pc' \in [Block -> Nat], \A b \in Block : pc'[b] <= Len(prog.code[b]) + 1,
         UNCHANGED <<prog, preds, sealed, incomplete, aliases, stack, ret, panicked, cur, held>>
  PROVE  Types' /\ GraphSound' /\ StackSound' /\ PhisSound' /\ Block' = Block
<1> DEFINE inst == NewInst(kind, cur, args)
<1>0. Types /\ GraphSound /\ PhisSound
  BY DEF IInv
<1>1. inst \in Inst /\ ValuesOf(inst) \subseteq LiveIds /\ inst.block = cur /\ inst.kind = kind
  BY DEF NewInst, Inst, ValuesOf
<1>2. InsertInst(inst, Append(body[cur], Fresh))
  BY DEF AppendInst
<1> HIDE DEF inst
<1>3. Fresh \in InstId
  BY <1>0, <1>2, InstLemma, MaxInstsAssumption DEF InsertInst, Fresh, InstId
<1>4. /\ Append(body[cur], Fresh) \in Seq(InstId)
      /\ ToSet(Append(body[cur], Fresh)) = ToSet(body[inst.block]) \cup {Fresh}
  <2>1. body[cur] \in Seq(InstId)
    BY <1>0 DEF Types
  <2> QED BY <1>1, <1>3, <2>1, AppendSetLemma
<1>5. /\ Fresh = Len(insts) + 1 /\ Fresh \notin Made
      /\ insts' \in Seq(Inst) /\ Len(insts') = Fresh /\ Len(insts') <= MaxInsts
      /\ insts'[Fresh] = inst /\ \A i \in Made : insts'[i] = insts[i]
      /\ Made' = Made \cup {Fresh} /\ LiveIds' = LiveIds \cup {Fresh} /\ Fresh \notin LiveIds
      /\ Block' = Block /\ Inst' = Inst /\ FrameSet' = FrameSet
      /\ body' \in [Block -> Seq(InstId)] /\ users' \in [InstId -> SUBSET InstId]
      /\ DOMAIN aliases' \subseteq Made' /\ aliases' \in [DOMAIN aliases' -> Made']
      /\ GraphSound'
  BY <1>0, <1>1, <1>2, <1>4, InsertKept
<1>6. Types'
  <2>1. Len(insts) \in Nat /\ 0..Len(insts) \subseteq 0..Len(insts')
    BY <1>0, <1>5, InstLemma
  <2> QED BY <1>0, <1>5, <2>1 DEF Types
<1>7. StackSound' /\ UnderWay = {} /\ UnderWay' = {} /\ \A f : At(f) = {} /\ At(f)' = {} /\ SameFrames(f)
  BY IdleLemma
<1>8. SealedClosed' /\ \A b \in Block : Closed(b) => Closed(b)'
  BY <1>0, <1>7, SealedClosedKept DEF PhisSound
<1>9. Pending' = Pending
  BY <1>5, <1>7, SMTT(40) DEF Pending, PhisOf
<1>10. LiveIds \subseteq Made /\ \A i \in Made : insts'[i] = insts[i]
  BY <1>5 DEF LiveIds
<1>11. PendingSound'
  <2>1. ASSUME NEW b \in Block PROVE ItemsSound(b, incomplete[b])'
    <3>1. ItemsSound(b, incomplete[b]) /\ incomplete[b] \in Seq(Var \X InstId)
      BY <1>0 DEF PhisSound, PendingSound, Types
    <3>2. \A n \in 1..Len(incomplete[b]) : incomplete[b][n][1] \in Var
      BY <3>1, LenProperties, SMTT(40)
    <3> DEFINE items == incomplete[b]
    <3>3. ItemsSound(b, items)'
      <4> HIDE DEF items
      <4>1. items' = items /\ ItemsSound(b, items) /\ \A n \in 1..Len(items) : items[n][1] \in Var
        BY <3>1, <3>2 DEF items
      <4>2. PICK T : T = items
        OBVIOUS
      <4>3. ASSUME NEW n \in 1..Len(T) PROVE ItemSound(b, T[n])'
        <5>1. ItemSound(b, T[n]) /\ T[n][1] \in Var
          BY <4>1, <4>2 DEF ItemsSound
        <5>2. T[n][2] \in LiveIds' /\ insts'[T[n][2]] = insts[T[n][2]]
          BY <5>1, <1>5, <1>10 DEF ItemSound
        <5>3. defs'[b][T[n][1]] # None
          BY <5>1 DEF ItemSound, DefsKept
        <5> QED BY <5>1, <5>2, <5>3 DEF ItemSound, BlockOf
      <4>4. DistinctPhis(T)
        BY <4>1, <4>2 DEF ItemsSound
      <4>5. items' = T
        BY <4>1, <4>2
      <4> QED BY <4>3, <4>4, <4>5 DEF ItemsSound, DistinctPhis
    <3> QED BY <3>3
  <2> QED BY <1>0, <1>5, <1>7, <2>1 DEF PhisSound, PendingSound
<1>12. CompleteSound'
  <2>1. Complete' = Complete
    <3>1. insts'[Fresh].kind # "phi"
      BY <1>1, <1>5
    <3> QED BY <1>5, <1>7, <1>9, <1>10, <3>1 DEF Complete
  <2>2. ASSUME NEW phi \in Complete
        PROVE  Closed(BlockOf(phi))' /\ ArgPreds(phi)' = preds'[insts'[phi].block] /\ ~IsTrivial(phi)'
    <3>0. phi \in Made
      BY <1>10 DEF Complete
    <3>1. BlockOf(phi) \in Block /\ insts'[phi] = insts[phi]
      BY <1>0, <1>10, <3>0, InstLemma DEF BlockOf
    <3>2. Closed(BlockOf(phi)) /\ ArgPreds(phi) = preds[BlockOf(phi)] /\ ~IsTrivial(phi)
      BY <1>0, <1>7 DEF PhisSound, CompleteSound
    <3>3. ArgPreds(phi)' = ArgPreds(phi) /\ IsTrivial(phi)' = IsTrivial(phi)
      BY <3>1 DEF ArgPreds, IsTrivial, Others, ValuesOf
    <3>4. Closed(BlockOf(phi))' = Closed(insts[phi].block)'
      BY <3>1 DEF BlockOf, Closed
    <3> QED BY <1>8, <3>1, <3>2, <3>3, <3>4 DEF BlockOf
  <2> QED BY <1>7, <2>1, <2>2 DEF CompleteSound, BlockOf
<1> QED BY <1>5, <1>6, <1>7, <1>8, <1>11, <1>12 DEF PhisSound

\* def_var with the result of a new instruction.
LEMMA DefVarSound == ASSUME IInv, DefVar PROVE IInv'
<1>0. Types /\ GraphSound /\ StackSound /\ PhisSound /\ ClientSound
  BY DEF IInv
<1>1. /\ AppendInst("def", cur, <<>>) /\ defs' = [defs EXCEPT ![cur][OpVar] = Fresh] /\ Advance
      /\ UNCHANGED <<prog, preds, sealed, incomplete, aliases, stack, ret, panicked, cur, held>>
  BY DEF DefVar
<1>2. /\ stack = <<>> /\ cur \in Block /\ pc[cur] <= Len(prog.code[cur]) /\ OpVar \in Var
      /\ ret = None /\ prog.code[cur][pc[cur] + 1].op # "read"
  BY OpLemma DEF DefVar
<1>3. /\ pc' \in [Block -> Nat] /\ \A b \in Block : pc'[b] <= Len(prog.code[b]) + 1
      /\ \A b \in Block : pc'[b] = IF b = cur THEN pc[cur] + 1 ELSE pc[b]
      /\ FilledKept
  BY <1>0, <1>1, <1>2, AdvanceLemma
<1>4. Len(insts) \in Nat /\ Len(insts') = Len(insts) + 1
  BY <1>0, <1>1, InstLemma, AppendProperties DEF AppendInst, InsertInst, Types
<1>5. defs' \in [Block -> [Var -> 0..Len(insts')]] /\ DefsKept
  BY <1>0, <1>1, <1>2, <1>4, SMTT(40) DEF Types, DefsKept, Fresh, None
<1>6. Types' /\ GraphSound' /\ StackSound' /\ PhisSound'
  <2>1. <<>> \in Seq(Arg) /\ \A k \in 1..Len(<<>>) : <<>>[k].value \in LiveIds
    OBVIOUS
  <2> QED BY <1>1, <1>2, <1>3, <1>5, <2>1, AppendSound
<1>7. ClientSound'
  <2>1. HeldSound'
    BY <1>0, <1>1, <1>2, <1>3, HeldKept DEF ClientSound
  <2> QED BY <1>1, <1>2, <2>1 DEF ClientSound, RetSound
<1> QED BY <1>6, <1>7 DEF IInv

\* insert_inst resolves the held value, which may be a removed phi.
LEMMA EmitUseSound == ASSUME IInv, EmitUse PROVE IInv'
<1> DEFINE args == <<[value |-> ResolveAlias(held), pred |-> None]>>
<1>0. Types /\ GraphSound /\ StackSound /\ PhisSound /\ ClientSound
  BY DEF IInv
<1>1. /\ AppendInst("use", cur, args) /\ Advance
      /\ UNCHANGED <<prog, preds, sealed, defs, incomplete, aliases, stack, ret, panicked, cur, held>>
  BY DEF EmitUse, ssa
<1>2. /\ stack = <<>> /\ cur \in Block /\ pc[cur] <= Len(prog.code[cur]) /\ held \in Made
      /\ ret = None /\ prog.code[cur][pc[cur] + 1].op # "read"
  BY OpLemma DEF EmitUse
<1>3. /\ pc' \in [Block -> Nat] /\ \A b \in Block : pc'[b] <= Len(prog.code[b]) + 1
      /\ \A b \in Block : pc'[b] = IF b = cur THEN pc[cur] + 1 ELSE pc[b]
      /\ FilledKept
  BY <1>0, <1>1, <1>2, AdvanceLemma
<1>4. Len(insts) \in Nat /\ Len(insts') = Len(insts) + 1
  BY <1>0, <1>1, InstLemma, AppendProperties DEF AppendInst, InsertInst, Types
<1>5. defs' \in [Block -> [Var -> 0..Len(insts')]] /\ DefsKept
  <2>1. 0..Len(insts) \subseteq 0..Len(insts')
    BY <1>4
  <2> QED BY <1>0, <1>1, <2>1 DEF Types, DefsKept
<1>6. args \in Seq(Arg) /\ \A k \in 1..Len(args) : args[k].value \in LiveIds
  <2>1. ResolveAlias(held) \in LiveIds /\ LiveIds \subseteq InstId
    BY <1>0, <1>2, ResolveLemma, InstLemma DEF GraphSound
  <2> QED BY <2>1 DEF Arg
<1> HIDE DEF args
<1>7. Types' /\ GraphSound' /\ StackSound' /\ PhisSound'
  BY <1>1, <1>2, <1>3, <1>5, <1>6, AppendSound
<1>8. ClientSound'
  <2>1. HeldSound'
    BY <1>0, <1>1, <1>2, <1>3, HeldKept DEF ClientSound
  <2> QED BY <1>1, <1>2, <2>1 DEF ClientSound, RetSound
<1> QED BY <1>7, <1>8 DEF IInv

-----------------------------------------------------------------------------
(***************************************************************************)
(* seal_block and seal_all are called.                                     *)
(***************************************************************************)

\* seal_all is the outermost call.
LEMMA SealAllTop ==
  ASSUME Types, StackSound, stack # <<>>, Top.f = "sealall"
  PROVE  /\ Len(stack) = 1 /\ stack[1] = Top /\ At("sealall") # {}
         /\ \A f : f # "sealall" => At(f) = {}
<1>1. Len(stack) \in Nat \ {0} /\ Len(stack) \in 1..Len(stack) /\ Top = stack[Len(stack)]
  BY TopLemma
<1>2. \A k \in 2..Len(stack) : stack[k].f # "sealall"
  BY DEF StackSound, StackShape, WellNested, Below
<1>3. Len(stack) = 1
  <2> DEFINE n == Len(stack)
  <2>1. n \in Nat \ {0} /\ \A k \in 2..n : stack[k].f # "sealall"
    BY <1>1, <1>2
  <2>2. stack[n].f = "sealall"
    BY <1>1
  <2> HIDE DEF n
  <2>3. n = 1
    BY <2>1, <2>2
  <2> QED BY <2>3 DEF n
<1> QED BY <1>1, <1>3 DEF At

\* The stack while no phi is being completed.
LEMMA SealingStack ==
  ASSUME stack' \in Seq(FrameSet), WellNested(stack'),
         \A k \in 1..Len(stack') : stack'[k].f \in {"seal", "sealall"}
  PROVE  /\ StackSound' /\ UnderWay' = {}
         /\ At("args")' = {} /\ At("check")' = {} /\ At("result")' = {}
<1>1. At("args")' = {} /\ At("check")' = {} /\ At("result")' = {}
  BY DEF At
<1>2. Lookups' = {}
  BY DEF Lookups
<1>3. StackShape'
  <2>1. stack' # <<>> => stack'[1].f \notin {"use", "result"}
    BY NotEmpty
  <2> QED BY <2>1 DEF StackShape
<1> QED BY <1>1, <1>2, <1>3 DEF StackSound, ArgsSound, ResultsApart, TodoMade, UnderWay

\* The incomplete phis of a block move into the frame that seals it.
LEMMA StartSealSound ==
  ASSUME IInv, NEW b \in Block, NEW m, ~sealed[b], Closed(b),
         \A f : f \in {"args", "check", "seal"} => At(f) = {},
         At("args")' = {}, At("check")' = {}, At("seal")' = {m}, stack'[m] = SealFrame(b),
         At("sealall")' # {} => AllFilled,
         incomplete' = [incomplete EXCEPT ![b] = <<>>],
         UNCHANGED <<prog, insts, aliases, preds, sealed, defs, pc>>
  PROVE  PhisSound'
<1>0. Types /\ PhisSound
  BY DEF IInv
<1>1. Made' = Made /\ LiveIds' = LiveIds /\ Block' = Block /\ \A i : BlockOf(i)' = BlockOf(i)
  BY DEF Made, LiveIds, Block, BlockOf
<1>2. stack'[m].block = b /\ stack'[m].todo = incomplete[b]
  BY DEF SealFrame
<1>3. UnderWay = {} /\ UnderWay' = {}
  BY DEF UnderWay
<1>4. \A c \in Block : incomplete'[c] = IF c = b THEN <<>> ELSE incomplete[c]
  BY <1>0 DEF Types
<1>5. Pending' = Pending
  <2>1. PhisOf(<<>>) = {}
    BY DEF PhisOf
  <2>2. Pending = UNION {PhisOf(incomplete[c]) : c \in Block}
    BY DEF Pending
  <2>3. Pending' = (UNION {PhisOf(incomplete'[c]) : c \in Block}) \cup PhisOf(incomplete[b])
    BY <1>1, <1>2 DEF Pending, PhisOf
  <2> QED BY <1>4, <2>1, <2>2, <2>3
<1>6. ASSUME NEW c, NEW items, ItemsSound(c, items)
      PROVE  ItemsSound(c, items)'
  BY <1>1, <1>6 DEF ItemsSound, DistinctPhis, ItemSound
<1>7. PendingSound'
  <2>1. \A c \in Block : ItemsSound(c, incomplete[c])
    BY <1>0 DEF PhisSound, PendingSound
  <2>2. ASSUME NEW c \in Block PROVE ItemsSound(c, incomplete[c])'
    <3>1. CASE c = b
      <4>1. incomplete'[c] = <<>> /\ Len(incomplete'[c]) = 0
        BY <1>4, <3>1
      <4> QED BY <4>1 DEF ItemsSound, DistinctPhis
    <3>2. CASE c # b
      <4>1. incomplete'[c] = incomplete[c]
        BY <1>4, <3>2
      <4> QED BY <1>1, <2>1, <4>1 DEF ItemsSound, DistinctPhis, ItemSound
    <3> QED BY <3>1, <3>2
  <2>3. ItemsSound(stack[m].block, stack[m].todo)'
    BY <1>1, <1>2, <2>1 DEF ItemsSound, DistinctPhis, ItemSound
  <2> QED BY <1>0, <1>1, <1>2, <1>3, <1>4, <2>2, <2>3 DEF PhisSound, PendingSound
<1>8. \A c : Closed(c)' = Closed(c)
  BY DEF Closed, Filled, Block
<1>9. SealedClosed'
  <2>1. At("sealall")' # {} => AllFilled'
    BY <1>1 DEF AllFilled, Filled
  <2> QED BY <1>0, <1>1, <1>2, <1>8, <2>1 DEF PhisSound, SealedClosed
<1>10. CompleteSound'
  <2>1. Complete' = Complete
    BY <1>1, <1>3, <1>5 DEF Complete
  <2>2. ASSUME NEW phi \in Complete
        PROVE  Closed(BlockOf(phi))' /\ ArgPreds(phi)' = preds'[insts'[phi].block] /\ ~IsTrivial(phi)'
    <3>1. BlockOf(phi) \in Block
      BY <1>0, InstLemma DEF Complete, BlockOf
    <3>2. Closed(BlockOf(phi)) /\ ArgPreds(phi) = preds[BlockOf(phi)] /\ ~IsTrivial(phi)
      BY <1>0 DEF PhisSound, CompleteSound
    <3>3. ArgPreds(phi)' = ArgPreds(phi) /\ IsTrivial(phi)' = IsTrivial(phi)
      BY DEF ArgPreds, IsTrivial, Others, ValuesOf
    <3>4. Closed(BlockOf(phi))' = Closed(BlockOf(phi))
      BY DEF BlockOf, Closed, Filled, Block
    <3> QED BY <3>1, <3>2, <3>3, <3>4 DEF BlockOf
  <2> QED BY <2>1, <2>2 DEF CompleteSound, BlockOf
<1> QED BY <1>7, <1>9, <1>10 DEF PhisSound

\* A seal frame is one.
LEMMA SealFrameLemma ==
  ASSUME Types, NEW b \in Block
  PROVE  /\ SealFrame(b) \in FrameSet /\ SealFrame(b).f = "seal"
         /\ [incomplete EXCEPT ![b] = <<>>] \in [Block -> Seq(Var \X InstId)]
  BY SMTT(40) DEF Types, SealFrame, FrameSet

\* seal_block takes the list of incomplete phis.
LEMMA SealBlockSound == ASSUME IInv, NEW b \in Block, SealBlock(b) PROVE IInv'
<1>0. Types /\ GraphSound /\ StackSound /\ PhisSound /\ ClientSound
  BY DEF IInv
<1>1. /\ stack = <<>> /\ ret = None /\ ~sealed[b] /\ Closed(b)
      /\ stack' = Push(SealFrame(b)) /\ incomplete' = [incomplete EXCEPT ![b] = <<>>]
      /\ UNCHANGED <<prog, insts, body, users, aliases, preds, sealed, defs, ret, panicked, cur, pc, held>>
  BY DEF SealBlock, Idle, dfg, client, Closed
<1>2. SealFrame(b) \in FrameSet /\ SealFrame(b).f = "seal" /\ incomplete' \in [Block -> Seq(Var \X InstId)]
  BY <1>0, <1>1, SealFrameLemma
<1>3. stack' \in Seq(FrameSet) /\ Pushed(stack', stack, SealFrame(b))
  BY <1>0, <1>1, <1>2, PushLemma DEF Types, Push
<1>4. Len(stack) = 0 /\ Len(stack') = 1 /\ stack'[1] = SealFrame(b) /\ \A k \in 1..Len(stack') : k = 1
  BY <1>1, <1>3 DEF Pushed
<1>5. WellNested(stack')
  BY <1>0, <1>1, <1>2, <1>3, NestedPush DEF Types, StackSound, StackShape
<1>6. /\ StackSound' /\ UnderWay' = {}
      /\ At("args")' = {} /\ At("check")' = {} /\ At("result")' = {}
  BY <1>2, <1>3, <1>4, <1>5, SealingStack
<1>7. At("seal")' = {1} /\ At("sealall")' = {} /\ \A f : At(f) = {}
  BY <1>2, <1>4 DEF At
<1>8. Types' /\ GraphSound'
  BY <1>0, <1>1, <1>2, <1>3, QuietKept DEF Types
<1>9. PhisSound'
  BY <1>1, <1>4, <1>6, <1>7, StartSealSound
<1>10. ClientSound'
  BY <1>1, ClientKept
<1> QED BY <1>6, <1>8, <1>9, <1>10 DEF IInv

\* seal_all starts.
LEMMA SealAllSound == ASSUME IInv, SealAll PROVE IInv'
<1> DEFINE x == [f |-> "sealall", todo |-> [b \in Block |-> b]]
<1>0. Types /\ GraphSound /\ StackSound /\ PhisSound /\ ClientSound
  BY DEF IInv
<1>1. /\ stack = <<>> /\ AllFilled /\ stack' = Push(x)
      /\ UNCHANGED <<prog, insts, body, users, aliases, preds, sealed, defs, incomplete, ret, panicked, cur, pc, held>>
  BY DEF SealAll, Idle, dfg, ssa, client
<1>2. x \in FrameSet /\ x.f = "sealall"
  <2>1. [b \in Block |-> b] \in Seq(Block)
    <3>1. Len(prog.dests) \in Nat /\ Block = 1..Len(prog.dests)
      BY <1>0, ProgramLemma
    <3> QED BY <3>1
  <2> QED BY <2>1 DEF FrameSet
<1> HIDE DEF x
<1>3. stack' \in Seq(FrameSet) /\ Pushed(stack', stack, x)
  BY <1>0, <1>1, <1>2, PushLemma DEF Types, Push
<1>4. Len(stack) = 0 /\ Len(stack') = 1 /\ stack'[1] = x /\ \A k \in 1..Len(stack') : k = 1
  BY <1>1, <1>3 DEF Pushed
<1>5. WellNested(stack')
  BY <1>0, <1>1, <1>2, <1>3, NestedPush DEF Types, StackSound, StackShape
<1>6. StackSound' /\ At("args")' = {} /\ At("check")' = {}
  BY <1>2, <1>3, <1>4, <1>5, SealingStack
<1>7. \A f : At(f) = {}
  BY <1>4 DEF At
<1>8. At("seal")' = {}
  BY <1>2, <1>4 DEF At
<1>9. Types' /\ GraphSound'
  BY <1>0, <1>1, <1>3, QuietKept DEF Types
<1>10. PhisSound'
  <2>1. TodoKept /\ DefsKept /\ FilledKept
    BY <1>1, <1>7 DEF TodoKept, DefsKept, FilledKept, Filled
  <2>2. SameFrames("args") /\ SameFrames("seal")
    BY <1>6, <1>7, <1>8 DEF SameFrames
  <2> QED BY <1>0, <1>1, <2>1, <2>2, PhisKept
<1>11. ret = None
  <2>1. ~Reading
    <3>1. ASSUME Reading PROVE FALSE
      <4>1. cur \in Block /\ pc[cur] < Len(prog.code[cur])
        BY <1>0, <3>1 DEF Reading, Types
      <4>2. pc[cur] = Len(prog.code[cur]) + 1 /\ Len(prog.code[cur]) \in Nat
        BY <1>0, <1>1, <4>1, ProgramLemma DEF AllFilled, Filled
      <4> QED BY <4>1, <4>2
    <3> QED BY <3>1
  <2> QED BY <1>0, <1>1, <2>1 DEF ClientSound, RetSound
<1>12. ClientSound'
  BY <1>1, <1>11, ClientKept
<1> QED BY <1>6, <1>9, <1>10, <1>12 DEF IInv

\* seal_all turns to the next block.
LEMMA SealAllNextSound == ASSUME IInv, SealAllNext PROVE IInv'
<1> DEFINE block == Head(Top.todo)
           x == [Top EXCEPT !.todo = Tail(@)]
<1>0. Types /\ GraphSound /\ StackSound /\ PhisSound /\ ClientSound
  BY DEF IInv
<1>1. /\ stack # <<>> /\ Top.f = "sealall"
      /\ UNCHANGED <<prog, insts, body, users, aliases, preds, sealed, defs, ret, panicked, cur, pc, held>>
  BY DEF SealAllNext, Running, Frame, dfg, client
<1>2. /\ Len(stack) = 1 /\ stack[1] = Top /\ At("sealall") # {}
      /\ \A f : f # "sealall" => At(f) = {}
  BY <1>0, <1>1, SealAllTop
<1>3. AllFilled
  BY <1>0, <1>2 DEF PhisSound, SealedClosed
<1>4. ClientSound'
  BY <1>1, ClientKept, NothingReturned
<1>5. FilledKept /\ DefsKept
  BY <1>1 DEF FilledKept, DefsKept, Filled
<1>6. CASE Top.todo = <<>>
  <2>1. stack' = Pop /\ UNCHANGED incomplete
    BY <1>6 DEF SealAllNext
  <2>2. stack' \in Seq(FrameSet) /\ Popped(stack', stack)
    BY <1>0, <1>1, <2>1, TopLemma
  <2>3. Len(stack') = 0
    BY <1>2, <2>2 DEF Popped
  <2>4. WellNested(stack')
    BY <2>3, <2>2, EmptyIff DEF WellNested
  <2>5. \A f : At(f)' = {}
    BY <2>3 DEF At
  <2>6. StackSound'
    BY <2>2, <2>3, <2>4, SealingStack
  <2>7. PhisSound'
    <3>1. TodoKept
      BY <1>2 DEF TodoKept
    <3>2. SameFrames("args") /\ SameFrames("seal")
      BY <1>2, <2>5 DEF SameFrames
    <3> QED BY <1>0, <1>1, <1>3, <1>5, <2>1, <3>1, <3>2, PhisKept
  <2>8. Types' /\ GraphSound'
    BY <1>0, <1>1, <2>1, <2>2, QuietKept DEF Types
  <2> QED BY <1>4, <2>6, <2>7, <2>8 DEF IInv
<1>7. CASE Top.todo # <<>>
  <2>1. Top.todo \in Seq(Block) /\ Top \in FrameSet
    BY <1>0, <1>1, TopLemma, FrameLemma
  <2>2. block \in Block /\ Tail(Top.todo) \in Seq(Block)
    BY <1>7, <2>1, TailLemma
  <2>3. x \in FrameSet /\ x.f = "sealall"
    <3>1. Top \in [f : {"sealall"}, todo : Seq(Block)]
      <4> DEFINE t == Top
      <4> HIDE DEF t
      <4>1. t \in FrameSet /\ t.f = "sealall"
        BY <1>1, <2>1 DEF t
      <4>2. t \in [f : {"sealall"}, todo : Seq(Block)]
        BY <4>1 DEF FrameSet
      <4> QED BY <4>2 DEF t
    <3>2. x \in [f : {"sealall"}, todo : Seq(Block)]
      BY <2>2, <3>1
    <3> QED BY <3>2 DEF FrameSet
  <2> DEFINE rest == ReplaceTop(x)
  <2>4. rest \in Seq(FrameSet) /\ Replaced(rest, stack, x)
    BY <1>0, <1>1, <2>3, TopLemma
  <2>5. IF sealed[block] THEN stack' = rest /\ UNCHANGED incomplete
        ELSE stack' = Append(rest, SealFrame(block)) /\ incomplete' = [incomplete EXCEPT ![block] = <<>>]
    BY <1>7 DEF SealAllNext
  <2> HIDE DEF x, rest
  <2>6. Len(rest) = 1 /\ rest[1] = x
    BY <1>2, <2>4 DEF Replaced
  <2>7. WellNested(rest)
    <3>1. stack \in Seq(FrameSet) /\ WellNested(stack)
      BY <1>0 DEF Types, StackSound, StackShape
    <3>2. Len(stack) = 1 /\ ~(Len(stack) > 1) /\ x.f \in {"use", "result", "seal", "sealall"}
      BY <1>2, <2>3
    <3> QED BY <1>1, <2>4, <3>1, <3>2, NestedReplace
  <2>8. CASE sealed[block]
    <3>1. stack' = rest /\ UNCHANGED incomplete
      BY <2>5, <2>8
    <3>2. \A k \in 1..Len(stack') : k = 1 /\ stack'[k].f = "sealall"
      <4>1. \A k \in 1..Len(rest) : k = 1
        BY <2>6
      <4> QED BY <2>3, <2>6, <3>1, <4>1
    <3>3. StackSound' /\ At("args")' = {} /\ At("check")' = {}
      BY <2>4, <2>7, <3>1, <3>2, SealingStack
    <3>4. At("seal")' = {}
      BY <3>2 DEF At
    <3>5. PhisSound'
      <4>1. TodoKept
        BY <1>2 DEF TodoKept
      <4>2. SameFrames("args") /\ SameFrames("seal")
        BY <1>2, <3>3, <3>4 DEF SameFrames
      <4> QED BY <1>0, <1>1, <1>3, <1>5, <3>1, <4>1, <4>2, PhisKept
    <3>6. Types' /\ GraphSound'
      BY <1>0, <1>1, <2>4, <3>1, QuietKept DEF Types
    <3> QED BY <1>4, <3>3, <3>5, <3>6 DEF IInv
  <2>9. CASE ~sealed[block]
    <3>1. stack' = Append(rest, SealFrame(block)) /\ incomplete' = [incomplete EXCEPT ![block] = <<>>]
      BY <2>5, <2>9
    <3>2. SealFrame(block) \in FrameSet /\ SealFrame(block).f = "seal" /\ incomplete' \in [Block -> Seq(Var \X InstId)]
      BY <1>0, <2>2, <3>1, SealFrameLemma
    <3>3. stack' \in Seq(FrameSet) /\ Pushed(stack', rest, SealFrame(block))
      BY <2>4, <3>1, <3>2, PushLemma
    <3>4. Len(stack') = 2 /\ stack'[1] = x /\ stack'[2] = SealFrame(block) /\ \A k \in 1..Len(stack') : k \in {1, 2}
      BY <2>6, <3>3 DEF Pushed
    <3>5. WellNested(stack')
      <4>1. rest # <<>> /\ <<rest[Len(rest)].f, SealFrame(block).f>> \in Below
        <5>1. rest # <<>>
          BY <2>4, <2>6, EmptyIff
        <5>2. rest[Len(rest)].f = "sealall"
          BY <2>3, <2>6
        <5> QED BY <3>2, <5>1, <5>2 DEF Below
      <4> QED BY <2>4, <2>7, <3>2, <3>3, <4>1, NestedPush
    <3>6. StackSound' /\ At("args")' = {} /\ At("check")' = {}
      BY <2>3, <3>2, <3>3, <3>4, <3>5, SealingStack
    <3>7. At("seal")' = {2}
      BY <2>3, <3>2, <3>4 DEF At
    <3>8. Types' /\ GraphSound'
      BY <1>0, <1>1, <3>2, <3>3, QuietKept DEF Types
    <3>9. PhisSound'
      <4>1. Closed(block)
        BY <1>3 DEF Closed, AllFilled
      <4> QED BY <1>1, <1>2, <1>3, <2>2, <2>9, <3>1, <3>4, <3>6, <3>7, <4>1, StartSealSound
    <3> QED BY <1>4, <3>6, <3>8, <3>9 DEF IInv
  <2> QED BY <2>8, <2>9
<1> QED BY <1>6, <1>7

-----------------------------------------------------------------------------
(***************************************************************************)
(* add_phi_args begins and ends.                                           *)
(***************************************************************************)

\* Sealing takes up the next incomplete phi of the block.
LEMMA SealNextPhiSound == ASSUME IInv, SealNextPhi PROVE IInv'
<1>n. PICK n, m, b, item, var, phi, rest :
        /\ n = Len(stack) /\ m = n + 1 /\ b = Top.block /\ item = Head(Top.todo)
        /\ var = item[1] /\ phi = item[2] /\ rest = Tail(Top.todo)
  OBVIOUS
<1> DEFINE x == [Top EXCEPT !.todo = Tail(@)]
           a == ArgsFrame(var, phi, b)
           mid == ReplaceTop(x)
<1>0. Types /\ GraphSound /\ StackSound /\ PhisSound /\ ClientSound
  BY DEF IInv
<1>1. /\ stack # <<>> /\ Top.f = "seal" /\ Top.todo # <<>>
      /\ stack' = Append(mid, a) /\ preds' = [preds EXCEPT ![b] = <<>>]
      /\ UNCHANGED <<prog, insts, body, users, aliases, sealed, defs, incomplete, ret, panicked, cur, pc, held>>
  BY <1>n DEF SealNextPhi, Running, Frame, dfg, client
<1>2. /\ n \in Nat \ {0} /\ n \in 1..n /\ n = Len(stack) /\ m = n + 1 /\ m \in Nat /\ Top = stack[n]
      /\ Top \in [f : {"seal"}, block : Block, todo : Seq(Var \X InstId)]
  <2>1. n \in Nat \ {0} /\ n \in 1..n /\ Top = stack[n]
    BY <1>0, <1>1, <1>n, TopLemma
  <2>2. Top \in [f : {"seal"}, block : Block, todo : Seq(Var \X InstId)]
    BY <1>0, <1>1, <1>n, <2>1, FrameLemma
  <2> QED BY <1>n, <2>1, <2>2
<1>3. /\ At("args") = {} /\ At("result") = {} /\ At("check") = {} /\ Lookups = {}
      /\ At("seal") = {n}
  BY <1>0, <1>1, <1>n, SealTop
<1>4. /\ b \in Block /\ Top.todo \in Seq(Var \X InstId) /\ item \in Var \X InstId
      /\ rest \in Seq(Var \X InstId) /\ item = Top.todo[1]
      /\ Len(Top.todo) \in Nat \ {0} /\ Len(rest) = Len(Top.todo) - 1
      /\ \A k \in 1..(Len(Top.todo) - 1) : rest[k] = Top.todo[k + 1]
  BY <1>1, <1>2, <1>n, TailLemma
<1>5. /\ ItemsSound(b, Top.todo) /\ incomplete[b] = <<>> /\ ~sealed[b] /\ Closed(b)
      /\ \A c \in Block : ItemsSound(c, incomplete[c])
  BY <1>0, <1>n, <1>2, <1>3 DEF PhisSound, PendingSound, SealedClosed
<1>6. /\ var \in Var /\ phi \in InstId /\ phi \in LiveIds /\ insts[phi].kind = "phi" /\ BlockOf(phi) = b
      /\ insts[phi].args = <<>> /\ defs[b][var] # None
  <2>1. 1 \in 1..Len(Top.todo)
    BY <1>4
  <2> QED BY <1>n, <1>4, <1>5, <2>1 DEF ItemsSound, ItemSound
<1>7. /\ x \in FrameSet /\ x.f = "seal" /\ x.block = b /\ x.todo = rest
      /\ a \in FrameSet /\ a.f = "args" /\ a.var = var /\ a.phi = phi /\ a.preds = preds[b] /\ a.done = 0
      /\ Len(preds[b]) \in Nat /\ preds[b] \in Seq(Block)
  <2>1. preds[b] \in Seq(Block)
    BY <1>0, <1>4 DEF Types
  <2>2. x \in [f : {"seal"}, block : Block, todo : Seq(Var \X InstId)] /\ x.f = "seal" /\ x.block = b /\ x.todo = rest
    BY <1>n, <1>2, <1>4
  <2>3. a \in [f : {"args"}, var : Var, phi : InstId, preds : Seq(Block), done : Nat]
    BY <1>6, <2>1 DEF ArgsFrame
  <2> QED BY <2>1, <2>2, <2>3, LenProperties DEF FrameSet, ArgsFrame
<1>8. mid \in Seq(FrameSet) /\ Replaced(mid, stack, x)
  BY <1>0, <1>1, <1>7, TopLemma
<1> HIDE DEF x, a, mid
<1>9. stack' \in Seq(FrameSet) /\ Pushed(stack', mid, a)
  BY <1>1, <1>7, <1>8, PushLemma
<1>10. /\ Len(mid) = n /\ mid[n] = x /\ Len(stack') = m /\ stack'[m] = a /\ stack'[n] = x
       /\ \A k \in 1..(n - 1) : stack'[k] = stack[k]
  <2>1. Len(mid) = n /\ mid[n] = x /\ \A k \in 1..(n - 1) : mid[k] = stack[k]
    BY <1>n, <1>2, <1>8 DEF Replaced
  <2>2. Len(stack') = m /\ stack'[m] = a /\ \A k \in 1..n : stack'[k] = mid[k]
    BY <1>n, <1>2, <1>9, <2>1 DEF Pushed
  <2>3. n \in 1..n /\ \A k \in 1..(n - 1) : k \in 1..n
    BY <1>2
  <2> QED BY <2>1, <2>2, <2>3
<1>11. \A k \in 1..m : k = m \/ k = n \/ k \in 1..(n - 1)
  BY <1>2
<1>12. \A k \in 1..(n - 1) : stack[k].f = "sealall"
  BY <1>0, <1>2, <1>3, FrameLemma DEF At, Lookups
<1>13. /\ At("args")' = {m} /\ At("result")' = {} /\ At("check")' = {} /\ At("seal")' = {n}
       /\ Lookups' = {m} /\ SameFrames("sealall")
  <2>1. \A f : At(f) = {k \in 1..n : stack[k].f = f} /\ At(f)' = {k \in 1..m : stack'[k].f = f}
    BY <1>n, <1>10 DEF At
  <2>2. Lookups' = {k \in 1..m : stack'[k].f \in {"use", "args"}}
    BY <1>10 DEF Lookups
  <2>3. /\ \A k \in 1..m : stack'[k].f = IF k = m THEN "args" ELSE IF k = n THEN "seal" ELSE "sealall"
        /\ \A k \in 1..n : stack[k].f = IF k = n THEN "seal" ELSE "sealall"
    <3>1. \A k \in 1..n : k \in 1..m /\ k # m /\ (k # n => k \in 1..(n - 1))
      BY <1>2
    <3> QED BY <1>1, <1>2, <1>7, <1>10, <1>11, <1>12, <3>1
  <2>4. n \in 1..m /\ m \in 1..m /\ n # m /\ n \in 1..n
    BY <1>2
  <2>5. At("args")' = {m} /\ At("result")' = {} /\ At("check")' = {} /\ At("seal")' = {n}
    BY <2>1, <2>3, <2>4
  <2>6. Lookups' = {m}
    BY <2>2, <2>3, <2>4
  <2>7. At("sealall") = 1..(n - 1) /\ At("sealall")' = 1..(n - 1)
    <3>1. \A k : k \in 1..(n - 1) <=> k \in 1..n /\ k # n
      BY <1>2
    <3>2. \A k : k \in 1..(n - 1) <=> k \in 1..m /\ k # n /\ k # m
      BY <1>2
    <3> QED BY <2>1, <2>3, <3>1, <3>2
  <2> QED BY <2>5, <2>6, <2>7, <1>10 DEF SameFrames
<1>14. /\ preds' \in [Block -> Seq(Block)] /\ preds'[b] = <<>>
       /\ \A c \in Block : c # b => preds'[c] = preds[c]
  BY <1>0, <1>1, <1>4 DEF Types
<1>15. Types' /\ GraphSound'
  BY <1>0, <1>1, <1>9, <1>14, QuietKept DEF Types
<1>16. Block' = Block /\ LiveIds' = LiveIds /\ \A i : BlockOf(i)' = BlockOf(i)
  BY <1>1 DEF Block, Made, LiveIds, BlockOf
<1>17. StackSound'
  <2>1. WellNested(mid)
    <3>1. stack \in Seq(FrameSet) /\ WellNested(stack)
      BY <1>0 DEF Types, StackSound, StackShape
    <3>2. Len(stack) > 1 => n \in 2..n /\ <<stack[Len(stack) - 1].f, x.f>> \in Below
      BY <1>1, <1>2, <1>7, <3>1 DEF WellNested
    <3> QED BY <1>1, <1>7, <1>8, <3>1, <3>2, NestedReplace
  <2>2. WellNested(stack')
    <3>1. <<mid[Len(mid)].f, a.f>> \in Below /\ mid # <<>>
      BY <1>2, <1>7, <1>8, <1>10, EmptyIff DEF Below
    <3> QED BY <1>7, <1>8, <1>9, <2>1, <3>1, NestedPush
  <2>3. StackShape'
    <3>1. stack'[1].f \in {"seal", "sealall"}
      <4>1. 1 = n \/ 1 \in 1..(n - 1)
        BY <1>2
      <4> QED BY <1>7, <1>10, <1>12, <4>1
    <3> QED BY <2>2, <3>1 DEF StackShape
  <2>4. ArgsFrameSound(m)'
    <3>1. m - 1 = n /\ ~(m < m) /\ Len(stack') = m
      BY <1>2, <1>10
    <3>2. Len(insts[phi].args) = 0
      BY <1>6
    <3> QED BY <1>1, <1>6, <1>7, <1>10, <1>14, <1>16, <3>1, <3>2 DEF ArgsFrameSound, BlockOf
  <2>5. ArgsSound'
    BY <1>13, <2>4 DEF ArgsSound
  <2> QED BY <1>13, <2>3, <2>5 DEF StackSound, ResultsApart, TodoMade
<1>18. UnderWay = {} /\ UnderWay' = {phi}
  BY <1>3, <1>7, <1>10, <1>13 DEF UnderWay
<1>19. /\ DistinctPhis(rest) /\ PhisOf(Top.todo) = {phi} \cup PhisOf(rest) /\ phi \notin PhisOf(rest)
       /\ \A k \in 1..Len(rest) : ItemSound(b, rest[k])
  <2>1. PICK s : s = Top.todo
    OBVIOUS
  <2>2. /\ Len(s) \in Nat \ {0} /\ Len(rest) = Len(s) - 1 /\ \A k \in 1..(Len(s) - 1) : rest[k] = s[k + 1]
        /\ phi = s[1][2]
        /\ \A k, i \in 1..Len(s) : k # i => s[k][2] # s[i][2]
        /\ \A i \in 1..Len(s) : ItemSound(b, s[i])
    BY <1>n, <1>4, <1>5, <2>1 DEF ItemsSound, DistinctPhis
  <2>3. \A k \in 1..Len(rest) : k + 1 \in 1..Len(s) /\ k + 1 # 1 /\ rest[k] = s[k + 1] /\ k \in Nat
    BY <2>2
  <2>4. \A k \in 1..Len(s) : k = 1 \/ (k - 1 \in 1..Len(rest) /\ rest[k - 1] = s[k])
    <3>1. \A k \in 1..Len(s) : k = 1 \/ (k - 1 \in 1..Len(rest) /\ (k - 1) + 1 = k)
      BY <2>2
    <3> QED BY <2>3, <3>1
  <2>5. 1 \in 1..Len(s)
    BY <2>2
  <2>6. DistinctPhis(rest)
    <3>1. ASSUME NEW k \in 1..Len(rest), NEW i \in 1..Len(rest), k # i PROVE rest[k][2] # rest[i][2]
      <4>1. k + 1 # i + 1
        BY <2>3, <3>1
      <4> QED BY <2>2, <2>3, <4>1
    <3> QED BY <3>1 DEF DistinctPhis
  <2>7. \A k \in 1..Len(rest) : ItemSound(b, rest[k])
    BY <2>2, <2>3
  <2>8. \A k \in 1..Len(rest) : rest[k][2] # phi
    BY <2>2, <2>3, <2>5
  <2>9. {s[k][2] : k \in 1..Len(s)} = {phi} \cup {rest[k][2] : k \in 1..Len(rest)}
    BY <2>2, <2>3, <2>4, <2>5
  <2> QED BY <2>1, <2>6, <2>7, <2>8, <2>9 DEF PhisOf
<1>20. phi \in Pending /\ Pending' = Pending \ {phi}
  <2>1. Pending = (UNION {PhisOf(incomplete[c]) : c \in Block}) \cup PhisOf(Top.todo)
    BY <1>2, <1>3 DEF Pending
  <2>2. Pending' = (UNION {PhisOf(incomplete[c]) : c \in Block}) \cup PhisOf(rest)
    <3>1. stack'[n].todo = rest
      BY <1>7, <1>10
    <3>2. Pending' = (UNION {PhisOf(incomplete'[c]) : c \in Block'})
                       \cup (UNION {PhisOf(stack'[k].todo) : k \in At("seal")'})
      BY DEF Pending, PhisOf
    <3>3. UNION {PhisOf(stack'[k].todo) : k \in At("seal")'} = PhisOf(rest)
      BY <1>13, <3>1
    <3> QED BY <1>1, <1>16, <3>2, <3>3
  <2>3. \A c \in Block : phi \notin PhisOf(incomplete[c])
    <3> SUFFICES ASSUME NEW c \in Block, NEW k \in 1..Len(incomplete[c]), incomplete[c][k][2] = phi
                 PROVE  FALSE
      BY DEF PhisOf
    <3>1. BlockOf(phi) = c
      BY <1>5 DEF ItemsSound, ItemSound
    <3>2. Len(incomplete[c]) = 0
      BY <1>5, <1>6, <3>1
    <3> QED BY <3>2
  <2> QED BY <1>19, <2>1, <2>2, <2>3
<1>21. PendingSound'
  <2>1. \A c \in Block : ItemsSound(c, incomplete[c])'
    BY <1>1, <1>5, <1>16 DEF ItemsSound, DistinctPhis, ItemSound
  <2>2. ItemsSound(stack[n].block, stack[n].todo)' /\ stack'[n].block = b
    <3>1. stack'[n].block = b /\ stack'[n].todo = rest
      BY <1>7, <1>10
    <3> QED BY <1>1, <1>16, <1>19, <3>1 DEF ItemsSound, DistinctPhis, ItemSound
  <2> QED BY <1>0, <1>1, <1>5, <1>13, <1>16, <1>18, <1>20, <2>1, <2>2 DEF PhisSound, PendingSound
<1>22. \A c : Closed(c)' = Closed(c)
  BY <1>1 DEF Closed, Filled, Block
<1>23. SealedClosed'
  <2>1. AllFilled' = AllFilled
    BY <1>1, <1>16 DEF AllFilled, Filled
  <2> QED BY <1>0, <1>1, <1>5, <1>7, <1>10, <1>13, <1>16, <1>22, <2>1 DEF PhisSound, SealedClosed, SameFrames
<1>24. CompleteSound'
  <2>1. Complete' = Complete
    BY <1>1, <1>16, <1>18, <1>20 DEF Complete
  <2>2. ASSUME NEW p \in Complete
        PROVE  /\ Closed(BlockOf(p))' /\ ~IsTrivial(p)'
               /\ ArgPreds(p)' = IF insts'[p].block = b THEN preds[b] ELSE preds'[insts'[p].block]
    <3>1. BlockOf(p) \in Block
      BY <1>0, InstLemma DEF Complete, BlockOf
    <3>2. Closed(BlockOf(p)) /\ ArgPreds(p) = preds[BlockOf(p)] /\ ~IsTrivial(p)
      BY <1>0, <1>3 DEF PhisSound, CompleteSound
    <3>3. ArgPreds(p)' = ArgPreds(p) /\ IsTrivial(p)' = IsTrivial(p)
      BY <1>1 DEF ArgPreds, IsTrivial, Others, ValuesOf
    <3>4. Closed(BlockOf(p))' = Closed(BlockOf(p))
      BY <1>1 DEF BlockOf, Closed, Filled, Block
    <3> QED BY <1>1, <1>14, <3>1, <3>2, <3>3, <3>4 DEF BlockOf
  <2> QED BY <1>1, <1>6, <1>7, <1>10, <1>13, <2>1, <2>2 DEF CompleteSound, BlockOf
<1>25. ClientSound'
  BY <1>1, ClientKept, NothingReturned
<1> QED BY <1>15, <1>17, <1>21, <1>23, <1>24, <1>25 DEF IInv, PhisSound

\* A phi that has all its arguments gets its block's predecessors back.
LEMMA PhiCompleteSound == ASSUME IInv, PhiComplete PROVE IInv'
<1> PICK n : n = Len(stack)
  OBVIOUS
<1> DEFINE phi == Top.phi
           b == BlockOf(phi)
           x == CheckFrame(<<phi>>)
<1>0. Types /\ GraphSound /\ StackSound /\ PhisSound /\ ClientSound
  BY DEF IInv
<1>1. /\ stack # <<>> /\ Top.f = "args" /\ ret = None /\ Top.done = Len(Top.preds)
      /\ stack' = ReplaceTop(x) /\ preds' = [preds EXCEPT ![b] = Top.preds] /\ panicked' \in BOOLEAN
      /\ UNCHANGED <<prog, insts, body, users, aliases, sealed, defs, incomplete, ret, cur, pc, held>>
  BY DEF PhiComplete, Running, Frame, dfg, client, BlockOf
<1>2. /\ n \in Nat \ {0} /\ n \in 1..n /\ n = Len(stack) /\ Top = stack[n] /\ phi \in InstId
      /\ Top.preds \in Seq(Block) /\ Len(Top.preds) \in Nat /\ n \in At("args")
  BY <1>0, <1>1, TopLemma, FrameLemma DEF At
<1>3. ArgsFrameSound(n)
  BY <1>0, <1>2 DEF StackSound, ArgsSound
<1>4. /\ phi \in LiveIds /\ insts[phi].kind = "phi" /\ b \in Block /\ phi \in Made
      /\ Len(insts[phi].args) = Len(Top.preds)
      /\ \A j \in 1..Len(Top.preds) : insts[phi].args[j].pred = Top.preds[j]
      /\ insts[phi].args \in Seq(Arg)
  BY <1>0, <1>1, <1>2, <1>3, InstLemma DEF ArgsFrameSound, BlockOf
<1>5. n > 1 /\ stack[n - 1].f \in {"result", "seal"}
  <2>1. n # 1
    BY <1>0, <1>1, <1>2 DEF StackSound, StackShape, WellNested
  <2>2. n \in 2..n
    BY <1>2, <2>1
  <2>3. <<stack[n - 1].f, "args">> \in Below
    BY <1>0, <1>1, <1>2, <2>2 DEF StackSound, StackShape, WellNested
  <2> QED BY <1>2, <2>1, <2>3 DEF Below
<1>6. Closed(b)
  <2>1. n - 1 \in 1..n
    BY <1>2, <1>5
  <2>2. CASE stack[n - 1].f = "result"
    BY <1>0, <1>2, <1>3, <1>4, <1>5, <2>2 DEF ArgsFrameSound, PhisSound, SealedClosed, BlockOf
  <2>3. CASE stack[n - 1].f = "seal"
    BY <1>0, <1>2, <1>3, <1>5, <2>1, <2>3 DEF ArgsFrameSound, PhisSound, SealedClosed, At
  <2> QED BY <1>5, <2>2, <2>3
<1>7. x \in FrameSet /\ x.f = "check" /\ x.todo = <<phi>> /\ ToSet(x.todo) = {phi}
  <2>1. <<phi>> \in Seq(InstId) /\ ToSet(<<phi>>) = {phi}
    <3> HIDE DEF phi
    <3> QED BY <1>2 DEF ToSet
  <2> QED BY <2>1 DEF FrameSet, CheckFrame
<1> HIDE DEF x, phi, b
<1>8. stack' \in Seq(FrameSet) /\ Replaced(stack', stack, x)
  BY <1>0, <1>1, <1>7, TopLemma
<1>9. /\ \A f : SameFrames(f) \/ f \in {"args", "check"}
      /\ At("args")' = At("args") \ {n} /\ At("check")' = At("check") \cup {n} /\ n \notin At("check")
      /\ SameCallers /\ Lookups' \subseteq Lookups \ {n}
      /\ \A k \in 1..n : k # n => stack'[k] = stack[k]
      /\ \A f : At(f) \subseteq 1..n
      /\ stack'[n] = x /\ Len(stack') = n
  BY <1>0, <1>1, <1>2, <1>7, <1>8, ReplaceFrames DEF Replaced, At
<1>10. \A k \in At("args")' : k \in At("args") /\ k \in 1..n /\ stack'[k] = stack[k] /\ BlockOf(stack[k].phi) # b /\ stack[k].phi # phi
  BY <1>0, <1>2, <1>9 DEF StackSound, ArgsSound, b, phi
<1>11. /\ preds' \in [Block -> Seq(Block)] /\ preds'[b] = Top.preds
       /\ \A c \in Block : c # b => preds'[c] = preds[c]
  BY <1>0, <1>1, <1>2, <1>4 DEF Types
<1>12. Block' = Block /\ Made' = Made /\ LiveIds' = LiveIds /\ \A i : BlockOf(i)' = BlockOf(i)
  BY <1>1 DEF Block, Made, LiveIds, BlockOf
<1>13. Types' /\ GraphSound'
  <2>1. FrameSet' = FrameSet /\ Inst' = Inst
    BY <1>12 DEF FrameSet, Inst, Arg
  <2>2. GraphSound'
    BY <1>0, <1>1, GraphKept
  <2> QED BY <1>0, <1>1, <1>8, <1>11, <1>12, <2>1, <2>2 DEF Types
<1>14. StackSound'
  <2>1. WellNested(stack')
    <3>1. stack \in Seq(FrameSet) /\ WellNested(stack)
      BY <1>0 DEF Types, StackSound, StackShape
    <3>2. <<stack[n - 1].f, x.f>> \in Below /\ n # 1
      BY <1>5, <1>7 DEF Below
    <3> QED BY <1>1, <1>8, <3>1, <3>2, NestedReplace
  <2>2. StackShape'
    <3>1. stack'[1] = stack[1]
      BY <1>2, <1>5, <1>9
    <3> QED BY <1>0, <1>1, <2>1, <3>1 DEF StackSound, StackShape, Reading
  <2>3. ASSUME NEW k \in At("args")' PROVE ArgsFrameSound(k)'
    <3>1. /\ k \in At("args") /\ k \in 1..n /\ stack'[k] = stack[k] /\ BlockOf(stack[k].phi) # b
          /\ ArgsFrameSound(k)
      BY <1>0, <1>10 DEF StackSound, ArgsSound
    <3>2. BlockOf(stack[k].phi) \in Block
      BY <1>0, <3>1, InstLemma DEF ArgsFrameSound, BlockOf
    <3>3. preds'[BlockOf(stack[k].phi)] = <<>>
      BY <1>11, <3>1, <3>2 DEF ArgsFrameSound
    <3>4. k > 1 => k - 1 \in 1..n /\ k - 1 # n
      BY <1>2, <3>1
    <3> QED BY <1>1, <1>9, <1>12, <3>1, <3>3, <3>4 DEF ArgsFrameSound, BlockOf
  <2>4. ArgsSound'
    <3>1. \A j, k \in Lookups' : stack'[j].var = stack'[k].var
      BY <1>0, <1>9 DEF StackSound, ArgsSound, Lookups
    <3>2. \A j, k \in At("args")' : j # k => insts'[stack'[j].phi].block # insts'[stack'[k].phi].block
      BY <1>0, <1>1, <1>10 DEF StackSound, ArgsSound, BlockOf
    <3> QED BY <2>3, <3>1, <3>2 DEF ArgsSound, BlockOf
  <2>5. ASSUME NEW k \in At("result")' PROVE ResultApart(k)'
    <3>1. k \in At("result") /\ stack'[k] = stack[k] /\ k \in 1..n /\ k # n
      BY <1>1, <1>2, <1>9 DEF SameFrames, At
    <3>2. ResultApart(k)
      BY <1>0, <3>1 DEF StackSound, ResultsApart
    <3>3. n > k
      BY <1>2, <3>1
    <3>4. phi >= stack[k].phi
      BY <1>2, <3>2, <3>3 DEF ResultApart, phi
    <3>5. \A j \in At("check")' : j > k => \A i \in ToSet(stack'[j].todo) : i >= stack[k].phi
      <4>1. ASSUME NEW j \in At("check")', j > k, NEW i \in ToSet(stack'[j].todo)
            PROVE  i >= stack[k].phi
        <5>1. CASE j = n
          BY <1>7, <1>9, <3>4, <4>1, <5>1
        <5>2. CASE j # n
          BY <1>9, <3>2, <4>1, <5>2 DEF ResultApart
        <5> QED BY <5>1, <5>2
      <4> QED BY <4>1
    <3>6. \A j \in At("args")' : IF j > k THEN stack'[j].phi >= stack[k].phi ELSE stack'[j].phi < stack[k].phi
      BY <1>10, <3>2 DEF ResultApart
    <3> QED BY <1>1, <1>12, <3>1, <3>2, <3>5, <3>6 DEF ResultApart, ValuesOf
  <2>6. TodoMade'
    BY <1>0, <1>4, <1>7, <1>9, <1>12 DEF StackSound, TodoMade
  <2> QED BY <2>2, <2>4, <2>5, <2>6 DEF StackSound, ResultsApart
<1>15. UnderWay' = UnderWay \ {phi} /\ phi \in UnderWay
  BY <1>2, <1>9, <1>10 DEF UnderWay, phi
<1>16. Pending' = Pending
  BY <1>1, <1>9, <1>12 DEF Pending, SameFrames, PhisOf
<1>17. phi \notin Pending
  BY <1>0, <1>15 DEF PhisSound, PendingSound
<1>18. PendingSound'
  <2>1. \A c \in Block : ItemsSound(c, incomplete[c])'
    BY <1>0, <1>1, <1>12 DEF PhisSound, PendingSound, ItemsSound, DistinctPhis, ItemSound
  <2>2. \A k \in At("seal") : ItemsSound(stack[k].block, stack[k].todo)'
    <3>1. ASSUME NEW k \in At("seal") PROVE ItemsSound(stack[k].block, stack[k].todo)'
      <4>1. ItemsSound(stack[k].block, stack[k].todo) /\ stack'[k] = stack[k]
        BY <1>0, <1>9 DEF PhisSound, PendingSound, SameFrames
      <4> QED BY <1>1, <1>12, <4>1 DEF ItemsSound, DistinctPhis, ItemSound
    <3> QED BY <3>1
  <2> QED BY <1>0, <1>1, <1>9, <1>12, <1>15, <1>16, <2>1, <2>2 DEF PhisSound, PendingSound, SameFrames
<1>19. \A c : Closed(c)' = Closed(c)
  BY <1>1 DEF Closed, Filled, Block
<1>20. SealedClosed'
  <2>1. AllFilled' = AllFilled
    BY <1>1, <1>12 DEF AllFilled, Filled
  <2> QED BY <1>0, <1>1, <1>9, <1>12, <1>19, <2>1 DEF PhisSound, SealedClosed, SameFrames
<1>21. CompleteSound'
  <2>1. Complete' = Complete \cup {phi}
    BY <1>1, <1>4, <1>12, <1>15, <1>16, <1>17 DEF Complete
  <2> SUFFICES ASSUME NEW p \in Complete'
               PROVE  (/\ Closed(BlockOf(p))
                       /\ \A k \in At("args") : BlockOf(stack[k].phi) = BlockOf(p) => ArgPreds(p) = stack[k].preds
                       /\ (\A k \in At("args") : BlockOf(stack[k].phi) # BlockOf(p))
                            => ArgPreds(p) = preds[BlockOf(p)]
                       /\ IsTrivial(p) => \E k \in At("check") : p \in ToSet(stack[k].todo))'
    BY DEF CompleteSound
  <2>2. ArgPreds(p)' = ArgPreds(p) /\ IsTrivial(p)' = IsTrivial(p) /\ Closed(BlockOf(p))' = Closed(BlockOf(p))
    BY <1>1 DEF ArgPreds, IsTrivial, Others, ValuesOf, BlockOf, Closed, Filled, Block
  <2>3. CASE p = phi
    <3>1. ArgPreds(p) = Top.preds
      <4>1. DOMAIN insts[phi].args = 1..Len(Top.preds)
        BY <1>4, LenProperties
      <4>2. ArgPreds(p) = [k \in 1..Len(Top.preds) |-> Top.preds[k]]
        BY <1>4, <2>3, <4>1 DEF ArgPreds
      <4> QED BY <1>2, <4>2
    <3>2. BlockOf(p) = b
      BY <2>3 DEF b
    <3>3. n \in At("check")' /\ p \in ToSet(stack'[n].todo)
      BY <1>7, <1>9, <2>3
    <3>4. preds'[BlockOf(p)] = Top.preds
      BY <1>11, <3>2
    <3>5. \A k \in At("args")' : BlockOf(stack'[k].phi) # BlockOf(p)
      BY <1>10, <3>2
    <3> QED BY <1>1, <1>6, <1>12, <2>2, <3>1, <3>2, <3>3, <3>4, <3>5 DEF BlockOf
  <2>4. CASE p \in Complete
    <3>1. BlockOf(p) \in Block
      BY <1>0, <2>4, InstLemma DEF Complete, BlockOf
    <3>2. /\ Closed(BlockOf(p))
          /\ \A k \in At("args") : BlockOf(stack[k].phi) = BlockOf(p) => ArgPreds(p) = stack[k].preds
          /\ (\A k \in At("args") : BlockOf(stack[k].phi) # BlockOf(p)) => ArgPreds(p) = preds[BlockOf(p)]
          /\ IsTrivial(p) => \E k \in At("check") : p \in ToSet(stack[k].todo)
      BY <1>0, <2>4 DEF PhisSound, CompleteSound
    <3>3. IsTrivial(p) => \E k \in At("check")' : p \in ToSet(stack'[k].todo)
      BY <1>9, <3>2
    <3>4. \A k \in At("args")' : BlockOf(stack'[k].phi) = BlockOf(p) => ArgPreds(p) = stack'[k].preds
      BY <1>10, <3>2
    <3>5. ASSUME \A k \in At("args")' : BlockOf(stack'[k].phi) # BlockOf(p)
          PROVE  ArgPreds(p) = preds'[BlockOf(p)]
      <4>1. CASE BlockOf(p) = b
        BY <1>2, <1>11, <3>2, <4>1 DEF b, phi
      <4>2. CASE BlockOf(p) # b
        <5>1. \A k \in At("args") : BlockOf(stack[k].phi) # BlockOf(p)
          BY <1>2, <1>9, <1>10, <3>5, <4>2 DEF b, phi
        <5> QED BY <1>11, <3>1, <3>2, <4>2, <5>1
      <4> QED BY <4>1, <4>2
    <3> QED BY <1>1, <2>2, <3>2, <3>3, <3>4, <3>5 DEF BlockOf
  <2> QED BY <2>1, <2>3, <2>4
<1>22. ClientSound'
  BY <1>1, ClientKept
<1> QED BY <1>13, <1>14, <1>18, <1>20, <1>21, <1>22 DEF IInv, PhisSound

-----------------------------------------------------------------------------
(***************************************************************************)
(* use_var makes a phi.                                                    *)
(***************************************************************************)

\* While a variable is looked up nothing is being removed, and its lookup has not
\* come to a block whose phi is under way.
LEMMA UseTop ==
  ASSUME IInv, stack # <<>>, Top.f = "use"
  PROVE  /\ Len(stack) \in Nat \ {0} /\ Len(stack) \in 1..Len(stack) /\ Top = stack[Len(stack)]
         /\ Top.block \in Block /\ Top.var \in Var
         /\ At("check") = {}
         /\ \A p \in Complete : ~IsTrivial(p)
         /\ \A k \in At("args") : stack[k].var = Top.var /\ defs[BlockOf(stack[k].phi)][Top.var] # None
         /\ \A k \in At("seal") : defs[stack[k].block][Top.var] # None
         /\ Len(stack) > 1 => stack[Len(stack) - 1].f = "args"
<1>0. Types /\ GraphSound /\ StackSound /\ PhisSound /\ ClientSound
  BY DEF IInv
<1>n. PICK n : n = Len(stack)
  OBVIOUS
<1>1. /\ n \in Nat \ {0} /\ n \in 1..n /\ Top = stack[n]
      /\ Top.block \in Block /\ Top.var \in Var
  BY <1>0, <1>n, TopLemma, FrameLemma
<1>2. At("check") = {}
  <2> SUFFICES ASSUME NEW k \in 1..n, stack[k].f = "check" PROVE FALSE
    BY <1>n DEF At
  <2>1. n \in k..n
    BY <1>1
  <2> QED BY <1>0, <1>n, <1>1, <2>1 DEF StackSound, StackShape, WellNested
<1>3. \A p \in Complete : ~IsTrivial(p)
  BY <1>0, <1>2 DEF PhisSound, CompleteSound
<1>4. ASSUME NEW k \in At("args")
      PROVE  stack[k].var = Top.var /\ defs[BlockOf(stack[k].phi)][Top.var] # None
  <2>1. n \in Lookups /\ k \in Lookups
    BY <1>n, <1>1 DEF Lookups, At
  <2> QED BY <1>0, <1>1, <2>1 DEF StackSound, ArgsSound, ArgsFrameSound
<1>5. ASSUME NEW k \in At("seal") PROVE defs[stack[k].block][Top.var] # None
  <2>1. PICK j : j = k + 1
    OBVIOUS
  <2>2. k \in 1..n /\ k # n /\ stack[k].f = "seal"
    BY <1>n, <1>1 DEF At
  <2>3. j \in 2..n /\ j - 1 = k /\ j \in 1..n /\ j > 1
    BY <1>1, <2>1, <2>2
  <2>4. <<stack[k].f, stack[j].f>> \in Below
    BY <1>0, <1>n, <2>3 DEF StackSound, StackShape, WellNested
  <2>5. stack[j].f \in {"args", "check"}
    BY <2>2, <2>4 DEF Below
  <2>6. j \in At("args")
    BY <1>n, <1>2, <2>3, <2>5 DEF At
  <2>7. stack[k].block = BlockOf(stack[j].phi)
    BY <1>0, <2>2, <2>3, <2>6 DEF StackSound, ArgsSound, ArgsFrameSound
  <2> QED BY <1>4, <2>6, <2>7
<1>6. n > 1 => stack[n - 1].f = "args"
  <2>1. n > 1 => n \in 2..n
    BY <1>1
  <2> QED BY <1>0, <1>n, <1>1, <2>1 DEF StackSound, StackShape, WellNested, Below
<1> QED BY <1>n, <1>1, <1>2, <1>3, <1>4, <1>5, <1>6

\* A new phi at the head of a block, and what the other parts of the state keep.
LEMMA PrependSound ==
  ASSUME IInv, NEW b \in Block, PrependPhi(b), NEW var \in Var,
         defs' = [defs EXCEPT ![b][var] = Fresh], UNCHANGED <<prog, aliases>>
  PROVE  /\ Fresh \in InstId /\ Fresh = Len(insts) + 1 /\ Fresh \notin Made /\ Fresh \notin LiveIds
         /\ insts' \in Seq(Inst) /\ Len(insts') = Fresh /\ Len(insts') <= MaxInsts
         /\ insts'[Fresh].kind = "phi" /\ insts'[Fresh].block = b /\ insts'[Fresh].args = <<>>
         /\ \A i \in Made : insts'[i] = insts[i]
         /\ Made' = Made \cup {Fresh} /\ LiveIds' = LiveIds \cup {Fresh}
         /\ Block' = Block /\ Inst' = Inst /\ FrameSet' = FrameSet
         /\ body' \in [Block -> Seq(InstId)] /\ users' \in [InstId -> SUBSET InstId]
         /\ DOMAIN aliases' \subseteq Made' /\ aliases' \in [DOMAIN aliases' -> Made']
         /\ defs' \in [Block -> [Var -> 0..Len(insts')]] /\ defs'[b][var] = Fresh /\ Fresh # None
         /\ DefsKept /\ 0..Len(insts) \subseteq 0..Len(insts')
         /\ GraphSound'
<1> DEFINE inst == NewInst("phi", b, <<>>)
<1>0. Types /\ GraphSound
  BY DEF IInv
<1>1. inst \in Inst /\ ValuesOf(inst) \subseteq LiveIds /\ inst.block = b /\ inst.kind = "phi" /\ inst.args = <<>>
  BY DEF NewInst, Inst, ValuesOf
<1>2. InsertInst(inst, <<Fresh>> \o body[b])
  BY DEF PrependPhi
<1> HIDE DEF inst
<1>3. Fresh \in InstId
  BY <1>0, <1>2, InstLemma, MaxInstsAssumption DEF InsertInst, Fresh, InstId
<1>4. /\ <<Fresh>> \o body[b] \in Seq(InstId)
      /\ ToSet(<<Fresh>> \o body[b]) = ToSet(body[inst.block]) \cup {Fresh}
  <2>1. body[b] \in Seq(InstId)
    BY <1>0 DEF Types
  <2> QED BY <1>1, <1>3, <2>1, PrependSetLemma
<1>5. /\ Fresh = Len(insts) + 1 /\ Fresh \notin Made
      /\ insts' \in Seq(Inst) /\ Len(insts') = Fresh /\ Len(insts') <= MaxInsts
      /\ insts'[Fresh] = inst /\ \A i \in Made : insts'[i] = insts[i]
      /\ Made' = Made \cup {Fresh} /\ LiveIds' = LiveIds \cup {Fresh} /\ Fresh \notin LiveIds
      /\ Block' = Block /\ Inst' = Inst /\ FrameSet' = FrameSet
      /\ body' \in [Block -> Seq(InstId)] /\ users' \in [InstId -> SUBSET InstId]
      /\ DOMAIN aliases' \subseteq Made' /\ aliases' \in [DOMAIN aliases' -> Made']
      /\ GraphSound'
  BY <1>0, <1>1, <1>2, <1>4, InsertKept
<1>6. Len(insts) \in Nat /\ 0..Len(insts) \subseteq 0..Len(insts') /\ Fresh \in 0..Len(insts') /\ Fresh # None
  BY <1>0, <1>5, InstLemma DEF None
<1>7. defs' \in [Block -> [Var -> 0..Len(insts')]] /\ defs'[b][var] = Fresh /\ DefsKept
  <2> HIDE DEF Fresh
  <2>1. defs \in [Block -> [Var -> 0..Len(insts')]]
    BY <1>0, <1>6 DEF Types
  <2> QED BY <1>6, <2>1 DEF DefsKept
<1> QED BY <1>1, <1>3, <1>5, <1>6, <1>7

\* The callers' frames while a phi is made.
LEMMA CallersGrow ==
  ASSUME IInv, stack # <<>>, \A k \in 1..(Len(stack) - 1) : stack'[k] = stack[k],
         \A i \in Made : insts'[i] = insts[i], LiveIds \subseteq LiveIds', Made \subseteq Made', DefsKept,
         UNCHANGED <<prog, sealed>>,
         \A k \in At("args") : preds'[BlockOf(stack[k].phi)] = <<>>,
         NEW k \in 1..(Len(stack) - 1)
  PROVE  /\ k \in At("args") => ArgsFrameSound(k)'
         /\ k \in At("result") =>
              stack[k].phi \in Made' /\ \A i \in 1..(stack[k].phi - 1) : \A v \in ValuesOf(insts'[i]) : v < stack[k].phi
<1>0. Types /\ StackSound /\ Len(stack) \in Nat \ {0}
  BY TopLemma DEF IInv
<1>1. k < Len(stack) /\ k \in 1..Len(stack) /\ stack'[k] = stack[k]
  BY <1>0
<1>2. k > 1 => stack'[k - 1] = stack[k - 1]
  <2>1. k > 1 => k - 1 \in 1..(Len(stack) - 1)
    BY <1>0
  <2> QED BY <2>1
<1>3. ASSUME k \in At("args") PROVE ArgsFrameSound(k)'
  <2>1. ArgsFrameSound(k)
    BY <1>0, <1>3 DEF StackSound, ArgsSound
  <2>2. /\ stack[k].phi \in Made /\ BlockOf(stack[k].phi) \in Block /\ stack[k].var \in Var
        /\ insts'[stack[k].phi] = insts[stack[k].phi]
    BY <1>0, <1>1, <1>3, <2>1, InstLemma, FrameLemma DEF ArgsFrameSound, BlockOf, At
  <2>3. defs'[BlockOf(stack[k].phi)][stack[k].var] # None
    BY <2>1, <2>2 DEF ArgsFrameSound, DefsKept
  <2>4. preds'[BlockOf(stack[k].phi)] = <<>>
    BY <1>3
  <2> QED BY <1>1, <1>2, <2>1, <2>2, <2>3, <2>4 DEF ArgsFrameSound, BlockOf
<1>4. ASSUME k \in At("result")
      PROVE  stack[k].phi \in Made' /\ \A i \in 1..(stack[k].phi - 1) : \A v \in ValuesOf(insts'[i]) : v < stack[k].phi
  <2>1. PICK phi : phi = stack[k].phi
    OBVIOUS
  <2>2. phi \in Made /\ \A i \in 1..(phi - 1) : \A v \in ValuesOf(insts[i]) : v < phi
    BY <1>0, <1>4, <2>1 DEF StackSound, ResultsApart, ResultApart
  <2>3. \A i \in 1..(phi - 1) : i \in Made
    BY <1>0, <2>2, InstLemma DEF Made
  <2> QED BY <2>1, <2>2, <2>3
<1> QED BY <1>3, <1>4

\* What is pending and complete while a phi is made.
LEMMA PhisGrow ==
  ASSUME IInv, \A i \in Made : insts'[i] = insts[i], LiveIds' = LiveIds \cup {Fresh}, Fresh \notin Made,
         DefsKept, UNCHANGED <<prog, sealed, pc>>,
         SameFrames("seal"), SameFrames("sealall")
  PROVE  /\ \A c, items : items \in Seq(Var \X InstId) /\ c \in Block /\ ItemsSound(c, items) => ItemsSound(c, items)'
         /\ \A k \in At("seal") : stack'[k] = stack[k] /\ ItemsSound(stack[k].block, stack[k].todo)'
         /\ \A p \in Complete : /\ p \in Made /\ insts'[p] = insts[p] /\ BlockOf(p) \in Block
                                /\ BlockOf(p)' = BlockOf(p) /\ ArgPreds(p)' = ArgPreds(p)
                                /\ IsTrivial(p)' = IsTrivial(p) /\ Closed(BlockOf(p))' = Closed(BlockOf(p))
         /\ Pending \subseteq LiveIds /\ UnderWay \subseteq LiveIds /\ Fresh \notin LiveIds
         /\ SealedClosed'
<1>0. Types /\ StackSound /\ PhisSound /\ LiveIds \subseteq Made
  BY InstLemma DEF IInv
<1>1. ASSUME NEW c \in Block, NEW items \in Seq(Var \X InstId), ItemsSound(c, items)
      PROVE  ItemsSound(c, items)'
  <2>1. \A k \in 1..Len(items) : items[k][1] \in Var
    BY LenProperties
  <2> QED BY <1>0, <1>1, <2>1 DEF ItemsSound, DistinctPhis, ItemSound, BlockOf, DefsKept
<1>2. ASSUME NEW k \in At("seal") PROVE stack'[k] = stack[k] /\ ItemsSound(stack[k].block, stack[k].todo)'
  <2>1. stack'[k] = stack[k] /\ ItemsSound(stack[k].block, stack[k].todo)
    BY <1>0 DEF SameFrames, PhisSound, PendingSound
  <2>2. PICK c, items : c = stack[k].block /\ items = stack[k].todo
    OBVIOUS
  <2>3. c \in Block /\ items \in Seq(Var \X InstId)
    BY <1>0, <2>2, FrameLemma DEF At
  <2>4. ItemsSound(c, items)'
    BY <1>1, <2>1, <2>2, <2>3
  <2>5. c = stack'[k].block /\ items = stack'[k].todo
    BY <2>1, <2>2
  <2> QED BY <2>1, <2>4, <2>5 DEF ItemsSound, DistinctPhis, ItemSound
<1>3. ASSUME NEW p \in Complete
      PROVE  /\ p \in Made /\ insts'[p] = insts[p] /\ BlockOf(p) \in Block
             /\ BlockOf(p)' = BlockOf(p) /\ ArgPreds(p)' = ArgPreds(p)
             /\ IsTrivial(p)' = IsTrivial(p) /\ Closed(BlockOf(p))' = Closed(BlockOf(p))
  <2>1. p \in Made /\ insts'[p] = insts[p] /\ BlockOf(p) \in Block
    BY <1>0, InstLemma DEF Complete, BlockOf
  <2> QED BY <2>1 DEF BlockOf, ArgPreds, IsTrivial, Others, ValuesOf, Closed, Filled, Block
<1>4. Pending \subseteq LiveIds /\ UnderWay \subseteq LiveIds
  <2>1. \A c \in Block : PhisOf(incomplete[c]) \subseteq LiveIds
    BY <1>0 DEF PhisSound, PendingSound, ItemsSound, ItemSound, PhisOf
  <2>2. \A k \in At("seal") : PhisOf(stack[k].todo) \subseteq LiveIds
    BY <1>0 DEF PhisSound, PendingSound, ItemsSound, ItemSound, PhisOf
  <2>3. UnderWay \subseteq LiveIds
    BY <1>0 DEF StackSound, ArgsSound, ArgsFrameSound, UnderWay
  <2> QED BY <2>1, <2>2, <2>3 DEF Pending
<1>5. SealedClosed'
  <2>1. FilledKept
    BY DEF FilledKept, Filled
  <2> QED BY <1>0, <2>1, SealedClosedKept DEF PhisSound
<1> QED BY <1>0, <1>1, <1>2, <1>3, <1>4, <1>5

\* What the caller of use_var waits for.
LEMMA CallerWaits ==
  ASSUME IInv, stack # <<>>, Top.f \in {"use", "result"}, Popped(stack', stack), stack' \in Seq(FrameSet),
         UNCHANGED <<prog, cur, pc>>
  PROVE  /\ stack' = <<>> => Reading'
         /\ stack' # <<>> => (Top.f = "args" /\ Top.done < Len(Top.preds))'
<1>n. PICK n : n = Len(stack)
  OBVIOUS
<1>0. Types /\ StackSound
  BY DEF IInv
<1>1. /\ n \in Nat \ {0} /\ Top = stack[n] /\ Len(stack') = n - 1 /\ \A k \in 1..(n - 1) : stack'[k] = stack[k]
  BY <1>0, <1>n, TopLemma DEF Popped
<1>2. Reading' = Reading
  BY DEF Reading
<1>3. ASSUME stack' = <<>> PROVE Reading'
  <2>1. n = 1
    BY <1>1, <1>3, EmptyIff
  <2> QED BY <1>0, <1>1, <1>2, <2>1 DEF StackSound, StackShape
<1>4. ASSUME stack' # <<>>
      PROVE  (Top.f = "args" /\ Top.done < Len(Top.preds))'
  <2>1. n - 1 \in 1..(n - 1) /\ n \in 2..n /\ n - 1 \in 1..n /\ n - 1 < n
    BY <1>1, <1>4, EmptyIff
  <2>2. Top' = stack[n - 1]
    BY <1>1, <2>1 DEF Top, Last
  <2>3. stack[n - 1].f = "args"
    BY <1>0, <1>n, <1>1, <2>1 DEF StackSound, StackShape, WellNested, Below
  <2>4. stack[n - 1].done < Len(stack[n - 1].preds)
    BY <1>0, <1>n, <2>1, <2>3 DEF StackSound, ArgsSound, ArgsFrameSound, At
  <2> QED BY <2>2, <2>3, <2>4
<1> QED BY <1>3, <1>4

\* In an unsealed block the phi waits for the block to be sealed.
LEMMA UseVarUnsealedSound == ASSUME IInv, UseVarUnsealed PROVE IInv'
<1>n. PICK n, b, var, phi : n = Len(stack) /\ b = Top.block /\ var = Top.var /\ phi = Fresh
  OBVIOUS
<1>0. Types /\ GraphSound /\ StackSound /\ PhisSound /\ ClientSound
  BY DEF IInv
<1>1. /\ stack # <<>> /\ Top.f = "use" /\ defs[b][var] = None /\ ~sealed[b] /\ PrependPhi(b)
      /\ incomplete' = [incomplete EXCEPT ![b] = Append(@, <<var, phi>>)]
      /\ defs' = [defs EXCEPT ![b][var] = Fresh] /\ ret' = ResolveAlias(Fresh) /\ stack' = Pop
      /\ UNCHANGED <<prog, preds, sealed, aliases, panicked, cur, pc, held>>
  BY <1>n DEF UseVarUnsealed, NoLocal, Running, Frame, client, DefPhi
<1>2. /\ n \in Nat \ {0} /\ n \in 1..n /\ Top = stack[n] /\ b \in Block /\ var \in Var
      /\ At("check") = {}
      /\ \A p \in Complete : ~IsTrivial(p)
      /\ \A k \in At("args") : defs[BlockOf(stack[k].phi)][var] # None
      /\ \A k \in At("seal") : defs[stack[k].block][var] # None
  BY <1>1, <1>n, UseTop
<1>3. /\ phi \in InstId /\ phi = Len(insts) + 1 /\ phi \notin Made /\ phi \notin LiveIds
      /\ insts' \in Seq(Inst) /\ Len(insts') = phi /\ Len(insts') <= MaxInsts
      /\ insts'[phi].kind = "phi" /\ insts'[phi].block = b /\ insts'[phi].args = <<>>
      /\ \A i \in Made : insts'[i] = insts[i]
      /\ Made' = Made \cup {phi} /\ LiveIds' = LiveIds \cup {phi}
      /\ Block' = Block /\ Inst' = Inst /\ FrameSet' = FrameSet
      /\ body' \in [Block -> Seq(InstId)] /\ users' \in [InstId -> SUBSET InstId]
      /\ DOMAIN aliases' \subseteq Made' /\ aliases' \in [DOMAIN aliases' -> Made']
      /\ defs' \in [Block -> [Var -> 0..Len(insts')]] /\ defs'[b][var] = phi /\ phi # None
      /\ DefsKept /\ 0..Len(insts) \subseteq 0..Len(insts')
      /\ GraphSound'
  BY <1>1, <1>2, <1>n, PrependSound, ZenonT(60)
<1>4. ret' = phi
  <2>1. phi \notin DOMAIN aliases
    BY <1>0, <1>3 DEF Types
  <2> QED BY <1>1, <1>3, <1>n, <2>1, ResolveUnaliased
<1>5. /\ stack' \in Seq(FrameSet) /\ Popped(stack', stack)
      /\ Len(stack') = n - 1 /\ \A k \in 1..(n - 1) : stack'[k] = stack[k]
  BY <1>0, <1>1, <1>n, TopLemma DEF Popped
<1>6. \A f : f # "use" => SameFrames(f)
  BY <1>1, <1>2, <1>5, <1>n DEF SameFrames, At
<1>7. incomplete' \in [Block -> Seq(Var \X InstId)] /\ \A c \in Block : c # b => incomplete'[c] = incomplete[c]
  <2>1. <<var, phi>> \in Var \X InstId /\ incomplete[b] \in Seq(Var \X InstId)
    BY <1>0, <1>2, <1>3 DEF Types
  <2>2. Append(incomplete[b], <<var, phi>>) \in Seq(Var \X InstId)
    BY <2>1, AppendProperties
  <2> QED BY <1>0, <1>1, <1>2, <2>2 DEF Types
<1>8. Types'
  <2>1. ret' \in 0..Len(insts') /\ held' \in 0..Len(insts')
    BY <1>0, <1>1, <1>3, <1>4, InstLemma DEF Types
  <2> QED BY <1>0, <1>1, <1>3, <1>5, <1>7, <2>1 DEF Types
<1>9. \A k \in 1..(n - 1) : /\ k \in At("args") => ArgsFrameSound(k)'
                            /\ k \in At("result") => /\ stack[k].phi \in Made'
                                                     /\ \A i \in 1..(stack[k].phi - 1) : \A v \in ValuesOf(insts'[i]) : v < stack[k].phi
  <2>1. \A k \in At("args") : preds'[BlockOf(stack[k].phi)] = <<>>
    BY <1>0, <1>1 DEF StackSound, ArgsSound, ArgsFrameSound
  <2> QED BY <1>1, <1>3, <1>5, <1>n, <2>1, CallersGrow
<1>10. StackSound'
  <2>1. StackShape'
    <3>1. Reading' = Reading
      BY <1>1 DEF Reading
    <3>2. WellNested(stack')
      BY <1>0, <1>1, <1>5, NestedPop DEF Types, StackSound, StackShape
    <3>3. stack' # <<>> => stack'[1] = stack[1]
      BY <1>5, NotEmpty
    <3> QED BY <1>0, <1>1, <3>1, <3>2, <3>3 DEF StackSound, StackShape
  <2>2. \A f : f # "use" => At(f)' = At(f) /\ At(f) \subseteq 1..(n - 1)
    <3>1. \A f : At(f)' \subseteq 1..(n - 1)
      BY <1>5 DEF At
    <3> QED BY <1>6, <3>1 DEF SameFrames
  <2>3. ArgsSound'
    <3>1. \A k \in At("args")' : ArgsFrameSound(k)'
      BY <1>9, <2>2
    <3>2. \A j, k \in Lookups' : stack'[j].var = stack'[k].var
      <4>1. \A k \in Lookups' : k \in Lookups /\ stack'[k] = stack[k]
        <5>1. \A k \in 1..(n - 1) : k \in 1..n
          BY <1>2
        <5> QED BY <1>5, <1>n, <5>1 DEF Lookups
      <4> QED BY <1>0, <4>1 DEF StackSound, ArgsSound
    <3>3. \A j, k \in At("args")' : j # k => insts'[stack'[j].phi].block # insts'[stack'[k].phi].block
      <4>1. \A k \in At("args")' : k \in At("args") /\ stack'[k] = stack[k] /\ insts'[stack[k].phi] = insts[stack[k].phi]
        <5>1. \A k \in At("args") : stack[k].phi \in Made
          BY <1>0, InstLemma DEF StackSound, ArgsSound, ArgsFrameSound
        <5> QED BY <1>3, <1>6, <5>1 DEF SameFrames
      <4> QED BY <1>0, <4>1 DEF StackSound, ArgsSound, BlockOf
    <3> QED BY <3>1, <3>2, <3>3 DEF ArgsSound, BlockOf
  <2>4. ResultsApart'
    <3> SUFFICES ASSUME NEW k \in At("result")' PROVE ResultApart(k)'
      BY DEF ResultsApart
    <3>1. k \in At("result") /\ stack'[k] = stack[k] /\ k \in 1..(n - 1)
      BY <1>6, <2>2 DEF SameFrames
    <3>2. \A j \in At("args")' : IF j > k THEN stack'[j].phi >= stack'[k].phi ELSE stack'[j].phi < stack'[k].phi
      BY <1>0, <1>6, <3>1 DEF StackSound, ResultsApart, ResultApart, SameFrames
    <3>3. At("check")' = {}
      BY <1>2, <2>2
    <3>4. /\ stack'[k].phi \in Made'
          /\ \A i \in 1..(stack'[k].phi - 1) : \A v \in ValuesOf(insts'[i]) : v < stack'[k].phi
      BY <1>9, <3>1
    <3> QED BY <3>2, <3>3, <3>4 DEF ResultApart, ValuesOf
  <2>5. TodoMade'
    BY <1>2, <2>2 DEF TodoMade
  <2> QED BY <2>1, <2>3, <2>4, <2>5 DEF StackSound
<1>11. /\ \A c, items : items \in Seq(Var \X InstId) /\ c \in Block /\ ItemsSound(c, items) => ItemsSound(c, items)'
       /\ \A k \in At("seal") : stack'[k] = stack[k] /\ ItemsSound(stack[k].block, stack[k].todo)'
       /\ \A p \in Complete : /\ p \in Made /\ insts'[p] = insts[p] /\ BlockOf(p) \in Block
                              /\ BlockOf(p)' = BlockOf(p) /\ ArgPreds(p)' = ArgPreds(p)
                              /\ IsTrivial(p)' = IsTrivial(p) /\ Closed(BlockOf(p))' = Closed(BlockOf(p))
       /\ Pending \subseteq LiveIds /\ UnderWay \subseteq LiveIds
       /\ SealedClosed'
  BY <1>1, <1>3, <1>6, <1>n, PhisGrow
<1>12. UnderWay' = UnderWay
  BY <1>6 DEF UnderWay, SameFrames
<1>13. \A c \in Block : ItemsSound(c, incomplete[c])'
  <2> TAKE c \in Block
  <2>1. ItemsSound(c, incomplete[c]) /\ incomplete[c] \in Seq(Var \X InstId)
    BY <1>0 DEF PhisSound, PendingSound, Types
  <2>2. PICK items : items = incomplete[c]
    OBVIOUS
  <2>3. ItemsSound(c, items)'
    BY <1>11, <2>1, <2>2
  <2>4. CASE c # b
    <3>1. items = incomplete'[c]
      BY <1>7, <2>2, <2>4
    <3> QED BY <2>3, <3>1 DEF ItemsSound, DistinctPhis, ItemSound
  <2>5. CASE c = b
    <3>1. PICK more : more = Append(items, <<var, phi>>)
      OBVIOUS
    <3>2. incomplete'[c] = more
      BY <1>0, <1>1, <1>2, <2>2, <2>5, <3>1 DEF Types
    <3>3. /\ Len(items) \in Nat /\ Len(more) = Len(items) + 1 /\ more[Len(items) + 1] = <<var, phi>>
          /\ \A k \in 1..Len(items) : more[k] = items[k]
      <4>1. <<var, phi>> \in Var \X InstId
        BY <1>2, <1>3
      <4> QED BY <2>1, <2>2, <3>1, <4>1, AppendProperties, LenProperties
    <3>4. \A k \in 1..Len(more) : k \in 1..Len(items) \/ k = Len(items) + 1
      BY <3>3
    <3>5. /\ \A i, k \in 1..Len(items) : i # k => items[i][2] # items[k][2]
          /\ \A k \in 1..Len(items) : items[k][2] # phi
      BY <1>3, <2>1, <2>2 DEF ItemsSound, DistinctPhis, ItemSound
    <3>6. \A i, k \in 1..Len(more) : i # k => more[i][2] # more[k][2]
      BY <3>3, <3>4, <3>5
    <3>7. \A k \in 1..Len(items) : ItemSound(c, items[k])'
      BY <2>3 DEF ItemsSound
    <3>8. \A k \in 1..Len(more) : ItemSound(c, more[k])'
      <4>1. ItemSound(c, <<var, phi>>)'
        BY <1>3, <2>5 DEF ItemSound, BlockOf
      <4>2. ASSUME NEW k \in 1..Len(more) PROVE ItemSound(c, more[k])'
        <5>1. CASE k \in 1..Len(items)
          BY <3>3, <3>7, <5>1
        <5>2. CASE k = Len(items) + 1
          BY <3>3, <4>1, <5>2
        <5> QED BY <3>4, <5>1, <5>2
      <4> QED BY <4>2
    <3> QED BY <3>2, <3>6, <3>8 DEF ItemsSound, DistinctPhis, ItemSound
  <2> QED BY <2>4, <2>5
<1>14. Pending' = Pending \cup {phi}
  <2>1. Pending' = (UNION {PhisOf(incomplete'[c]) : c \in Block'})
                       \cup (UNION {PhisOf(stack'[k].todo) : k \in At("seal")'})
    BY DEF Pending, PhisOf
  <2>2. UNION {PhisOf(stack'[k].todo) : k \in At("seal")'} = UNION {PhisOf(stack[k].todo) : k \in At("seal")}
    BY <1>6 DEF SameFrames
  <2>3. PhisOf(incomplete'[b]) = PhisOf(incomplete[b]) \cup {phi}
    <3>1. PICK items, more : items = incomplete[b] /\ more = Append(items, <<var, phi>>)
      OBVIOUS
    <3>2. incomplete'[b] = more /\ items \in Seq(Var \X InstId) /\ <<var, phi>> \in Var \X InstId
      BY <1>0, <1>1, <1>2, <1>3, <3>1 DEF Types
    <3>3. /\ Len(items) \in Nat /\ Len(more) = Len(items) + 1 /\ more[Len(items) + 1] = <<var, phi>>
          /\ \A k \in 1..Len(items) : more[k] = items[k]
      BY <3>1, <3>2, AppendProperties, LenProperties
    <3>4. \A k : k \in 1..Len(more) <=> k \in 1..Len(items) \/ k = Len(items) + 1
      BY <3>3
    <3>5. {more[k][2] : k \in 1..Len(more)} = {items[k][2] : k \in 1..Len(items)} \cup {phi}
      BY <3>3, <3>4
    <3> QED BY <3>1, <3>2, <3>5 DEF PhisOf
  <2>4. UNION {PhisOf(incomplete'[c]) : c \in Block} = (UNION {PhisOf(incomplete[c]) : c \in Block}) \cup {phi}
    <3>1. \A c \in Block : PhisOf(incomplete'[c]) = PhisOf(incomplete[c]) \cup (IF c = b THEN {phi} ELSE {})
      BY <1>7, <2>3
    <3> QED BY <1>2, <3>1
  <2>5. Pending = (UNION {PhisOf(incomplete[c]) : c \in Block})
                       \cup (UNION {PhisOf(stack[k].todo) : k \in At("seal")})
    BY DEF Pending
  <2> QED BY <1>3, <2>1, <2>2, <2>4, <2>5
<1>15. PendingSound'
  <2>1. \A k \in At("seal") : stack[k].block # b
    BY <1>1, <1>2
  <2>2. \A k \in At("seal")' : /\ k \in At("seal") /\ stack'[k] = stack[k]
                               /\ ItemsSound(stack[k].block, stack[k].todo)'
                               /\ incomplete'[stack'[k].block] = <<>> /\ ~sealed'[stack'[k].block]
    <3> SUFFICES ASSUME NEW k \in At("seal")'
                 PROVE  /\ k \in At("seal") /\ stack'[k] = stack[k]
                        /\ ItemsSound(stack[k].block, stack[k].todo)'
                        /\ incomplete'[stack'[k].block] = <<>> /\ ~sealed'[stack'[k].block]
      OBVIOUS
    <3>1. k \in At("seal") /\ stack'[k] = stack[k]
      BY <1>6 DEF SameFrames
    <3>2. stack[k].block \in Block /\ stack[k].block # b
      BY <1>0, <2>1, <3>1, FrameLemma DEF At
    <3> QED BY <1>0, <1>1, <1>7, <1>11, <3>1, <3>2 DEF PhisSound, PendingSound
  <2>3. UnderWay' \cap Pending' = {}
    BY <1>0, <1>3, <1>11, <1>12, <1>14 DEF PhisSound, PendingSound
  <2>4. \A c \in Block : sealed'[c] => incomplete'[c] = <<>>
    BY <1>0, <1>1, <1>7 DEF PhisSound, PendingSound
  <2> QED BY <1>3, <1>13, <2>2, <2>3, <2>4 DEF PendingSound
<1>16. CompleteSound'
  <2>1. Complete' = Complete
    <3>1. \A i : i \in Complete' <=> i \in LiveIds' /\ insts'[i].kind = "phi" /\ i \notin Pending' /\ i \notin UnderWay'
      BY DEF Complete
    <3>2. \A i : i \in Complete <=> i \in LiveIds /\ insts[i].kind = "phi" /\ i \notin Pending /\ i \notin UnderWay
      BY DEF Complete
    <3>3. \A i \in LiveIds : insts'[i] = insts[i] /\ i # phi
      BY <1>3 DEF LiveIds
    <3>4. /\ \A i : i \in LiveIds' <=> i \in LiveIds \/ i = phi
          /\ \A i : i \in Pending' <=> i \in Pending \/ i = phi
          /\ \A i : i \in UnderWay' <=> i \in UnderWay
      BY <1>3, <1>12, <1>14
    <3>5. \A i : i \in Complete' <=> i \in Complete
      BY <3>1, <3>2, <3>3, <3>4
    <3> QED BY <3>5
  <2> SUFFICES ASSUME NEW p \in Complete
               PROVE  (/\ Closed(BlockOf(p))
                       /\ \A k \in At("args") : BlockOf(stack[k].phi) = BlockOf(p) => ArgPreds(p) = stack[k].preds
                       /\ (\A k \in At("args") : BlockOf(stack[k].phi) # BlockOf(p))
                            => ArgPreds(p) = preds[BlockOf(p)]
                       /\ IsTrivial(p) => \E k \in At("check") : p \in ToSet(stack[k].todo))'
    BY <2>1 DEF CompleteSound
  <2>2. \A k \in At("args")' : k \in At("args") /\ stack'[k] = stack[k] /\ insts'[stack[k].phi] = insts[stack[k].phi]
    <3>1. \A k \in At("args") : stack[k].phi \in Made
      BY <1>0, InstLemma DEF StackSound, ArgsSound, ArgsFrameSound
    <3> QED BY <1>3, <1>6, <3>1 DEF SameFrames
  <2>3. At("args")' = At("args")
    BY <1>6 DEF SameFrames
  <2>4. /\ Closed(BlockOf(p))
        /\ \A k \in At("args") : BlockOf(stack[k].phi) = BlockOf(p) => ArgPreds(p) = stack[k].preds
        /\ (\A k \in At("args") : BlockOf(stack[k].phi) # BlockOf(p)) => ArgPreds(p) = preds[BlockOf(p)]
        /\ ~IsTrivial(p)
    BY <1>0, <1>2 DEF PhisSound, CompleteSound
  <2>5. BlockOf(p)' = BlockOf(p) /\ ArgPreds(p)' = ArgPreds(p) /\ ~IsTrivial(p)' /\ Closed(BlockOf(p))'
    BY <1>11, <2>4
  <2>6. \A k \in At("args")' : insts'[stack'[k].phi].block = BlockOf(stack[k].phi)
    BY <2>2 DEF BlockOf
  <2> QED BY <1>1, <2>2, <2>3, <2>4, <2>5, <2>6 DEF BlockOf
<1>17. ClientSound'
  <2>1. HeldSound'
    BY <1>0, <1>1, <1>3 DEF ClientSound, HeldSound
  <2>2. /\ stack' = <<>> => Reading'
        /\ stack' # <<>> => (Top.f = "args" /\ Top.done < Len(Top.preds))'
    BY <1>1, <1>5, CallerWaits
  <2>3. ret' \in LiveIds'
    BY <1>3, <1>4
  <2> QED BY <2>1, <2>2, <2>3 DEF ClientSound, RetSound
<1> QED BY <1>3, <1>8, <1>10, <1>11, <1>15, <1>16, <1>17 DEF IInv, PhisSound

\* Concatenating one frame is pushing it.
LEMMA ConcatOne ==
  ASSUME NEW S, NEW s \in Seq(S), NEW x \in S
  PROVE  s \o <<x>> \in Seq(S) /\ Pushed(s \o <<x>>, s, x)
<1>1. PICK t : t = <<x>>
  OBVIOUS
<1>2. t \in Seq(S) /\ Len(t) = 1 /\ t[1] = x
  BY <1>1
<1>3. Len(s) \in Nat
  BY LenProperties
<1>4. PICK u : u = s \o t
  OBVIOUS
<1>5. /\ u \in Seq(S) /\ Len(u) = Len(s) + Len(t)
      /\ \A i \in 1..Len(s) + Len(t) : u[i] = IF i <= Len(s) THEN s[i] ELSE t[i - Len(s)]
  BY <1>2, <1>4, ConcatProperties
<1>6. \A i \in 1..Len(s) : i \in 1..Len(s) + Len(t) /\ i <= Len(s)
  BY <1>2, <1>3
<1>7. /\ Len(s) + 1 \in 1..Len(s) + Len(t) /\ ~(Len(s) + 1 <= Len(s)) /\ (Len(s) + 1) - Len(s) = 1
  BY <1>2, <1>3
<1>8. u[Len(s) + 1] = x
  BY <1>2, <1>5, <1>7
<1>9. Pushed(u, s, x)
  BY <1>2, <1>5, <1>6, <1>8 DEF Pushed
<1> QED BY <1>1, <1>4, <1>5, <1>9

\* At a join the phi is made first and its arguments are looked up.
LEMMA UseVarJoinSound == ASSUME IInv, UseVarJoin PROVE IInv'
<1>n. PICK n, m, b, var, phi :
        n = Len(stack) /\ m = n + 1 /\ b = Top.block /\ var = Top.var /\ phi = Fresh
  OBVIOUS
<1> DEFINE x == [f |-> "result", phi |-> Fresh]
           a == ArgsFrame(var, Fresh, b)
           mid == ReplaceTop(x)
<1>0. Types /\ GraphSound /\ StackSound /\ PhisSound /\ ClientSound
  BY DEF IInv
<1>1. /\ stack # <<>> /\ Top.f = "use" /\ defs[b][var] = None /\ sealed[b] /\ PrependPhi(b)
      /\ defs' = [defs EXCEPT ![b][var] = Fresh] /\ stack' = mid \o <<a>>
      /\ preds' = [preds EXCEPT ![b] = <<>>]
      /\ UNCHANGED <<prog, sealed, incomplete, aliases, ret, panicked, cur, pc, held>>
  BY <1>n DEF UseVarJoin, NoLocal, Running, Frame, client, DefPhi
<1>2. /\ n \in Nat \ {0} /\ n \in 1..n /\ m \in Nat /\ Top = stack[n] /\ b \in Block /\ var \in Var
      /\ At("check") = {}
      /\ \A p \in Complete : ~IsTrivial(p)
      /\ \A k \in At("args") : stack[k].var = var /\ defs[BlockOf(stack[k].phi)][var] # None
      /\ n > 1 => stack[n - 1].f = "args"
  BY <1>1, <1>n, UseTop
<1>3. /\ phi \in InstId /\ phi = Len(insts) + 1 /\ phi \notin Made /\ phi \notin LiveIds
      /\ insts' \in Seq(Inst) /\ Len(insts') = phi /\ Len(insts') <= MaxInsts
      /\ insts'[phi].kind = "phi" /\ insts'[phi].block = b /\ insts'[phi].args = <<>>
      /\ \A i \in Made : insts'[i] = insts[i]
      /\ Made' = Made \cup {phi} /\ LiveIds' = LiveIds \cup {phi}
      /\ Block' = Block /\ Inst' = Inst /\ FrameSet' = FrameSet
      /\ body' \in [Block -> Seq(InstId)] /\ users' \in [InstId -> SUBSET InstId]
      /\ DOMAIN aliases' \subseteq Made' /\ aliases' \in [DOMAIN aliases' -> Made']
      /\ defs' \in [Block -> [Var -> 0..Len(insts')]] /\ defs'[b][var] = phi /\ phi # None
      /\ DefsKept /\ 0..Len(insts) \subseteq 0..Len(insts')
      /\ GraphSound'
  BY <1>1, <1>2, <1>n, PrependSound, ZenonT(60)
<1>4. /\ x \in FrameSet /\ x.f = "result" /\ x.phi = phi
      /\ a \in FrameSet /\ a.f = "args" /\ a.var = var /\ a.phi = phi /\ a.preds = preds[b] /\ a.done = 0
      /\ preds[b] \in Seq(Block) /\ Len(preds[b]) \in Nat
  <2>1. preds[b] \in Seq(Block)
    BY <1>0, <1>2 DEF Types
  <2>2. x \in [f : {"result"}, phi : InstId] /\ x.phi = phi
    BY <1>3, <1>n
  <2>3. a \in [f : {"args"}, var : Var, phi : InstId, preds : Seq(Block), done : Nat] /\ a.phi = phi
    BY <1>2, <1>3, <1>n, <2>1 DEF ArgsFrame
  <2> QED BY <2>1, <2>2, <2>3, LenProperties DEF FrameSet, ArgsFrame
<1>5. mid \in Seq(FrameSet) /\ Replaced(mid, stack, x)
  BY <1>0, <1>1, <1>4, TopLemma
<1> HIDE DEF x, a, mid
<1>6. stack' \in Seq(FrameSet) /\ Pushed(stack', mid, a)
  BY <1>1, <1>4, <1>5, ConcatOne
<1>7. /\ Len(mid) = n /\ mid[n] = x /\ Len(stack') = m /\ stack'[m] = a /\ stack'[n] = x
      /\ \A k \in 1..(n - 1) : stack'[k] = stack[k]
  <2>1. Len(mid) = n /\ mid[n] = x /\ \A k \in 1..(n - 1) : mid[k] = stack[k]
    BY <1>n, <1>2, <1>5 DEF Replaced
  <2>2. Len(stack') = m /\ stack'[m] = a /\ \A k \in 1..n : stack'[k] = mid[k]
    BY <1>n, <1>2, <1>6, <2>1 DEF Pushed
  <2>3. n \in 1..n /\ \A k \in 1..(n - 1) : k \in 1..n
    BY <1>2
  <2> QED BY <2>1, <2>2, <2>3
<1>8. /\ \A k : k \in 1..m <=> k = m \/ k = n \/ k \in 1..(n - 1)
      /\ \A k : k \in 1..n <=> k = n \/ k \in 1..(n - 1)
      /\ n \notin 1..(n - 1) /\ m \notin 1..(n - 1) /\ m # n /\ m > n
      /\ \A k \in 1..(n - 1) : k < n /\ k < m
  BY <1>2, <1>n
<1>9. /\ At("args")' = At("args") \cup {m} /\ At("result")' = At("result") \cup {n} /\ At("check")' = {}
      /\ SameFrames("seal") /\ SameFrames("sealall")
      /\ \A f : f # "use" => At(f) \subseteq 1..(n - 1)
      /\ Lookups' \subseteq Lookups \cup {m} /\ n \notin Lookups'
  <2>1. \A f : At(f) = {k \in 1..n : stack[k].f = f} /\ At(f)' = {k \in 1..m : stack'[k].f = f}
    BY <1>n, <1>7 DEF At
  <2>2. /\ Lookups' = {k \in 1..m : stack'[k].f \in {"use", "args"}}
        /\ Lookups = {k \in 1..n : stack[k].f \in {"use", "args"}}
    BY <1>n, <1>7 DEF Lookups
  <2>3. /\ \A k \in 1..m : stack'[k].f = IF k = m THEN "args" ELSE IF k = n THEN "result" ELSE stack[k].f
        /\ stack[n].f = "use"
        /\ \A k \in 1..(n - 1) : k # m /\ k # n /\ k \in 1..m /\ k \in 1..n
        /\ n \in 1..m /\ m \in 1..m
    BY <1>1, <1>2, <1>4, <1>7, <1>8
  <2>4. /\ \A f : f # "use" => At(f) \subseteq 1..(n - 1)
        /\ Lookups' \subseteq Lookups \cup {m} /\ n \notin Lookups'
    BY <1>8, <2>1, <2>2, <2>3
  <2>5. At("args")' = At("args") \cup {m} /\ At("result")' = At("result") \cup {n}
    BY <1>8, <2>1, <2>3
  <2>6. At("check")' = At("check") /\ At("seal")' = At("seal") /\ At("sealall")' = At("sealall")
    BY <1>8, <2>1, <2>3
  <2> QED BY <1>2, <1>7, <2>4, <2>5, <2>6 DEF SameFrames
<1>10. preds' \in [Block -> Seq(Block)] /\ preds'[b] = <<>> /\ \A c \in Block : c # b => preds'[c] = preds[c]
  BY <1>0, <1>1, <1>2 DEF Types
<1>11. Types'
  <2>1. ret' \in 0..Len(insts') /\ held' \in 0..Len(insts')
    BY <1>0, <1>1, <1>3 DEF Types
  <2> QED BY <1>0, <1>1, <1>3, <1>6, <1>10, <2>1 DEF Types
<1>12. \A k \in At("args") : /\ stack[k].phi \in LiveIds /\ stack[k].phi \in Made /\ BlockOf(stack[k].phi) \in Block
                             /\ BlockOf(stack[k].phi) # b /\ preds[BlockOf(stack[k].phi)] = <<>>
                             /\ stack'[k] = stack[k] /\ insts'[stack[k].phi] = insts[stack[k].phi]
  <2> TAKE k \in At("args")
  <2>1. ArgsFrameSound(k) /\ k \in 1..(n - 1)
    BY <1>0, <1>9 DEF StackSound, ArgsSound
  <2>2. stack[k].phi \in Made /\ BlockOf(stack[k].phi) \in Block
    BY <1>0, <2>1, InstLemma DEF ArgsFrameSound, BlockOf
  <2> QED BY <1>1, <1>2, <1>3, <1>7, <2>1, <2>2 DEF ArgsFrameSound
<1>13. \A k \in 1..(n - 1) : /\ k \in At("args") => ArgsFrameSound(k)'
                             /\ k \in At("result") => /\ stack[k].phi \in Made'
                                                      /\ \A i \in 1..(stack[k].phi - 1) : \A v \in ValuesOf(insts'[i]) : v < stack[k].phi
  <2>1. \A k \in At("args") : preds'[BlockOf(stack[k].phi)] = <<>>
    BY <1>10, <1>12
  <2>2. Made \subseteq Made' /\ LiveIds \subseteq LiveIds'
    BY <1>3
  <2> QED BY <1>1, <1>3, <1>7, <1>n, <2>1, <2>2, CallersGrow
<1>14. StackSound'
  <2>1. WellNested(mid)
    <3>1. stack \in Seq(FrameSet) /\ WellNested(stack)
      BY <1>0 DEF Types, StackSound, StackShape
    <3>2. n > 1 => <<stack[n - 1].f, x.f>> \in Below
      BY <1>2, <1>4 DEF Below
    <3> QED BY <1>1, <1>4, <1>5, <1>n, <3>1, <3>2, NestedReplace
  <2>2. WellNested(stack')
    <3>1. <<mid[Len(mid)].f, a.f>> \in Below /\ mid # <<>>
      BY <1>2, <1>4, <1>5, <1>7, EmptyIff DEF Below
    <3> QED BY <1>4, <1>5, <1>6, <2>1, <3>1, NestedPush
  <2>3. StackShape'
    <3>1. Reading' = Reading
      BY <1>1 DEF Reading
    <3>2. stack'[1].f \in {"use", "result"} => stack[1].f \in {"use", "result"}
      <4>1. 1 = n \/ 1 \in 1..(n - 1)
        BY <1>2
      <4> QED BY <1>1, <1>2, <1>7, <4>1
    <3> QED BY <1>0, <1>1, <2>2, <3>1, <3>2 DEF StackSound, StackShape
  <2>4. ArgsFrameSound(m)'
    <3>1. m - 1 = n /\ ~(m < m) /\ Len(stack') = m
      BY <1>2, <1>7, <1>n
    <3>2. Len(insts'[phi].args) = 0
      BY <1>3
    <3>3. /\ stack'[m].phi = phi /\ stack'[m].done = 0 /\ stack'[m].var = var /\ stack'[m].preds = preds[b]
          /\ stack'[n].f = "result" /\ stack'[n].phi = phi
          /\ insts'[phi].block = b /\ preds'[b] = <<>> /\ defs'[b][var] # None /\ sealed'[b]
          /\ phi \in LiveIds' /\ insts'[phi].kind = "phi"
      BY <1>1, <1>3, <1>4, <1>7, <1>10
    <3>4. 0 <= Len(preds[b]) /\ \A j : j \notin 1..0
      BY <1>4
    <3> QED BY <3>1, <3>2, <3>3, <3>4 DEF ArgsFrameSound, BlockOf
  <2>5. ArgsSound'
    <3>1. \A k \in At("args")' : ArgsFrameSound(k)'
      BY <1>9, <1>13, <2>4
    <3>2. \A k \in Lookups' : stack'[k].var = var
      <4>1. \A k \in Lookups : stack[k].var = var
        <5>1. n \in Lookups
          BY <1>1, <1>2, <1>n DEF Lookups
        <5> QED BY <1>0, <1>2, <1>n, <5>1 DEF StackSound, ArgsSound
      <4>2. Lookups \subseteq 1..n
        BY <1>n DEF Lookups
      <4>3. stack'[m].var = var
        BY <1>4, <1>7, <1>8
      <4>4. ASSUME NEW k \in Lookups', k # m PROVE stack'[k].var = var
        <5>1. k \in Lookups /\ k # n
          BY <1>9, <4>4
        <5>2. stack'[k] = stack[k]
          BY <1>7, <1>8, <4>2, <5>1
        <5> QED BY <4>1, <5>1, <5>2
      <4> QED BY <4>3, <4>4
    <3>3. \A j, k \in At("args")' : j # k => insts'[stack'[j].phi].block # insts'[stack'[k].phi].block
      <4>1. \A k \in At("args") : insts'[stack'[k].phi].block = BlockOf(stack[k].phi)
        BY <1>12 DEF BlockOf
      <4>2. insts'[stack'[m].phi].block = b
        BY <1>3, <1>4, <1>7
      <4> QED BY <1>0, <1>9, <1>12, <4>1, <4>2 DEF StackSound, ArgsSound
    <3> QED BY <3>1, <3>2, <3>3 DEF ArgsSound, BlockOf
  <2>6. ASSUME NEW k \in At("result")' PROVE ResultApart(k)'
    <3>1. At("check")' = {}
      BY <1>9
    <3>2. CASE k = n
      <4>1. stack'[k].phi = phi /\ stack'[m].phi = phi
        BY <1>4, <1>7, <3>2
      <4>2. \A i \in 1..(phi - 1) : i \in Made /\ \A v \in ValuesOf(insts'[i]) : v < phi
        <5>1. \A i \in 1..(phi - 1) : i \in Made
          BY <1>0, <1>3, InstLemma DEF Made
        <5>2. \A v \in Made : v < phi
          BY <1>0, <1>3, InstLemma DEF Made
        <5> QED BY <1>0, <1>3, <5>1, <5>2 DEF GraphSound, ArgsMade
      <4>3. \A j \in At("args")' : IF j > k THEN stack'[j].phi >= phi ELSE stack'[j].phi < phi
        <5>1. \A j \in At("args") : ~(j > n) /\ stack'[j].phi < phi
          <6>1. \A v \in Made : v < phi
            BY <1>0, <1>3, InstLemma DEF Made
          <6>2. \A j \in At("args") : j \in 1..(n - 1) /\ ~(j > n)
            BY <1>2, <1>9
          <6> QED BY <1>12, <6>1, <6>2
        <5> QED BY <1>3, <1>8, <1>9, <3>2, <4>1, <5>1
      <4> QED BY <1>3, <3>1, <4>1, <4>2, <4>3 DEF ResultApart, ValuesOf
    <3>3. CASE k # n
      <4>1. k \in At("result") /\ k \in 1..(n - 1) /\ stack'[k] = stack[k]
        BY <1>7, <1>9, <3>3
      <4>2. ResultApart(k)
        BY <1>0, <4>1 DEF StackSound, ResultsApart
      <4>3. stack[k].phi < phi /\ m > k
        BY <1>0, <1>2, <1>3, <1>8, <4>1, <4>2, InstLemma DEF ResultApart, Made
      <4>4. \A j \in At("args")' : IF j > k THEN stack'[j].phi >= stack[k].phi ELSE stack'[j].phi < stack[k].phi
        <5>1. stack'[m].phi >= stack[k].phi
          BY <1>0, <1>3, <1>4, <1>7, <4>2, <4>3, InstLemma DEF ResultApart, Made
        <5> QED BY <1>9, <1>12, <4>2, <4>3, <5>1 DEF ResultApart
      <4>5. /\ stack[k].phi \in Made'
            /\ \A i \in 1..(stack[k].phi - 1) : \A v \in ValuesOf(insts'[i]) : v < stack[k].phi
        BY <1>13, <4>1
      <4> QED BY <3>1, <4>1, <4>4, <4>5 DEF ResultApart, ValuesOf
    <3> QED BY <3>2, <3>3
  <2>7. TodoMade'
    BY <1>9 DEF TodoMade
  <2> QED BY <2>3, <2>5, <2>6, <2>7 DEF StackSound, ResultsApart
<1>15. /\ \A c, items : items \in Seq(Var \X InstId) /\ c \in Block /\ ItemsSound(c, items) => ItemsSound(c, items)'
       /\ \A k \in At("seal") : stack'[k] = stack[k] /\ ItemsSound(stack[k].block, stack[k].todo)'
       /\ \A p \in Complete : /\ p \in Made /\ insts'[p] = insts[p] /\ BlockOf(p) \in Block
                              /\ BlockOf(p)' = BlockOf(p) /\ ArgPreds(p)' = ArgPreds(p)
                              /\ IsTrivial(p)' = IsTrivial(p) /\ Closed(BlockOf(p))' = Closed(BlockOf(p))
       /\ Pending \subseteq LiveIds /\ UnderWay \subseteq LiveIds
       /\ SealedClosed'
  BY <1>1, <1>3, <1>9, <1>n, PhisGrow
<1>16. UnderWay' = UnderWay \cup {phi}
  <2>1. UnderWay' = {stack'[k].phi : k \in At("args")'}
    BY DEF UnderWay
  <2> QED BY <1>4, <1>7, <1>9, <1>12, <2>1 DEF UnderWay
<1>17. Pending' = Pending
  <2>1. Pending' = (UNION {PhisOf(incomplete'[c]) : c \in Block'})
                       \cup (UNION {PhisOf(stack'[k].todo) : k \in At("seal")'})
    BY DEF Pending, PhisOf
  <2>2. UNION {PhisOf(stack'[k].todo) : k \in At("seal")'} = UNION {PhisOf(stack[k].todo) : k \in At("seal")}
    BY <1>9 DEF SameFrames
  <2>3. UNION {PhisOf(incomplete'[c]) : c \in Block'} = UNION {PhisOf(incomplete[c]) : c \in Block}
    BY <1>1, <1>3
  <2>4. Pending = (UNION {PhisOf(incomplete[c]) : c \in Block})
                       \cup (UNION {PhisOf(stack[k].todo) : k \in At("seal")})
    BY DEF Pending
  <2> QED BY <2>1, <2>2, <2>3, <2>4
<1>18. PendingSound'
  <2>1. \A c \in Block : ItemsSound(c, incomplete[c])'
    <3> TAKE c \in Block
    <3>1. PICK items : items = incomplete[c]
      OBVIOUS
    <3>2. ItemsSound(c, items)'
      BY <1>0, <1>15, <3>1 DEF PhisSound, PendingSound, Types
    <3> QED BY <1>1, <3>1, <3>2 DEF ItemsSound, DistinctPhis, ItemSound
  <2>2. \A k \in At("seal")' : /\ k \in At("seal") /\ stack'[k] = stack[k]
                               /\ ItemsSound(stack[k].block, stack[k].todo)'
                               /\ incomplete'[stack'[k].block] = <<>> /\ ~sealed'[stack'[k].block]
    <3> SUFFICES ASSUME NEW k \in At("seal")'
                 PROVE  /\ k \in At("seal") /\ stack'[k] = stack[k]
                        /\ ItemsSound(stack[k].block, stack[k].todo)'
                        /\ incomplete'[stack'[k].block] = <<>> /\ ~sealed'[stack'[k].block]
      OBVIOUS
    <3>1. k \in At("seal") /\ stack'[k] = stack[k]
      BY <1>9 DEF SameFrames
    <3>2. stack[k].block \in Block
      BY <1>0, <3>1, FrameLemma DEF At
    <3> QED BY <1>0, <1>1, <1>15, <3>1, <3>2 DEF PhisSound, PendingSound
  <2>4. \A c \in Block : sealed'[c] => incomplete'[c] = <<>>
    BY <1>0, <1>1 DEF PhisSound, PendingSound
  <2>3. UnderWay' \cap Pending' = {}
    BY <1>0, <1>3, <1>15, <1>16, <1>17 DEF PhisSound, PendingSound
  <2> QED BY <1>3, <2>1, <2>2, <2>3, <2>4 DEF PendingSound
<1>19. CompleteSound'
  <2>1. Complete' = Complete
    <3>1. \A i : i \in Complete' <=> i \in LiveIds' /\ insts'[i].kind = "phi" /\ i \notin Pending' /\ i \notin UnderWay'
      BY DEF Complete
    <3>2. \A i : i \in Complete <=> i \in LiveIds /\ insts[i].kind = "phi" /\ i \notin Pending /\ i \notin UnderWay
      BY DEF Complete
    <3>3. \A i \in LiveIds : insts'[i] = insts[i] /\ i # phi
      BY <1>3 DEF LiveIds
    <3>4. /\ \A i : i \in LiveIds' <=> i \in LiveIds \/ i = phi
          /\ \A i : i \in UnderWay' <=> i \in UnderWay \/ i = phi
      BY <1>3, <1>16
    <3>5. \A i : i \in Complete' <=> i \in Complete
      BY <1>17, <3>1, <3>2, <3>3, <3>4
    <3> QED BY <3>5
  <2> SUFFICES ASSUME NEW p \in Complete
               PROVE  (/\ Closed(BlockOf(p))
                       /\ \A k \in At("args") : BlockOf(stack[k].phi) = BlockOf(p) => ArgPreds(p) = stack[k].preds
                       /\ (\A k \in At("args") : BlockOf(stack[k].phi) # BlockOf(p))
                            => ArgPreds(p) = preds[BlockOf(p)]
                       /\ IsTrivial(p) => \E k \in At("check") : p \in ToSet(stack[k].todo))'
    BY <2>1 DEF CompleteSound
  <2>2. /\ Closed(BlockOf(p))
        /\ \A k \in At("args") : BlockOf(stack[k].phi) = BlockOf(p) => ArgPreds(p) = stack[k].preds
        /\ (\A k \in At("args") : BlockOf(stack[k].phi) # BlockOf(p)) => ArgPreds(p) = preds[BlockOf(p)]
        /\ ~IsTrivial(p)
    BY <1>0, <1>2 DEF PhisSound, CompleteSound
  <2>3. /\ BlockOf(p)' = BlockOf(p) /\ ArgPreds(p)' = ArgPreds(p) /\ ~IsTrivial(p)' /\ Closed(BlockOf(p))'
        /\ BlockOf(p) \in Block
    BY <1>15, <2>2
  <2>4. /\ \A k \in At("args") : insts'[stack'[k].phi].block = BlockOf(stack[k].phi) /\ stack'[k] = stack[k]
        /\ insts'[stack'[m].phi].block = b /\ stack'[m].preds = preds[b]
    BY <1>3, <1>4, <1>7, <1>12 DEF BlockOf
  <2>5. BlockOf(p) = b => ArgPreds(p) = preds[b]
    BY <1>12, <2>2
  <2>6. \A k \in At("args")' : insts'[stack'[k].phi].block = BlockOf(p) => ArgPreds(p) = stack'[k].preds
    BY <1>9, <2>2, <2>4, <2>5
  <2>7. (\A k \in At("args")' : insts'[stack'[k].phi].block # BlockOf(p)) => ArgPreds(p) = preds'[BlockOf(p)]
    <3> SUFFICES ASSUME \A k \in At("args")' : insts'[stack'[k].phi].block # BlockOf(p)
                 PROVE  ArgPreds(p) = preds'[BlockOf(p)]
      OBVIOUS
    <3>1. b # BlockOf(p) /\ \A k \in At("args") : BlockOf(stack[k].phi) # BlockOf(p)
      BY <1>9, <2>4
    <3>2. preds'[BlockOf(p)] = preds[BlockOf(p)]
      BY <1>10, <2>3, <3>1
    <3> QED BY <2>2, <3>1, <3>2
  <2> QED BY <2>3, <2>6, <2>7 DEF BlockOf
<1>20. ClientSound'
  <2>1. ret = None
    BY <1>0, <1>1 DEF ClientSound, RetSound
  <2>2. HeldSound'
    BY <1>0, <1>1, <1>3 DEF ClientSound, HeldSound
  <2> QED BY <1>1, <2>1, <2>2 DEF ClientSound, RetSound
<1> QED BY <1>3, <1>11, <1>14, <1>15, <1>18, <1>19, <1>20 DEF IInv, PhisSound

-----------------------------------------------------------------------------
(***************************************************************************)
(* add_phi_args adds an argument.                                          *)
(***************************************************************************)

\* The phi on top uses the value that was returned; all else is as it was.
LEMMA ArgAdded ==
  ASSUME IInv, AppendPhiArg, NEW phi, phi = Top.phi
  PROVE  /\ phi \in LiveIds /\ insts' \in Seq(Inst) /\ Len(insts') = Len(insts)
         /\ insts'[phi].kind = insts[phi].kind /\ insts'[phi].block = insts[phi].block
         /\ Len(insts'[phi].args) = Len(insts[phi].args) + 1
         /\ insts'[phi].args[Len(insts[phi].args) + 1].pred = Top.preds[Top.done + 1]
         /\ \A j \in 1..Len(insts[phi].args) : insts'[phi].args[j] = insts[phi].args[j]
         /\ \A i \in Made : i # phi => insts'[i] = insts[i]
         /\ Block' = Block /\ Made' = Made /\ LiveIds' = LiveIds /\ Inst' = Inst /\ FrameSet' = FrameSet
         /\ users' \in [InstId -> SUBSET InstId] /\ GraphSound'
<1>n. PICK n, args, arg, inst : /\ n = Len(stack) /\ args = insts[phi].args
                                /\ arg = [value |-> ret, pred |-> Top.preds[Top.done + 1]]
                                /\ inst = [insts[phi] EXCEPT !.args = Append(args, arg)]
  OBVIOUS
<1>0. Types /\ GraphSound /\ StackSound /\ ClientSound
  BY DEF IInv
<1>1. /\ stack # <<>> /\ Top.f = "args" /\ ret # None
      /\ insts' = [insts EXCEPT ![phi].args = Append(@, arg)]
      /\ users' = [users EXCEPT ![ret] = @ \cup {phi}]
      /\ UNCHANGED <<prog, body, preds, sealed, defs, incomplete, aliases>>
  BY <1>n DEF AppendPhiArg, Running, Frame, ssa
<1>2. /\ n \in Nat \ {0} /\ n \in 1..n /\ Top = stack[n] /\ n \in At("args")
      /\ Top.preds \in Seq(Block) /\ Len(Top.preds) \in Nat /\ Top.done \in Nat
  BY <1>0, <1>1, <1>n, TopLemma, FrameLemma DEF At
<1>3. ret \in LiveIds /\ Top.done < Len(Top.preds)
  BY <1>0, <1>1 DEF ClientSound, RetSound
<1>4. phi \in LiveIds /\ phi \in Made /\ DOMAIN insts = Made /\ Made \subseteq InstId /\ LiveIds \subseteq Made
  BY <1>0, <1>2, InstLemma DEF StackSound, ArgsSound, ArgsFrameSound
<1>5. arg \in Arg
  <2>1. Top.done + 1 \in 1..Len(Top.preds)
    BY <1>2, <1>3
  <2>2. Top.preds[Top.done + 1] \in Block
    BY <1>2, <2>1, LenProperties
  <2> QED BY <1>n, <1>3, <1>4, <2>2 DEF Arg
<1>6. /\ insts[phi] \in Inst /\ args \in Seq(Arg) /\ Len(args) \in Nat
      /\ Append(args, arg) \in Seq(Arg) /\ Pushed(Append(args, arg), args, arg)
  <2>1. insts[phi] \in Inst /\ args \in Seq(Arg) /\ Len(args) \in Nat
    BY <1>0, <1>n, <1>4, InstLemma
  <2> QED BY <1>5, <2>1, PushLemma
<1>7. inst \in Inst /\ inst.kind = insts[phi].kind /\ inst.block = insts[phi].block /\ inst.args = Append(args, arg)
  BY <1>n, <1>6 DEF Inst
<1>8. insts' = [insts EXCEPT ![phi] = inst]
  BY <1>n, <1>1
<1>9. /\ insts' \in Seq(Inst) /\ Len(insts') = Len(insts) /\ insts'[phi] = inst
      /\ \A i \in Made : i # phi => insts'[i] = insts[i]
  BY <1>0, <1>4, <1>7, <1>8, ExceptSeq DEF Types, Made
<1>10. Block' = Block /\ Made' = Made /\ LiveIds' = LiveIds /\ Inst' = Inst /\ FrameSet' = FrameSet
  BY <1>1, <1>9 DEF Block, Made, LiveIds, Inst, Arg, FrameSet
<1>11. users' \in [InstId -> SUBSET InstId] /\ \A v \in InstId : users'[v] = users[v] \cup (IF v = ret THEN {phi} ELSE {})
  BY <1>0, <1>1, <1>3, <1>4 DEF Types
<1>12. ValuesOf(insts'[phi]) = ValuesOf(insts[phi]) \cup {ret}
  <2>1. PICK more : more = Append(args, arg)
    OBVIOUS
  <2>2. /\ Len(more) = Len(args) + 1 /\ more[Len(args) + 1] = arg /\ \A k \in 1..Len(args) : more[k] = args[k]
        /\ Len(args) \in Nat /\ arg.value = ret
    BY <1>n, <1>6, <2>1 DEF Pushed
  <2>3. \A k : k \in 1..Len(more) <=> k \in 1..Len(args) \/ k = Len(args) + 1
    BY <2>2
  <2>4. {more[k].value : k \in 1..Len(more)} = {args[k].value : k \in 1..Len(args)} \cup {ret}
    BY <2>2, <2>3
  <2>5. insts'[phi].args = more /\ insts[phi].args = args
    BY <1>n, <1>7, <1>9, <2>1
  <2>6. ValuesOf(insts'[phi]) = {more[k].value : k \in 1..Len(more)}
    BY <2>5 DEF ValuesOf
  <2>7. ValuesOf(insts[phi]) = {args[k].value : k \in 1..Len(args)}
    BY <2>5 DEF ValuesOf
  <2> QED BY <2>4, <2>6, <2>7
<1>13. \A i \in Made : ValuesOf(insts'[i]) = ValuesOf(insts[i]) \cup (IF i = phi THEN {ret} ELSE {})
  BY <1>9, <1>12
<1>14. GraphSound'
  <2>1. LaidOut'
    BY <1>0, <1>1, <1>4, <1>7, <1>9, <1>10 DEF GraphSound, LaidOut, BlockOf
  <2>2. ArgsMade'
    BY <1>0, <1>3, <1>4, <1>10, <1>13 DEF GraphSound, ArgsMade
  <2>3. ArgsLive'
    BY <1>0, <1>3, <1>4, <1>10, <1>13 DEF GraphSound, ArgsLive
  <2>4. UsersKnown'
    <3>1. ASSUME NEW v \in InstId
          PROVE  users'[v] = {i \in LiveIds' : v \in ValuesOf(insts'[i])}
      <4>1. users[v] = {i \in LiveIds : v \in ValuesOf(insts[i])}
        BY <1>0 DEF GraphSound, UsersKnown
      <4> QED BY <1>4, <1>10, <1>11, <1>13, <4>1
    <3> QED BY <3>1 DEF UsersKnown
  <2>5. AliasesEnd'
    BY <1>0, <1>1, <1>10 DEF GraphSound, AliasesEnd
  <2> QED BY <2>1, <2>2, <2>3, <2>4, <2>5 DEF GraphSound
<1>15. /\ Len(insts'[phi].args) = Len(args) + 1 /\ insts'[phi].args[Len(args) + 1].pred = Top.preds[Top.done + 1]
       /\ \A j \in 1..Len(args) : insts'[phi].args[j] = args[j]
  <2>1. PICK more : more = Append(args, arg)
    OBVIOUS
  <2>2. insts'[phi].args = more
    BY <1>7, <1>9, <2>1
  <2>3. /\ Len(more) = Len(args) + 1 /\ more[Len(args) + 1] = arg
        /\ \A j \in 1..Len(args) : more[j] = args[j]
    BY <1>6, <2>1 DEF Pushed
  <2>4. arg.pred = Top.preds[Top.done + 1]
    BY <1>n
  <2> QED BY <2>2, <2>3, <2>4
<1> QED BY <1>n, <1>4, <1>7, <1>9, <1>10, <1>11, <1>14, <1>15

\* append_phi_arg: the phi of add_phi_args gets the value that was returned.
LEMMA AppendPhiArgSound == ASSUME IInv, AppendPhiArg PROVE IInv'
<1>n. PICK n, phi, b : n = Len(stack) /\ phi = Top.phi /\ b = BlockOf(phi)
  OBVIOUS
<1> DEFINE x == [Top EXCEPT !.done = @ + 1]
<1>0. Types /\ GraphSound /\ StackSound /\ PhisSound /\ ClientSound
  BY DEF IInv
<1>1. /\ stack # <<>> /\ Top.f = "args" /\ ret # None
      /\ stack' = ReplaceTop(x) /\ ret' = None
      /\ UNCHANGED <<prog, body, preds, sealed, defs, incomplete, aliases, panicked, cur, pc, held>>
  BY DEF AppendPhiArg, Running, Frame, ssa, client
<1>2. /\ n \in Nat \ {0} /\ n \in 1..n /\ Top = stack[n] /\ n \in At("args")
      /\ Top \in [f : {"args"}, var : Var, phi : InstId, preds : Seq(Block), done : Nat]
      /\ Top.done \in Nat /\ Len(Top.preds) \in Nat /\ Top.done < Len(Top.preds)
  <2>1. n \in Nat \ {0} /\ n \in 1..n /\ Top = stack[n]
    BY <1>0, <1>1, <1>n, TopLemma
  <2>2. Top.done < Len(Top.preds)
    BY <1>0, <1>1 DEF ClientSound, RetSound
  <2> QED BY <1>0, <1>1, <1>n, <2>1, <2>2, FrameLemma DEF At
<1>3. /\ phi \in LiveIds /\ insts' \in Seq(Inst) /\ Len(insts') = Len(insts)
      /\ insts'[phi].kind = insts[phi].kind /\ insts'[phi].block = b
      /\ Len(insts'[phi].args) = Len(insts[phi].args) + 1
      /\ insts'[phi].args[Len(insts[phi].args) + 1].pred = Top.preds[Top.done + 1]
      /\ \A j \in 1..Len(insts[phi].args) : insts'[phi].args[j] = insts[phi].args[j]
      /\ \A i \in Made : i # phi => insts'[i] = insts[i]
      /\ Block' = Block /\ Made' = Made /\ LiveIds' = LiveIds /\ Inst' = Inst /\ FrameSet' = FrameSet
      /\ users' \in [InstId -> SUBSET InstId] /\ GraphSound'
  BY <1>n, ArgAdded, ZenonT(60) DEF BlockOf
<1>4. /\ x \in FrameSet /\ x.f = "args" /\ x.var = Top.var /\ x.phi = phi /\ x.preds = Top.preds
      /\ x.done = Top.done + 1
  <2>1. x \in [f : {"args"}, var : Var, phi : InstId, preds : Seq(Block), done : Nat]
    BY <1>2
  <2> QED BY <1>2, <1>n, <2>1 DEF FrameSet
<1> HIDE DEF x
<1>5. stack' \in Seq(FrameSet) /\ Replaced(stack', stack, x)
  BY <1>0, <1>1, <1>4, TopLemma
<1>6. /\ \A f : SameFrames(f) \/ f = "args"
      /\ At("args")' = At("args") /\ Lookups' \subseteq Lookups \cup {n} /\ n \in Lookups
      /\ \A k \in 1..n : k # n => stack'[k] = stack[k]
      /\ At("args") \subseteq 1..n /\ Lookups \subseteq 1..n
      /\ stack'[n] = x /\ Len(stack') = n
  <2>1. /\ \A f : SameFrames(f) \/ f = "args"
        /\ At("args")' = At("args") \cup {n} /\ Lookups' \subseteq Lookups \cup {n}
        /\ \A k \in 1..n : k # n => stack'[k] = stack[k]
    BY <1>0, <1>1, <1>4, <1>5, <1>n, ReplaceFrames
  <2>2. n \in Lookups /\ At("args") \subseteq 1..n /\ Lookups \subseteq 1..n
    BY <1>1, <1>2, <1>n DEF Lookups, At
  <2>3. stack'[n] = x /\ Len(stack') = n
    BY <1>5, <1>n DEF Replaced
  <2> QED BY <1>2, <2>1, <2>2, <2>3
<1>7. Types'
  <2>1. ret' \in 0..Len(insts')
    BY <1>0, <1>1, <1>3, InstLemma DEF None
  <2> QED BY <1>0, <1>1, <1>3, <1>5, <2>1 DEF Types
<1>8. /\ LiveIds \subseteq Made /\ phi \in Made /\ b \in Block
      /\ \A i \in Made : i # phi => insts'[i] = insts[i] /\ ValuesOf(insts'[i]) = ValuesOf(insts[i])
      /\ \A i \in Made : insts'[i].block = BlockOf(i) /\ insts'[i].kind = insts[i].kind
  BY <1>0, <1>3, <1>n, InstLemma DEF BlockOf
<1>9. ArgsFrameSound(n)
  BY <1>0, <1>2 DEF StackSound, ArgsSound
<1>10. \A k \in At("args") : k # n => /\ k \in 1..n /\ stack'[k] = stack[k] /\ ArgsFrameSound(k)
                                      /\ stack[k].phi \in LiveIds /\ stack[k].phi # phi
                                      /\ BlockOf(stack[k].phi) # b
  <2>1. n \in At("args") /\ Top = stack[n] /\ phi = Top.phi /\ b = BlockOf(phi)
    BY <1>2, <1>n DEF BlockOf
  <2>2. ASSUME NEW k \in At("args"), k # n
        PROVE  /\ ArgsFrameSound(k) /\ stack[k].phi \in LiveIds
               /\ insts[stack[k].phi].block # insts[stack[n].phi].block
    <3>1. ArgsFrameSound(k)
      BY <1>0 DEF StackSound, ArgsSound
    <3>2. stack[k].phi \in LiveIds
      BY <3>1 DEF ArgsFrameSound
    <3>3. insts[stack[k].phi].block # insts[stack[n].phi].block
      BY <1>0, <2>1, <2>2 DEF StackSound, ArgsSound, BlockOf
    <3> QED BY <3>1, <3>2, <3>3
  <2> QED BY <1>6, <2>1, <2>2 DEF BlockOf
<1>e. \A k \in At("args") : /\ insts'[stack'[k].phi].block = BlockOf(stack[k].phi) /\ stack'[k].phi = stack[k].phi
                            /\ stack'[k].preds = stack[k].preds /\ stack'[k].var = stack[k].var
  <2> TAKE k \in At("args")
  <2>1. CASE k = n
    BY <1>2, <1>3, <1>4, <1>6, <1>n, <2>1
  <2>2. CASE k # n
    BY <1>8, <1>10, <2>2
  <2> QED BY <2>1, <2>2
<1>11. StackSound'
  <2>1. WellNested(stack')
    <3>1. stack \in Seq(FrameSet) /\ WellNested(stack)
      BY <1>0 DEF Types, StackSound, StackShape
    <3>2. n # 1 /\ (n > 1 => n \in 2..n /\ <<stack[n - 1].f, x.f>> \in Below)
      BY <1>1, <1>2, <1>4, <1>n, <3>1 DEF WellNested
    <3> QED BY <1>1, <1>2, <1>4, <1>5, <1>n, <3>1, <3>2, NestedReplace
  <2>2. StackShape'
    <3>1. stack'[1].f = stack[1].f
      BY <1>1, <1>2, <1>4, <1>6
    <3> QED BY <1>0, <1>1, <2>1, <3>1 DEF StackSound, StackShape, Reading
  <2>3. ArgsFrameSound(n)'
    <3>1. /\ phi \in LiveIds' /\ insts'[phi].kind = "phi" /\ insts'[phi].block = b
          /\ Len(insts'[phi].args) = Top.done + 1 /\ Top.done + 1 <= Len(Top.preds)
          /\ preds'[b] = <<>> /\ defs'[b][Top.var] # None
      <4>1. Len(insts[phi].args) = Top.done /\ insts[phi].kind = "phi" /\ preds[b] = <<>> /\ defs[b][Top.var] # None
        BY <1>2, <1>9, <1>n DEF ArgsFrameSound
      <4>2. Top.done + 1 <= Len(Top.preds)
        BY <1>2
      <4> QED BY <1>1, <1>3, <4>1, <4>2
    <3>2. \A j \in 1..(Top.done + 1) : insts'[phi].args[j].pred = Top.preds[j]
      <4>1. \A j \in 1..(Top.done + 1) : j \in 1..Top.done \/ j = Top.done + 1
        BY <1>2
      <4>2. Len(insts[phi].args) = Top.done /\ \A j \in 1..Top.done : insts[phi].args[j].pred = Top.preds[j]
        BY <1>2, <1>9, <1>n DEF ArgsFrameSound
      <4> QED BY <1>3, <4>1, <4>2
    <3>3. n > 1 => n - 1 \in 1..n /\ n - 1 # n /\ stack'[n - 1] = stack[n - 1]
      BY <1>2, <1>6
    <3>4. stack'[n].phi = phi /\ stack'[n].var = Top.var /\ stack'[n].done = Top.done + 1 /\ stack'[n].preds = Top.preds
      BY <1>4, <1>6
    <3>5. /\ n > 1 /\ stack'[n - 1].f = "result" => stack'[n - 1].phi = phi /\ sealed'[b]
          /\ n > 1 /\ stack'[n - 1].f = "seal" => stack'[n - 1].block = b
      BY <1>1, <1>2, <1>9, <1>n, <3>3 DEF ArgsFrameSound
    <3>6. ~(n < Len(stack'))
      BY <1>2, <1>6
    <3> QED BY <3>1, <3>2, <3>4, <3>5, <3>6 DEF ArgsFrameSound, BlockOf
  <2>4. ASSUME NEW k \in At("args"), k # n PROVE ArgsFrameSound(k)'
    <3>1. stack[k].phi \in Made /\ insts'[stack[k].phi] = insts[stack[k].phi]
      BY <1>8, <1>10, <2>4
    <3>2. k > 1 => k - 1 \in 1..n /\ k - 1 # n /\ stack'[k - 1] = stack[k - 1]
      BY <1>2, <1>6, <1>10, <2>4
    <3>3. stack'[k] = stack[k] /\ ArgsFrameSound(k) /\ Len(stack') = Len(stack)
      BY <1>6, <1>10, <1>n, <2>4
    <3>4. /\ k > 1 /\ stack'[k - 1].f = "result" => stack'[k - 1].phi = stack'[k].phi /\ sealed'[insts'[stack'[k].phi].block]
          /\ k > 1 /\ stack'[k - 1].f = "seal" => stack'[k - 1].block = insts'[stack'[k].phi].block
      BY <1>1, <3>1, <3>2, <3>3 DEF ArgsFrameSound, BlockOf
    <3>5. k < Len(stack') => stack'[k].done < Len(stack'[k].preds)
      BY <3>3 DEF ArgsFrameSound
    <3>6. PICK fr, p, c : fr = stack[k] /\ p = fr.phi /\ c = insts[p].block
      OBVIOUS
    <3>7. /\ p \in LiveIds /\ insts[p].kind = "phi" /\ Len(insts[p].args) = fr.done /\ fr.done <= Len(fr.preds)
          /\ preds[c] = <<>> /\ defs[c][fr.var] # None
          /\ \A j \in 1..fr.done : insts[p].args[j].pred = fr.preds[j]
      BY <3>3, <3>6 DEF ArgsFrameSound, BlockOf
    <3>8. stack'[k] = fr /\ insts'[p] = insts[p] /\ p \in LiveIds' /\ preds'[c] = <<>> /\ defs'[c][fr.var] # None
      BY <1>1, <1>3, <3>1, <3>3, <3>6, <3>7
    <3>9. /\ stack'[k].phi = p /\ insts'[p].block = c
          /\ k > 1 /\ stack'[k - 1].f = "result" => stack'[k - 1].phi = p /\ sealed'[c]
          /\ k > 1 /\ stack'[k - 1].f = "seal" => stack'[k - 1].block = c
          /\ k < Len(stack') => fr.done < Len(fr.preds)
      BY <3>4, <3>5, <3>6, <3>8
    <3> QED BY <3>7, <3>8, <3>9 DEF ArgsFrameSound, BlockOf
  <2>5. ArgsSound'
    <3>1. \A k \in At("args")' : ArgsFrameSound(k)'
      BY <1>6, <2>3, <2>4
    <3>2. \A j, k \in Lookups' : stack'[j].var = stack'[k].var
      <4>1. \A k \in Lookups' : k \in Lookups /\ stack'[k].var = stack[k].var
        BY <1>2, <1>4, <1>6
      <4> QED BY <1>0, <4>1 DEF StackSound, ArgsSound
    <3>3. \A j, k \in At("args")' : j # k => insts'[stack'[j].phi].block # insts'[stack'[k].phi].block
      <4>1. \A k \in At("args")' : k \in At("args") /\ insts'[stack'[k].phi].block = BlockOf(stack[k].phi)
        BY <1>6, <1>e
      <4> QED BY <1>0, <4>1 DEF StackSound, ArgsSound
    <3> QED BY <3>1, <3>2, <3>3 DEF ArgsSound, BlockOf
  <2>6. ASSUME NEW k \in At("result")' PROVE ResultApart(k)'
    <3>1. k \in At("result") /\ stack'[k] = stack[k] /\ ResultApart(k)
      BY <1>0, <1>6 DEF SameFrames, StackSound, ResultsApart
    <3>2. k # n /\ k \in 1..n
      BY <1>1, <1>2, <1>n, <3>1 DEF At
    <3>3. n > k /\ phi >= stack[k].phi
      BY <1>2, <1>n, <3>1, <3>2 DEF ResultApart
    <3>4. \A i \in 1..(stack[k].phi - 1) : i \in Made /\ i # phi
      BY <1>0, <1>8, <3>1, <3>3, InstLemma DEF ResultApart, Made
    <3>5. \A i \in 1..(stack[k].phi - 1) : \A v \in ValuesOf(insts'[i]) : v < stack[k].phi
      BY <1>8, <3>1, <3>4 DEF ResultApart
    <3>6. \A j \in At("args")' : IF j > k THEN stack'[j].phi >= stack[k].phi ELSE stack'[j].phi < stack[k].phi
      BY <1>6, <1>e, <3>1 DEF ResultApart
    <3>7. \A j \in At("check")' : j > k => \A i \in ToSet(stack'[j].todo) : i >= stack[k].phi
      BY <1>6, <3>1 DEF ResultApart, SameFrames
    <3> QED BY <1>3, <3>1, <3>5, <3>6, <3>7 DEF ResultApart, ValuesOf
  <2>7. TodoMade'
    BY <1>0, <1>3, <1>6 DEF StackSound, TodoMade, SameFrames
  <2> QED BY <2>2, <2>5, <2>6, <2>7 DEF StackSound, ResultsApart
<1>12. UnderWay' = UnderWay /\ phi \in UnderWay
  <2>1. UnderWay' = {stack'[k].phi : k \in At("args")'}
    BY DEF UnderWay
  <2> QED BY <1>2, <1>6, <1>e, <1>n, <2>1 DEF UnderWay
<1>13. Pending' = Pending /\ phi \notin Pending
  <2>1. Pending' = (UNION {PhisOf(incomplete'[c]) : c \in Block'})
                       \cup (UNION {PhisOf(stack'[k].todo) : k \in At("seal")'})
    BY DEF Pending, PhisOf
  <2>2. UNION {PhisOf(stack'[k].todo) : k \in At("seal")'} = UNION {PhisOf(stack[k].todo) : k \in At("seal")}
    BY <1>6 DEF SameFrames
  <2>3. UNION {PhisOf(incomplete'[c]) : c \in Block'} = UNION {PhisOf(incomplete[c]) : c \in Block}
    BY <1>1, <1>3
  <2>4. Pending = (UNION {PhisOf(incomplete[c]) : c \in Block})
                       \cup (UNION {PhisOf(stack[k].todo) : k \in At("seal")})
    BY DEF Pending
  <2>5. phi \notin Pending
    BY <1>0, <1>12 DEF PhisSound, PendingSound
  <2> QED BY <2>1, <2>2, <2>3, <2>4, <2>5
<1>14. PendingSound'
  <2>1. ASSUME NEW c, NEW items, ItemsSound(c, items), PhisOf(items) \subseteq Pending
        PROVE  ItemsSound(c, items)'
    <3>1. \A k \in 1..Len(items) : items[k][2] # phi /\ items[k][2] \in Made
      BY <1>8, <1>13, <2>1 DEF PhisOf, ItemsSound, ItemSound
    <3>2. \A k \in 1..Len(items) : insts'[items[k][2]] = insts[items[k][2]]
      BY <1>8, <3>1
    <3> QED BY <1>1, <1>3, <2>1, <3>2 DEF ItemsSound, DistinctPhis, ItemSound, BlockOf
  <2>2. \A c \in Block : ItemsSound(c, incomplete[c])'
    <3> TAKE c \in Block
    <3>1. PICK items : items = incomplete[c]
      OBVIOUS
    <3>2. PhisOf(items) \subseteq Pending
      BY <3>1 DEF Pending
    <3>3. ItemsSound(c, items)'
      BY <1>0, <2>1, <3>1, <3>2 DEF PhisSound, PendingSound
    <3> QED BY <1>1, <3>1, <3>3 DEF ItemsSound, DistinctPhis, ItemSound
  <2>3. \A k \in At("seal")' : ItemsSound(stack[k].block, stack[k].todo)'
    <3> TAKE k \in At("seal")'
    <3>1. PICK c, items : c = stack[k].block /\ items = stack[k].todo
      OBVIOUS
    <3>2. k \in At("seal") /\ stack'[k] = stack[k]
      BY <1>6 DEF SameFrames
    <3>3. PhisOf(items) \subseteq Pending
      BY <3>1, <3>2 DEF Pending
    <3>4. ItemsSound(c, items)'
      BY <1>0, <2>1, <3>1, <3>2, <3>3 DEF PhisSound, PendingSound
    <3> QED BY <3>1, <3>2, <3>4 DEF ItemsSound, DistinctPhis, ItemSound
  <2>4. \A k \in At("seal")' : incomplete'[stack'[k].block] = <<>> /\ ~sealed'[stack'[k].block]
    BY <1>0, <1>1, <1>6 DEF SameFrames, PhisSound, PendingSound
  <2>5. \A c \in Block : sealed'[c] => incomplete'[c] = <<>>
    BY <1>0, <1>1 DEF PhisSound, PendingSound
  <2>6. UnderWay' \cap Pending' = {}
    BY <1>0, <1>12, <1>13 DEF PhisSound, PendingSound
  <2> QED BY <1>3, <2>2, <2>3, <2>4, <2>5, <2>6 DEF PendingSound
<1>15. SealedClosed'
  <2>1. FilledKept
    BY <1>1 DEF FilledKept, Filled
  <2> QED BY <1>0, <1>1, <1>6, <2>1, SealedClosedKept DEF PhisSound
<1>16. CompleteSound'
  <2>1. Complete' = Complete
    <3>1. \A i : i \in Complete' <=> i \in LiveIds' /\ insts'[i].kind = "phi" /\ i \notin Pending' /\ i \notin UnderWay'
      BY DEF Complete
    <3>2. \A i : i \in Complete <=> i \in LiveIds /\ insts[i].kind = "phi" /\ i \notin Pending /\ i \notin UnderWay
      BY DEF Complete
    <3>3. \A i \in LiveIds : insts'[i].kind = insts[i].kind
      BY <1>8
    <3>4. \A i : i \in Complete' <=> i \in Complete
      BY <1>3, <1>12, <1>13, <3>1, <3>2, <3>3
    <3> QED BY <3>4
  <2> SUFFICES ASSUME NEW p \in Complete
               PROVE  (/\ Closed(BlockOf(p))
                       /\ \A k \in At("args") : BlockOf(stack[k].phi) = BlockOf(p) => ArgPreds(p) = stack[k].preds
                       /\ (\A k \in At("args") : BlockOf(stack[k].phi) # BlockOf(p))
                            => ArgPreds(p) = preds[BlockOf(p)]
                       /\ IsTrivial(p) => \E k \in At("check") : p \in ToSet(stack[k].todo))'
    BY <2>1 DEF CompleteSound
  <2>2. /\ Closed(BlockOf(p))
        /\ \A k \in At("args") : BlockOf(stack[k].phi) = BlockOf(p) => ArgPreds(p) = stack[k].preds
        /\ (\A k \in At("args") : BlockOf(stack[k].phi) # BlockOf(p)) => ArgPreds(p) = preds[BlockOf(p)]
        /\ IsTrivial(p) => \E k \in At("check") : p \in ToSet(stack[k].todo)
    BY <1>0 DEF PhisSound, CompleteSound
  <2>3. p \in Made /\ p # phi /\ insts'[p] = insts[p]
    BY <1>8, <1>12 DEF Complete
  <2>4. /\ BlockOf(p)' = BlockOf(p) /\ ArgPreds(p)' = ArgPreds(p) /\ IsTrivial(p)' = IsTrivial(p)
        /\ Closed(BlockOf(p))' = Closed(BlockOf(p))
    BY <1>1, <2>3 DEF BlockOf, ArgPreds, IsTrivial, Others, ValuesOf, Closed, Filled, Block
  <2>5. \A k \in At("args")' : /\ k \in At("args") /\ insts'[stack'[k].phi].block = BlockOf(stack[k].phi)
                               /\ stack'[k].preds = stack[k].preds
    BY <1>6, <1>e
  <2>6. IsTrivial(p) => \E k \in At("check")' : p \in ToSet(stack'[k].todo)
    BY <1>6, <2>2 DEF SameFrames
  <2> QED BY <1>1, <1>6, <2>2, <2>4, <2>5, <2>6 DEF BlockOf
<1>17. ClientSound'
  BY <1>1, ClientKept
<1> QED BY <1>3, <1>7, <1>11, <1>14, <1>15, <1>16, <1>17 DEF IInv, PhisSound

-----------------------------------------------------------------------------
(***************************************************************************)
(* remove_trivial_phi removes a phi.                                       *)
(***************************************************************************)

\* Renaming replaces a value by another and leaves all else.
LEMMA RenamedLemma ==
  ASSUME NEW inst \in Inst, NEW p \in InstId, NEW q \in InstId
  PROVE  /\ Renamed(inst, p, q) \in Inst
         /\ Renamed(inst, p, q).kind = inst.kind /\ Renamed(inst, p, q).block = inst.block
         /\ Len(Renamed(inst, p, q).args) = Len(inst.args)
         /\ DOMAIN Renamed(inst, p, q).args = DOMAIN inst.args
         /\ \A k \in DOMAIN inst.args : Renamed(inst, p, q).args[k].pred = inst.args[k].pred
         /\ ValuesOf(Renamed(inst, p, q)) =
              (ValuesOf(inst) \ {p}) \cup (IF p \in ValuesOf(inst) THEN {q} ELSE {})
<1>n. PICK args, len, new :
        /\ args = inst.args /\ len = Len(args)
        /\ new = [k \in DOMAIN args |-> IF args[k].value = p THEN [args[k] EXCEPT !.value = q] ELSE args[k]]
  OBVIOUS
<1>1. args \in Seq(Arg) /\ len \in Nat /\ DOMAIN args = 1..len /\ \A k \in 1..len : args[k] \in Arg
  <2>1. args \in Seq(Arg)
    BY <1>n DEF Inst
  <2> QED BY <1>n, <2>1, LenProperties
<1>2. ASSUME NEW k \in 1..len
      PROVE  /\ new[k] \in Arg /\ new[k].pred = args[k].pred
             /\ new[k].value = IF args[k].value = p THEN q ELSE args[k].value
  <2>1. args[k] \in Arg
    BY <1>1
  <2>2. new[k] = IF args[k].value = p THEN [args[k] EXCEPT !.value = q] ELSE args[k]
    BY <1>n, <1>1
  <2> QED BY <2>1, <2>2 DEF Arg
<1>3. new = [k \in 1..len |-> new[k]]
  BY <1>n, <1>1
<1>4. new \in Seq(Arg) /\ Len(new) = len /\ DOMAIN new = 1..len
  BY <1>1, <1>2, <1>3
<1>5. Renamed(inst, p, q) = [inst EXCEPT !.args = new]
  BY <1>n DEF Renamed
<1>6. PICK r : r = Renamed(inst, p, q)
  OBVIOUS
<1>7. r \in Inst /\ r.kind = inst.kind /\ r.block = inst.block /\ r.args = new
  BY <1>4, <1>5, <1>6 DEF Inst
<1>8. ValuesOf(r) = {new[k].value : k \in 1..len} /\ ValuesOf(inst) = {args[k].value : k \in 1..len}
  <2>1. r.args = new /\ inst.args = args /\ Len(new) = len /\ Len(args) = len
    BY <1>n, <1>4, <1>7
  <2>2. ValuesOf(r) = {new[k].value : k \in 1..len}
    BY <2>1 DEF ValuesOf
  <2>3. ValuesOf(inst) = {args[k].value : k \in 1..len}
    BY <2>1 DEF ValuesOf
  <2> QED BY <2>2, <2>3
<1>9. {new[k].value : k \in 1..len} =
        ({args[k].value : k \in 1..len} \ {p}) \cup (IF p \in {args[k].value : k \in 1..len} THEN {q} ELSE {})
  BY <1>2
<1> QED BY <1>n, <1>1, <1>2, <1>4, <1>6, <1>7, <1>8, <1>9

\* The phi leaves the layout and no instruction uses it any more.
LEMMA PhiReplaced ==
  ASSUME Types, GraphSound, NEW p \in LiveIds, NEW q \in LiveIds, q # p, ReplacePhi(p, q),
         NEW changed, changed = ToSet(Modified(p)), UNCHANGED prog
  PROVE  /\ changed = {i \in LiveIds : p \in ValuesOf(insts[i])}
         /\ insts' \in Seq(Inst) /\ Len(insts') = Len(insts)
         /\ \A i \in Made : i \notin changed => insts'[i] = insts[i]
         /\ \A i \in Made : /\ insts'[i].kind = insts[i].kind /\ insts'[i].block = insts[i].block
                            /\ DOMAIN insts'[i].args = DOMAIN insts[i].args
                            /\ \A k \in DOMAIN insts[i].args : insts'[i].args[k].pred = insts[i].args[k].pred
         /\ body' \in [Block -> Seq(InstId)] /\ users' \in [InstId -> SUBSET InstId]
         /\ DOMAIN aliases' \subseteq Made' /\ aliases' \in [DOMAIN aliases' -> Made']
         /\ Block' = Block /\ Made' = Made /\ LiveIds' = LiveIds \ {p} /\ Inst' = Inst /\ FrameSet' = FrameSet
         /\ GraphSound'
<1>n. PICK renamed : renamed = [i \in DOMAIN insts |-> IF i \in changed THEN Renamed(insts[i], p, q) ELSE insts[i]]
  OBVIOUS
<1>1. /\ insts' = renamed
      /\ aliases' = [v \in DOMAIN aliases \cup {p} |-> IF v = p THEN q ELSE aliases[v]]
      /\ users' = [v \in InstId |->
                    ((users[v] \ {i \in changed : v \in ValuesOf(insts[i])})
                       \cup {i \in changed : v \in ValuesOf(renamed[i])})
                    \ {i \in {p} : v \in ValuesOf(renamed[i])}]
      /\ body' = [body EXCEPT ![insts[p].block] = Keep(@, DOMAIN insts \ {p})]
  BY <1>n DEF ReplacePhi
<1>2. /\ Len(insts) \in Nat /\ DOMAIN insts = Made /\ Made \subseteq InstId /\ LiveIds \subseteq Made
      /\ \A i \in Made : insts[i] \in Inst /\ insts[i].block \in Block
  BY InstLemma
<1>3. changed = {i \in LiveIds : p \in ValuesOf(insts[i])}
  BY ModifiedLemma DEF GraphSound
<1>4. p \in InstId /\ q \in InstId /\ p \in Made /\ q \in Made /\ changed \subseteq Made
  BY <1>2, <1>3
<1>5. ASSUME NEW i \in Made
      PROVE  /\ insts'[i] \in Inst /\ (i \notin changed => insts'[i] = insts[i])
             /\ insts'[i].kind = insts[i].kind /\ insts'[i].block = insts[i].block
             /\ DOMAIN insts'[i].args = DOMAIN insts[i].args
             /\ \A k \in DOMAIN insts[i].args : insts'[i].args[k].pred = insts[i].args[k].pred
             /\ i \notin changed => ValuesOf(insts'[i]) = ValuesOf(insts[i])
             /\ i \in changed => ValuesOf(insts'[i]) = (ValuesOf(insts[i]) \ {p}) \cup {q}
  <2>1. insts'[i] = IF i \in changed THEN Renamed(insts[i], p, q) ELSE insts[i]
    BY <1>n, <1>1, <1>2
  <2>2. insts[i] \in Inst /\ (i \in changed => p \in ValuesOf(insts[i]))
    BY <1>2, <1>3
  <2>3. CASE i \in changed
    BY <1>4, <2>1, <2>2, <2>3, RenamedLemma
  <2>4. CASE i \notin changed
    BY <2>1, <2>2, <2>4
  <2> QED BY <2>3, <2>4
<1>6. insts' \in Seq(Inst) /\ Len(insts') = Len(insts)
  <2>1. insts' = [i \in 1..Len(insts) |-> insts'[i]]
    BY <1>n, <1>1, <1>2 DEF Made
  <2>2. \A i \in 1..Len(insts) : insts'[i] \in Inst
    BY <1>5 DEF Made
  <2> QED BY <1>2, <2>1, <2>2
<1>7. DOMAIN aliases' = DOMAIN aliases \cup {p}
  BY <1>1
<1>8. Block' = Block /\ Made' = Made /\ LiveIds' = LiveIds \ {p} /\ Inst' = Inst /\ FrameSet' = FrameSet
  BY <1>6, <1>7 DEF Block, Made, LiveIds, Inst, Arg, FrameSet
<1>9. DOMAIN aliases' \subseteq Made' /\ aliases' \in [DOMAIN aliases' -> Made']
  BY <1>1, <1>4, <1>7, <1>8 DEF Types
<1>10. /\ body' \in [Block -> Seq(InstId)]
       /\ \A b \in Block : ToSet(body'[b]) = ToSet(body[b]) \ {p}
  <2>1. \A b \in Block : body[b] \in Seq(InstId) /\ ToSet(body[b]) = {i \in LiveIds : BlockOf(i) = b}
    BY DEF Types, GraphSound, LaidOut
  <2>2. PICK c : c = insts[p].block
    OBVIOUS
  <2>3. c \in Block
    BY <1>2, <1>4, <2>2
  <2>4. Keep(body[c], DOMAIN insts \ {p}) \in Seq(InstId) /\ ToSet(Keep(body[c], DOMAIN insts \ {p})) = ToSet(body[c]) \cap (Made \ {p})
    BY <1>2, <2>1, <2>3, KeepLemma
  <2>5. body' = [body EXCEPT ![c] = Keep(body[c], DOMAIN insts \ {p})]
    BY <1>1, <2>2
  <2>6. body' \in [Block -> Seq(InstId)]
    BY <2>3, <2>4, <2>5 DEF Types
  <2>7. ASSUME NEW b \in Block PROVE ToSet(body'[b]) = ToSet(body[b]) \ {p}
    <3>1. CASE b = c
      <4>1. body'[b] = Keep(body[c], DOMAIN insts \ {p})
        BY <2>5, <3>1 DEF Types
      <4>2. ToSet(body[b]) \subseteq Made
        BY <1>2, <2>1
      <4> QED BY <2>4, <3>1, <4>1, <4>2
    <3>2. CASE b # c
      <4>1. body'[b] = body[b]
        BY <2>5, <3>2 DEF Types
      <4>2. p \notin ToSet(body[b])
        BY <2>1, <2>2, <3>2 DEF BlockOf
      <4> QED BY <4>1, <4>2
    <3> QED BY <3>1, <3>2
  <2> QED BY <2>6, <2>7
<1>11. users' \in [InstId -> SUBSET InstId]
  <2>1. ASSUME NEW v \in InstId
        PROVE  ((users[v] \ {i \in changed : v \in ValuesOf(insts[i])})
                       \cup {i \in changed : v \in ValuesOf(renamed[i])})
                    \ {i \in {p} : v \in ValuesOf(renamed[i])} \in SUBSET InstId
    <3>1. users[v] \subseteq InstId /\ changed \subseteq InstId
      BY <1>2, <1>4 DEF Types
    <3> QED BY <3>1
  <2> QED BY <1>1, <2>1
<1>12. GraphSound'
  <2>1. LaidOut'
    <3>1. ASSUME NEW b \in Block PROVE ToSet(body'[b]) = {i \in LiveIds' : insts'[i].block = b}
      <4>1. ToSet(body[b]) = {i \in LiveIds : insts[i].block = b}
        BY DEF GraphSound, LaidOut, BlockOf
      <4> QED BY <1>2, <1>5, <1>8, <1>10, <4>1
    <3> QED BY <1>8, <3>1 DEF LaidOut, BlockOf
  <2>2. ASSUME NEW i \in Made PROVE ValuesOf(insts'[i]) \subseteq ValuesOf(insts[i]) \cup {q}
    BY <1>5
  <2>3. ArgsMade'
    <3>1. \A i \in Made : ValuesOf(insts'[i]) \subseteq Made
      BY <1>4, <2>2 DEF GraphSound, ArgsMade
    <3> QED BY <1>8, <3>1 DEF ArgsMade
  <2>4. ArgsLive'
    <3>1. ASSUME NEW i \in LiveIds \ {p} PROVE ValuesOf(insts'[i]) \subseteq LiveIds \ {p}
      <4>1. i \in Made /\ ValuesOf(insts[i]) \subseteq LiveIds
        BY <1>2 DEF GraphSound, ArgsLive
      <4>2. p \notin ValuesOf(insts'[i])
        BY <1>3, <1>5, <4>1
      <4> QED BY <2>2, <4>1, <4>2
    <3> QED BY <1>8, <3>1 DEF ArgsLive
  <2>5. UsersKnown'
    <3>1. ASSUME NEW v \in InstId
          PROVE  users'[v] = {i \in LiveIds \ {p} : v \in ValuesOf(insts'[i])}
      <4>1. users[v] = {i \in LiveIds : v \in ValuesOf(insts[i])}
        BY DEF GraphSound, UsersKnown
      <4>2. users'[v] = ((users[v] \ {i \in changed : v \in ValuesOf(insts[i])})
                           \cup {i \in changed : v \in ValuesOf(insts'[i])})
                        \ {i \in {p} : v \in ValuesOf(insts'[i])}
        BY <1>1
      <4>3. \A i \in LiveIds : i \in Made /\ (i \notin changed => ValuesOf(insts'[i]) = ValuesOf(insts[i]))
        BY <1>2, <1>5
      <4>4. changed \subseteq LiveIds
        BY <1>3
      <4>5. ASSUME NEW i PROVE i \in users'[v] <=> i \in {j \in LiveIds \ {p} : v \in ValuesOf(insts'[j])}
        BY <4>1, <4>2, <4>3, <4>4
      <4> QED BY <4>5
    <3> QED BY <1>8, <3>1 DEF UsersKnown
  <2>6. AliasesEnd'
    <3>1. PICK card : card = Cardinality(DOMAIN aliases)
      OBVIOUS
    <3>2. PICK time \in [DOMAIN aliases -> 1..card] :
            \A v \in DOMAIN aliases : aliases[v] \in DOMAIN aliases => time[v] < time[aliases[v]]
      BY <3>1 DEF GraphSound, AliasesEnd
    <3>3. card \in Nat /\ Cardinality(DOMAIN aliases') = card + 1
      <4>0. 1 \in Int /\ Len(insts) \in Int
        BY <1>2
      <4>1. IsFiniteSet(1..Len(insts)) /\ DOMAIN aliases \subseteq 1..Len(insts)
        BY <4>0, FS_Interval DEF Types, Made
      <4>2. IsFiniteSet(DOMAIN aliases) /\ p \notin DOMAIN aliases
        BY <4>1, FS_Subset DEF LiveIds
      <4> QED BY <1>7, <3>1, <4>2, FS_CardinalityType, FS_AddElement
    <3>4. PICK later : later = [v \in DOMAIN aliases \cup {p} |-> IF v = p THEN card + 1 ELSE time[v]]
      OBVIOUS
    <3>5. later \in [DOMAIN aliases' -> 1..(card + 1)]
      <4>1. \A v \in DOMAIN aliases : time[v] \in 1..(card + 1)
        BY <3>2, <3>3
      <4>2. card + 1 \in 1..(card + 1)
        BY <3>3
      <4> QED BY <1>7, <3>4, <4>1, <4>2
    <3>6. ASSUME NEW v \in DOMAIN aliases', aliases'[v] \in DOMAIN aliases'
          PROVE  later[v] < later[aliases'[v]]
      <4>1. v # p /\ v \in DOMAIN aliases
        BY <1>1, <1>7, <3>6 DEF LiveIds
      <4>2. aliases'[v] = aliases[v] /\ later[v] = time[v] /\ time[v] \in 1..card
        BY <1>1, <3>2, <3>4, <4>1
      <4>3. CASE aliases[v] = p
        <5>1. later[p] = card + 1
          BY <3>4
        <5> QED BY <3>3, <4>2, <4>3, <5>1
      <4>4. CASE aliases[v] # p
        BY <1>7, <3>2, <3>4, <3>6, <4>1, <4>2, <4>4
      <4> QED BY <4>3, <4>4
    <3> QED BY <3>3, <3>5, <3>6 DEF AliasesEnd
  <2> QED BY <2>1, <2>3, <2>4, <2>5, <2>6 DEF GraphSound
<1> QED BY <1>3, <1>5, <1>6, <1>8, <1>9, <1>10, <1>11, <1>12

\* A phi that is being removed is newer than every phi under way: those wait for a
\* result that is newer than they are, and the removal is part of that result.
LEMMA CheckTop ==
  ASSUME IInv, stack # <<>>, Top.f = "check", NEW k \in At("args"), NEW p \in ToSet(Top.todo)
  PROVE  /\ k \in 1..(Len(stack) - 1) /\ stack[k].phi # p
         /\ \A i \in Made : p \in ValuesOf(insts[i]) => i # stack[k].phi
<1>n. PICK n, r, phi, f : n = Len(stack) /\ r = k + 1 /\ phi = stack[k].phi /\ f = stack[k + 1].phi
  OBVIOUS
<1>0. Types /\ StackSound
  BY DEF IInv
<1>1. n \in Nat \ {0} /\ n \in 1..n /\ Top = stack[n] /\ n \in At("check")
  BY <1>0, <1>n, TopLemma DEF At
<1>2. k \in 1..n /\ k # n
  BY <1>1, <1>n DEF At
<1>3. r \in 2..n /\ r - 1 = k /\ r \in 1..n /\ r > k
  BY <1>1, <1>2, <1>n
<1>4. <<"args", stack[r].f>> \in Below
  BY <1>0, <1>n, <1>3 DEF StackSound, StackShape, WellNested, At
<1>5. stack[r].f \in {"use", "result"} /\ r # n
  BY <1>1, <1>4 DEF Below, At
<1>6. stack[r].f # "use"
  <2>1. PICK m : m = r + 1
    OBVIOUS
  <2>2. m \in 2..n /\ m - 1 = r
    BY <1>1, <1>3, <1>5, <2>1
  <2> QED BY <1>0, <1>n, <2>2 DEF StackSound, StackShape, WellNested, Below
<1>7. r \in At("result") /\ n > r
  BY <1>1, <1>3, <1>5, <1>6, <1>n DEF At
<1>8. ResultApart(r)
  BY <1>0, <1>7 DEF StackSound, ResultsApart
<1>9. phi < f
  BY <1>3, <1>8, <1>n DEF ResultApart
<1>10. p >= f
  BY <1>1, <1>7, <1>8, <1>n DEF ResultApart
<1>11. p \in Nat /\ f \in Nat /\ phi \in Nat /\ f \in Made /\ phi \in Made
  <2>1. f \in Made
    BY <1>3, <1>8, <1>n DEF ResultApart
  <2>2. p \in Made
    BY <1>0, <1>1 DEF StackSound, TodoMade
  <2>3. phi \in Made
    BY <1>0, <1>n, InstLemma DEF StackSound, ArgsSound, ArgsFrameSound
  <2>4. Made \subseteq Nat
    BY <1>0, InstLemma DEF Made
  <2> QED BY <2>1, <2>2, <2>3, <2>4
<1>12. phi # p
  BY <1>9, <1>10, <1>11
<1>13. p \notin ValuesOf(insts[phi])
  <2>1. phi \in 1..(f - 1)
    BY <1>0, <1>9, <1>11, InstLemma DEF Made
  <2>2. \A v \in ValuesOf(insts[phi]) : v < f
    BY <1>8, <1>n, <2>1 DEF ResultApart
  <2>3. ~(p < f)
    BY <1>10, <1>11
  <2> QED BY <2>2, <2>3
<1> QED BY <1>1, <1>2, <1>12, <1>13, <1>n

\* The phis that used it are looked at again.
LEMMA RemoveTrivialPhiSound == ASSUME IInv, RemoveTrivialPhi PROVE IInv'
<1>n. PICK n, m, p, rest, list, changed :
        /\ n = Len(stack) /\ m = n + 1 /\ p = Candidate /\ rest = Tail(Top.todo)
        /\ list = Modified(Candidate) /\ changed = ToSet(Modified(Candidate))
  OBVIOUS
<1> DEFINE x == CheckFrame(rest)
           a == CheckFrame(list)
           mid == ReplaceTop(x)
<1>0. Types /\ GraphSound /\ StackSound /\ PhisSound /\ ClientSound
  BY DEF IInv
<1>1. /\ stack # <<>> /\ Top.f = "check" /\ Top.todo # <<>>
      /\ insts[p].kind = "phi" /\ p \notin DOMAIN aliases /\ IsTrivial(p)
      /\ stack' = Append(mid, a)
      /\ UNCHANGED <<prog, preds, sealed, defs, incomplete, ret, panicked, cur, pc, held>>
  BY <1>n DEF RemoveTrivialPhi, Running, Frame, IsCandidate, client
<1>2. /\ n \in Nat \ {0} /\ n \in 1..n /\ Top = stack[n] /\ n \in At("check")
      /\ Top.todo \in Seq(InstId) /\ ToSet(Top.todo) \subseteq Made
      /\ rest \in Seq(InstId) /\ ToSet(Top.todo) = {p} \cup ToSet(rest) /\ p = Head(Top.todo)
  <2>1. n \in Nat \ {0} /\ n \in 1..n /\ Top = stack[n] /\ n \in At("check") /\ Top.todo \in Seq(InstId)
    BY <1>0, <1>1, <1>n, TopLemma, FrameLemma DEF At
  <2>2. ToSet(Top.todo) \subseteq Made
    BY <1>0, <2>1 DEF StackSound, TodoMade
  <2> QED BY <1>1, <1>n, <2>1, <2>2, TailLemma DEF Candidate
<1>3. p \in Made /\ p \in LiveIds /\ LiveIds \subseteq Made /\ Made \subseteq InstId
  BY <1>0, <1>1, <1>2, InstLemma DEF LiveIds
<1>4. PICK q \in LiveIds : q # p /\ ReplacePhi(p, q)
  <2>1. PICK q \in Others(p) : ReplacePhi(p, q)
    BY <1>n DEF RemoveTrivialPhi
  <2>2. q \in LiveIds /\ q # p
    BY <1>0, <1>3, <2>1 DEF Others, GraphSound, ArgsLive
  <2> QED BY <2>1, <2>2
<1>5. /\ changed = {i \in LiveIds : p \in ValuesOf(insts[i])}
      /\ insts' \in Seq(Inst) /\ Len(insts') = Len(insts)
      /\ \A i \in Made : i \notin changed => insts'[i] = insts[i]
      /\ \A i \in Made : /\ insts'[i].kind = insts[i].kind /\ insts'[i].block = insts[i].block
                         /\ DOMAIN insts'[i].args = DOMAIN insts[i].args
                         /\ \A k \in DOMAIN insts[i].args : insts'[i].args[k].pred = insts[i].args[k].pred
      /\ body' \in [Block -> Seq(InstId)] /\ users' \in [InstId -> SUBSET InstId]
      /\ DOMAIN aliases' \subseteq Made' /\ aliases' \in [DOMAIN aliases' -> Made']
      /\ Block' = Block /\ Made' = Made /\ LiveIds' = LiveIds \ {p} /\ Inst' = Inst /\ FrameSet' = FrameSet
      /\ GraphSound'
  BY <1>0, <1>1, <1>3, <1>4, <1>n, PhiReplaced
<1>6. list \in Seq(InstId) /\ ToSet(list) = changed
  BY <1>0, <1>n, ModifiedLemma DEF GraphSound
<1>7. /\ x \in FrameSet /\ x.f = "check" /\ x.todo = rest
      /\ a \in FrameSet /\ a.f = "check" /\ a.todo = list
  BY <1>2, <1>6 DEF FrameSet, CheckFrame
<1>8. mid \in Seq(FrameSet) /\ Replaced(mid, stack, x)
  BY <1>0, <1>1, <1>7, TopLemma
<1> HIDE DEF x, a, mid
<1>9. stack' \in Seq(FrameSet) /\ Pushed(stack', mid, a)
  BY <1>1, <1>7, <1>8, PushLemma
<1>10. /\ Len(mid) = n /\ mid[n] = x /\ Len(stack') = m /\ stack'[m] = a /\ stack'[n] = x
       /\ \A k \in 1..(n - 1) : stack'[k] = stack[k]
  <2>1. Len(mid) = n /\ mid[n] = x /\ \A k \in 1..(n - 1) : mid[k] = stack[k]
    BY <1>n, <1>2, <1>8 DEF Replaced
  <2>2. Len(stack') = m /\ stack'[m] = a /\ \A k \in 1..n : stack'[k] = mid[k]
    BY <1>n, <1>2, <1>9, <2>1 DEF Pushed
  <2>3. n \in 1..n /\ \A k \in 1..(n - 1) : k \in 1..n
    BY <1>2
  <2> QED BY <2>1, <2>2, <2>3
<1>11. /\ \A k : k \in 1..m <=> k = m \/ k = n \/ k \in 1..(n - 1)
       /\ \A k : k \in 1..n <=> k = n \/ k \in 1..(n - 1)
       /\ n \notin 1..(n - 1) /\ m \notin 1..(n - 1) /\ m # n
       /\ \A k \in 1..(n - 1) : k < n /\ k < m
  BY <1>2, <1>n
<1>12. /\ At("check")' = At("check") \cup {m} /\ \A f : f # "check" => SameFrames(f) /\ At(f) \subseteq 1..(n - 1)
       /\ Lookups' \subseteq Lookups /\ Lookups \subseteq 1..(n - 1) /\ At("check") \subseteq 1..n
  <2>1. \A f : At(f) = {k \in 1..n : stack[k].f = f} /\ At(f)' = {k \in 1..m : stack'[k].f = f}
    BY <1>n, <1>10 DEF At
  <2>2. /\ Lookups' = {k \in 1..m : stack'[k].f \in {"use", "args"}}
        /\ Lookups = {k \in 1..n : stack[k].f \in {"use", "args"}}
    BY <1>n, <1>10 DEF Lookups
  <2>3. /\ \A k \in 1..m : stack'[k].f = IF k = m THEN "check" ELSE IF k = n THEN "check" ELSE stack[k].f
        /\ stack[n].f = "check"
        /\ \A k \in 1..(n - 1) : k # m /\ k # n /\ k \in 1..m /\ k \in 1..n
        /\ n \in 1..m /\ m \in 1..m /\ n \in 1..n
    BY <1>1, <1>2, <1>7, <1>10, <1>11
  <2>4. \A f : f # "check" => At(f)' = At(f) /\ At(f) \subseteq 1..(n - 1)
    BY <1>11, <2>1, <2>3
  <2>5. \A f : f = "check" => At(f)' = At(f) \cup {m} /\ At(f) \subseteq 1..n
    BY <1>11, <2>1, <2>3
  <2>6. Lookups' \subseteq Lookups /\ Lookups \subseteq 1..(n - 1)
    BY <1>11, <2>2, <2>3
  <2> QED BY <1>10, <2>4, <2>5, <2>6 DEF SameFrames
<1>13. \A k \in At("args") : /\ k \in 1..(n - 1) /\ stack'[k] = stack[k]
                             /\ stack[k].phi \in LiveIds' /\ insts'[stack[k].phi] = insts[stack[k].phi]
                             /\ stack[k].phi # p /\ stack[k].phi \in Made
  <2> TAKE k \in At("args")
  <2>1. stack[k].phi # p /\ k \in 1..(n - 1) /\ \A i \in Made : p \in ValuesOf(insts[i]) => i # stack[k].phi
    BY <1>1, <1>2, <1>n, CheckTop
  <2>2. stack[k].phi \in LiveIds
    BY <1>0 DEF StackSound, ArgsSound, ArgsFrameSound
  <2>3. stack[k].phi \notin changed
    BY <1>3, <1>5, <2>1
  <2> QED BY <1>3, <1>5, <1>10, <2>1, <2>2, <2>3
<1>14. Types'
  BY <1>0, <1>1, <1>5, <1>9 DEF Types
<1>15. StackSound'
  <2>1. WellNested(mid)
    <3>1. stack \in Seq(FrameSet) /\ WellNested(stack)
      BY <1>0 DEF Types, StackSound, StackShape
    <3>2. n # 1 /\ (n > 1 => n \in 2..n /\ <<stack[n - 1].f, x.f>> \in Below)
      BY <1>1, <1>2, <1>7, <1>n, <3>1 DEF WellNested
    <3> QED BY <1>1, <1>2, <1>7, <1>8, <1>n, <3>1, <3>2, NestedReplace
  <2>2. WellNested(stack')
    <3>1. <<mid[Len(mid)].f, a.f>> \in Below /\ mid # <<>>
      BY <1>2, <1>7, <1>8, <1>10, EmptyIff DEF Below
    <3> QED BY <1>7, <1>8, <1>9, <2>1, <3>1, NestedPush
  <2>3. StackShape'
    <3>1. stack'[1].f = stack[1].f
      <4>1. 1 = n \/ 1 \in 1..(n - 1)
        BY <1>2
      <4> QED BY <1>1, <1>2, <1>7, <1>10, <4>1
    <3> QED BY <1>0, <1>1, <2>2, <3>1 DEF StackSound, StackShape, Reading
  <2>4. ASSUME NEW k \in At("args") PROVE ArgsFrameSound(k)'
    <3>1. /\ k \in 1..(n - 1) /\ stack'[k] = stack[k] /\ ArgsFrameSound(k)
          /\ stack[k].phi \in LiveIds' /\ insts'[stack[k].phi] = insts[stack[k].phi]
      BY <1>0, <1>13 DEF StackSound, ArgsSound
    <3>2. PICK fr, f, c : fr = stack[k] /\ f = fr.phi /\ c = insts[f].block
      OBVIOUS
    <3>3. k > 1 => stack'[k - 1] = stack[k - 1]
      <4>1. k > 1 => k - 1 \in 1..(n - 1)
        BY <1>2, <3>1
      <4> QED BY <1>10, <4>1
    <3>4. k < Len(stack)
      BY <1>11, <1>n, <3>1
    <3>5. /\ insts[f].kind = "phi" /\ Len(insts[f].args) = fr.done /\ fr.done < Len(fr.preds) /\ fr.done <= Len(fr.preds)
          /\ preds[c] = <<>> /\ defs[c][fr.var] # None
          /\ \A j \in 1..fr.done : insts[f].args[j].pred = fr.preds[j]
          /\ k > 1 /\ stack[k - 1].f = "result" => stack[k - 1].phi = f /\ sealed[c]
          /\ k > 1 /\ stack[k - 1].f = "seal" => stack[k - 1].block = c
      BY <3>1, <3>2, <3>4 DEF ArgsFrameSound, BlockOf
    <3>6. stack'[k] = fr /\ insts'[f] = insts[f] /\ f \in LiveIds'
      BY <3>1, <3>2
    <3>7. /\ k > 1 /\ stack'[k - 1].f = "result" => stack'[k - 1].phi = f /\ sealed'[c]
          /\ k > 1 /\ stack'[k - 1].f = "seal" => stack'[k - 1].block = c
      BY <1>1, <3>3, <3>5
    <3>8. k < Len(stack') => fr.done < Len(fr.preds)
      BY <3>5
    <3>9. insts'[f].block = c /\ insts'[f].kind = "phi" /\ Len(insts'[f].args) = fr.done
      BY <3>2, <3>5, <3>6
    <3>10. /\ \A j \in 1..fr.done : insts'[f].args[j].pred = fr.preds[j]
           /\ preds'[c] = <<>> /\ defs'[c][fr.var] # None
      BY <1>1, <3>5, <3>6
    <3>11. stack'[k].phi = f /\ stack'[k].done = fr.done /\ stack'[k].preds = fr.preds /\ stack'[k].var = fr.var
      BY <3>2, <3>6
    <3> QED BY <3>5, <3>6, <3>7, <3>8, <3>9, <3>10, <3>11 DEF ArgsFrameSound, BlockOf
  <2>5. ArgsSound'
    <3>1. \A k \in At("args")' : ArgsFrameSound(k)'
      BY <1>12, <2>4 DEF SameFrames
    <3>2. \A j, k \in Lookups' : stack'[j].var = stack'[k].var
      BY <1>0, <1>10, <1>12 DEF StackSound, ArgsSound
    <3>3. \A j, k \in At("args")' : j # k => insts'[stack'[j].phi].block # insts'[stack'[k].phi].block
      BY <1>0, <1>12, <1>13 DEF StackSound, ArgsSound, BlockOf, SameFrames
    <3> QED BY <3>1, <3>2, <3>3 DEF ArgsSound, BlockOf
  <2>6. ASSUME NEW k \in At("result")' PROVE ResultApart(k)'
    <3>1. k \in At("result") /\ stack'[k] = stack[k] /\ ResultApart(k) /\ k \in 1..(n - 1) /\ n > k
      BY <1>0, <1>11, <1>12 DEF SameFrames, StackSound, ResultsApart
    <3>2. PICK f : f = stack[k].phi
      OBVIOUS
    <3>3. /\ f \in Made /\ \A i \in 1..(f - 1) : \A v \in ValuesOf(insts[i]) : v < f
          /\ \A j \in At("args") : IF j > k THEN stack[j].phi >= f ELSE stack[j].phi < f
          /\ \A j \in At("check") : j > k => \A i \in ToSet(stack[j].todo) : i >= f
      BY <3>1, <3>2 DEF ResultApart
    <3>4. p >= f
      BY <1>2, <3>1, <3>3
    <3>5. p \in Nat /\ f \in Nat /\ \A i \in Made : i \in Nat /\ (~(i >= f) => i \in 1..(f - 1))
      BY <1>3, <3>3 DEF Made
    <3>6. \A i \in Made : p \in ValuesOf(insts[i]) => i >= f
      BY <3>3, <3>4, <3>5
    <3>7. \A i \in changed : i >= f
      BY <1>3, <1>5, <3>6
    <3>8. \A i \in 1..(f - 1) : i \in Made /\ ~(i >= f)
      BY <1>0, <3>3, InstLemma DEF Made
    <3>9. \A i \in 1..(f - 1) : \A v \in ValuesOf(insts'[i]) : v < f
      BY <1>5, <3>3, <3>7, <3>8
    <3>10. \A j \in At("args")' : IF j > k THEN stack'[j].phi >= f ELSE stack'[j].phi < f
      BY <1>12, <3>3 DEF SameFrames
    <3>11. \A j \in At("check")' : j > k => \A i \in ToSet(stack'[j].todo) : i >= f
      <4>1. ASSUME NEW j \in At("check")', j > k, NEW i \in ToSet(stack'[j].todo) PROVE i >= f
        <5>1. CASE j = m
          BY <1>6, <1>7, <1>10, <3>7, <4>1, <5>1
        <5>2. CASE j = n
          BY <1>2, <1>7, <1>10, <3>1, <3>3, <4>1, <5>2
        <5>3. CASE j # m /\ j # n
          <6>1. j \in At("check") /\ j \in 1..(n - 1) /\ stack'[j] = stack[j]
            BY <1>10, <1>11, <1>12, <5>3
          <6> QED BY <3>3, <4>1, <6>1
        <5> QED BY <5>1, <5>2, <5>3
      <4> QED BY <4>1
    <3> QED BY <1>5, <3>1, <3>2, <3>3, <3>9, <3>10, <3>11 DEF ResultApart, ValuesOf
  <2>7. TodoMade'
    <3>1. ASSUME NEW k \in At("check")' PROVE ToSet(stack'[k].todo) \subseteq Made
      <4>1. CASE k = m
        BY <1>3, <1>5, <1>6, <1>7, <1>10, <4>1
      <4>2. CASE k = n
        BY <1>2, <1>7, <1>10, <4>2
      <4>3. CASE k # m /\ k # n
        <5>1. k \in At("check") /\ stack'[k] = stack[k]
          BY <1>10, <1>11, <1>12, <4>3
        <5> QED BY <1>0, <5>1 DEF StackSound, TodoMade
      <4> QED BY <4>1, <4>2, <4>3
    <3> QED BY <1>5, <3>1 DEF TodoMade
  <2> QED BY <2>3, <2>5, <2>6, <2>7 DEF StackSound, ResultsApart
<1>16. UnderWay' = UnderWay /\ p \notin UnderWay
  <2>1. UnderWay' = {stack'[k].phi : k \in At("args")'}
    BY DEF UnderWay
  <2> QED BY <1>12, <1>13, <2>1 DEF UnderWay, SameFrames
<1>17. Pending' = Pending /\ SameFrames("seal") /\ SameFrames("args")
  <2>1. Pending' = (UNION {PhisOf(incomplete'[c]) : c \in Block'})
                       \cup (UNION {PhisOf(stack'[k].todo) : k \in At("seal")'})
    BY DEF Pending, PhisOf
  <2>2. UNION {PhisOf(stack'[k].todo) : k \in At("seal")'} = UNION {PhisOf(stack[k].todo) : k \in At("seal")}
    BY <1>12 DEF SameFrames
  <2>3. UNION {PhisOf(incomplete'[c]) : c \in Block'} = UNION {PhisOf(incomplete[c]) : c \in Block}
    BY <1>1, <1>5
  <2>4. Pending = (UNION {PhisOf(incomplete[c]) : c \in Block})
                       \cup (UNION {PhisOf(stack[k].todo) : k \in At("seal")})
    BY DEF Pending
  <2> QED BY <1>12, <2>1, <2>2, <2>3, <2>4
<1>18. ValuesOf(insts[p]) # {}
  <2>1. ASSUME ValuesOf(insts[p]) = {} PROVE FALSE
    <3>1. Others(p) = {}
      BY <2>1 DEF Others
    <3>2. Cardinality(Others(p)) = 0
      BY <3>1, FS_EmptySet
    <3> QED BY <1>1, <3>2 DEF IsTrivial
  <2> QED BY <2>1
<1>19. ASSUME NEW c, NEW items, ItemsSound(c, items)
       PROVE  p \notin PhisOf(items) /\ ItemsSound(c, items)'
  <2>1. \A i \in Made : insts[i].args = <<>> => ValuesOf(insts[i]) = {}
    BY DEF ValuesOf
  <2>2. \A k \in 1..Len(items) : items[k][2] # p /\ items[k][2] \in Made /\ items[k][2] \notin changed
    BY <1>3, <1>5, <1>18, <1>19, <2>1 DEF ItemsSound, ItemSound
  <2>3. \A k \in 1..Len(items) : insts'[items[k][2]] = insts[items[k][2]] /\ items[k][2] \in LiveIds'
    BY <1>5, <1>19, <2>2 DEF ItemsSound, ItemSound
  <2> QED BY <1>1, <1>19, <2>2, <2>3 DEF ItemsSound, DistinctPhis, ItemSound, BlockOf, PhisOf
<1>20. p \notin Pending
  <2>1. \A c \in Block : p \notin PhisOf(incomplete[c])
    BY <1>0, <1>19 DEF PhisSound, PendingSound
  <2>2. \A k \in At("seal") : p \notin PhisOf(stack[k].todo)
    BY <1>0, <1>19 DEF PhisSound, PendingSound
  <2> QED BY <2>1, <2>2 DEF Pending
<1>21. PendingSound'
  <2>1. \A c \in Block : ItemsSound(c, incomplete[c])'
    <3> TAKE c \in Block
    <3>1. PICK items : items = incomplete[c]
      OBVIOUS
    <3>2. ItemsSound(c, items)'
      BY <1>0, <1>19, <3>1 DEF PhisSound, PendingSound
    <3> QED BY <1>1, <3>1, <3>2 DEF ItemsSound, DistinctPhis, ItemSound
  <2>2. \A k \in At("seal")' : ItemsSound(stack[k].block, stack[k].todo)'
    <3> TAKE k \in At("seal")'
    <3>1. PICK c, items : c = stack[k].block /\ items = stack[k].todo
      OBVIOUS
    <3>2. k \in At("seal") /\ stack'[k] = stack[k]
      BY <1>17 DEF SameFrames
    <3>3. ItemsSound(c, items)'
      BY <1>0, <1>19, <3>1, <3>2 DEF PhisSound, PendingSound
    <3> QED BY <3>1, <3>2, <3>3 DEF ItemsSound, DistinctPhis, ItemSound
  <2>3. \A k \in At("seal")' : incomplete'[stack'[k].block] = <<>> /\ ~sealed'[stack'[k].block]
    BY <1>0, <1>1, <1>17 DEF SameFrames, PhisSound, PendingSound
  <2>4. \A c \in Block : sealed'[c] => incomplete'[c] = <<>>
    BY <1>0, <1>1 DEF PhisSound, PendingSound
  <2>5. UnderWay' \cap Pending' = {}
    BY <1>0, <1>16, <1>17 DEF PhisSound, PendingSound
  <2> QED BY <1>5, <2>1, <2>2, <2>3, <2>4, <2>5 DEF PendingSound
<1>22. SealedClosed'
  <2>1. FilledKept /\ SameFrames("sealall")
    BY <1>1, <1>12 DEF FilledKept, Filled
  <2> QED BY <1>0, <1>1, <1>17, <2>1, SealedClosedKept DEF PhisSound
<1>23. CompleteSound'
  <2>1. Complete' = Complete \ {p}
    <3>1. \A i : i \in Complete' <=> i \in LiveIds' /\ insts'[i].kind = "phi" /\ i \notin Pending' /\ i \notin UnderWay'
      BY DEF Complete
    <3>2. \A i : i \in Complete <=> i \in LiveIds /\ insts[i].kind = "phi" /\ i \notin Pending /\ i \notin UnderWay
      BY DEF Complete
    <3>3. \A i : i \in LiveIds' <=> i \in LiveIds /\ i # p
      BY <1>5
    <3>4. \A i \in LiveIds : insts'[i].kind = insts[i].kind
      BY <1>3, <1>5
    <3>5. \A i : i \in Complete' <=> i \in Complete /\ i # p
      BY <1>16, <1>17, <3>1, <3>2, <3>3, <3>4
    <3> QED BY <3>5
  <2> SUFFICES ASSUME NEW c \in Complete, c # p
               PROVE  (/\ Closed(BlockOf(c))
                       /\ \A k \in At("args") : BlockOf(stack[k].phi) = BlockOf(c) => ArgPreds(c) = stack[k].preds
                       /\ (\A k \in At("args") : BlockOf(stack[k].phi) # BlockOf(c))
                            => ArgPreds(c) = preds[BlockOf(c)]
                       /\ IsTrivial(c) => \E k \in At("check") : c \in ToSet(stack[k].todo))'
    BY <2>1 DEF CompleteSound
  <2>2. /\ Closed(BlockOf(c))
        /\ \A k \in At("args") : BlockOf(stack[k].phi) = BlockOf(c) => ArgPreds(c) = stack[k].preds
        /\ (\A k \in At("args") : BlockOf(stack[k].phi) # BlockOf(c)) => ArgPreds(c) = preds[BlockOf(c)]
        /\ IsTrivial(c) => \E k \in At("check") : c \in ToSet(stack[k].todo)
    BY <1>0 DEF PhisSound, CompleteSound
  <2>3. c \in Made /\ insts'[c].block = insts[c].block /\ Closed(BlockOf(c))' = Closed(BlockOf(c))
    <3>1. c \in Made /\ insts'[c].block = insts[c].block
      BY <1>3, <1>5 DEF Complete
    <3> QED BY <1>1, <3>1 DEF BlockOf, Closed, Filled, Block
  <2>4. ArgPreds(c)' = ArgPreds(c)
    BY <1>5, <2>3 DEF ArgPreds
  <2>5. \A k \in At("args")' : /\ k \in At("args") /\ insts'[stack'[k].phi].block = insts[stack[k].phi].block
                               /\ stack'[k].preds = stack[k].preds
    BY <1>13, <1>17 DEF SameFrames
  <2>6. IsTrivial(c)' => \E k \in At("check")' : c \in ToSet(stack'[k].todo)
    <3>1. CASE c \in changed
      BY <1>6, <1>7, <1>10, <1>12, <3>1
    <3>2. CASE c \notin changed
      <4>1. IsTrivial(c)' = IsTrivial(c)
        <5>1. insts'[c] = insts[c]
          BY <1>5, <2>3, <3>2
        <5> QED BY <5>1 DEF IsTrivial, Others, ValuesOf
      <4> SUFFICES ASSUME IsTrivial(c) PROVE \E k \in At("check")' : c \in ToSet(stack'[k].todo)
        BY <4>1
      <4>2. PICK k \in At("check") : c \in ToSet(stack[k].todo)
        BY <2>2
      <4>3. CASE k = n
        BY <1>2, <1>7, <1>10, <1>12, <4>2, <4>3
      <4>4. CASE k # n
        <5>1. k \in At("check")' /\ stack'[k] = stack[k]
          BY <1>10, <1>11, <1>12, <4>4
        <5> QED BY <4>2, <5>1
      <4> QED BY <4>3, <4>4
    <3> QED BY <3>1, <3>2
  <2>7. SameFrames("args")
    BY <1>17
  <2> QED BY <1>1, <2>2, <2>3, <2>4, <2>5, <2>6, <2>7 DEF BlockOf, SameFrames
<1>24. ClientSound'
  BY <1>1, ClientKept, NothingReturned
<1> QED BY <1>5, <1>14, <1>15, <1>21, <1>22, <1>23, <1>24 DEF IInv, PhisSound

-----------------------------------------------------------------------------
(***************************************************************************)
(* The theorems.                                                           *)
(***************************************************************************)

\* A step that changes nothing of the construction.
LEMMA StutterSound == ASSUME IInv, UNCHANGED vars PROVE IInv'
<1>1. UNCHANGED <<prog, insts, body, users, preds, sealed, defs, incomplete, aliases,
                  stack, ret, panicked, cur, pc, held>>
  BY DEF vars, dfg, ssa, client
<1>2. Block' = Block /\ Made' = Made /\ LiveIds' = LiveIds
  BY <1>1 DEF Block, Made, LiveIds
<1>3. FrameSet' = FrameSet /\ Inst' = Inst
  BY <1>2 DEF FrameSet, Inst, Arg
<1>4. Types' /\ GraphSound'
  BY <1>1, <1>2, <1>3, GraphKept DEF IInv, Types
<1>5. /\ \A f : At(f)' = At(f)
      /\ Lookups' = Lookups
  BY <1>1 DEF At, Lookups
<1>6. UnderWay' = UnderWay
  BY <1>1, <1>5 DEF UnderWay
<1>7. StackSound'
  <2>1. StackShape'
    BY <1>1 DEF IInv, StackSound, StackShape, Reading
  <2>2. ArgsSound'
    BY <1>1, <1>2, <1>5 DEF IInv, StackSound, ArgsSound, ArgsFrameSound, BlockOf
  <2>3. ResultsApart' /\ TodoMade'
    BY <1>1, <1>2, <1>5 DEF IInv, StackSound, ResultsApart, ResultApart, TodoMade, ValuesOf
  <2> QED BY <2>1, <2>2, <2>3 DEF StackSound
<1>8. \A f : SameFrames(f)
  BY <1>1, <1>5 DEF SameFrames
<1>9. Pending' = Pending
  <2>1. Pending' = (UNION {PhisOf(incomplete'[b]) : b \in Block'})
                       \cup (UNION {PhisOf(stack'[k].todo) : k \in At("seal")'})
    BY DEF Pending, PhisOf
  <2> QED BY <1>1, <1>2, <1>5, <2>1 DEF Pending
<1>10. PendingSound'
  BY <1>1, <1>2, <1>5, <1>6, <1>9, SMTT(40)
     DEF IInv, PhisSound, PendingSound, ItemsSound, ItemSound, DistinctPhis, BlockOf
<1>11. CompleteSound'
  <2>1. Complete' = Complete
    BY <1>1, <1>2, <1>6, <1>9 DEF Complete
  <2>2. \A phi : /\ Closed(BlockOf(phi))' = Closed(BlockOf(phi))
                 /\ ArgPreds(phi)' = ArgPreds(phi) /\ IsTrivial(phi)' = IsTrivial(phi)
    BY <1>1, <1>2 DEF Closed, BlockOf, Filled, ArgPreds, IsTrivial, Others, ValuesOf
  <2>3. CompleteSound
    BY DEF IInv, PhisSound
  <2> QED BY <1>1, <1>5, <2>1, <2>2, <2>3 DEF CompleteSound, BlockOf
<1>12. SealedClosed'
  BY <1>1, <1>2, <1>5 DEF IInv, PhisSound, SealedClosed, Closed, Filled, AllFilled
<1>13. ClientSound'
  BY <1>1, <1>2 DEF IInv, ClientSound, RetSound, HeldSound, Reading, Top
<1> QED BY <1>4, <1>7, <1>10, <1>11, <1>12, <1>13 DEF IInv, PhisSound

\* Every step of the construction and of the frontend keeps the invariant.
LEMMA NextSound == ASSUME IInv, Next PROVE IInv'
<1>1. CASE UseVarLocal       BY <1>1, UseVarLocalSound
<1>2. CASE UseVarUnsealed    BY <1>2, UseVarUnsealedSound
<1>3. CASE UseVarSinglePred  BY <1>3, UseVarSinglePredSound
<1>4. CASE UseVarJoin        BY <1>4, UseVarJoinSound
<1>5. CASE UseVarResult      BY <1>5, UseVarResultSound
<1>6. CASE NextPred          BY <1>6, NextPredSound
<1>7. CASE AppendPhiArg      BY <1>7, AppendPhiArgSound
<1>8. CASE PhiComplete       BY <1>8, PhiCompleteSound
<1>9. CASE KeepPhi           BY <1>9, KeepPhiSound
<1>10. CASE RemoveTrivialPhi BY <1>10, RemoveTrivialPhiSound
<1>11. CASE Checked          BY <1>11, CheckedSound
<1>12. CASE SealNextPhi      BY <1>12, SealNextPhiSound
<1>13. CASE Seal             BY <1>13, SealSound
<1>14. CASE SealAllNext      BY <1>14, SealAllNextSound
<1>15. CASE \E b \in Block : SealBlock(b)
  BY <1>15, SealBlockSound
<1>16. CASE SwitchToBlock    BY <1>16, SwitchToBlockSound
<1>17. CASE DefVar           BY <1>17, DefVarSound
<1>18. CASE ReadVar          BY <1>18, ReadVarSound
<1>19. CASE HoldValue        BY <1>19, HoldValueSound
<1>20. CASE WriteVar         BY <1>20, WriteVarSound
<1>21. CASE EmitUse          BY <1>21, EmitUseSound
<1>22. CASE Branch           BY <1>22, BranchSound
<1>23. CASE SealAll          BY <1>23, SealAllSound
<1> QED
  BY <1>1, <1>2, <1>3, <1>4, <1>5, <1>6, <1>7, <1>8, <1>9, <1>10, <1>11, <1>12, <1>13, <1>14,
     <1>15, <1>16, <1>17, <1>18, <1>19, <1>20, <1>21, <1>22, <1>23 DEF Next, Step, Frontend

\* The data flow graph is exact: its users are the layout's.
LEMMA UsersFromInv == ASSUME IInv PROVE UsersExact
<1>1. Live = LiveIds
  BY ScanLemma DEF IInv, GraphSound
<1>2. \A v \in InstId : users[v] = {i \in LiveIds : v \in ValuesOf(insts[i])}
  BY DEF IInv, GraphSound, UsersKnown
<1>3. \A i \in LiveIds : ValuesOf(insts[i]) \subseteq LiveIds
  BY DEF IInv, GraphSound, ArgsLive
<1> QED BY <1>1, <1>2, <1>3 DEF UsersExact

\* No call disturbs another, and a built function has no unfinished phi.
LEMMA ConstructionFromInv == ASSUME IInv PROVE ConstructionSound
<1>1. Live = LiveIds
  BY ScanLemma DEF IInv, GraphSound
<1>2. DOMAIN stack = 1..Len(stack)
  BY LenProperties DEF IInv, Types
<1>3. ConstructionUndisturbed
  <2> SUFFICES ASSUME NEW k \in 1..Len(stack), stack[k].f = "args"
               PROVE  /\ stack[k].phi \in Live
                      /\ \A j \in 1..Len(stack) :
                           stack[j].f = "use" /\ stack[j].block = insts[stack[k].phi].block
                             => defs[stack[j].block][stack[j].var] # None
    BY <1>2 DEF ConstructionUndisturbed
  <2>1. k \in At("args") /\ k \in Lookups
    BY DEF At, Lookups
  <2>2. stack[k].phi \in LiveIds /\ defs[insts[stack[k].phi].block][stack[k].var] # None
    BY <2>1 DEF IInv, StackSound, ArgsSound, ArgsFrameSound, BlockOf
  <2>3. ASSUME NEW j \in 1..Len(stack), stack[j].f = "use" PROVE stack[j].var = stack[k].var
    <3>1. j \in Lookups
      BY <2>3 DEF Lookups
    <3> QED BY <2>1, <3>1 DEF IInv, StackSound, ArgsSound
  <2> QED BY <1>1, <2>2, <2>3
<1>4. PhisComplete
  <2>1. \A b \in Block : sealed[b] => incomplete[b] = <<>>
    BY DEF IInv, PhisSound, PendingSound
  <2>2. ASSUME Built, NEW b \in Block, NEW phi \in ToSet(body[b]), insts[phi].kind = "phi"
        PROVE  /\ [k \in DOMAIN insts[phi].args |-> insts[phi].args[k].pred] = preds[b]
               /\ ~IsTrivial(phi)
    <3>1. Len(stack) = 0 /\ \A c \in Block : incomplete[c] = <<>>
      BY <2>1, <2>2 DEF Built, Idle
    <3>2. \A f : At(f) = {}
      BY <3>1 DEF At
    <3>3. UnderWay = {} /\ Pending = {}
      <4>1. \A c \in Block : PhisOf(incomplete[c]) = {}
        BY <3>1 DEF PhisOf
      <4> QED BY <3>2, <4>1 DEF UnderWay, Pending
    <3>4. phi \in LiveIds /\ BlockOf(phi) = b
      BY <2>2 DEF IInv, GraphSound, LaidOut
    <3>5. phi \in Complete
      BY <2>2, <3>3, <3>4 DEF Complete
    <3>6. /\ (\A k \in At("args") : BlockOf(stack[k].phi) # BlockOf(phi))
               => ArgPreds(phi) = preds[BlockOf(phi)]
          /\ IsTrivial(phi) => \E k \in At("check") : phi \in ToSet(stack[k].todo)
      BY <3>5 DEF IInv, PhisSound, CompleteSound
    <3> QED BY <3>2, <3>4, <3>6 DEF ArgPreds
  <2> QED BY <2>1, <2>2 DEF PhisComplete
<1> QED BY <1>3, <1>4 DEF ConstructionSound

\* The inductive invariant holds whatever the frontend builds, and in whatever order
\* it fills and seals the blocks (ssa.rs).
THEOREM Construction == MSpec => []IInv
<1>1. MInit => IInv
  BY InitSound DEF MInit
<1>2. IInv /\ [MNext]_mvars => IInv'
  <2> SUFFICES ASSUME IInv, [MNext]_mvars PROVE IInv'
    OBVIOUS
  <2>1. CASE Next
    BY <2>1, NextSound
  <2>2. CASE UNCHANGED vars
    BY <2>2, StutterSound
  <2> QED BY <2>1, <2>2 DEF MNext, Start, RunOp, TakeBranch, EnterBlock, mvars
<1> QED BY <1>1, <1>2, PTL DEF MSpec

\* At every moment, also in the middle of a removal, the users of a value are the
\* instructions of the layout that use it, and none uses a removed phi (dfg.rs,
\* attach_user and untrack_inst, as change_to_alias relies on them).
THEOREM Users == MSpec => []UsersExact
<1>1. IInv => UsersExact
  BY UsersFromInv
<1> QED BY <1>1, Construction, PTL

\* The calls in progress never disturb each other, and once all blocks are sealed each
\* phi has one argument for each edge into its block and none is trivial (ssa.rs:
\* use_var_recursive, seal_block, remove_trivial_phi).
THEOREM Phis == MSpec => []ConstructionSound
<1>1. IInv => ConstructionSound
  BY ConstructionFromInv
<1> QED BY <1>1, Construction, PTL

=============================================================================
