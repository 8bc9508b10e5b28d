---- MODULE Liveness ----
(* Which values are live where (crates/codegen/src/liveness.rs): from every  *)
(* use against the edges up to the definition, by blocks (Liveness), then    *)
(* through each block backwards, by instructions (InstLiveness).  One        *)
(* Liveness may be computed for one function after another.  The recursion   *)
(* of up_and_mark is a stack of calls, one step each.                        *)
EXTENDS Naturals, Sequences, FiniteSets, SequencesExt, Paths

CONSTANTS Block,      \* BlockId
          Value,      \* ValueId
          NoValue,    \* no result
          Functions,  \* the functions computed for
          Reusing,    \* those of them computed for on the same Liveness,
          MaxRuns     \* this often

\* A function is [entry, succs, code, layout, args, imms]: the instructions of
\* each block, the blocks in layout order, its arguments and its immediates.
\* An instruction is [kind, res, uses]: a "phi", an "op" or a "call"; its
\* result; its operands in order, [val, pred] with the predecessor of a phi's.
Insn == [kind : {"phi", "op", "call"}, res : Value \cup {NoValue},
         uses : Seq([val : Value, pred : Nat])]

\* A value has one definition, if any, and in a block the definition comes before
\* the uses (ValueData; the verifier).  A use without a definition is possible.
\* Branches go to blocks of the layout, which is a list of distinct blocks.
IsFunction(f) ==
    /\ f.entry \in Block /\ f.succs \in [Block -> SUBSET Block]
    /\ f.code \in [Block -> Seq(Insn)] /\ f.layout \in Seq(Block)
    /\ \A m, n \in DOMAIN f.layout : f.layout[m] = f.layout[n] => m = n
    /\ f.args \subseteq Value /\ f.imms \subseteq Value /\ f.args \cap f.imms = {}
    /\ {f.entry} \cup UNION {f.succs[b] : b \in Block} \subseteq ToSet(f.layout)
    /\ \A b \in Block : \A i \in DOMAIN f.code[b] :
          LET inst == f.code[b][i]
          IN /\ inst.res \notin f.args \cup f.imms
             /\ inst.kind = "phi" => \A k \in DOMAIN inst.uses : inst.uses[k].pred \in Block
             /\ \A c \in Block : \A j \in DOMAIN f.code[c] :
                   (inst.res = f.code[c][j].res /\ inst.res # NoValue) => b = c /\ i = j
             /\ \A j \in DOMAIN f.code[b] :
                   (/\ f.code[b][j].kind # "phi"
                    /\ \E k \in DOMAIN f.code[b][j].uses : f.code[b][j].uses[k].val = inst.res)
                   => i < j

ASSUME BlockAssumption == IsFiniteSet(Block) /\ Block \subseteq Nat
ASSUME FunctionsAssumption == NoValue \notin Value /\ \A f \in Functions : IsFunction(f)
ASSUME ReusingAssumption == Reusing \subseteq Functions

VARIABLES fn, runs,
          pass,              \* "defs", "uses", "insts", "done" or "panic"
          defs,              \* Liveness::defs
          live_ins, live_outs,
          val_live_blocks, val_use_blocks, val_use_count,
          uses,              \* the uses for_each_use has still to call back for
          calls,             \* up_and_mark: [block, val, todo], innermost last
          inst_live          \* InstLiveness::live_out, by block and position

sets == <<live_ins, live_outs, val_live_blocks>>
useVars == <<val_use_blocks, val_use_count>>
vars == <<fn, runs, pass, defs, sets, useVars, uses, calls, inst_live>>

NoDef == [kind |-> "none"]
FnArg == [kind |-> "arg"]
Def(kind, b) == [kind |-> kind, block |-> b]

Inst(b, i) == fn.code[b][i]
Insts(b) == DOMAIN fn.code[b]
IsPhi(inst) == inst.kind = "phi"
IsImm(v) == v \in fn.imms
Operands(inst) == {inst.uses[k].val : k \in DOMAIN inst.uses}
Preds(b) == {p \in Block : b \in fn.succs[p]}

Reach(from, avoid) == ReachSteps(fn.succs, from, avoid)
Reachable == Reach({fn.entry}, {})

Empty(S) == [x \in S |-> {}]

---------------------------------------------------------------------------
Init == /\ fn \in Functions /\ runs = 1
        /\ pass = "defs"
        /\ defs = [v \in Value |-> NoDef]
        /\ live_ins = Empty(Block) /\ live_outs = Empty(Block)
        /\ val_live_blocks = Empty(Value) /\ val_use_blocks = Empty(Value)
        /\ val_use_count = [v \in Value |-> 0]
        /\ uses = <<>> /\ calls = <<>>
        /\ inst_live = [b \in Block |-> <<>>]

DefinedBy(b, v) == \E i \in Insts(b) : Inst(b, i).res = v

\* A phi uses its operands in the predecessors they come from; an immediate is
\* counted where the phi is.
UsedIn(b, inst, use) == IF IsPhi(inst) /\ ~IsImm(use.val) THEN use.pred ELSE b

\* The uses for_each_use finds in the blocks of a sequence, in order.
UsesIn(order) ==
    FlattenSeq([n \in DOMAIN order |->
        FlattenSeq([i \in Insts(order[n]) |->
            LET b == order[n]
                inst == Inst(b, i)
            IN [k \in DOMAIN inst.uses |->
                  [val |-> inst.uses[k].val, block |-> UsedIn(b, inst, inst.uses[k])]]])])

DefOfNoInst(v) == IF v \in fn.args THEN FnArg ELSE NoDef

\* The definitions of the arguments and of the reachable blocks.
Definitions ==
    [v \in Value |->
       IF \E b \in Reachable : DefinedBy(b, v)
       THEN LET b == CHOOSE b \in Reachable : DefinedBy(b, v)
                i == CHOOSE i \in Insts(b) : Inst(b, i).res = v
            IN Def(IF IsPhi(Inst(b, i)) THEN "phi" ELSE "normal", b)
       ELSE DefOfNoInst(v)]

\* Then the uses of those blocks, whose order (the post-order) is left open.
RecordDefs ==
    /\ pass = "defs"
    /\ defs' = Definitions
    /\ \E order \in SetToSeqs(Reachable) : uses' = UsesIn(order)
    /\ pass' = "uses"
    /\ UNCHANGED <<fn, runs, sets, useVars, calls, inst_live>>

\* One call of up_and_mark up to its loop over the predecessors, below which
\* the calls `outer` are waiting.  An unwrap of a missing definition panics.
UpAndMark(b, v, outer) ==
    IF defs[v] = NoDef
    THEN pass' = "panic" /\ calls' = outer /\ UNCHANGED <<live_ins, val_live_blocks>>
    ELSE /\ UNCHANGED pass
         /\ val_live_blocks' = [val_live_blocks EXCEPT ![v] = @ \cup {b}]
         /\ IF defs[v] = Def("normal", b) \/ v \in live_ins[b]
            THEN calls' = outer /\ UNCHANGED live_ins
            ELSE /\ live_ins' = [live_ins EXCEPT ![b] = @ \cup {v}]
                 /\ calls' = IF defs[v] = Def("phi", b) THEN outer
                             ELSE Append(outer, [block |-> b, val |-> v, todo |-> Preds(b)])

\* mark_use, and the walk up unless the value is an immediate.
VisitUse ==
    /\ pass = "uses" /\ calls = <<>> /\ uses # <<>>
    /\ LET v == Head(uses).val
           b == Head(uses).block
       IN /\ val_use_blocks' = [val_use_blocks EXCEPT ![v] = @ \cup {b}]
          /\ val_use_count' = [val_use_count EXCEPT ![v] = @ + 1]
          /\ IF IsImm(v) THEN UNCHANGED <<pass, calls, live_ins, val_live_blocks>>
                         ELSE UpAndMark(b, v, <<>>)
    /\ uses' = Tail(uses)
    /\ UNCHANGED <<fn, runs, defs, live_outs, inst_live>>

\* Mutant: only the first predecessor.
RestNone(todo, p) == {}
Rest(todo, p) == todo \ {p}

\* The innermost call goes on to its next predecessor.
NextPred ==
    /\ pass = "uses" /\ calls # <<>> /\ Last(calls).todo # {}
    /\ LET top == Last(calls)
           p == CHOOSE p \in top.todo : \A q \in top.todo : p <= q
       IN /\ live_outs' = [live_outs EXCEPT ![p] = @ \cup {top.val}]
          /\ UpAndMark(p, top.val, Append(Front(calls), [top EXCEPT !.todo = Rest(@, p)]))
    /\ UNCHANGED <<fn, runs, defs, useVars, uses, inst_live>>

Return == /\ pass = "uses" /\ calls # <<>> /\ Last(calls).todo = {}
          /\ calls' = Front(calls)
          /\ UNCHANGED <<fn, runs, pass, defs, sets, useVars, uses, inst_live>>

UsesDone == /\ pass = "uses" /\ calls = <<>> /\ uses = <<>>
            /\ pass' = "insts"
            /\ UNCHANGED <<fn, runs, defs, sets, useVars, uses, calls, inst_live>>

ResultRemoved(inst, live) == live \ {inst.res}
LiveOperands(inst) == IF IsPhi(inst) THEN {} ELSE {v \in Operands(inst) : ~IsImm(v)}

\* What is live before an instruction, given what is live after it.
LiveBefore(inst, live) == ResultRemoved(inst, live) \cup LiveOperands(inst)

\* InstLiveness::compute: each block from what is live out of it backwards.
LiveAfter(b) ==
    LET after[i \in Insts(b)] ==
            IF i = Len(fn.code[b]) THEN live_outs[b]
            ELSE LiveBefore(Inst(b, i + 1), after[i + 1])
    IN after

ComputeInsts ==
    /\ pass = "insts"
    /\ inst_live' = [b \in Block |-> IF b \in Reachable THEN LiveAfter(b) ELSE <<>>]
    /\ pass' = "done"
    /\ UNCHANGED <<fn, runs, defs, sets, useVars, uses, calls>>

Cleared == /\ live_ins' = Empty(Block) /\ live_outs' = Empty(Block)
           /\ val_live_blocks' = Empty(Value)

\* compute is called again, for any function: clear comes first.
Recompute ==
    /\ pass = "done" /\ runs < MaxRuns
    /\ fn \in Reusing /\ fn' \in Reusing /\ runs' = runs + 1
    /\ pass' = "defs"
    /\ defs' = [v \in Value |-> NoDef]
    /\ Cleared
    /\ inst_live' = [b \in Block |-> <<>>]
    /\ UNCHANGED <<useVars, uses, calls>>

Next == RecordDefs \/ VisitUse \/ NextPred \/ Return \/ UsesDone \/ ComputeInsts \/ Recompute

Spec == Init /\ [][Next]_vars

\* Mutant: the call's own result is kept.
AfterCallKeeping(before, live, res) == before \cup live
AfterCall(before, live, res) == (before \cup live) \ {res}

\* InstLiveness::call_live_values: over the layout, what is live after each call
\* is added and what the call defines is taken out.
CallLiveValues ==
    LET order == FlattenSeq([n \in DOMAIN fn.layout |->
                    [i \in Insts(fn.layout[n]) |-> <<fn.layout[n], i>>]])
        all[n \in 0 .. Len(order)] ==
            IF n = 0 THEN {}
            ELSE LET b == order[n][1]
                     i == order[n][2]
                     before == all[n - 1]
                 IN IF Inst(b, i).kind = "call"
                    THEN AfterCall(before, IF b \in Reachable THEN inst_live[b][i] ELSE {},
                                   Inst(b, i).res)
                    ELSE before
    IN all[Len(order)]

---------------------------------------------------------------------------
(* Reference definitions, by paths.                                         *)

DefinedAs(b, v, phi) == \E i \in Insts(b) : Inst(b, i).res = v /\ IsPhi(Inst(b, i)) = phi

\* v is an operand, from b, of a phi in a block b leads to.
FeedsPhi(b, v) ==
    \E s \in Reachable : \E i \in Insts(s) :
        /\ IsPhi(Inst(s, i))
        /\ \E k \in DOMAIN Inst(s, i).uses : Inst(s, i).uses[k] = [val |-> v, pred |-> b]
UsedAfter(b, i, v) == \E j \in Insts(b) : j > i /\ ~IsPhi(Inst(b, j)) /\ v \in Operands(Inst(b, j))
DefinedAfter(b, i, v) == \E j \in Insts(b) : j > i /\ Inst(b, j).res = v

\* The blocks from whose start a path leads to a use of v without passing
\* through the definition.
UsedBlocks(v) == {b \in Block : (b \in Reachable /\ UsedAfter(b, 0, v)) \/ FeedsPhi(b, v)}
LiveInBlocks(v) ==
    ReachSteps([s \in Block |-> IF DefinedAs(s, v, TRUE) THEN {} ELSE Preds(s)],
               UsedBlocks(v), {b \in Block : DefinedAs(b, v, FALSE)})
LiveOutBlocks(v) ==
    {b \in Block : \E s \in fn.succs[b] \cap LiveInBlocks(v) : ~DefinedAs(s, v, TRUE)}

\* v is live after instruction i of block b.  What only a phi of the next block
\* takes is not: it is live out of no block (see LiveOutBlocks).
LiveAt(b, i, v) == /\ ~DefinedAfter(b, i, v)
                   /\ UsedAfter(b, i, v) \/ b \in LiveOutBlocks(v)

Vars == Value \ fn.imms
Calls == UNION {{b} \X {i \in Insts(b) : Inst(b, i).kind = "call"} : b \in Reachable}
CallResult(c) == Inst(c[1], c[2]).res
LiveAcrossCalls ==
    {v \in Vars : \E c \in Calls : LiveAt(c[1], c[2], v) /\ CallResult(c) # v}

\* The layout, of any order, has instruction c before d.
ComesBefore(c, d) ==
    \/ c[1] = d[1] /\ c[2] < d[2]
    \/ \E m, n \in DOMAIN fn.layout : m < n /\ fn.layout[m] = c[1] /\ fn.layout[n] = d[1]
LayoutCalls == UNION {{b} \X {i \in Insts(b) : Inst(b, i).kind = "call"} : b \in ToSet(fn.layout)}

\* Results of calls that come, in the layout, after every call they survive: they
\* are taken out of what those calls added.
LostResults ==
    {v \in LiveAcrossCalls :
       \E d \in LayoutCalls :
          /\ CallResult(d) = v
          /\ \A c \in Calls : (LiveAt(c[1], c[2], v) /\ CallResult(c) # v) => ComesBefore(c, d)}

\* The layout has no block before one that dominates it.
LayoutFollowsDefs ==
    \A m, n \in DOMAIN fn.layout :
        (m < n /\ fn.layout[m] \in Reachable) =>
            fn.layout[m] \in Reach({fn.entry}, {fn.layout[n]})

\* No path from the entry leads to a use around the instruction that defines
\* the value (the verifier's ValueLeak).
DefsDominateUses ==
    \A v \in Vars, d \in Block :
        DefinedAs(d, v, FALSE) => UsedBlocks(v) \cap Reach({fn.entry}, {d}) = {}

\* A walk that stops at a block "already marked, so propagation to preds
\* already done" (liveness.rs:102) loses nothing: where it is not done yet, a
\* waiting call still has the predecessor to do.  When the walks are over, a
\* value is live into and out of exactly the blocks from which a path leads to
\* a use and not through the definition, a phi's operand used at the end of its
\* predecessor; nothing is left of the function computed for before.
BlocksLiveExact ==
    /\ pass = "uses" =>
          \A b \in Block : \A v \in live_ins[b] : defs[v] # Def("phi", b) =>
              \A p \in Preds(b) :
                  \/ v \in live_outs[p]
                  \/ \E k \in DOMAIN calls : calls[k].block = b /\ calls[k].val = v /\ p \in calls[k].todo
    /\ pass = "insts" =>
          \A v \in Vars :
              /\ {b \in Block : v \in live_ins[b]} = LiveInBlocks(v)
              /\ {b \in Block : v \in live_outs[b]} = LiveOutBlocks(v)

\* In the first function a Liveness is computed for, every use is counted once,
\* in the block it is counted for, whether or not the walk up from it was cut
\* short; clear leaves the counts as they are.
UseCountsExact ==
    (runs = 1 /\ pass = "insts") =>
        \A v \in Value :
            LET found(b, i) == {k \in DOMAIN Inst(b, i).uses : Inst(b, i).uses[k].val = v}
                all == UNION {UNION {{<<b, i>>} \X found(b, i) : i \in Insts(b)} : b \in Reachable}
            IN /\ val_use_count[v] = Cardinality(all)
               /\ v \in Vars => val_use_blocks[v] = UsedBlocks(v)

\* After each instruction the live values are exactly those still used later in
\* the block or live out of it.
InstsLiveExact ==
    pass = "done" =>
        \A b \in Reachable : \A i \in Insts(b) :
            inst_live[b][i] = {v \in Vars : LiveAt(b, i, v)}

\* Liveness and InstLiveness say what the paths to the uses say (liveness.rs).
LiveExact == BlocksLiveExact /\ InstsLiveExact

\* In any layout the values found are those that must survive some call but for
\* the LostResults: no other value is missing, and none is found that survives no
\* call.  Nothing is lost when the layout has the definitions first and they
\* dominate the uses, which the code does not see to.  And the uses are counted
\* (call_live_values, val_use_count, val_use_blocks).
CallsLiveExact ==
    /\ pass = "done" =>
          /\ CallLiveValues = LiveAcrossCalls \ LostResults
          /\ (LayoutFollowsDefs /\ DefsDominateUses) => LostResults = {}
    /\ UseCountsExact

====
