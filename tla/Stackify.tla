---- MODULE Stackify ----
(* Stackify (crates/codegen/src/stackalloc/stackify): iterations that plan   *)
(* every block with the values known to need memory, until no plan asks for  *)
(* another one (builder.rs), and in each iteration the blocks in reverse     *)
(* post-order, one instruction a step (iteration.rs).  The order in which a  *)
(* block finds the values it does not define is chosen first                 *)
(* (flow_templates.rs): blocks are planned without keeping the actions,      *)
(* component by component, and what their stacks look like at the end are    *)
(* the candidates for the blocks they lead to.                               *)
EXTENDS StackPlanner

MAX_ITER == 32

---------------------------------------------------------------------------
(* A block while it is planned: s.plan, s.left, how often each value is still *)
(* used in it, s.future, those used at all, and s.order, the operands as the  *)
(* last instruction takes them.                                              *)
UsesIn(b, v) ==
    Cardinality({<<i, k>> \in (DOMAIN Code(b)) \X (1 .. 6) :
        Code(b)[i].kind # "phi" /\ k \in DOMAIN Code(b)[i].args /\ Code(b)[i].args[k] = v})
BlockState(b, plan) ==
    LET left == [v \in ctx.vals |-> UsesIn(b, v)]
    IN [plan |-> plan, left |-> left, future |-> {v \in ctx.vals : left[v] > 0}, order |-> <<>>]
LiveIn(s, b) == s.future \cup ctx.live_out[b]

\* last_use_values_in_inst
\* Mutant: what the block passes on is forgotten.
LastUsesLocal(s, b, args) ==
    {v \in Elements(args) \cap ctx.vals : s.left[v] = Occurrences(args, v)}
LastUses(s, b, args) == LastUsesLocal(s, b, args) \ ctx.live_out[b]

\* operand_order_for_evm: a call takes its first operand last.
CallOrder(args) == IF args = <<>> THEN args ELSE Append(Tail(args), args[1])
OperandOrder(inst) == IF inst.kind = "call" THEN CallOrder(inst.args) ELSE inst.args

Clean(s, b) == [s EXCEPT !.plan = CleanDeadPrefix(@, LiveIn(s, b))]
CleanFor(s, b, args) ==
    [s EXCEPT !.plan = ImproveReachability(CleanDeadPrefix(@, LiveIn(s, b)), args, LiveIn(s, b))]

\* The uses of an instruction are counted down; a value gone releases its slot.
RECURSIVE ReleaseAll(_, _)
ReleaseAll(p, gone) ==
    IF gone = {} THEN p
    ELSE LET v == Min(gone) IN ReleaseAll(ReleaseIfAssigned(p, v), gone \ {v})
CountDown(s, b, args) ==
    LET left == [v \in ctx.vals |-> Max({0, s.left[v] - Occurrences(args, v)})]
        used == {v \in s.future : left[v] = 0}
    IN [s EXCEPT !.left = left, !.future = @ \ used,
                 !.plan = ReleaseAll(@, used \ ctx.live_out[b])]

\* The part of plan_inst for an instruction that neither branches nor returns.
Called(p, args) == PositionCallRet(PushCallContinuation(p), Len(args))
Ready(s, prepared, inst) ==
    [s EXCEPT !.plan = IF inst.kind = "call" THEN Called(prepared.plan, inst.args) ELSE prepared.plan,
              !.order = prepared.args]
WithOperands(s, b, args, inst) ==
    Ready(s, PrepareOperandsForInst(s.plan, args, LastUses(s, b, args), inst.kind = "comm"), inst)
BeforeNormal(s, b, inst) ==
    WithOperands(CleanFor(s, b, OperandOrder(inst)), b, OperandOrder(inst), inst)
AfterNormal(s, b, inst) ==
    LET counted == CountDown([s EXCEPT !.plan.acts = <<>>], b, inst.args)
        popped == PopOperands(counted.plan, Len(inst.args))
        returned == IF inst.kind = "call" THEN RemoveCallRet(popped) ELSE popped
        pushed == PushValue(returned, inst.res)
    IN [counted EXCEPT !.plan =
          IF inst.res = NoValue THEN returned
          ELSE IF inst.res \in LiveIn(counted, b) THEN StoreIfSpilled(pushed, inst.res, 0)
          ELSE pushed]

\* br: the condition is brought to the top and consumed.
BeforeBr(s, b, cond) ==
    LET c == Clean(s, b)
        near == ImproveReachability(c.plan, <<cond>>, LiveIn(s, b))
    IN [c EXCEPT !.plan = PrepareOperands(near, <<cond>>, LastUses(s, b, <<cond>>)),
                 !.order = <<cond>>]
AfterBr(s) == PopOperands(s.plan, 1)
\* br_table: every case compares a copy of the scrutinee.
BeforeTable(s, b, scrutinee) == CleanFor(s, b, <<scrutinee>>)

---------------------------------------------------------------------------
(* Templates.                                                                *)
Blocks == Elements(ctx.f.rpo)
Params(b) == (IF b = Entry THEN ctx.f.args ELSE <<>>) \o ctx.phi_results[b]
\* live_in_non_params
CarryIn(b) == ctx.live_ins[b] \ (Elements(Params(b)) \cup spill_set)
\* canonical_transfer_order: the latest definition first.
CanonicalOrder(carry) ==
    LET place(v) == Cardinality({u \in carry : KeyAbove(ctx.key[u], ctx.key[v])}) + 1
    IN [n \in 1 .. Cardinality(carry) |-> CHOOSE v \in carry : place(v) = n]
Template(b, transfer) == [params |-> Params(b), transfer |-> transfer[b]]
StackOf(template) == WithBarrier(template.params \o template.transfer)

\* project_transfer: the first copy of each value the successor carries in.
ProjectTransfer(stack, carry) ==
    LET firsts == {k \in DOMAIN Above(stack) :
                      stack[k] \in carry /\ \A j \in 1 .. k - 1 : stack[j] # stack[k]}
        nth(n) == CHOOSE k \in firsts : Cardinality({j \in firsts : j <= k}) = n
    IN [n \in 1 .. Cardinality(firsts) |-> stack[nth(n)]]

\* simulate_block_and_record_edges: the plan at the end of b.
RECURSIVE SimulateFrom(_, _, _)
SimulateFrom(s, b, i) ==
    LET inst == Code(b)[i]
    IN IF inst.kind = "phi" THEN SimulateFrom(s, b, i + 1)
       ELSE IF inst.kind = "jump" THEN Clean(s, b).plan
       ELSE IF inst.kind = "br" THEN AfterBr(BeforeBr(s, b, inst.args[1]))
       ELSE IF inst.kind = "br_table" THEN BeforeTable(s, b, inst.args[1]).plan
       ELSE IF inst.kind = "ret" THEN PlanInternalReturn(Clean(s, b).plan, inst.args)
       ELSE IF inst.kind = "exit" THEN BeforeNormal(s, b, inst).plan
       ELSE SimulateFrom(AfterNormal(BeforeNormal(s, b, inst), b, inst), b, i + 1)

\* What is being solved: st.transfer, the order of each block, st.pinned, the
\* headers that keep theirs, st.cand, the candidate of each edge, and st.req,
\* the spills asked for, which nobody reads but the choice between two orders
\* of operands.
Edges == {<<p, s>> \in Blocks \X Blocks : s \in ctx.succs[p]}
Record(st, b, end) ==
    [st EXCEPT !.req = end.req,
               !.cand = [e \in Edges |-> IF e[1] = b THEN ProjectTransfer(end.stack, CarryIn(e[2]))
                                         ELSE @[e]]]
RecordEdges(st, b) ==
    LET start == [PlanOf(StackOf(Template(b, st.transfer)), EmptyPool) EXCEPT !.req = st.req]
    IN Record(st, b, SimulateFrom(BlockState(b, start), b, 1))

LexBelow(s, t) ==
    \/ \E k \in (DOMAIN s) \cap DOMAIN t : s[k] < t[k] /\ \A j \in 1 .. k - 1 : s[j] = t[j]
    \/ Len(s) < Len(t) /\ s = SubSeq(t, 1, Len(s))
\* choose_transfer: what all agree on, a back edge's, or the least.
ChooseTransfer(cand, b, from) ==
    LET back == {p \in from : b \in ctx.dominators[p]}
        least == {p \in from : \A q \in from : ~LexBelow(cand[<<q, b>>], cand[<<p, b>>])}
    IN IF Cardinality({cand[<<p, b>>] : p \in from}) = 1 THEN cand[<<Min(from), b>>]
       ELSE IF back # {} THEN cand[<<Min(back), b>>]
       ELSE cand[<<Min(least), b>>]

EntryBlocks(scc) == {b \in scc : b = Entry \/ ctx.preds[b] \ scc # {}}
\* choose_transfer_from_preds; scc is {} for a component without a cycle.
ChooseFromPreds(cand, b, scc) ==
    LET external == ctx.preds[b] \ scc
    IN IF b = Entry THEN CanonicalOrder(CarryIn(b))
       ELSE IF Cardinality(EntryBlocks(scc)) > 1 /\ b \in EntryBlocks(scc) /\ external # {}
            THEN ChooseTransfer(cand, b, external)
       ELSE ChooseTransfer(cand, b, ctx.preds[b])

\* seed_cyclic_scc
Seed(st, scc) ==
    [st EXCEPT !.transfer = [b \in Blocks |->
        IF b \notin scc THEN @[b]
        ELSE IF b # Entry /\ b \in EntryBlocks(scc)
        THEN ChooseTransfer(st.cand, b, ctx.preds[b] \ scc)
        ELSE CanonicalOrder(CarryIn(b))]]

\* Rounds over a component: all its blocks are planned, the header of a loop
\* is pinned to its back edge when its predecessors disagree, then every other
\* block chooses again.
RECURSIVE RecordAll(_, _, _)
RecordAll(st, scc, n) ==
    IF n > Len(ctx.f.rpo) THEN st
    ELSE RecordAll(IF ctx.f.rpo[n] \in scc THEN RecordEdges(st, ctx.f.rpo[n]) ELSE st, scc, n + 1)
PinHeader(st, scc) ==
    LET h == Min(EntryBlocks(scc))
        back == {p \in ctx.preds[h] \cap scc : h \in ctx.dominators[p]}
        conflict == Cardinality({st.cand[<<p, h>>] : p \in ctx.preds[h]}) > 1
    IN IF /\ Cardinality(EntryBlocks(scc)) = 1 /\ h # Entry /\ h \notin st.pinned
          /\ back # {} /\ conflict
       THEN [st EXCEPT !.transfer[h] = st.cand[<<Min(back), h>>], !.pinned = @ \cup {h}]
       ELSE st
ChooseAgain(st, scc) ==
    [st EXCEPT !.transfer = [b \in Blocks |-> IF b \in scc \ st.pinned
                                              THEN ChooseFromPreds(st.cand, b, scc)
                                              ELSE @[b]]]
Round(st, scc) == ChooseAgain(PinHeader(RecordAll(st, scc, 1), scc), scc)
RECURSIVE RoundsFrom(_, _, _, _)
RoundsFrom(before, st, scc, iter) ==
    IF st.transfer = before \/ iter = MAX_ITER THEN st
    ELSE RoundsFrom(st.transfer, Round(st, scc), scc, iter + 1)
SolveCycle(st, scc) == RoundsFrom(st.transfer, Round(st, scc), scc, 1)

SolveScc(st, b) ==
    LET scc == ctx.scc[b]
        chosen == [st EXCEPT !.transfer[b] = ChooseFromPreds(st.cand, b, {})]
    IN IF scc = {b} /\ b \notin ctx.succs[b]
       THEN RecordEdges(chosen, b)
       ELSE SolveCycle(Seed(st, scc), scc)

\* solve_templates_from_flow: components in topological order, which is that of
\* their first blocks in the reverse post-order.
RECURSIVE SolveFrom(_, _, _)
SolveFrom(st, n, done) ==
    LET b == ctx.f.rpo[n]
    IN IF n > Len(ctx.f.rpo) THEN st
       ELSE IF b \in done THEN SolveFrom(st, n + 1, done)
       ELSE SolveFrom(SolveScc(st, b), n + 1, done \cup ctx.scc[b])
SolveTemplates ==
    LET start == [transfer |-> [b \in Blocks |-> CanonicalOrder(CarryIn(b))],
                  cand |-> [e \in Edges |-> <<>>], pinned |-> {}, req |-> {}]
        solved == SolveFrom(start, 1, {})
    IN [b \in Blocks |-> Template(b, solved.transfer)]

-----------------------------------------------------------------------------

CONSTANTS Cases   \* [f, reach, slots]: what is planned, for which reach and scratch slots

VARIABLES phase,           \* what the builder is doing
          pool,            \* the scratch slots, kept from one iteration to the next
          spill_requests,  \* the spills this iteration asked for
          templates,       \* the stack each block expects
          inherited,       \* the stack a block after br or br_table inherits
          planned,         \* how many blocks of the order are done
          at,              \* the next instruction of the block; 0 between blocks
          state,           \* BlockPlanState
          prologue,        \* what makes the inherited stack the expected one
          pre_actions, post_actions,  \* the plan: actions around each instruction
          case_actions     \* and for each case of a br_table

iterVars == <<pool, spill_requests, templates, inherited, planned>>
actionVars == <<pre_actions, post_actions, case_actions>>
blockVars == <<at, state, prologue>>
planVars == <<ctx, spill_set, phase, iterVars, actionVars, blockVars>>

NoStack == [none |-> TRUE]
Stack(s) == [none |-> FALSE, items |-> s]
NoState == <<>>
NoActions == [b \in Blocks |-> [i \in DOMAIN Code(b) |-> <<>>]]

PlanInit ==
    /\ \E c \in Cases : ctx = Context(c.f, c.reach, c.slots)
    /\ spill_set = {} /\ phase = "start"
    /\ pool = EmptyPool /\ spill_requests = {} /\ templates = <<>> /\ inherited = <<>> /\ planned = 0
    /\ pre_actions = NoActions /\ post_actions = NoActions /\ case_actions = NoActions
    /\ at = 0 /\ state = NoState /\ prologue = <<>>

\* The slots of spilled arguments come first.
RECURSIVE ArgSlots(_, _)
ArgSlots(p, k) ==
    IF k > Len(ctx.f.args) THEN p
    ELSE LET v == ctx.f.args[k]
         IN ArgSlots(IF v \in spill_set /\ UsesScratch(v) THEN TryEnsureSlot(p, v) ELSE p, k + 1)

\* plan_iteration, up to the blocks.
StartIteration ==
    /\ phase = "start"
    /\ pool' = PoolOf(ArgSlots(PlanOf(<<>>, pool), 1))
    /\ templates' = SolveTemplates
    /\ inherited' = [b \in Blocks |-> IF b = Entry THEN Stack(WithBarrier(ctx.f.args)) ELSE NoStack]
    /\ spill_requests' = {} /\ planned' = 0
    /\ pre_actions' = NoActions /\ post_actions' = NoActions /\ case_actions' = NoActions
    /\ phase' = "blocks"
    /\ UNCHANGED <<ctx, spill_set, blockVars>>

Current == ctx.f.rpo[planned + 1]
Inst == Code(Current)[at]
PanicOr(p, next) == IF p.panic THEN "panic" ELSE next

\* plan_block: the stack is the template's, or an inherited one made so.
EnterBlock ==
    /\ phase = "blocks" /\ at = 0 /\ planned < Len(ctx.f.rpo)
    /\ LET b == Current
           from == inherited[b]
           pred == CHOOSE p \in ctx.preds[b] : TRUE
           fresh(stack) == [PlanOf(stack, pool) EXCEPT !.req = spill_requests]
       IN \E entered \in {IF from.none THEN fresh(StackOf(templates[b]))
                         ELSE IF b = Entry THEN fresh(from.items)
                         ELSE PlanEdgeFixup(fresh(from.items), templates[b], pred, b)} :
            /\ state' = BlockState(b, [entered EXCEPT !.acts = <<>>])
            /\ prologue' = entered.acts
            /\ at' = Cardinality(PhisIn(ctx.f, b)) + 1
            /\ phase' = PanicOr(entered, phase)
    /\ UNCHANGED <<ctx, spill_set, iterVars, actionVars>>

\* The prologue goes before the first instruction that is lowered.
Prologue == IF at = Cardinality(PhisIn(ctx.f, Current)) + 1 THEN prologue ELSE <<>>
SetPre(acts) == pre_actions' = [pre_actions EXCEPT ![Current][at] = Prologue \o acts]
NextInst(s) == /\ state' = [s EXCEPT !.plan.acts = <<>>]
               /\ at' = at + 1
               /\ phase' = PanicOr(s.plan, phase)
               /\ UNCHANGED <<ctx, spill_set, iterVars, case_actions, prologue>>

PlanNormal ==
    /\ phase = "blocks" /\ at # 0 /\ Inst.kind \in {"op", "comm", "call"}
    /\ \E before \in {BeforeNormal(state, Current, Inst)} :
         /\ SetPre(before.plan.acts)
         /\ \E after \in {AfterNormal(before, Current, Inst)} :
              /\ post_actions' = [post_actions EXCEPT ![Current][at] = after.plan.acts]
              /\ NextInst(after)

\* The end of a block: p is the plan, and the blocks of `heirs` inherit `stack`.
EndBlock(p, heirs, stack) ==
    /\ inherited' = [b \in Blocks |-> IF b \in heirs /\ inherited[b].none THEN Stack(stack)
                                      ELSE inherited[b]]
    /\ spill_requests' = p.req
    /\ pool' = PoolOf(p)
    /\ planned' = planned + 1
    /\ at' = 0 /\ state' = NoState /\ prologue' = <<>>
    /\ phase' = PanicOr(p, phase)
    /\ UNCHANGED <<ctx, spill_set, templates>>

Terminates(kind) == phase = "blocks" /\ at # 0 /\ Inst.kind = kind
LastActions(p) == SetPre(p.acts) /\ EndBlock(p, {}, <<>>) /\ UNCHANGED <<post_actions, case_actions>>

PlanJump ==
    /\ Terminates("jump")
    /\ LET dest == Inst.dests[1]
       IN LastActions(PlanEdgeFixup(Clean(state, Current).plan, templates[dest], Current, dest))

PlanBr ==
    /\ Terminates("br")
    /\ LET s == BeforeBr(state, Current, Inst.args[1])
       IN SetPre(s.plan.acts) /\ EndBlock(AfterBr(s), Elements(Inst.dests), AfterBr(s).stack)
    /\ UNCHANGED <<post_actions, case_actions>>

\* br_table: what was planned so far goes before the first case.
RECURSIVE PlanCases(_, _, _)
PlanCases(p, args, k) ==
    IF k > Len(args) THEN [plan |-> p, cases |-> <<>>]
    ELSE LET case == PrepareOperands([p EXCEPT !.acts = <<>>], <<args[1], args[k]>>, {})
             rest == PlanCases([case EXCEPT !.stack = p.stack], args, k + 1)
         IN [plan |-> rest.plan, cases |-> <<case.acts>> \o rest.cases]
PlanBrTable ==
    /\ Terminates("br_table")
    /\ LET p == BeforeTable(state, Current, Inst.args[1]).plan
           all == PlanCases(p, Inst.args, 2)
           first == Prologue \o p.acts \o all.cases[1]
       IN /\ case_actions' = [case_actions EXCEPT ![Current][at] = [all.cases EXCEPT ![1] = first]]
          /\ EndBlock([all.plan EXCEPT !.stack = p.stack], Elements(Inst.dests), p.stack)
    /\ UNCHANGED <<pre_actions, post_actions>>

PlanReturn ==
    /\ Terminates("ret")
    /\ LastActions(PlanInternalReturn(Clean(state, Current).plan, Inst.args))

\* unreachable: an instruction without operands, and the last of its block.
PlanExit ==
    /\ Terminates("exit")
    /\ LastActions(BeforeNormal(state, Current, Inst).plan)

\* A plan that asked for spills it does not have is thrown away.
PlanComplete == spill_requests \subseteq spill_set
EndIteration ==
    /\ phase = "blocks" /\ at = 0 /\ planned = Len(ctx.f.rpo)
    /\ phase' = IF PlanComplete THEN "done" ELSE "start"
    /\ spill_set' = spill_set \cup spill_requests
    /\ UNCHANGED <<ctx, iterVars, actionVars, blockVars>>

PlanNext == \/ StartIteration \/ EnterBlock \/ PlanNormal \/ PlanJump \/ PlanBr
            \/ PlanBrTable \/ PlanReturn \/ PlanExit \/ EndIteration

\* Allocator::enter_function: spilled arguments are stored first.
StoredArg(k) ==
    LET v == ctx.f.args[k]
    IN IF pool.slot_of[v] # NoSlot THEN <<<<"dup", k - 1>>, <<"store", pool.slot_of[v]>>>>
       ELSE IF v \in spill_set THEN <<<<"dup", k - 1>>, <<"store_obj", v>>>>
       ELSE <<>>
=============================================================================
