---- MODULE StackPlanner ----
(* What Stackify plans for one instruction or edge                           *)
(* (stackify/planner/*.rs, slots.rs, iteration.rs): slots and loads of       *)
(* spilled values, cleaning up, bringing operands to the top, and making the *)
(* stack exactly what a block expects.  A plan has, besides the fields of    *)
(* SymStack, p.req, the spills it asks for, p.free, the slots released in    *)
(* this block, and p.slot_of and p.slot_live, the pool of scratch slots.     *)
EXTENDS StackFunc

CONSTANTS MaxActions   \* actions the search for two operands tries; 12 in the code

VARIABLE spill_set     \* values kept in memory

NoSlot == 0
CONSUME_LAST_USE_MAX_SWAPS == 3
AGGRESSIVE_REACHABILITY_DEPTH == 20
MAX_DELETIONS == 8

EmptyPool == [slot_of |-> [v \in ctx.vals |-> NoSlot], slot_live |-> <<>>]
PlanOf(stack, pool) == [stack |-> stack, acts |-> <<>>, panic |-> FALSE, req |-> {}, free |-> {},
                        slot_of |-> pool.slot_of, slot_live |-> pool.slot_live]
PoolOf(p) == [slot_of |-> p.slot_of, slot_live |-> p.slot_live]

---------------------------------------------------------------------------
(* Slots (SlotPool, FreeSlots) and memory (MemPlan); slot n is n - 1 there.   *)
UsesScratch(v) == ctx.scratch_spill_slots # 0 /\ v \notin ctx.scratch_live

AssignSlot(p, v, slot) == [p EXCEPT !.slot_of[v] = slot,
                                    !.slot_live[slot] = @ \cup ctx.live_blocks[v]]
FreshSlot(p, v) ==
    LET n == Len(p.slot_live) + 1
    IN IF n <= ctx.scratch_spill_slots
       THEN AssignSlot([p EXCEPT !.slot_live = Append(@, {})], v, n)
       ELSE p
\* Mutant: any slot will do.
SlotsTaken(p, v) == DOMAIN p.slot_live
DisjointSlots(p, v) == {s \in DOMAIN p.slot_live : p.slot_live[s] \cap ctx.live_blocks[v] = {}}
TryEnsureSlot(p, v) ==
    IF p.slot_of[v] # NoSlot THEN p
    ELSE IF p.free # {} THEN AssignSlot([p EXCEPT !.free = @ \ {Min(@)}], v, Min(p.free))
    ELSE IF DisjointSlots(p, v) # {} THEN AssignSlot(p, v, Min(DisjointSlots(p, v)))
    ELSE FreshSlot(p, v)
ReleaseIfAssigned(p, v) ==
    IF p.slot_of[v] = NoSlot THEN p ELSE [p EXCEPT !.free = @ \cup {p.slot_of[v]}]

\* load_frame_slot_or_placeholder, push_value_from_spill_slot_or_mark: the
\* "hole" is the placeholder of a plan that will be thrown away.
LoadOrMark(p, v) ==
    LET act == IF v \notin spill_set THEN <<"hole", v>>
               ELSE IF UsesScratch(v) /\ p.slot_of[v] # NoSlot THEN <<"load", p.slot_of[v]>>
               ELSE <<"load_obj", v>>
    IN PushValue([Emit(p, act) EXCEPT !.req = @ \cup ({v} \ spill_set)], v)

\* emit_store_if_spilled_at_depth, with its debug assertion.
StoreIfSpilled(p, v, depth) ==
    LET q == IF UsesScratch(v) THEN TryEnsureSlot(p, v) ELSE p
        act == IF UsesScratch(v) /\ q.slot_of[v] # NoSlot THEN <<"store", q.slot_of[v]>>
               ELSE <<"store_obj", v>>
    IN IF v \notin spill_set THEN p
       ELSE IF depth >= ctx.dup_max THEN Panic(p)
       ELSE Emit(Emit(q, <<"dup", depth>>), act)

---------------------------------------------------------------------------
(* Cleaning up (iteration.rs); `live` are the values used later in the block  *)
(* or live out of it.                                                         *)
Dead(item, live) == item > 0 /\ item \notin live
DeadRun(s, from, live) ==
    Max({n \in 0 .. Len(s) - from : \A d \in from .. from + n - 1 : Dead(Item(s, d), live)})
PopDeadTops(p, live) == PopN(p, DeadRun(p.stack, 0, live))

\* The live top is swapped under what is dead beneath it, in chunks.
RECURSIVE SinkUnder(_, _)
SinkUnder(p, remaining) ==
    LET depth == Min({remaining, ctx.swap_max - 1})
    IN IF remaining = 0 \/ p.panic THEN p
       ELSE SinkUnder(PopN(Swap(p, depth), depth), remaining - depth)
RECURSIVE CleanDeadPrefix(_, _)
CleanDeadPrefix(p, live) ==
    LET q == PopDeadTops(p, live)
        run == IF q.stack = <<>> \/ q.stack[1] < 0 THEN 0 ELSE DeadRun(q.stack, 1, live)
    IN IF run = 0 \/ q.panic THEN q ELSE CleanDeadPrefix(SinkUnder(q, run), live)

\* choose_reachability_victim: a dead value, an immediate, or a value that is
\* also nearer the top.  Every immediate of the model pushes at most 2 bytes.
Victim(s, above, args, live) ==
    LET near == 0 .. Min({above, LenAboveFuncRet(s), ctx.swap_max}) - 1
        other == {d \in near : Item(s, d) > 0 /\ Item(s, d) \notin Elements(args) \ ctx.f.imms}
        dead == {d \in other : Item(s, d) \notin live}
        again == {d \in other : \E e \in 0 .. d - 1 : Item(s, e) = Item(s, d)}
    IN IF dead # {} THEN Min(dead)
       ELSE IF {d \in other : IsImm(Item(s, d))} # {} THEN Min({d \in other : IsImm(Item(s, d))})
       ELSE ShallowestOf(again)

\* improve_reachability_before_operands
OutOfReach(s, v) == /\ ~IsImm(v) /\ FindReachable(s, v, ctx.dup_max) = NoDepth
                    /\ FindReachable(s, v, AGGRESSIVE_REACHABILITY_DEPTH) # NoDepth
VictimFor(s, v, args, live) ==
    Victim(s, FindReachable(s, v, AGGRESSIVE_REACHABILITY_DEPTH), args, live)
RECURSIVE ImproveFrom(_, _, _, _)
ImproveFrom(p, args, live, deletions) ==
    LET helped == {k \in DOMAIN args : /\ OutOfReach(p.stack, args[k])
                                       /\ VictimFor(p.stack, args[k], args, live) # NoDepth}
        victim == VictimFor(p.stack, args[Min(helped)], args, live)
    IN IF deletions = MAX_DELETIONS \/ helped = {} \/ p.panic THEN p
       ELSE ImproveFrom(StableDeleteAtDepth(p, victim + 1), args, live, deletions + 1)
ImproveReachability(p, args, live) == ImproveFrom(p, args, live, 0)

---------------------------------------------------------------------------
(* Operands (operand_prep.rs).                                               *)
ConsumedAt(p, v, prepared) == FindReachableFrom(p.stack, v, prepared, ctx.swap_max)

\* prepare_operands: from the last operand to the first.
RECURSIVE PrepareFrom(_, _, _, _, _)
PrepareFrom(p, args, k, last_use, consumed) ==
    IF k = 0 \/ p.panic THEN p
    ELSE
    LET v == args[k]
        pos == ConsumedAt(p, v, Len(args) - k)
        copy == FindReachable(p.stack, v, ctx.dup_max)
        consume == /\ v \in last_use \ consumed
                   /\ pos # NoDepth /\ pos <= CONSUME_LAST_USE_MAX_SWAPS
        q == IF IsImm(v) THEN PushImm(p, v)
             ELSE IF consume THEN StableRotateToTop(p, pos)
             ELSE IF copy # NoDepth THEN Dup(p, copy)
             ELSE LoadOrMark(p, v)
    IN PrepareFrom(q, args, k - 1, last_use, IF consume THEN consumed \cup {v} ELSE consumed)
PrepareOperands(p, args, last_use) == PrepareFrom(p, args, Len(args), last_use, {})

PrefixMatches(s, args) == Len(args) <= LenAboveFuncRet(s) /\ SubSeq(s, 1, Len(args)) = args

\* search_binary_operand_prep: the plan with the fewest SWAPs, then the fewest
\* actions, that ends with the operands on top and a copy below of each one
\* still needed.  Of equally cheap plans the code takes the one it meets first.
Preserved(v, last_use) == v \notin last_use /\ ~IsImm(v)
IsGoal(s, target, last_use) ==
    /\ Len(s) >= 2 /\ SubSeq(s, 1, 2) = target
    /\ \A v \in Elements(target) :
          Preserved(v, last_use) => Cardinality({k \in DOMAIN s : s[k] = v}) >= 2
\* The stacks one action away, without a SWAP and with one.
Grown(p, target, last_use) ==
    LET copy(v) == FindReachable(p.stack, v, ctx.dup_max)
    IN {Dup(p, copy(v)) : v \in {u \in Elements(target) : Preserved(u, last_use) /\ copy(u) # NoDepth}}
       \cup {PushImm(p, v) : v \in {u \in Elements(target) : IsImm(u)}}
OneSwap(p) == {Swap(p, k) : k \in 1 .. Min({ctx.swap_max - 1, Len(p.stack) - 1})}
\* The heap, by cost: `here` are plans with `swaps` SWAPs, `later` with one more,
\* and those with n actions come next; `done` are the stacks that were met.
RECURSIVE CheapestFrom(_, _, _, _, _, _, _)
CheapestFrom(swaps, n, here, later, done, target, last_use) ==
    LET next == {p \in here : Len(p.acts) = n /\ p.stack \notin done}
        now == {CHOOSE p \in next : p.stack = s : s \in {p.stack : p \in next}}
        goals == {p \in now : IsGoal(p.stack, target, last_use)}
        last == n = MaxActions
    IN IF goals # {} THEN {[swaps |-> swaps, plan |-> CHOOSE p \in goals : TRUE]}
       ELSE IF last /\ later = {} THEN {}
       ELSE CheapestFrom(IF last THEN swaps + 1 ELSE swaps, IF last THEN 0 ELSE n + 1,
                         IF last THEN later ELSE here \cup UNION {Grown(p, target, last_use) : p \in now},
                         IF last THEN {} ELSE later \cup UNION {OneSwap(p) : p \in now},
                         done \cup {p.stack : p \in now}, target, last_use)
Search(p, target, last_use) ==
    LET above == Above(p.stack)
        near == SubSeq(above, 1, Min({Len(above), ctx.swap_max}))
    IN IF \A v \in Elements(target) : IsImm(v) \/ v \in Elements(near)
       THEN CheapestFrom(0, 0, {[p EXCEPT !.stack = above, !.acts = <<>>]}, {}, {}, target, last_use)
       ELSE {}

\* OperandPrepMetric
Metric(p, args, last_use) ==
    LET q == PrepareOperands([p EXCEPT !.acts = <<>>], args, last_use)
        count(ops) == Cardinality({k \in DOMAIN q.acts : q.acts[k][1] \in ops})
    IN <<Cardinality(q.req) - Cardinality(p.req), count({"load", "load_obj", "hole"}),
         count({"swap"}), Len(q.acts)>>
Cheaper(m, n) == \E k \in DOMAIN m : m[k] < n[k] /\ \A j \in 1 .. k - 1 : m[j] = n[j]

\* prepare_operands_for_inst: what it plans and the order of the operands.
Ordered(p, args) == [plan |-> p, args |-> args]
Taken(p, found, args) ==
    Ordered([p EXCEPT !.stack = found.plan.stack \o Drop(@, LenAboveFuncRet(@)),
                      !.acts = @ \o found.plan.acts, !.panic = @ \/ found.plan.panic], args)
PrepareOperandsForInst(p, args, last_use, commutative) ==
    LET swapped == <<args[2], args[1]>>
        binary == Len(args) = 2 /\ args[1] # args[2]
        plain == IF binary THEN Search(p, args, last_use) ELSE {}
        other == IF binary /\ commutative THEN Search(p, swapped, last_use) ELSE {}
        cheaper(x, y) == Cheaper(<<x.swaps, Len(x.plan.acts)>>, <<y.swaps, Len(y.plan.acts)>>)
        better == \E x \in other : \A y \in plain : cheaper(x, y)
        consumed == \A v \in Elements(args) : v \in last_use
    IN IF args # <<>> /\ consumed /\ PrefixMatches(p.stack, args) THEN Ordered(p, args)
       ELSE IF better THEN Taken(p, CHOOSE x \in other : TRUE, swapped)
       ELSE IF plain # {} THEN Taken(p, CHOOSE x \in plain : TRUE, args)
       ELSE IF binary /\ commutative /\ consumed /\ PrefixMatches(p.stack, swapped)
            THEN Ordered(p, swapped)
       ELSE IF binary /\ commutative
               /\ Cheaper(Metric(p, swapped, last_use), Metric(p, args, last_use))
            THEN Ordered(PrepareOperands(p, swapped, last_use), swapped)
       ELSE Ordered(PrepareOperands(p, args, last_use), args)

---------------------------------------------------------------------------
(* Making the stack exactly what is desired (normalize.rs).                  *)
Occurrences(s, v) == Cardinality({k \in DOMAIN s : s[k] = v})

\* delete_to_match_multiset keeps the deepest copies.
Keep(s, desired) ==
    [k \in DOMAIN s |-> Occurrences(Drop(s, k), s[k]) < Occurrences(desired, s[k])]

\* delete_unkept_values: pops from the top; a run of more than twice what is
\* kept above it, and not the last, is popped after the kept ones sank below.
RECURSIVE SinkKept(_, _, _, _)
SinkKept(p, keep, prefix, run) ==
    LET depth == prefix + run - 1
        at == IF prefix = 0 THEN 0 ELSE depth
    IN IF prefix = 0 \/ p.panic
       THEN [plan |-> PopN(p, run), keep |-> Drop(keep, run)]
       ELSE SinkKept(PopN(Swap(p, at), 1), Drop(Swapped(keep, at), 1), prefix - 1,
                     IF run = 0 THEN 0 ELSE run - 1)
RECURSIVE DeleteUnkept(_, _)
DeleteUnkept(p, keep) ==
    LET dropped == {d \in Depths(keep) : ~Item(keep, d)}
        prefix == Min(dropped)
        run == Max({n \in 1 .. Len(keep) - prefix : prefix .. prefix + n - 1 \subseteq dropped})
        bulk == prefix + run < Len(keep) /\ run > 2 * prefix - 1
        sunk == SinkKept(p, keep, prefix, run)
    IN IF dropped = {} \/ p.panic THEN p
       ELSE IF prefix = 0 THEN DeleteUnkept(PopN(p, 1), Drop(keep, 1))
       ELSE IF bulk THEN DeleteUnkept(sunk.plan, sunk.keep)
       ELSE DeleteUnkept(PopN(Swap(p, prefix), 1), Drop(Swapped(keep, prefix), 1))

\* The missing copies, by value: pushed, duplicated or loaded.
Materialize(p, v) ==
    LET copy == FindReachable(p.stack, v, ctx.dup_max)
    IN IF IsImm(v) THEN PushImm(p, v)
       ELSE IF copy # NoDepth THEN Dup(p, copy)
       ELSE LoadOrMark(p, v)
RECURSIVE MaterializeMissing(_, _)
MaterializeMissing(p, desired) ==
    LET missing == {v \in Elements(desired) :
                      Occurrences(Above(p.stack), v) < Occurrences(desired, v)}
    IN IF missing = {} \/ p.panic THEN p
       ELSE MaterializeMissing(Materialize(p, Min(missing)), desired)

\* Bottom up, each value is brought to the top and swapped into its place.
Tried(p, ok) == [plan |-> p, ok |-> ok]
RECURSIVE Permute(_, _, _)
Permute(p, desired, n) ==
    LET depth == n - 1
        pos == FindReachable(p.stack, desired[n], n)
    IN IF n = 0 THEN Tried(p, TRUE)
       ELSE IF p.stack[n] = desired[n] THEN Permute(p, desired, depth)
       ELSE IF pos = NoDepth \/ p.panic THEN Tried(p, FALSE)
       ELSE Permute(Swap(Swap(p, pos), depth), desired, depth)

\* try_normalize_to_exact; immediates at the top are pushed when the rest is done.
ImmPrefix(desired) ==
    Max({n \in 0 .. Len(desired) : \A k \in 1 .. n : IsImm(desired[k])})
RECURSIVE PushAll(_, _)
PushAll(p, vals) ==
    IF vals = <<>> \/ p.panic THEN p
    ELSE LET v == vals[Len(vals)]
         IN PushAll(IF IsImm(v) THEN PushImm(p, v) ELSE LoadOrMark(p, v),
                    SubSeq(vals, 1, Len(vals) - 1))
NormalizeValues(p, desired) ==
    LET above == Above(p.stack)
        trimmed == DeleteUnkept(p, Keep(above, desired))
        full == MaterializeMissing(trimmed, desired)
    IN IF Len(desired) > ctx.swap_max \/ Len(above) > ctx.swap_max THEN Tried(p, FALSE)
       ELSE IF LenAboveFuncRet(full.stack) # Len(desired) THEN Tried(full, FALSE)
       ELSE Permute(full, desired, Len(desired) - CommonSuffixLen(full.stack, desired))
TryNormalize(p, desired) ==
    LET imms == ImmPrefix(desired)
        tail == NormalizeValues(p, Drop(desired, imms))
    IN IF Len(desired) > ctx.swap_max THEN Tried(p, FALSE)
       ELSE IF tail.ok THEN Tried(PushAll(tail.plan, SubSeq(desired, 1, imms)), TRUE)
       ELSE tail

FlushRebuild(p, desired) ==
    LET base == CommonSuffixLen(p.stack, desired)
    IN PushAll(PopN(p, LenAboveFuncRet(p.stack) - base),
               SubSeq(desired, 1, Len(desired) - base))
OrRebuilt(tried, desired) ==
    IF tried.ok THEN tried.plan ELSE FlushRebuild(tried.plan, desired)
NormalizeToExact(p, desired) ==
    IF Above(p.stack) = desired THEN p ELSE OrRebuilt(TryNormalize(p, desired), desired)

---------------------------------------------------------------------------
(* Edges and returns (control_flow.rs).                                      *)
\* plan_edge_fixup: the operands of the phis take their places, get the names
\* of the phis and are stored where those are spilled.
RECURSIVE RenamePhis(_, _, _, _)
RenamePhis(p, results, first, k) ==
    IF k > Len(results) \/ p.panic THEN p
    ELSE LET depth == first + k - 1
         IN RenamePhis(StoreIfSpilled(RenameAt(p, depth, results[k]), results[k], depth),
                       results, first, k + 1)
EnterPhis(p, operands, results, first) ==
    IF SubSeq(p.stack, first + 1, first + Len(results)) = operands
    THEN RenamePhis(p, results, first, 1)
    ELSE Panic(p)
PlanEdgeFixup(p, template, pred, succ) ==
    LET results == ctx.phi_results[succ]
        operands == PhiArgsFrom(ctx.f, pred, succ)
        first == Len(template.params) - Len(results)
        desired == SubSeq(template.params, 1, first) \o operands \o template.transfer
    IN EnterPhis(NormalizeToExact(p, desired), operands, results, first)

\* delete_between_top_and_func_ret
RECURSIVE DeleteBetween(_)
DeleteBetween(p) ==
    LET between == FuncRetIndex(p.stack) - 1
        depth == Min({between, ctx.dup_max})
    IN IF between <= 0 \/ p.panic THEN p ELSE DeleteBetween(PopN(Swap(p, depth), depth))

\* plan_internal_return
PlanInternalReturn(p, args) ==
    LET v == args[1]
        at == FindReachable(p.stack, v, Len(p.stack))
        cleared == ClearAboveFuncRet(p)
    IN IF args = <<>> THEN cleared
       ELSE IF at # NoDepth THEN DeleteBetween(PopN(p, at))
       ELSE IF IsImm(v) THEN PushImm(cleared, v)
       ELSE DeleteBetween(LoadOrMark(cleared, v))
====
