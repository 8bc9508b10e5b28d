---- MODULE StackMachine ----
(* The planned code on the machine: its stack, the scratch words and the     *)
(* memory objects of spilled values.  What the backend adds to the plan      *)
(* (crates/codegen/src/isa/evm/mod.rs) is that an instruction takes its      *)
(* operands and pushes its result, that br, and br_table for each case, take *)
(* what they test, and that a call returns with its arguments and the        *)
(* continuation gone.  A callee may write any scratch word.                  *)
EXTENDS Stackify, SsaStep

VARIABLES stack, scratch, objs,   \* the machine
          seen                    \* what the last instruction saw

machineVars == <<stack, scratch, objs, seen>>
vars == <<planVars, runVars, machineVars>>

Scratch == 1 .. ctx.scratch_spill_slots
Empty == [s \in Scratch |-> Nothing]

Machine == [stack |-> stack, scratch |-> scratch, objs |-> objs]
Below(m, depth) == IF depth < Len(m.stack) THEN Item(m.stack, depth) ELSE Nothing
Push(m, token) == [m EXCEPT !.stack = <<token>> \o @]
Consume(m, n) == [m EXCEPT !.stack = Drop(@, n)]

\* perform_actions
Perform(m, op, n) ==
    CASE op = "dup"       -> Push(m, Below(m, n))
      [] op = "swap"      -> IF n < Len(m.stack) THEN [m EXCEPT !.stack = Swapped(@, n)] ELSE m
      [] op = "push"      -> Push(m, <<n, 0>>)
      [] op = "cont"      -> Push(m, <<CallRetAddr, 0>>)
      [] op = "pop"       -> Consume(m, 1)
      [] op = "load"      -> Push(m, m.scratch[n])
      [] op = "load_obj"  -> Push(m, m.objs[n])
      [] op = "store"     -> Consume([m EXCEPT !.scratch[n] = Below(m, 0)], 1)
      [] op = "store_obj" -> Consume([m EXCEPT !.objs[n] = Below(m, 0)], 1)
      [] op = "hole"      -> Push(m, Nothing)
RECURSIVE PerformAll(_, _)
PerformAll(m, acts) ==
    IF acts = <<>> THEN m ELSE PerformAll(Perform(m, acts[1][1], acts[1][2]), Tail(acts))

RECURSIVE StoreArgs(_, _)
StoreArgs(m, k) == IF k > Len(ctx.f.args) THEN m ELSE StoreArgs(PerformAll(m, StoredArg(k)), k + 1)

Becomes(m) == stack' = m.stack /\ scratch' = m.scratch /\ objs' = m.objs
Pre == PerformAll(Machine, pre_actions[block][inst])
Post(m) == PerformAll(m, post_actions[block][inst])

Init == /\ PlanInit /\ RunInit
        /\ stack = <<>> /\ scratch = Empty /\ objs = [v \in ctx.vals |-> Nothing]
        /\ seen = <<>>

Start ==
    /\ phase = "done" /\ Begin /\ seen' = <<>>
    /\ Becomes(StoreArgs([Machine EXCEPT !.stack =
          [k \in DOMAIN ctx.f.args |-> <<ctx.f.args[k], 1>>]
          \o (IF ctx.ret THEN <<<<FuncRetAddr, 0>>>> ELSE <<>>) \o <<Caller>>], 1))

Apply ==
    /\ Execute /\ This.kind # "call"
    /\ LET left == Consume(Pre, Len(This.args))
       IN Becomes(Post(IF This.res = NoValue THEN left ELSE Push(left, Computed)))
    /\ seen' = SubSeq(Pre.stack, 1, Len(This.args))

Call ==
    /\ Execute /\ This.kind = "call"
    /\ LET left == [Consume(Pre, Len(This.args) + 1) EXCEPT !.scratch = Empty]
       IN Becomes(Post(IF This.res = NoValue THEN left ELSE Push(left, Computed)))
    /\ seen' = SubSeq(Pre.stack, 1, Len(This.args) + 1)

Jump == Branches("jump") /\ Goto(This.dests[1]) /\ Becomes(Pre) /\ seen' = <<>>

Br == /\ Branches("br")
      /\ \E d \in Elements(This.dests) : Goto(d)
      /\ Becomes(Consume(Pre, 1))
      /\ seen' = SubSeq(Pre.stack, 1, 1)

\* Cases are compared in order until one is equal; then comes the default.
RECURSIVE Compare(_, _, _, _)
Compare(m, k, last, compared) ==
    IF k > last THEN [machine |-> m, compared |-> compared]
    ELSE LET tested == PerformAll(m, case_actions[block][inst][k])
         IN Compare(Consume(tested, 2), k + 1, last, Append(compared, SubSeq(tested.stack, 1, 2)))
Case ==
    /\ Branches("br_table")
    /\ \E k \in DOMAIN This.dests :
          LET end == Compare(Machine, 1, IF k < Len(This.args) THEN k ELSE k - 1, <<>>)
          IN Goto(This.dests[k]) /\ Becomes(end.machine) /\ seen' = end.compared

Return == End /\ Becomes(Pre) /\ seen' = Pre.stack

Plans == PlanNext /\ UNCHANGED <<runVars, machineVars>>
Runs == (Start \/ Apply \/ Call \/ Jump \/ Br \/ Case \/ Return) /\ UNCHANGED planVars
Next == Plans \/ Runs
Spec == Init /\ [][Next]_vars

---------------------------------------------------------------------------
(* Properties.                                                               *)

Ssa == INSTANCE SsaRun

\* Whatever is duplicated, rotated, spilled or rebuilt on the way, every
\* instruction finds its operands on top of the stack, a call its continuation
\* below them, and a return nothing but its value between the barrier and the
\* top: the planned code implements the function.
Implements == Ssa!Spec

\* All ways into a block, from before it and around a loop, leave the stack its
\* template says ("all incoming edges are normalized to the same StackIn(B)",
\* stackify/mod.rs).
JoinsAgree ==
    (running = "yes" /\ inst = First(block) /\ inherited[block].none) =>
        stack = AllHold(StackOf(templates[block])) \o <<Caller>>

\* No assertion of the planner fails: nothing is popped or swapped past the
\* return address, no DUP or SWAP is out of range.
NeverPanics == phase # "panic"

\* A value in memory that a later instruction of the block or a successor needs
\* is in its slot or object: no store is missing and no slot is taken from it.
Stored(v) == IF pool.slot_of[v] # NoSlot THEN scratch[pool.slot_of[v]] ELSE objs[v]
Rest == inst .. Len(Code(block))
Needed(v) == /\ \A i \in Rest : Code(block)[i].res # v
             /\ v \in ctx.live_out[block] \/ \E i \in Rest : v \in Elements(Code(block)[i].args)
SpillsKept == running = "yes" => \A v \in spill_set : Needed(v) => Stored(v) = env[v]

\* The plan is complete and the same from wherever a block is entered.
PlanHolds == NeverPanics /\ JoinsAgree

====
