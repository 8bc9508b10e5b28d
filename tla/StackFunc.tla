---- MODULE StackFunc ----
(* What Stackify plans with: the symbolic stack and the actions that change  *)
(* it (crates/codegen/src/stackalloc/stackify/sym_stack.rs), and             *)
(* StackifyContext (builder.rs), the function and what is known of it, with  *)
(* the facts of templates.rs.  Liveness, dominance and components are taken  *)
(* as what their modules show them to be.                                    *)
EXTENDS Integers, Sequences, FiniteSets, FiniteSetsExt, Paths

-----------------------------------------------------------------------------
(* A plan p is what is being planned: p.stack, the symbolic stack, top       *)
(* first, p.acts, the actions emitted so far, and p.panic, whether an        *)
(* assertion failed.  Depths are counted from 0, as in the code.             *)

DUP_MAX == 16
SWAP_DEPTH_MAX == 16
SWAP_WINDOW_MAX == SWAP_DEPTH_MAX + 1

\* StackItem: a value is a positive number.
FuncRetAddr == -1
CallRetAddr == -2
NoDepth == -1

Panic(p) == [p EXCEPT !.panic = TRUE]
Emit(p, act) == [p EXCEPT !.acts = Append(@, act)]

Item(s, depth) == s[depth + 1]
Depths(s) == 0 .. Len(s) - 1
Drop(s, n) == SubSeq(s, n + 1, Len(s))

ShallowestOf(depths) == IF depths = {} THEN NoDepth ELSE Min(depths)

FuncRetIndex(s) == ShallowestOf({d \in Depths(s) : Item(s, d) = FuncRetAddr})
LenAboveFuncRet(s) == IF FuncRetIndex(s) = NoDepth THEN Len(s) ELSE FuncRetIndex(s)
Above(s) == SubSeq(s, 1, LenAboveFuncRet(s))

\* find_reachable_value_from, find_reachable_value: never past the barrier.
FindReachableFrom(s, v, start, max_depth) ==
    ShallowestOf({d \in 0 .. LenAboveFuncRet(s) - 1 :
                    start <= d /\ d < max_depth /\ Item(s, d) = v})
FindReachable(s, v, max_depth) == FindReachableFrom(s, v, 0, max_depth)

\* common_suffix_len: how far the stack above the barrier ends like `desired`.
CommonSuffixLen(s, desired) ==
    LET above == Above(s)
        agree(n) == \A k \in 0 .. n - 1 : above[Len(above) - k] = desired[Len(desired) - k]
    IN Max({n \in 0 .. Min({Len(above), Len(desired)}) : agree(n)})

PushValue(p, v) == [p EXCEPT !.stack = <<v>> \o @]
PushImm(p, v) == PushValue(Emit(p, <<"push", v>>), v)
RenameAt(p, depth, v) == [p EXCEPT !.stack[depth + 1] = v]

Dup(p, depth) ==
    IF depth < DUP_MAX /\ depth < LenAboveFuncRet(p.stack)
    THEN PushValue(Emit(p, <<"dup", depth>>), Item(p.stack, depth))
    ELSE Panic(p)

Swapped(s, depth) == [s EXCEPT ![1] = s[depth + 1], ![depth + 1] = s[1]]
Swap(p, depth) ==
    IF depth = 0 THEN p
    ELSE IF depth <= SWAP_DEPTH_MAX /\ depth < LenAboveFuncRet(p.stack)
    THEN [Emit(p, <<"swap", depth>>) EXCEPT !.stack = Swapped(@, depth)]
    ELSE Panic(p)

\* pop and pop_n: never below the return address of the function.
PopN(p, n) ==
    IF n <= LenAboveFuncRet(p.stack)
    THEN [p EXCEPT !.stack = Drop(@, n), !.acts = @ \o [k \in 1 .. n |-> <<"pop", 0>>]]
    ELSE Panic(p)
PopOperands(p, n) ==
    IF n <= LenAboveFuncRet(p.stack) THEN [p EXCEPT !.stack = Drop(@, n)] ELSE Panic(p)
ClearAboveFuncRet(p) == PopN(p, LenAboveFuncRet(p.stack))

\* stable_rotate_to_top: SWAP1 .. SWAPpos, which leaves the others in order.
\* Mutant: one SWAP for the chain of them.
RotateBySwap(p, pos) == Swap(p, pos)
StableRotateToTop(p, pos) ==
    IF pos = 0 THEN p
    ELSE IF pos <= SWAP_DEPTH_MAX /\ pos < LenAboveFuncRet(p.stack)
    THEN [p EXCEPT !.stack = <<Item(@, pos)>> \o SubSeq(@, 1, pos) \o Drop(@, pos + 1),
                   !.acts = @ \o [k \in 1 .. pos |-> <<"swap", k>>]]
    ELSE Panic(p)
StableDeleteAtDepth(p, depth) ==
    IF depth \in 1 .. SWAP_WINDOW_MAX /\ depth <= LenAboveFuncRet(p.stack)
    THEN PopN(StableRotateToTop(p, depth - 1), 1)
    ELSE Panic(p)

\* push_call_continuation, position_call_ret_below_operands, remove_call_ret_addr.
PushCallContinuation(p) == PushValue(Emit(p, <<"cont", 0>>), CallRetAddr)
PositionCallRet(p, operand_count) ==
    IF operand_count = 0 THEN p ELSE Swap(p, operand_count)
RemoveCallRet(p) ==
    LET at == FindReachable(p.stack, CallRetAddr, Len(p.stack))
    IN IF at = NoDepth THEN Panic(p)
       ELSE [p EXCEPT !.stack = SubSeq(@, 1, at) \o Drop(@, at + 1)]

-----------------------------------------------------------------------------

VARIABLE ctx   \* StackifyContext: the function and what is known of it

\* Values are positive numbers, compared as the code compares their ids.
NoValue == 0

\* A function f: f.entry, f.args, f.imms, f.rpo (its blocks in reverse
\* post-order) and f.code, the instructions of each block:
\* [kind, args, dests, res], where dests are the blocks a branch leads to, and
\* for a phi those its args come from; the cases of a br_table are its args
\* after the first, and dests may have one more for the default.
BlocksOf(f) == DOMAIN f.code
SuccsOf(f) ==
    [b \in BlocksOf(f) |->
        LET term == f.code[b][Len(f.code[b])]
        IN {term.dests[k] : k \in DOMAIN term.dests}]
PredsOf(f) == [b \in BlocksOf(f) |-> {p \in BlocksOf(f) : b \in SuccsOf(f)[p]}]
InstsOf(f) == {<<b, i>> \in BlocksOf(f) \X (1 .. 12) : i \in DOMAIN f.code[b]}
At(f, bi) == f.code[bi[1]][bi[2]]
Elements(s) == {s[k] : k \in DOMAIN s}

PhisIn(f, b) == {i \in DOMAIN f.code[b] : f.code[b][i].kind = "phi"}
PhiResultsIn(f, b) == [i \in 1 .. Cardinality(PhisIn(f, b)) |-> f.code[b][i].res]
\* phi_args_for_edge
PhiArgsFrom(f, pred, b) ==
    [i \in 1 .. Cardinality(PhisIn(f, b)) |->
        LET phi == f.code[b][i]
        IN phi.args[CHOOSE k \in DOMAIN phi.args : phi.dests[k] = pred]]

---------------------------------------------------------------------------
(* Liveness: a phi uses its operand in the predecessor.                      *)
UseBlocks(f, v) ==
    {b \in BlocksOf(f) :
        \/ \E i \in DOMAIN f.code[b] : f.code[b][i].kind # "phi" /\ v \in Elements(f.code[b][i].args)
        \/ \E s \in SuccsOf(f)[b] : v \in Elements(PhiArgsFrom(f, b, s))}
DefBlocks(f, v) == {bi[1] : bi \in {x \in InstsOf(f) : At(f, x).res = v}}
OpDefBlocks(f, v) == {bi[1] : bi \in {x \in InstsOf(f) : At(f, x).res = v /\ At(f, x).kind # "phi"}}
ValLiveBlocks(f, v) ==
    ReachSteps([b \in BlocksOf(f) |-> IF b \in DefBlocks(f, v) THEN {} ELSE PredsOf(f)[b]],
               UseBlocks(f, v), {})
LiveIns(f, vals, b) == {v \in vals : b \in ValLiveBlocks(f, v) \ OpDefBlocks(f, v)}
LiveOuts(f, vals, b) ==
    UNION {{v \in LiveIns(f, vals, s) : s \notin DefBlocks(f, v)} : s \in SuccsOf(f)[b]}

\* InstLiveness.live_out: the operands phis take on the way out are not in it.
InstLiveOut(f, vals, b, i) ==
    LET after[k \in 1 .. Len(f.code[b])] ==
            IF k = Len(f.code[b]) THEN LiveOuts(f, vals, b)
            ELSE LET inst == f.code[b][k + 1]
                 IN (after[k + 1] \ {inst.res})
                    \cup (IF inst.kind = "phi" THEN {} ELSE Elements(inst.args) \cap vals)
    IN after[i]

\* compute_scratch_live_values, where every call may write scratch memory; the
\* layout is the reverse post-order.
ScratchLive(f, vals) ==
    LET calls == {<<b, i>> \in (1 .. Len(f.rpo)) \X (1 .. 12) :
                    i \in DOMAIN f.code[f.rpo[b]] /\ f.code[f.rpo[b]][i].kind = "call"}
        later(c, d) == d[1] > c[1] \/ (d[1] = c[1] /\ d[2] > c[2])
        found(c) == InstLiveOut(f, vals, f.rpo[c[1]], c[2]) \ {f.code[f.rpo[c[1]]][c[2]].res}
        removed(c) == {f.code[f.rpo[d[1]]][d[2]].res : d \in {x \in calls : later(c, x)}}
    IN UNION {found(c) \ removed(c) : c \in calls}

---------------------------------------------------------------------------
(* Dominance and components.                                                 *)
DominatorsOf(f, b) == {a \in BlocksOf(f) : b \notin ReachSteps(SuccsOf(f), {f.entry}, {a})}
CyclesTo(f, a, b) == b \in ReachSteps(SuccsOf(f), SuccsOf(f)[a], {})
SccOf(f, b) == {b} \cup {c \in BlocksOf(f) : CyclesTo(f, b, c) /\ CyclesTo(f, c, b)}

\* compute_def_info, value_key: arguments come before the entry's instructions.
\* sort_values_desc sorts by depth, block, index.
DefKey(f, v) ==
    IF v \in Elements(f.args)
    THEN <<0, f.entry, CHOOSE k \in DOMAIN f.args : f.args[k] = v>>
    ELSE LET bi == CHOOSE x \in InstsOf(f) : At(f, x).res = v
         IN <<Cardinality(DominatorsOf(f, bi[1]) \ {bi[1]}), bi[1], Len(f.args) + bi[2]>>
KeyAbove(a, b) == \/ a[1] > b[1]
                  \/ a[1] = b[1] /\ a[2] > b[2]
                  \/ a[1] = b[1] /\ a[2] = b[2] /\ a[3] > b[3]

\* StackifyContext.
Context(f, reach, scratch_slots) ==
    LET vals == (Elements(f.args) \cup {At(f, x).res : x \in InstsOf(f)}) \ {NoValue}
        on(g(_)) == [b \in BlocksOf(f) |-> g(b)]
    IN [f |-> f, vals |-> vals, dup_max |-> reach,
        swap_max |-> Min({reach + 1, SWAP_WINDOW_MAX}),
        scratch_spill_slots |-> scratch_slots,
        scratch_live |-> ScratchLive(f, vals),
        preds |-> PredsOf(f), succs |-> SuccsOf(f),
        live_blocks |-> [v \in vals |-> ValLiveBlocks(f, v)],
        live_ins |-> on(LAMBDA b : LiveIns(f, vals, b)),
        \* what blocks keep: with the operands phis take (phi_out_sources)
        live_out |-> on(LAMBDA b : LiveOuts(f, vals, b) \cup
                        UNION {Elements(PhiArgsFrom(f, b, s)) \cap vals : s \in SuccsOf(f)[b]}),
        phi_results |-> on(LAMBDA b : PhiResultsIn(f, b)),
        dominators |-> on(LAMBDA b : DominatorsOf(f, b)),
        scc |-> on(LAMBDA b : SccOf(f, b)),
        key |-> [v \in vals |-> DefKey(f, v)],
        ret |-> \E x \in InstsOf(f) : At(f, x).kind = "ret"]

\* compute_phi_out_sources leaves out immediates; so does everything live.
IsImm(v) == v \in ctx.f.imms
Code(b) == ctx.f.code[b]
Entry == ctx.f.entry
WithBarrier(items) == items \o (IF ctx.ret THEN <<FuncRetAddr>> ELSE <<>>)
=============================================================================
