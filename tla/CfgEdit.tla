---- MODULE CfgEdit ----
(* The structured edits of the control flow graph (crates/codegen/src/       *)
(* cfg_edit.rs) and the two passes made of nothing else: the cleanup         *)
(* (optim/cfg_cleanup.rs) and the splitting of critical edges                *)
(* (critical_edge.rs).  Each operation takes a function and gives the edited *)
(* one.  The editor's own graph is recomputed by every operation, so it is   *)
(* the function's.                                                           *)
EXTENDS Integers, Sequences, FiniteSets, SequencesExt, FiniteSetsExt, Paths

---------------------------------------------------------------------------
(* A function as the passes edit it (crates/ir: Layout, DataFlowGraph and the *)
(* branch instructions): the blocks in layout order, the instructions of each *)
(* block, what every instruction uses, and the users table.  The links that  *)
(* make up the orders have a module of their own, Layout.                    *)

CONSTANTS Block,      \* BlockId: all that may ever be made
          NumInsts,   \* how many instructions may ever be made
          Const       \* the immediates, as numbers below 1

ASSUME FuncAssumption ==
    Block \subseteq Nat /\ NumInsts \in Nat /\ Const \subseteq Int /\ \A c \in Const : c < 1

Inst == 1 .. NumInsts
\* A value is a constant, the result of an instruction, which has its number,
\* or one of the undefs that stand in for a phi.
UndefOf(phi) == NumInsts + phi
Value == Const \cup Inst \cup {UndefOf(i) : i \in Inst}

\* An instruction is [kind, args, dests], where unborn stands for none yet, pure for one
\* without side effect, write for one with, noreturn for a call that does not come back,
\* and branch for jump (no argument), br or br_table.
Unborn == [kind |-> "unborn", args |-> <<>>, dests |-> <<>>]
\* An argument of a phi names the block it comes from; others name NoBlock.
NoBlock == -1
Arg(v) == [val |-> v, from |-> NoBlock]
Jump(to) == [kind |-> "branch", args |-> <<>>, dests |-> <<to>>]
Unreachable == [kind |-> "exit", args |-> <<>>, dests |-> <<>>]

---------------------------------------------------------------------------
(* Reading a function f.                                                    *)
Blocks(f) == ToSet(f.order)
Entry(f) == Head(f.order)
Inserted(f) == UNION {ToSet(f.body[b]) : b \in Blocks(f)}
InstBlock(f, i) == CHOOSE b \in Blocks(f) : i \in ToSet(f.body[b])
Vals(f, i) == {f.insts[i].args[k].val : k \in DOMAIN f.insts[i].args}
Incoming(f, i) == {f.insts[i].args[k].from : k \in DOMAIN f.insts[i].args}
IsPhi(f, i) == f.insts[i].kind = "phi"
IsTerminator(f, i) == f.insts[i].kind \in {"branch", "exit"}
Dests(f, i) == Range(f.insts[i].dests)
LastInst(f, b) == Last(f.body[b])
Terminated(f, b) == f.body[b] # <<>> /\ IsTerminator(f, LastInst(f, b))
Succs(f, b) == IF f.body[b] = <<>> THEN {} ELSE Dests(f, LastInst(f, b))
Preds(f, b) == {p \in Blocks(f) : b \in Succs(f, p)}
\* The phis that lead a block.
PhisOf(f, b) ==
    LET others == {k \in DOMAIN f.body[b] : ~IsPhi(f, f.body[b][k])}
    IN SelectSeq(f.body[b], LAMBDA i : \A k \in others : \E j \in 1 .. k - 1 : f.body[b][j] = i)

SuccsIn(f) == [b \in Block |-> IF b \in Blocks(f) THEN Succs(f, b) ELSE {}]
PredsIn(f) == [b \in Block |-> IF b \in Blocks(f) THEN Preds(f, b) ELSE {}]
Reachable(f) == ReachSteps(SuccsIn(f), {Entry(f)}, {})

---------------------------------------------------------------------------
(* Changing it.  ok is false once an assertion or an unwrap has failed.     *)
Require(f, holds) == [f EXCEPT !.ok = @ /\ holds]

UntrackInst(f, i) == [f EXCEPT !.users = {u \in @ : u[2] # i \/ u[1] \notin Vals(f, i)}]
AttachUser(f, i) == [f EXCEPT !.users = @ \cup {<<v, i>> : v \in Vals(f, i)}]
SetInst(f, i, data) == [f EXCEPT !.insts[i] = data]
SetArgs(f, i, args) == AttachUser([UntrackInst(f, i) EXCEPT !.insts[i].args = args], i)

NewBlock(f) == CHOOSE b \in Block \ f.made : \A c \in Block \ f.made : b <= c
NewInst(f) == CHOOSE i \in Inst : /\ f.insts[i] = Unborn
                                  /\ \A j \in Inst : f.insts[j] = Unborn => i <= j

InsertInst(f, b, at, data) ==
    LET i == NewInst(f)
    IN AttachUser([f EXCEPT !.insts[i] = data, !.body[b] = InsertAt(@, at, i)], i)
AppendInst(f, b, data) == InsertInst(f, b, Len(f.body[b]) + 1, data)

\* insert_block_before, of a block just made.
InsertBlockBefore(f, new, b) ==
    [f EXCEPT !.made = @ \cup {new},
              !.order = InsertAt(@, CHOOSE k \in DOMAIN @ : @[k] = b, new)]
InsertBlockAfter(f, new, b) ==
    [f EXCEPT !.made = @ \cup {new},
              !.order = InsertAt(@, 1 + CHOOSE k \in DOMAIN @ : @[k] = b, new)]

RemoveInst(f, i) ==
    LET b == InstBlock(f, i)
    IN [UntrackInst(f, i) EXCEPT !.body[b] = SelectSeq(@, LAMBDA j : j # i)]
RemoveBlock(f, b) ==
    [FoldLeft(RemoveInst, f, f.body[b]) EXCEPT !.order = SelectSeq(@, LAMBDA c : c # b)]

\* change_to_alias: only what the users table names is rewritten.
ChangeToAlias(f, v, alias) ==
    LET swap(a) == IF a.val = v THEN [a EXCEPT !.val = alias] ELSE a
        renamed(i) == [f.insts[i] EXCEPT !.args = [k \in DOMAIN @ |-> swap(@[k])]]
    IN [f EXCEPT !.insts = [i \in Inst |-> IF <<v, i>> \in f.users THEN renamed(i) ELSE @[i]],
                 !.users = {IF u[1] = v THEN <<alias, u[2]>> ELSE u : u \in @}]

---------------------------------------------------------------------------
(* Branches.                                                                *)

\* remove_old_users: what the new instruction uses the old one did.
ReplaceInst(f, i, data) ==
    LET g == SetInst(f, i, data)
    IN [Require(g, Vals(g, i) \subseteq Vals(f, i)) EXCEPT
          !.users = @ \ {<<v, i>> : v \in Vals(f, i) \ Vals(g, i)}]

\* rewrite_branch_dest: a branch with one destination left is a jump.
RewriteBranchDest(f, i, from, to) ==
    LET dests == [a \in DOMAIN f.insts[i].dests |->
                     IF f.insts[i].dests[a] = from THEN to ELSE f.insts[i].dests[a]]
    IN ReplaceInst(f, i, [f.insts[i] EXCEPT
            !.dests = dests, !.args = IF Cardinality(Range(dests)) = 1 THEN <<>> ELSE @])

\* remove_branch_dest: a branch with one arm left is a jump, with none it is
\* unreachable.
RemoveBranchDest(f, i, to) ==
    LET kept == {a \in DOMAIN f.insts[i].dests : f.insts[i].dests[a] # to}
    IN ReplaceInst(f, i,
          [kind |-> IF kept = {} THEN "exit" ELSE "branch",
           args |-> IF Cardinality(kept) <= 1 THEN <<>> ELSE f.insts[i].args,
           dests |-> Restrict(f.insts[i].dests, kept)])

-----------------------------------------------------------------------------
CleanupMode == {"strict", "repair"}

Ascending(S) == SetToSortSeq(S, <)

---------------------------------------------------------------------------
(* Phis.                                                                    *)

RemovePhiIncoming(f, b, pred) ==
    LET drop(g, phi) == SetArgs(g, phi, SelectSeq(g.insts[phi].args, LAMBDA a : a.from # pred))
    IN FoldLeft(drop, f, PhisOf(f, b))

\* The users are the same, so the code does not touch them here.
ReplacePhiIncoming(f, b, old, new) ==
    LET rename(g, phi) ==
            Require(SetInst(g, phi, [g.insts[phi] EXCEPT
                      !.args = [k \in DOMAIN @ |-> IF @[k].from = old THEN [@[k] EXCEPT !.from = new]
                                                                      ELSE @[k]]]),
                   new \notin Incoming(g, phi) /\ old \in Incoming(g, phi))
    IN FoldLeft(rename, f, PhisOf(f, b))

\* Mutant: a constant beside another value counts as no value.
SimplifyTrivialPhiSkipConst(f, phi) ==
    LET vals == IF Vals(f, phi) \subseteq Const THEN Vals(f, phi) ELSE Vals(f, phi) \ Const
        arg == IF vals \subseteq {phi} THEN UndefOf(phi) ELSE CHOOSE v \in vals : TRUE
    IN IF Cardinality(vals) > 1 THEN f
       ELSE RemoveInst(ChangeToAlias(f, phi, arg), phi)

\* A phi all of whose arguments are one value is that value; without another
\* value than itself it is undefined.
SimplifyTrivialPhi(f, phi) ==
    LET vals == Vals(f, phi)
        arg == IF vals \subseteq {phi} THEN UndefOf(phi) ELSE CHOOSE v \in vals : TRUE
    IN IF Cardinality(vals) > 1 THEN f
       ELSE RemoveInst(ChangeToAlias(f, phi, arg), phi)

SimplifyTrivialPhis(f, b) == FoldLeft(SimplifyTrivialPhi, f, PhisOf(f, b))

PrunePhisToPreds(f, b, preds, mode) ==
    LET prune(g, phi) ==
            LET kept == SelectSeq(g.insts[phi].args, LAMBDA a : a.from \in preds)
                missing == preds \ {kept[k].from : k \in DOMAIN kept}
                undefs == [k \in 1 .. Cardinality(missing) |->
                              [val |-> UndefOf(phi), from |-> Ascending(missing)[k]]]
            IN Require(SetArgs(g, phi, kept \o undefs),
                      /\ IsInjective([k \in DOMAIN kept |-> kept[k].from])
                      /\ missing = {} \/ mode = "repair")
    IN FoldLeft(prune, f, PhisOf(f, b))

---------------------------------------------------------------------------
(* CfgEditor.                                                               *)

RemoveSucc(f, from, to, mode) ==
    LET cut == RemoveBranchDest(f, LastInst(f, from), to)
    IN IF to \notin Succs(f, from) THEN Require(f, Terminated(f, from))
       ELSE IF to \notin Blocks(f) THEN Require(cut, mode = "repair")
       ELSE SimplifyTrivialPhis(RemovePhiIncoming(cut, to, from), to)

SplitBlockAt(f, at, mode) ==
    LET from == InstBlock(f, at)
        new == NewBlock(f)
        place == CHOOSE k \in DOMAIN f.body[from] : f.body[from][k] = at
        moved == [InsertBlockAfter(f, new, from) EXCEPT
                    !.body[new] = SubSeq(f.body[from], place, Len(f.body[from])),
                    !.body[from] = SubSeq(@, 1, place - 1)]
        rename(g, succ) == SimplifyTrivialPhis(ReplacePhiIncoming(g, succ, from, new), succ)
        succs == Succs(f, from)
    IN Require(FoldLeft(rename, AppendInst(moved, from, Jump(new)), Ascending(succs \cap Blocks(f))),
              /\ ~IsPhi(f, at) /\ Terminated(f, from)
              /\ succs \subseteq Blocks(f) \/ mode = "repair")

SplitEdge(f, from, to) ==
    LET mid == NewBlock(f)
        cut == RewriteBranchDest(AppendInst(InsertBlockBefore(f, mid, to), mid, Jump(to)),
                                 LastInst(f, from), to, mid)
    IN Require(ReplacePhiIncoming(cut, to, from, mid),
              {from, to} \subseteq Blocks(f) /\ Terminated(f, from) /\ to \in Succs(f, from))

\* The phis of a header get one argument from the preheader for those from
\* outside, which become the arguments of a phi there; phis that would be
\* equal are one.
MovePhisToPreheader(f, header, outside, pre) ==
    LET move(s, phi) ==
            LET args == s.f.insts[phi].args
                argFrom(p) == args[CHOOSE k \in DOMAIN args : args[k].from = p]
                data == [Unborn EXCEPT !.kind = "phi",
                                       !.args = [k \in DOMAIN outside |-> argFrom(outside[k])]]
                cut == [UntrackInst(s.f, phi) EXCEPT
                          !.insts[phi].args = SelectSeq(@, LAMBDA a : a.from \notin Range(outside))]
                equal == {i \in s.new : cut.insts[i] = data}
                result == IF equal = {} THEN NewInst(cut) ELSE CHOOSE i \in equal : TRUE
                made == IF equal = {} THEN InsertInst(cut, pre, 1, data) ELSE cut
            IN [f |-> AttachUser(
                        Require([made EXCEPT
                                  !.insts[phi].args = Append(@, [val |-> result, from |-> pre])],
                               Range(outside) \subseteq Incoming(s.f, phi)), phi),
                new |-> s.new \cup {result}]
    IN FoldLeft(move, [f |-> f, new |-> {}], PhisOf(f, header)).f

\* create_or_reuse_loop_preheader: the function, unchanged if there is one
\* already or none can be made.
CreatePreheader(f, header, outside) ==
    LET pre == NewBlock(f)
        none == outside = <<>> /\ (header # Entry(f) \/ PhisOf(f, header) # <<>>)
        reuse == Len(outside) = 1 /\ Cardinality(Succs(f, outside[1])) = 1
        redirect(g, p) == RewriteBranchDest(Require(g, header \in Succs(g, p)),
                                            LastInst(g, p), header, pre)
        linked == FoldLeft(redirect,
                           AppendInst(InsertBlockBefore(f, pre, header), pre, Jump(header)), outside)
    IN IF none \/ reuse THEN f
       ELSE IF outside = <<>> THEN linked
       ELSE MovePhisToPreheader(linked, header, outside, pre)

\* Mutant: the block before may lead to the block behind by an edge of its own.
IsTrampolineAny(f, b) ==
    /\ b \in Blocks(f) \ {Entry(f)}
    /\ Len(f.body[b]) = 1 /\ Terminated(f, b) /\ f.insts[LastInst(f, b)].args = <<>>
    /\ Cardinality(Succs(f, b)) = 1 /\ Cardinality(Preds(f, b)) = 1
    /\ Preds(f, b) # Succs(f, b)

\* fold_trampoline_block: a block that only jumps, between two others.
IsTrampoline(f, b) ==
    /\ b \in Blocks(f) \ {Entry(f)}
    /\ Len(f.body[b]) = 1 /\ Terminated(f, b) /\ f.insts[LastInst(f, b)].args = <<>>
    /\ Cardinality(Succs(f, b)) = 1 /\ Cardinality(Preds(f, b)) = 1
    /\ Preds(f, b) # Succs(f, b)
    /\ \A p \in Preds(f, b), s \in Succs(f, b) :
          \A k \in DOMAIN PhisOf(f, s) : p \notin Incoming(f, PhisOf(f, s)[k])
FoldTrampoline(f, b) ==
    LET succ == CHOOSE s \in Succs(f, b) : TRUE
        pred == CHOOSE p \in Preds(f, b) : TRUE
        cut == RewriteBranchDest(f, LastInst(f, pred), b, succ)
    IN IF ~IsTrampoline(f, b) THEN f
       ELSE RemoveBlock(SimplifyTrivialPhis(ReplacePhiIncoming(cut, succ, b, pred), succ), b)

DeleteBlockUnreachable(f, b, mode) ==
    LET unlink(g, p) == RemoveSucc(Require(g, b \in Succs(g, p)), p, b, mode)
        unlinked == FoldLeft(unlink, f, Ascending(Preds(f, b)))
        forget(g, s) == SimplifyTrivialPhis(RemovePhiIncoming(g, s, b), s)
    IN IF b \notin Blocks(f) THEN f
       ELSE RemoveBlock(FoldLeft(forget, unlinked,
                                 Ascending(Succs(unlinked, b) \cap Blocks(f))), b)

\* replace_succ_allow_existing_pred, without phi inputs.
ReplaceSucc(f, from, old, new, mode) ==
    LET cut == RewriteBranchDest(f, LastInst(f, from), old, new)
        freed == IF old \in Blocks(f)
                 THEN SimplifyTrivialPhis(RemovePhiIncoming(cut, old, from), old) ELSE cut
        legal == /\ {from, new} \subseteq Blocks(f) /\ Terminated(f, from)
                 /\ old \in Blocks(f) \/ mode = "repair"
    IN IF old \notin Succs(f, from) THEN Require(f, legal)
       ELSE Require(freed, legal /\ (from \in Preds(f, new) \/ PhisOf(freed, new) = <<>>))

---------------------------------------------------------------------------
(* CfgCleanup.                                                              *)

\* What follows the first instruction of a block in `stops` is removed.
TrimAfter(f, stops) ==
    LET late == {i \in Inserted(f) :
                   LET b == InstBlock(f, i)
                   IN \E j, k \in DOMAIN f.body[b] : j < k /\ f.body[b][j] \in stops /\ f.body[b][k] = i}
    IN FoldLeft(RemoveInst, f, Ascending(late))
TrimAfterTerminator(f) == TrimAfter(f, {i \in Inserted(f) : IsTerminator(f, i)})

EnsureTerminated(f, mode) ==
    LET add(g, b) == IF Terminated(g, b) THEN g
                     ELSE AppendInst(Require(g, mode = "repair"), b, Unreachable)
    IN FoldLeft(add, f, f.order)

TrimAfterNoreturnCall(f) ==
    LET calls == {i \in Inserted(f) : f.insts[i].kind = "noreturn"}
        add(g, b) == IF ToSet(g.body[b]) \cap calls = {} THEN g ELSE AppendInst(g, b, Unreachable)
    IN FoldLeft(add, TrimAfter(f, calls), f.order)

PruneUnreachable(f) == FoldLeft(RemoveBlock, f, Ascending(Blocks(f) \ Reachable(f)))

\* assert_ir_invariants.
IrInvariants(f) ==
    /\ PhisOf(f, Entry(f)) = <<>>
    /\ \A b \in Blocks(f) :
          /\ Terminated(f, b) /\ Succs(f, b) \subseteq Blocks(f)
          /\ \A k \in DOMAIN f.body[b] : Vals(f, f.body[b][k]) \cap Inst \subseteq Inserted(f)
          /\ \A k \in DOMAIN PhisOf(f, b) : Incoming(f, PhisOf(f, b)[k]) = Preds(f, b)

Cleanup(f, mode) ==
    LET reached == PruneUnreachable(TrimAfterNoreturnCall(EnsureTerminated(TrimAfterTerminator(f), mode)))
        tidy(g, b) == SimplifyTrivialPhis(PrunePhisToPreds(g, b, Preds(reached, b), mode), b)
        tidied == FoldLeft(tidy, reached, reached.order)
    IN Require(tidied, mode = "strict" => IrInvariants(tidied))

---------------------------------------------------------------------------
(* CriticalEdgeSplitter.                                                    *)
IsCritical(f, from, to) ==
    to \in Succs(f, from) /\ Cardinality(Succs(f, from)) > 1 /\ Cardinality(Preds(f, to)) > 1

\* Mutant: one edge of each terminator.
SplitCriticalEdgesFirst(f) ==
    LET split(g, b) == LET tos == {to \in Blocks(f) : IsCritical(f, b, to)}
                       IN IF tos = {} THEN g ELSE SplitEdge(g, b, Min(tos))
    IN FoldLeft(split, f, f.order)

\* The edges are collected first, by the terminator they leave from.
SplitCriticalEdges(f) ==
    LET edgesOf(b) == LET tos == Ascending({to \in Blocks(f) : IsCritical(f, b, to)})
                      IN [k \in DOMAIN tos |-> <<LastInst(f, b), tos[k]>>]
        split(g, e) == SplitEdge(g, InstBlock(g, e[1]), e[2])
    IN FoldLeft(split, f, FlattenSeq([k \in DOMAIN f.order |-> edgesOf(f.order[k])]))

====
