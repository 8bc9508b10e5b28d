---- MODULE FuncPasses ----
(* A function goes through edits and passes, and then runs beside the one it *)
(* was, along the same path.  The run is of the instructions both have left, *)
(* in step; what only one of them has it runs alone.  Instead of data, the   *)
(* state holds which value of the one is, at the moment, equal to which of   *)
(* the other.                                                               *)
EXTENDS CfgEdit

---------------------------------------------------------------------------
(* Aggressive dead code elimination (crates/codegen/src/optim/adce.rs).      *)
(* Post-dominance is taken from its definition by paths, which PostDomTree    *)
(* computes exactly.                                                        *)

Exits(f) == {b \in Blocks(f) : f.insts[LastInst(f, b)].kind = "exit"}
\* The blocks that reach an exit without passing through the blocks of S.
ReachExit(f, S) == ReachSteps(PredsIn(f), Exits(f), S)
PostDominators(f) ==
    [b \in Blocks(f) |-> {a \in Blocks(f) \ {b} : b \notin ReachExit(f, {a})}]

\* Mutant: a branch decides only about the blocks it leads to.
ControlsNear(f, pdom) ==
    [b \in Blocks(f) |-> {c \in Blocks(f) : b \in Succs(f, c) /\ b \notin pdom[c]}]

\* pdf_set: the blocks whose branch decides whether a block runs.
Controls(f, pdom) ==
    [b \in Blocks(f) |->
        {c \in Blocks(f) : /\ \E s \in Succs(f, c) : b \in {s} \cup pdom[s]
                           /\ b \notin pdom[c]}]

\* mark_inst and mark_by_inst, until the worklist is empty: what an
\* instruction uses, the end of its block, and the branches it depends on.
LiveInsts(f, controls) ==
    LET marked(X) ==
            LET blocks == {b \in Blocks(f) : ToSet(f.body[b]) \cap X # {}}
            IN X \cup {LastInst(f, b) : b \in blocks \cup UNION {controls[b] : b \in blocks}}
                 \cup (UNION {Vals(f, i) : i \in X} \cap Inst)
        until[X \in SUBSET Inst] == LET more == marked(X) IN IF more = X THEN X ELSE until[more]
    IN until[{i \in Inserted(f) : f.insts[i].kind \in {"write", "noreturn", "exit"}}]

LiveBlocks(f, live) == {b \in Blocks(f) : ToSet(f.body[b]) \cap live # {}}

EliminateDead(f, live) ==
    LET blocks == LiveBlocks(f, live)
        sweep(g, b) == IF b \in blocks
                       THEN FoldLeft(RemoveInst, g, SelectSeq(g.body[b], LAMBDA i : i \notin live))
                       ELSE RemoveBlock(g, b)
    IN FoldLeft(sweep, f, f.order)

\* living_post_dom: the closest post-dominators first.
LivingPostDoms(pdom, blocks, dest) ==
    {a \in pdom[dest] \cap blocks : pdom[dest] \cap blocks \subseteq {a} \cup pdom[a]}

\* One destination of a branch: a dead block is passed over to its living
\* post-dominator, if that needs no phi input, and left out otherwise.
Retarget(f, b, dest, pdom, blocks) ==
    LET to == LivingPostDoms(pdom, blocks, dest)
        safe == {p \in to : p \in Succs(f, b) \/ PhisOf(f, p) = <<>>}
    IN IF dest \in blocks THEN f
       ELSE IF safe # {} THEN ReplaceSucc(f, b, dest, CHOOSE p \in safe : TRUE, "repair")
       ELSE RemoveSucc(f, b, dest, "repair")

\* modify_branch of every block: the destinations are read once.
ModifyBranches(f, pdom, blocks) ==
    LET one(g, b) ==
            LET dests == g.insts[LastInst(g, b)].dests
                retarget(h, a) == Retarget(h, b, dests[a], pdom, blocks)
            IN FoldLeft(retarget, g, Ascending(DOMAIN dests))
    IN FoldLeft(one, f, f.order)

HasInfiniteLoop(f) == ReachExit(f, {}) # Blocks(f)

\* run_dce: `again` if it changed a branch.
RunDce(f) ==
    LET pdom == PostDominators(f)
        live == LiveInsts(f, Controls(f, pdom))
        swept == EliminateDead(f, live)
        edited == ModifyBranches(swept, pdom, LiveBlocks(f, live))
    IN IF HasInfiniteLoop(f) THEN [f |-> f, again |-> FALSE]
       ELSE [f |-> edited, again |-> edited # swept]

\* A live phi takes what comes from a block that is not live.
ForgetsPhiEdge(f) ==
    LET live == LiveInsts(f, Controls(f, PostDominators(f)))
    IN /\ ~HasInfiniteLoop(f)
       /\ \E i \in live : IsPhi(f, i) /\ ~(Incoming(f, i) \subseteq LiveBlocks(f, live))

-----------------------------------------------------------------------------
CONSTANTS Functions,   \* the functions the passes are given
          MaxEdits     \* how many edits a function goes through

VARIABLES orig,     \* the function before
          f,        \* the function
          pass,     \* "edit", "adce" between rounds of the elimination, "run"
          edits,    \* how many edits it has gone through
          never,    \* the arms the caller knows are not taken: <<branch, arm>>
          forgot,   \* the elimination met a case ForgetsPhiEdge describes
          split,    \* the last edit split the critical edges
          at,       \* in the run: [orig, new |-> [block, place]]
          equal,    \* the pairs of equal values
          differs   \* the two have been seen to behave differently

runVars == <<at, equal, differs>>
vars == <<orig, f, pass, edits, never, forgot, split, runVars>>

Start(g) == [block |-> Entry(g), place |-> 1]

Init == /\ f \in Functions /\ orig = f
        /\ pass = "edit" /\ edits = 0
        /\ never = {} /\ forgot = FALSE /\ split = FALSE
        /\ at = [orig |-> Start(f), new |-> Start(f)]
        /\ equal = {<<c, c>> : c \in Const} /\ differs = FALSE

---------------------------------------------------------------------------
(* Edits.  Every one of them is asked for as the passes ask for it.         *)
CanEdit == pass = "edit" /\ edits < MaxEdits /\ f.ok

Edited(g) == /\ f' = g /\ edits' = edits + 1
             /\ UNCHANGED <<orig, pass, runVars>>
Plainly(g) == Edited(g) /\ split' = FALSE /\ UNCHANGED <<never, forgot>>

EdgeSplit == /\ CanEdit
             /\ \E from \in Reachable(f) : \E to \in Succs(f, from) : Plainly(SplitEdge(f, from, to))

BlockSplit == /\ CanEdit
              /\ \E i \in Inserted(f) : ~IsPhi(f, i) /\ Plainly(SplitBlockAt(f, i, "strict"))

TrampolineFolded == CanEdit /\ \E b \in Blocks(f) : Plainly(FoldTrampoline(f, b))

\* LICM asks for the preheader of a loop with its predecessors from outside.
LoopOf(h) == LET dominated == {b \in Reachable(f) : b \notin ReachSteps(SuccsIn(f), {Entry(f)}, {h})}
             IN {h} \cup ReachSteps(PredsIn(f), Preds(f, h) \cap dominated, {h})
PreheaderCreated ==
    /\ CanEdit
    /\ \E h \in Reachable(f) :
          /\ Cardinality(LoopOf(h)) > 1 \/ h \in Succs(f, h)
          /\ Plainly(CreatePreheader(f, h, Ascending(Preds(f, h) \ LoopOf(h))))

\* remove_unreachable_edges of SCCP, which knows that some arms are not taken:
\* the blocks only they lead to go first, then the edges.
ArmsTo(i, dest) == {<<i, a>> : a \in {b \in DOMAIN f.insts[i].dests : f.insts[i].dests[b] = dest}}
Executable(dead, b, dest) == ~(ArmsTo(LastInst(f, b), dest) \subseteq dead)
RemoveUnreachableEdges(dead) ==
    LET succs == [b \in Block |-> IF b \in Blocks(f)
                                  THEN {d \in Succs(f, b) : Executable(dead, b, d)} ELSE {}]
        reached == ReachSteps(succs, {Entry(f)}, {})
        delete(g, b) == IF b \in reached THEN g ELSE DeleteBlockUnreachable(g, b, "strict")
        cut(g, b) == LET remove(h, d) == RemoveSucc(h, b, d, "strict")
                     IN FoldLeft(remove, g, Ascending(Succs(f, b) \ succs[b]))
    IN FoldLeft(cut, FoldLeft(delete, f, f.order), SelectSeq(f.order, LAMBDA b : b \in reached))
UnreachableEdgesRemoved ==
    /\ CanEdit
    /\ \E i \in Inserted(f) :
          /\ f.insts[i].kind = "branch" /\ f.insts[i].args # <<>>
          /\ \E arms \in SUBSET DOMAIN f.insts[i].dests :
                /\ arms # {} /\ {a \in DOMAIN orig.insts[i].dests : <<i, a>> \notin never} \ arms # {}
                /\ never' = never \cup {<<i, a>> : a \in arms}
    /\ Edited(RemoveUnreachableEdges(never')) /\ split' = FALSE /\ UNCHANGED forgot

CleanedUp == CanEdit /\ \E mode \in CleanupMode : Plainly(Cleanup(f, mode))

CriticalEdgesSplit == /\ CanEdit
                      /\ Edited(SplitCriticalEdges(f)) /\ split' = TRUE /\ UNCHANGED <<never, forgot>>

\* A round of the elimination; after the last one the cleanup.
DceRound ==
    /\ CanEdit \/ pass = "adce"
    /\ LET round == RunDce(f)
       IN /\ forgot' = (forgot \/ ForgetsPhiEdge(f))
          /\ IF round.again
             THEN f' = round.f /\ pass' = "adce" /\ UNCHANGED edits
             ELSE f' = Cleanup(round.f, "strict") /\ pass' = "edit" /\ edits' = edits + 1
    /\ split' = FALSE
    /\ UNCHANGED <<orig, never, runVars>>

Edit == \/ EdgeSplit \/ BlockSplit \/ TrampolineFolded \/ PreheaderCreated
        \/ UnreachableEdgesRemoved \/ CleanedUp \/ CriticalEdgesSplit \/ DceRound

---------------------------------------------------------------------------
(* The run.                                                                 *)
StartRun == /\ pass = "edit" /\ f.ok /\ f # orig
            /\ pass' = "run"
            /\ at' = [orig |-> Start(orig), new |-> Start(f)]
            /\ UNCHANGED <<orig, f, edits, never, forgot, split, equal, differs>>

InstAt(g, pc) == g.body[pc.block][pc.place]
After(pc) == [pc EXCEPT !.place = @ + 1]
Top(b) == [block |-> b, place |-> 1]

\* The value phi p of g takes from block b.
Taken(g, p, b) == IF b \in Incoming(g, p)
                  THEN LET args == g.insts[p].args
                       IN args[CHOOSE k \in DOMAIN args : args[k].from = b].val
                  ELSE UndefOf(p)
\* The phis of a block all at once, on one side or the other.
OrigPhis(eq, from, to) ==
    LET phis == ToSet(PhisOf(orig, to))
    IN {e \in eq : e[1] \notin phis}
       \cup UNION {{<<p, e[2]>> : e \in {x \in eq : x[1] = Taken(orig, p, from)}} : p \in phis}
NewPhis(eq, from, to) ==
    LET phis == ToSet(PhisOf(f, to))
    IN {e \in eq : e[2] \notin phis}
       \cup UNION {{<<e[1], p>> : e \in {x \in eq : x[2] = Taken(f, p, from)}} : p \in phis}

o == InstAt(orig, at.orig)
n == InstAt(f, at.new)
OnlyOrig == o \notin Inserted(f) \/ IsPhi(orig, o)
OnlyNew == n \notin Inserted(orig) \/ IsPhi(f, n)
Running == pass = "run" /\ ~differs

\* The new function has phis and jumps of its own.
NewAlone ==
    /\ Running /\ OnlyNew
    /\ CASE IsPhi(f, n) -> at' = [at EXCEPT !.new = After(@)] /\ UNCHANGED <<equal, differs>>
         [] f.insts[n].kind = "branch" ->
               LET to == CHOOSE d \in Dests(f, n) : TRUE
               IN at' = [at EXCEPT !.new = Top(to)] /\ equal' = NewPhis(equal, at.new.block, to)
                  /\ UNCHANGED differs
         [] OTHER -> differs' = TRUE /\ UNCHANGED <<at, equal>>
    /\ UNCHANGED <<orig, f, pass, edits, never, forgot, split>>

\* Of what the old one has alone, nothing may have had an effect.
OrigAlone ==
    /\ Running /\ ~OnlyNew /\ OnlyOrig
    /\ CASE orig.insts[o].kind \in {"phi", "pure"} ->
               /\ at' = [at EXCEPT !.orig = After(@)]
               /\ equal' = IF IsPhi(orig, o) THEN equal ELSE {e \in equal : e[1] # o}
               /\ UNCHANGED differs
         [] orig.insts[o].kind = "branch" ->
               \E a \in {b \in DOMAIN orig.insts[o].dests : <<o, b>> \notin never} :
                  LET to == orig.insts[o].dests[a]
                  IN at' = [at EXCEPT !.orig = Top(to)] /\ equal' = OrigPhis(equal, at.orig.block, to)
                     /\ UNCHANGED differs
         [] OTHER -> differs' = TRUE /\ UNCHANGED <<at, equal>>
    /\ UNCHANGED <<orig, f, pass, edits, never, forgot, split>>

SameArgs == /\ Len(orig.insts[o].args) = Len(f.insts[n].args)
            /\ \A k \in DOMAIN orig.insts[o].args :
                  <<orig.insts[o].args[k].val, f.insts[n].args[k].val>> \in equal

\* An instruction of both: the result is equal if the arguments are.
Together ==
    /\ Running /\ ~OnlyNew /\ ~OnlyOrig /\ o = n
    /\ f.insts[n].kind \in {"pure", "write"}
    /\ differs' = (f.insts[n].kind = "write" /\ ~SameArgs)
    /\ equal' = {e \in equal : o \notin {e[1], e[2]}} \cup (IF SameArgs THEN {<<o, o>>} ELSE {})
    /\ at' = [orig |-> After(at.orig), new |-> After(at.new)]
    /\ UNCHANGED <<orig, f, pass, edits, never, forgot, split>>

\* Both take the same arm; a branch that has become a jump has only one way.
Branch ==
    /\ Running /\ ~OnlyNew /\ ~OnlyOrig /\ o = n
    /\ f.insts[n].kind = "branch"
    /\ \E a \in {b \in DOMAIN orig.insts[o].dests : <<o, b>> \notin never} :
          LET to == orig.insts[o].dests[a]
              newTo == IF a \in DOMAIN f.insts[n].dests THEN f.insts[n].dests[a]
                       ELSE CHOOSE d \in Dests(f, n) : TRUE
          IN /\ at' = [orig |-> Top(to), new |-> Top(newTo)]
             /\ equal' = NewPhis(OrigPhis(equal, at.orig.block, to), at.new.block, newTo)
             /\ differs' = (f.insts[n].args # <<>> /\ (~SameArgs \/ a \notin DOMAIN f.insts[n].dests))
    /\ UNCHANGED <<orig, f, pass, edits, never, forgot, split>>

\* Both end here, or they are at instructions that do not go together.
End ==
    /\ Running /\ ~OnlyNew /\ ~OnlyOrig
    /\ o # n \/ f.insts[n].kind \in {"exit", "noreturn"}
    /\ pass' = "ended"
    /\ differs' = (o # n \/ orig.insts[o].kind # f.insts[n].kind \/ ~SameArgs)
    /\ UNCHANGED <<orig, f, edits, never, forgot, split, at, equal>>

Run == StartRun \/ NewAlone \/ OrigAlone \/ Together \/ Branch \/ End

Next == Edit \/ Run

Spec == Init /\ [][Next]_vars
---------------------------------------------------------------------------
(* Properties.                                                              *)
Editing == pass = "edit" /\ f.ok

\* "Structured CFG editing helpers that keep CFG preds and phi incoming sets
\* consistent" (cfg_edit.rs:16): after every edit and pass, a phi has one
\* argument for each predecessor of its block, parallel edges together, and
\* none for a block that has stopped being one, whatever the edits before did
\* to the block, its phis and the graph around it.
PhisMatchEdges ==
    Editing => \A b \in Blocks(f) : \A k \in DOMAIN PhisOf(f, b) :
        LET args == f.insts[PhisOf(f, b)[k]].args
        IN /\ {args[j].from : j \in DOMAIN args} = Preds(f, b)
           /\ Len(args) = Cardinality(Preds(f, b))

\* The users table, by which change_to_alias finds what it rewrites, is exact
\* after every edit, though phis are taken out of it and put back, branches
\* lose their condition and instructions move between blocks.
UsersTracked == Editing => f.users = UNION {{<<v, i>> : v \in Vals(f, i)} : i \in Inserted(f)}

\* a is on every path from the entry to b.
PathDominates(a, b) == b \notin ReachSteps(SuccsIn(f), {Entry(f)}, {a})
ComesBefore(v, i, b) == \E j, k \in DOMAIN f.body[b] : j < k /\ f.body[b][j] = v /\ f.body[b][k] = i

\* What runs uses only what has been computed: the definition of every operand
\* is still in the function, above its use on every path from the entry, or,
\* for a phi, above the edge the operand comes over.  Simplifying one phi in
\* favour of another, cutting edges before deleting blocks and moving phis to a
\* preheader must all preserve this.
DefinitionsDominate ==
    (Editing /\ ~forgot) =>
        \A b \in Reachable(f) : \A i \in ToSet(f.body[b]) : \A k \in DOMAIN f.insts[i].args :
            LET a == f.insts[i].args[k]
            IN a.val \in Inst =>
                  /\ a.val \in Inserted(f)
                  /\ IF IsPhi(f, i)
                     THEN a.from \in Reachable(f) => PathDominates(InstBlock(f, a.val), a.from)
                     ELSE \/ InstBlock(f, a.val) # b /\ PathDominates(InstBlock(f, a.val), b)
                          \/ ComesBefore(a.val, i, b)

\* No assertion or unwrap of the editor, the cleanup in strict mode or the
\* elimination fails on a function that is well formed, whatever edits and
\* passes it went through before.
EditsNeverPanic == f.ok

\* After the splitter no critical edge is left: splitting one edge neither
\* makes another critical nor, for a branch with two ways to one block, misses
\* one of them.  The backend places the stack shuffles of an edge on this.
NoCriticalEdges == (Editing /\ split) => \A from, to \in Blocks(f) : ~IsCritical(f, from, to)

\* Run beside the function it was, the edited one has the same effects with the
\* same operands in the same order and ends at the same place with the same
\* result, on every path that takes no arm the caller excluded.  Except that
\* the elimination may have met a live phi with a dead incoming block.
SameBehaviour == differs => forgot

\* Every edit and pass leaves a function the next one can be given.
WellFormed == PhisMatchEdges /\ UsersTracked /\ DefinitionsDominate

====
