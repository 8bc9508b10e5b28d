---- MODULE DomTree ----
(* Dominators and dominance frontiers (crates/codegen/src/domtree.rs): the   *)
(* iteration of Cooper, Harvey and Kennedy over the reverse post-order, one  *)
(* block a step, then the frontiers, one block a step.                       *)
EXTENDS Cfg, FiniteSetsExt

VARIABLES pass,      \* what DomTree is computing
          doms,      \* DomTree::doms
          changed,   \* the loop's flag
          at,        \* index in rpo of the block the loop is at
          df         \* DFSet: block -> the blocks of its frontier

domVars == <<pass, doms, changed, at, df>>
dtVars == <<cfg, iterVars, domVars>>

rpo == Reverse(post_order)
\* Mutant: the numbers count up along the reverse post-order.
RpoNumUp(b) == Len(post_order) - PlaceOf(b)

\* rpo_nums: counted down, so the entry has the largest number.
RpoNum(b) == PlaceOf(b)

IdomOf(b) == IF b = cfg.entry THEN NoBlock ELSE doms[b]
\* DomTree::is_reachable.
IsReachable(b) == IdomOf(b) # NoBlock

\* The blocks strictly_dominates(., b) answers true for: up the tree.
Up(b) == {IdomOf(b)} \ {NoBlock}
StrictDominators(b) == ReachSteps([c \in Block |-> Up(c)], Up(b), {})
StrictlyDominates(a, b) == a \in StrictDominators(b)
Dominates(a, b) == a = b \/ StrictlyDominates(a, b)

\* The block with the smaller number moves up.
MoveUp[p \in Block \X Block] ==
    IF p[1] = p[2] THEN p
    ELSE IF RpoNum(p[1]) < RpoNum(p[2]) THEN <<doms[p[1]], p[2]>>
    ELSE <<p[1], doms[p[2]]>>

\* DomTree::intersect: until they meet, after a move for each block of either chain at most.
Intersect(b1, b2) ==
    LET n == 2 * Len(post_order)
        moved[k \in 0 .. n] == IF k = 0 THEN <<b1, b2>> ELSE MoveUp[moved[k - 1]]
    IN moved[n][1]

\* The dominator a round gives a block: the meet of its processed predecessors.
NewDom(preds) ==
    LET meet[k \in 1 .. Len(preds)] ==
            IF k = 1 THEN preds[1] ELSE Intersect(meet[k - 1], preds[k])
    IN meet[Len(preds)]

---------------------------------------------------------------------------
DomInit == /\ IterInit
           /\ pass = "order"
           /\ doms = [b \in Block |-> NoBlock]
           /\ changed = FALSE
           /\ at = 1
           /\ df = [b \in Block |-> {}]

Order == pass = "order" /\ IterStep /\ UNCHANGED domVars

\* The entry is its own dominator, and the first round begins.
StartDoms == /\ pass = "order" /\ IterDone
             /\ pass' = "doms"
             /\ doms' = [doms EXCEPT ![cfg.entry] = cfg.entry]
             /\ changed' = FALSE
             /\ at' = 2
             /\ UNCHANGED <<cfg, iterVars, df>>

ProcessBlock ==
    /\ pass = "doms" /\ at <= Len(rpo)
    /\ LET b == rpo[at]
       IN \E preds \in Ascending({p \in Preds(b) : doms[p] # NoBlock}) :
             IF preds = <<>> THEN UNCHANGED <<doms, changed>>
             ELSE /\ doms' = [doms EXCEPT ![b] = NewDom(preds)]
                  /\ changed' = (changed \/ doms'[b] # doms[b])
    /\ at' = at + 1
    /\ UNCHANGED <<cfg, iterVars, pass, df>>

RoundStart == 2

\* A round that changed nothing is the last.
EndRound == /\ pass = "doms" /\ at > Len(rpo)
            /\ IF changed THEN pass' = pass /\ at' = RoundStart
                               ELSE pass' = "frontiers" /\ at' = 1
            /\ changed' = FALSE
            /\ UNCHANGED <<cfg, iterVars, doms, df>>

FirstRunner(p) == p

\* From each predecessor of a join up to its immediate dominator.
Runners(b) ==
    ReachSteps([r \in Block |-> Up(r)], {FirstRunner(p) : p \in Preds(b)},
               {r \in Block : r = doms[b] \/ ~IsReachable(r)})

FrontierOf ==
    /\ pass = "frontiers" /\ at <= Len(rpo)
    /\ LET b == rpo[at]
           runners == IF Cardinality(Preds(b)) < 2 THEN {} ELSE Runners(b)
       IN df' = [r \in Block |-> IF r \in runners THEN df[r] \cup {b} ELSE df[r]]
    /\ at' = at + 1
    /\ UNCHANGED <<cfg, iterVars, pass, doms, changed>>

FrontiersDone == /\ pass = "frontiers" /\ at > Len(rpo)
                 /\ pass' = "done" /\ at' = 1
                 /\ UNCHANGED <<cfg, iterVars, doms, changed, df>>

DomNext == Order \/ StartDoms \/ ProcessBlock \/ EndRound \/ FrontierOf \/ FrontiersDone

---------------------------------------------------------------------------
(* Reference definitions, by paths.                                         *)

\* Every path from the entry to b goes through a.
PathDominates(a, b) == /\ b \in Reachable
                       /\ b \notin ReachSteps(cfg.succs, {cfg.entry}, {a})
PathStrictDominators(b) == {a \in Block \ {b} : PathDominates(a, b)}

\* b dominates a predecessor of y but not y strictly.
PathFrontier(b) ==
    {y \in Reachable : /\ b \notin PathStrictDominators(y)
                       /\ \E p \in Preds(y) : p \in Reachable /\ PathDominates(b, p)}

\* While rounds go on, the tree of the moment never loses a true dominator:
\* what a block's chain lacks, the block really can be reached without.  A
\* chain is always made of processed blocks, so the unwraps of intersect are
\* never of a None.  When the rounds end, a block is in b's chain exactly if
\* every path from the entry to b goes through it, and unreachable blocks have
\* no dominator.
DominatorsExact ==
    /\ pass = "doms" =>
          \A b \in Block : doms[b] # NoBlock =>
              /\ doms[doms[b]] # NoBlock
              /\ PathStrictDominators(b) \subseteq StrictDominators(b)
    /\ pass = "frontiers" =>
          \A b \in Block : /\ StrictDominators(b) = PathStrictDominators(b)
                           /\ (doms[b] # NoBlock) = (b \in Reachable)

\* The frontier of every block but the entry's own holds exactly the joins at
\* which its dominance ends: unreachable predecessors of a join, which have no
\* dominator to climb to, add nothing and stop nothing.  The entry as a join
\* is left out: the walk ends at doms[entry] = entry, so a loop back to the
\* entry is in the frontier of the blocks of the loop except the entry.
FrontiersExact ==
    (pass = "done" /\ at = 1) =>
        \A b \in Block : df[b] \ {cfg.entry} = PathFrontier(b) \ {cfg.entry}

---------------------------------------------------------------------------
(* Post-dominators and post-dominance frontiers                              *)
(* (crates/codegen/src/post_domtree.rs): the same on the reversed graph of a *)
(* function, completed by a dummy entry, from which the function may run or  *)
(* be skipped, and a dummy exit after every real exit.                       *)

CONSTANTS Real,        \* the blocks of the function
          Reversals,   \* the functions whose reversed graphs are among Graphs
          DummyEntry,  \* PostDomTree::entry: dfg.blocks.len()
          DummyExit    \* PostDomTree::exit: the number after it

ASSUME DummyAssumption ==
    /\ Block = Real \cup {DummyEntry, DummyExit}
    /\ DummyEntry \notin Real /\ DummyExit \notin Real /\ DummyEntry # DummyExit

\* Mutant: the function cannot be skipped.
DummySuccsNoSkip(fn) == {fn.entry}

\* The edges of the dummy entry: into the function and past it.
DummySuccs(fn) == {fn.entry, DummyExit}

\* What compute puts in place of the graph of a function [entry, succs, exits]:
\* the edges added, then all of them reversed.
PostGraph(fn) ==
    LET forward(b) == CASE b = DummyEntry -> DummySuccs(fn)
                        [] b = DummyExit -> {}
                        [] b \in fn.exits -> {DummyExit}
                        [] OTHER -> fn.succs[b]
    IN [entry |-> DummyExit,
        succs |-> [b \in Block |-> {p \in Block : b \in forward(p)}]]

\* The reversed graphs are those that compute makes of functions.
ASSUME ReversalsAssumption ==
    /\ Reversals \subseteq [entry : Real, succs : [Block -> SUBSET Block], exits : SUBSET Real]
    /\ {g \in Graphs : g.entry = DummyExit} \subseteq {PostGraph(fn) : fn \in Reversals}

\* PDFSet::frontiers.
Frontiers(b) == df[b] \ {DummyEntry, DummyExit}

(* Reference definitions, by the paths of the function itself.              *)
ForwardSuccs == [b \in Block |-> {s \in Block : b \in cfg.succs[s]}]
Ends(b) == DummyExit \in ReachSteps(ForwardSuccs, {b}, {})

\* Every way from b to an exit goes through a.
PathPostDominates(a, b) ==
    Ends(b) /\ DummyExit \notin ReachSteps(ForwardSuccs, {b}, {a})

\* The graph is the completed, reversed graph of a function.
Reversed == cfg.entry = DummyExit

\* A block is answered to post-dominate another exactly if the function cannot
\* get from the other to an exit without it; a block that can reach no exit,
\* inside or behind an endless loop, is unreachable and has no post-dominator.
\* c is in the frontier of b exactly if c decides whether b runs: one way out of
\* c always leads to b and another may avoid it.  Dead code elimination keeps
\* the branch of c for no other reason.  What runs whenever the function is
\* entered depends on the dummy entry, and nothing else in the function does.
ControlDependence ==
    (pass = "done" /\ Reversed) =>
        \A b \in Real :
            /\ IsReachable(b) = Ends(b)
            /\ \A a \in Real \ {b} : StrictlyDominates(a, b) = PathPostDominates(a, b)
            /\ Frontiers(b) =
                  {c \in Real : /\ \E s \in ForwardSuccs[c] : PathPostDominates(b, s)
                                /\ c = b \/ ~PathPostDominates(b, c)}
            /\ DummyEntry \in df[b] <=>
                  \E e \in ForwardSuccs[DummyEntry] \ {DummyExit} : PathPostDominates(b, e)
====
