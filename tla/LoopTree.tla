---- MODULE LoopTree ----
(* Natural loops and their nesting (crates/codegen/src/loop_analysis.rs),    *)
(* computed after the dominators: the headers in reverse post-order, then *)
(* from the last header to the first a walk from the loop's latches against  *)
(* the edges, one worklist item a step; and the iterator over a loop's       *)
(* blocks that the users of the tree ask for.                                *)
EXTENDS DomTree

VARIABLES loop_pass,      \* what LoopTree is doing
          header,         \* loops: the header of each, in order of index
          parent,         \* LoopData::parent
          children,       \* LoopData::children
          block_to_loop,  \* the loop a block is mapped to
          cur_lp,         \* the loop analyze_loops is at
          worklist,       \* its worklist, last item taken first
          body            \* BlocksInLoopPostOrder: [lp, state, stack, order]

treeVars == <<header, parent, children, block_to_loop>>

NoLoop == 0
Loops == DOMAIN header

NoBody == [lp |-> NoLoop, state |-> [b \in Block |-> "unvisited"],
           stack |-> <<>>, order |-> <<>>]

OutermostParent(lp) ==
    LET up[l \in Loops] == IF parent[l] = NoLoop THEN l ELSE up[parent[l]]
    IN up[lp]

\* LoopTree::is_in_loop: from the block's loop up the parents.
IsInLoop(b, lp) ==
    LET under[l \in Loops \cup {NoLoop}] == l # NoLoop /\ (l = lp \/ under[parent[l]])
    IN under[block_to_loop[b]]

Latches(h) == {p \in Preds(h) : Dominates(h, p)}

---------------------------------------------------------------------------
LoopInit == /\ DomInit
            /\ loop_pass = "headers"
            /\ header = <<>> /\ parent = <<>> /\ children = <<>>
            /\ block_to_loop = [b \in Block |-> NoLoop]
            /\ cur_lp = NoLoop
            /\ worklist = <<>>
            /\ body = NoBody

\* A block that dominates one of its predecessors heads a loop.
FindHeader ==
    /\ pass = "done" /\ loop_pass = "headers" /\ at <= Len(rpo)
    /\ IF Latches(rpo[at]) # {}
       THEN /\ header' = Append(header, rpo[at])
            /\ parent' = Append(parent, NoLoop)
            /\ children' = Append(children, <<>>)
       ELSE UNCHANGED <<header, parent, children>>
    /\ at' = at + 1
    /\ UNCHANGED <<cfg, iterVars, pass, doms, changed, df,
                   loop_pass, block_to_loop, cur_lp, worklist, body>>

HeadersDone == /\ pass = "done" /\ loop_pass = "headers" /\ at > Len(rpo)
               /\ loop_pass' = "next"
               /\ cur_lp' = Len(header)
               /\ UNCHANGED <<dtVars, treeVars, worklist, body>>

\* The latches of the next loop, inner loops first.
StartLoop == /\ loop_pass = "next" /\ cur_lp # NoLoop
             /\ \E s \in Ascending(Latches(header[cur_lp])) : worklist' = s
             /\ loop_pass' = "walk"
             /\ UNCHANGED <<dtVars, treeVars, cur_lp, body>>

\* A block of no loop yet belongs to this one, and so do its predecessors.
WalkUnmapped(b) ==
    /\ block_to_loop[b] = NoLoop
    /\ block_to_loop' = [block_to_loop EXCEPT ![b] = cur_lp]
    /\ \E s \in Ascending(IF b = header[cur_lp] THEN {} ELSE Preds(b)) : worklist' = Front(worklist) \o s
    /\ UNCHANGED <<header, parent, children>>

\* Mutant: not the outermost loop around the block.
NewChildInner(lp) == lp
NewChild(lp) == OutermostParent(lp)

Above(lp) == IF OutermostParent(lp) = cur_lp THEN {} ELSE Preds(header[lp])

\* A block of an inner loop: the outermost loop around it becomes a child of
\* this one, and the walk goes on above the header of the block's own loop.
WalkMapped(b) ==
    LET lp == block_to_loop[b]
    IN /\ lp # NoLoop
       /\ IF OutermostParent(lp) = cur_lp
          THEN UNCHANGED <<parent, children>>
          ELSE /\ children' = [children EXCEPT ![cur_lp] = Append(@, NewChild(lp))]
               /\ parent' = [parent EXCEPT ![NewChild(lp)] = cur_lp]
       /\ \E s \in Ascending(Above(lp)) : worklist' = Front(worklist) \o s
       /\ UNCHANGED <<header, block_to_loop>>

Walk == /\ loop_pass = "walk" /\ worklist # <<>>
        /\ WalkUnmapped(Last(worklist)) \/ WalkMapped(Last(worklist))
        /\ UNCHANGED <<dtVars, loop_pass, cur_lp, body>>

WalkDone == /\ loop_pass = "walk" /\ worklist = <<>>
            /\ loop_pass' = "next" /\ cur_lp' = cur_lp - 1
            /\ UNCHANGED <<dtVars, treeVars, worklist, body>>

LoopsDone == /\ loop_pass = "next" /\ cur_lp = NoLoop
             /\ loop_pass' = "mapped"
             /\ UNCHANGED <<dtVars, treeVars, cur_lp, worklist, body>>

\* iter_blocks_post_order(lp), for any loop.
StartIterate == /\ loop_pass = "mapped" /\ body = NoBody
                /\ \E lp \in Loops :
                      body' = [NoBody EXCEPT !.lp = lp, !.stack = <<header[lp]>>]
                /\ loop_pass' = "iterate"
                /\ UNCHANGED <<dtVars, treeVars, cur_lp, worklist>>

IterateVisit ==
    /\ loop_pass = "iterate" /\ body.stack # <<>>
    /\ LET b == Last(body.stack)
       IN /\ body.state[b] = "unvisited"
          /\ \E s \in Ascending({n \in Succs(b) : /\ n # b
                                                  /\ body.state[n] = "unvisited"
                                                  /\ IsInLoop(n, body.lp)}) :
                body' = [body EXCEPT !.state[b] = "visited", !.stack = @ \o s]
    /\ UNCHANGED <<dtVars, loop_pass, treeVars, cur_lp, worklist>>

IteratePop ==
    /\ loop_pass = "iterate" /\ body.stack # <<>>
    /\ LET b == Last(body.stack)
       IN /\ body.state[b] # "unvisited"
          /\ body' = [body EXCEPT
                        !.stack = Front(@),
                        !.state[b] = "finished",
                        !.order = IF body.state[b] = "visited" THEN Append(@, b) ELSE @]
    /\ UNCHANGED <<dtVars, loop_pass, treeVars, cur_lp, worklist>>

LoopNext == \/ FindHeader \/ HeadersDone \/ StartLoop
            \/ Walk \/ WalkDone \/ LoopsDone
            \/ StartIterate \/ IterateVisit \/ IteratePop

---------------------------------------------------------------------------
(* The natural loop of a header, by paths: what reaches a latch without     *)
(* passing through the header.                                              *)
NaturalLoop(h) ==
    {h} \cup ReachSteps([b \in Block |-> Preds(b)], {p \in Preds(h) : PathDominates(h, p)}, {h})

OnlyReachedJump == \A e \in Edges : e[2] \in Reachable => e[1] \in Reachable

\* How many loops a block is in.
Depth(b) == Cardinality({lp \in Loops : b \in NaturalLoop(header[lp])})
TwoDeep == \A b \in Block : Depth(b) <= 2

\* After each walk, a block the tree puts in a loop, directly
\* or through inner loops, is in that natural loop: no block outside gets
\* hoisted from.  Outer loops have the smaller index, whatever order the walks
\* met the inner ones in, and a loop is the child of its parent exactly once.
\* All this of functions in which only reachable blocks jump to reachable ones:
\* the walks also go up to blocks that are not, which may join two loops.
LoopsSound ==
    (loop_pass = "next" /\ OnlyReachedJump) =>
        \A lp \in Loops :
            /\ {b \in Block : IsInLoop(b, lp)} \subseteq NaturalLoop(header[lp])
            /\ parent[lp] # NoLoop => parent[lp] < lp
            /\ \A out \in Loops :
                  Cardinality({i \in DOMAIN children[out] : children[out][i] = lp})
                     = (IF parent[lp] = out THEN 1 ELSE 0)

\* As long as loops are nested at most two deep, the tree is exact: a block is
\* in the loops it is mapped into and in no other, and it is mapped to the
\* innermost of them.  The iterator then returns the blocks of its loop, each
\* once, the header last.
TwoDeepExact ==
    /\ (loop_pass = "next" /\ cur_lp = NoLoop /\ OnlyReachedJump /\ TwoDeep) =>
          \A lp \in Loops :
              LET blocks == NaturalLoop(header[lp])
              IN /\ {b \in Block : IsInLoop(b, lp)} = blocks
                 /\ \A b \in Block, out \in Loops :
                       (block_to_loop[b] = out /\ b \in blocks) =>
                           NaturalLoop(header[out]) \subseteq blocks
    /\ (loop_pass = "iterate" /\ body.stack = <<>> /\ OnlyReachedJump /\ TwoDeep) =>
          /\ Len(body.order) = Cardinality(ToSet(body.order))
          /\ Last(body.order) = header[body.lp]
          /\ ToSet(body.order) = NaturalLoop(header[body.lp])

\* What the comment on block_to_loop says (loop_analysis.rs:15): blocks are
\* mapped to the loop that contains them, the innermost if there are several.
BlocksMappedToInnermost ==
    loop_pass = "mapped" => \A lp \in Loops : {b \in Block : IsInLoop(b, lp)} = NaturalLoop(header[lp])
====
