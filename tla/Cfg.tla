---- MODULE Cfg ----
(* The control flow graph of a function and its post-order iterator          *)
(* (crates/ir/src/cfg.rs).  Every analysis of crates/codegen that walks the  *)
(* graph starts from this iterator, so they share its state here: the graph  *)
(* a function was given, and the iterator's node states and stack.           *)
EXTENDS Naturals, Sequences, FiniteSets, SequencesExt, Paths

CONSTANTS Block,     \* BlockId: the numbers, in the order the BTreeSets keep
          NoBlock,   \* the None of a PackedOption<BlockId>
          Graphs     \* the graphs explored: records [entry, succs]

ASSUME BlockAssumption == IsFiniteSet(Block) /\ Block \subseteq Nat /\ NoBlock \notin Block
ASSUME GraphsAssumption == Graphs \subseteq [entry : Block, succs : [Block -> SUBSET Block]]

VARIABLES cfg,          \* ControlFlowGraph: entry and successors
          node_state,   \* CfgPostOrder::node_state
          stack,        \* CfgPostOrder::stack, top at the end
          post_order    \* the blocks the iterator has returned so far

iterVars == <<node_state, stack, post_order>>

Succs(b) == cfg.succs[b]
\* BlockNode keeps both directions; add_edge writes them together.
Preds(b) == {p \in Block : b \in cfg.succs[p]}
Edges == {e \in Block \X Block : e[2] \in cfg.succs[e[1]]}

\* The order in which a BTreeSet of blocks is iterated: the one sequence of
\* this set.
Ascending(S) == {s \in [1 .. Cardinality(S) -> S] :
                   /\ \A b \in S : \E i \in DOMAIN s : s[i] = b
                   /\ \A i, j \in DOMAIN s : i < j => s[i] < s[j]}

TopBlock == stack[Len(stack)]

---------------------------------------------------------------------------
IterInit == /\ cfg \in Graphs
            /\ node_state = [b \in Block |-> "unvisited"]
            /\ stack = <<cfg.entry>>
            /\ post_order = <<>>

\* First sight of the block on top: mark it and push what it leads to.
Visit == /\ stack # <<>>
         /\ node_state[TopBlock] = "unvisited"
         /\ node_state' = [node_state EXCEPT ![TopBlock] = "visited"]
         /\ \E s \in Ascending({b \in Succs(TopBlock) : node_state'[b] = "unvisited"}) :
               stack' = stack \o s
         /\ UNCHANGED <<cfg, post_order>>

\* Back at a visited block: pop it, and return it unless it was returned
\* through another of its copies on the stack.
Pop == /\ stack # <<>>
       /\ node_state[TopBlock] # "unvisited"
       /\ stack' = SubSeq(stack, 1, Len(stack) - 1)
       /\ IF node_state[TopBlock] = "finished"
          THEN UNCHANGED <<node_state, post_order>>
          ELSE /\ node_state' = [node_state EXCEPT ![TopBlock] = "finished"]
               /\ post_order' = Append(post_order, TopBlock)
       /\ UNCHANGED cfg

IterStep == Visit \/ Pop
IterDone == stack = <<>>

---------------------------------------------------------------------------
(* Reference definitions, by paths.                                         *)

Reachable == ReachSteps(cfg.succs, {cfg.entry}, {})
\* The blocks a path of at least one edge leads to from b.
ReachedFrom(b) == ReachSteps(cfg.succs, Succs(b), {})

PlaceOf(b) == CHOOSE i \in DOMAIN post_order : post_order[i] = b

\* At its end the iterator has returned every block reachable from the entry,
\* each exactly once: however many copies of a block the stack held, one of
\* them only is returned, and no successor is skipped because it was visited
\* but not yet finished.  And an edge whose target comes after its source in
\* the order closes a cycle: reverse post-order is topological outside cycles,
\* on which the dominators, the loop headers and the components rest.
PostOrderExact ==
    IterDone =>
        /\ ToSet(post_order) = Reachable
        /\ Len(post_order) = Cardinality(Reachable)
        /\ \A e \in Edges :
              (e[1] \in Reachable /\ PlaceOf(e[2]) >= PlaceOf(e[1])) => e[1] \in ReachedFrom(e[2])
====
