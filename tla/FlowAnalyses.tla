---- MODULE FlowAnalyses ----
(* The analyses of the control flow graph one after the other, as the passes *)
(* and the backend ask for them: dominators and frontiers of the graph, or   *)
(* post-dominators and control dependence of its reversal; then the loops,   *)
(* and then the blocks of any one loop or the components of the graph.       *)
EXTENDS DomTree, LoopTree, CfgScc

loopVars == <<loop_pass, treeVars, cur_lp, worklist, body>>
componentVars == <<sccVars, topoVars>>
flowVars == <<dtVars, loopVars, componentVars>>

Init == LoopInit /\ SccInit

Dominators == DomNext /\ UNCHANGED <<loopVars, componentVars>>
LoopNest == ~Reversed /\ scc_pass = "order" /\ LoopNext /\ UNCHANGED componentVars
Components == loop_pass = "mapped" /\ SccNext /\ UNCHANGED <<domVars, loopVars>>

Next == Dominators \/ LoopNest \/ Components

Spec == Init /\ [][Next]_flowVars /\ WF_flowVars(Next)

---------------------------------------------------------------------------
\* The order every analysis starts from is a post-order of the reachable blocks.
OrderExact == pass = "order" => PostOrderExact

\* Dominators and frontiers say what the paths from the entry say, in every round.
DominanceExact == OrderExact /\ DominatorsExact /\ FrontiersExact

\* Loops hold nothing but their natural loops, and all of them two deep.
LoopsExact == LoopsSound /\ TwoDeepExact

\* Components are the cycles of the graph, and their order is topological.
SccsExact == ComponentsExact /\ TopoOrderExact

\* Every analysis ends, on irreducible graphs too: the rounds of the
\* dominators, the walks of the loops that share blocks, the iterator and the
\* searches for components.
Terminates == <>(/\ pass = "done"
                 /\ \/ Reversed
                    \/ scc_pass = "done"
                    \/ body.lp # NoLoop /\ body.stack = <<>>)
====
