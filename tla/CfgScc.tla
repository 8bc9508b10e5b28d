---- MODULE CfgScc ----
(* Strongly connected components of the control flow graph and a topological *)
(* order of them (crates/codegen/src/cfg_scc.rs): the post-order first, then *)
(* from each block in reverse post-order a search against the edges, one     *)
(* popped block a step, then the components in order as they become ready.   *)
EXTENDS Cfg, FiniteSetsExt

VARIABLES scc_pass,      \* what CfgSccAnalysis is computing
          root,          \* index in cfg_rpo of the block the search starts at
          work,          \* the stack of the search
          seen,          \* visited
          block_to_scc,  \* the component of a block
          scc_count,     \* how many components there are
          indegree,      \* predecessor components not in topo_order yet
          ready,         \* the components without any, by their first block
          topo_order     \* the order so far

sccVars == <<scc_pass, root, work, seen, block_to_scc, scc_count>>
topoVars == <<indegree, ready, topo_order>>

NoScc == 0

cfg_rpo == Reverse(post_order)
InReach(b) == b \in ToSet(post_order)

Sccs == 1 .. scc_count
BlocksOf(scc) == {b \in Block : block_to_scc[b] = scc}
\* blocks_rpo[0].
TiebreakKey(scc) == CHOOSE b \in BlocksOf(scc) : \A c \in BlocksOf(scc) : PlaceOf(c) <= PlaceOf(b)

---------------------------------------------------------------------------
(* SccData.                                                                 *)
EntryBlocks(scc) == {b \in BlocksOf(scc) :
    \/ b = cfg.entry
    \/ \E p \in Preds(b) : InReach(p) /\ block_to_scc[p] # scc}
SuccSccs(scc) == {block_to_scc[s] : s \in UNION {Succs(b) : b \in BlocksOf(scc)}} \ {scc}
PredSccs(scc) == {p \in Sccs : scc \in SuccSccs(p)}
IndegreeOf(scc) == Cardinality(PredSccs(scc))
IsCycle(scc) == \/ Cardinality(BlocksOf(scc)) > 1
                \/ \E b \in BlocksOf(scc) : b \in Succs(b)
IsMultiEntry(scc) == Cardinality(EntryBlocks(scc)) > 1

---------------------------------------------------------------------------
SccInit == /\ scc_pass = "order"
           /\ root = 1
           /\ work = <<>>
           /\ seen = {}
           /\ block_to_scc = [b \in Block |-> NoScc]
           /\ scc_count = 0
           /\ indegree = <<>> /\ ready = {} /\ topo_order = <<>>

OrderDone == /\ scc_pass = "order" /\ IterDone
             /\ scc_pass' = "roots"
             /\ UNCHANGED <<cfg, iterVars, root, work, seen, block_to_scc, scc_count, topoVars>>

\* Mutant: the blocks in post-order, not in reverse.
RootInPostOrder(i) == post_order[i]

Root(i) == cfg_rpo[i]

\* A block that no search has seen starts a component.
NextRoot == /\ scc_pass = "roots" /\ root <= Len(cfg_rpo)
            /\ IF Root(root) \in seen
               THEN UNCHANGED <<scc_pass, work, seen, scc_count>>
               ELSE /\ scc_pass' = "search"
                    /\ work' = <<Root(root)>>
                    /\ seen' = seen \cup {Root(root)}
                    /\ scc_count' = scc_count + 1
            /\ root' = root + 1
            /\ UNCHANGED <<cfg, iterVars, block_to_scc, topoVars>>

Joining(b) == {p \in Preds(b) : InReach(p)} \ seen

\* Mutant: the block is not popped.
WorkNotPopped == work
WorkPopped == Front(work)

Search == /\ scc_pass = "search" /\ work # <<>>
          /\ LET b == Last(work)
             IN /\ block_to_scc' = [block_to_scc EXCEPT ![b] = scc_count]
                /\ seen' = seen \cup Joining(b)
                /\ \E s \in Ascending(Joining(b)) : work' = WorkPopped \o s
          /\ UNCHANGED <<cfg, iterVars, scc_pass, root, scc_count, topoVars>>

SearchDone == /\ scc_pass = "search" /\ work = <<>>
              /\ scc_pass' = "roots"
              /\ UNCHANGED <<cfg, iterVars, root, work, seen, block_to_scc, scc_count, topoVars>>

\* compute_topo_order begins with the components nothing leads to.
StartTopo == /\ scc_pass = "roots" /\ root > Len(cfg_rpo)
             /\ scc_pass' = "topo"
             /\ indegree' = [scc \in Sccs |-> IndegreeOf(scc)]
             /\ ready' = {scc \in Sccs : indegree'[scc] = 0}
             /\ UNCHANGED <<cfg, iterVars, root, work, seen, block_to_scc, scc_count, topo_order>>

\* The ready component with the smallest first block is next, and what it leads
\* to may become ready.
TopoStep ==
    /\ scc_pass = "topo" /\ ready # {}
    /\ LET scc == CHOOSE c \in ready : \A d \in ready : TiebreakKey(c) <= TiebreakKey(d)
       IN /\ topo_order' = Append(topo_order, scc)
          /\ indegree' = [c \in Sccs |-> IF c \in SuccSccs(scc) THEN indegree[c] - 1
                                         ELSE indegree[c]]
          /\ ready' = (ready \ {scc}) \cup {c \in SuccSccs(scc) : indegree'[c] = 0}
    /\ UNCHANGED <<cfg, iterVars, sccVars>>

TopoDone == /\ scc_pass = "topo" /\ ready = {}
            /\ scc_pass' = "done"
            /\ UNCHANGED <<cfg, iterVars, root, work, seen, block_to_scc, scc_count, topoVars>>

SccNext == \/ OrderDone \/ NextRoot \/ Search \/ SearchDone
           \/ StartTopo \/ TopoStep \/ TopoDone

---------------------------------------------------------------------------

OnCycle(a, b) == a = b \/ (a \in ReachedFrom(b) /\ b \in ReachedFrom(a))

\* Between searches, the components found are complete: two blocks are in the
\* same one exactly if each reaches the other, and unreachable blocks, even
\* those that lead into a component, are in none; and a component is a cycle
\* exactly if its blocks reach themselves.  header(), the one entry of a
\* component, dominates it: only because of this a template fixed at the header
\* can speak for its blocks.
ComponentsExact ==
    scc_pass \in {"roots", "topo", "done"} =>
        /\ \A a \in Block :
              /\ block_to_scc[a] # NoScc =>
                    /\ BlocksOf(block_to_scc[a]) = {b \in Reachable : OnCycle(a, b)}
                    /\ IsCycle(block_to_scc[a]) = (a \in ReachedFrom(a))
              /\ scc_pass # "roots" => (block_to_scc[a] # NoScc) = (a \in Reachable)
        /\ scc_pass = "done" =>
              \A scc \in Sccs : \A h \in EntryBlocks(scc) :
                  ~IsMultiEntry(scc) =>
                      BlocksOf(scc) \cap ReachSteps(cfg.succs, {cfg.entry}, {h}) = {}

\* An indegree counts the predecessor components that are still to come.  The
\* order is topological and leaves no component out, whatever cycles the graph
\* has (the debug_assert at cfg_scc.rs:246), and its ties are broken by blocks,
\* so that it does not depend on how components were numbered.
TopoOrderExact ==
    /\ scc_pass = "topo" =>
          \A scc \in Sccs : indegree[scc] = Cardinality(PredSccs(scc) \ ToSet(topo_order))
    /\ scc_pass = "done" =>
          /\ Len(topo_order) = scc_count /\ ToSet(topo_order) = Sccs
          /\ \A i, j \in DOMAIN topo_order :
                /\ topo_order[j] \in SuccSccs(topo_order[i]) => i < j
                /\ (i < j /\ \A k \in i .. j - 1 : topo_order[j] \notin SuccSccs(topo_order[k]))
                      => TiebreakKey(topo_order[i]) < TiebreakKey(topo_order[j])
====
