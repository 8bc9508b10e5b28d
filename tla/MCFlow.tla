---- MODULE MCFlow ----
EXTENDS FlowAnalyses

MCReal == 0 .. 3
MCBlock == 0 .. 5

\* The functions of three blocks with any terminators (br_table reaches any
\* number of blocks), started at any block; the blocks without targets return
\* or just end.
Functions3 ==
    {fn \in [entry : 0 .. 2,
             succs : {[b \in MCBlock |-> IF b > 2 THEN {} ELSE f[b]] :
                        f \in [0 .. 2 -> SUBSET (0 .. 2)]},
             exits : SUBSET (0 .. 2)] :
        \A b \in fn.exits : fn.succs[b] = {}}

\* The functions of four blocks with terminators of at most two targets, all
\* reached; the blocks without targets return.
TwoWay ==
    {[b \in MCBlock |-> IF b > 3 THEN {} ELSE f[b]] :
        f \in {g \in [MCReal -> {S \in SUBSET MCReal : Cardinality(S) <= 2}] :
                 ReachSteps(g, {0}, {}) = MCReal}}
Functions4 ==
    {[entry |-> 0, succs |-> f, exits |-> {b \in MCReal : f[b] = {}}] : f \in TwoWay}

\* Of the functions of four blocks, those that can end: of the others nothing is left in
\* the reversed graph, as for those of three blocks.
MCReversals == Functions3 \cup {fn \in Functions4 : fn.exits # {}}
MCGraphs == {PostGraph(fn) : fn \in MCReversals}
            \cup {[entry |-> fn.entry, succs |-> fn.succs] : fn \in Functions3 \cup Functions4}

\* The graphs of the four blocks alone.
NestGraphs == {[entry |-> 0, succs |-> f] : f \in TwoWay}
====
