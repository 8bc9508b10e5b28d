---- MODULE MCLiveness ----
EXTENDS Liveness

MCBlock == 1 .. 3
MCValue == {"a", "d", "e", "u", "i"}
Imms == {"i"}

Use(v, p) == [val |-> v, pred |-> p]
Op(kind, res, vals) == [kind |-> kind, res |-> res, uses |-> [k \in DOMAIN vals |-> Use(vals[k], 0)]]

\* The graphs of three blocks with the entry 1, which nothing jumps back to.
Graphs == [MCBlock -> SUBSET {2, 3}]
ReachIn(g, avoid) ==
    LET grow(S) == S \cup (UNION {g[b] : b \in S} \ avoid)
    IN grow(grow(grow({1} \ avoid)))
DominatesIn(g, a, b) == b \in ReachIn(g, {}) /\ b \notin ReachIn(g, {a})

\* A function of graph g: d is defined in block x, by an op or by a call; the
\* blocks of U use it; block y has a phi e of d, where it is defined, and the
\* argument a; block c has a call; block z uses e.
Code(g, x, kind, U, y, c, z) ==
    [b \in MCBlock |->
        (IF b = y
         THEN <<[kind |-> "phi", res |-> "e",
                 uses |-> [n \in 1 .. Cardinality({p \in MCBlock : y \in g[p]}) |->
                    LET p == SetToSortSeq({q \in MCBlock : y \in g[q]}, <)[n]
                    IN Use(IF DominatesIn(g, x, p) THEN "d" ELSE "a", p)]]>>
         ELSE <<>>)
        \o (IF b = x THEN <<Op(kind, "d", <<"a", "i">>)>> ELSE <<>>)
        \o (IF b = c THEN <<Op("call", NoValue, <<"i">>)>> ELSE <<>>)
        \o (IF b \in U THEN <<Op("op", NoValue, <<"d", "i", "d">>)>> ELSE <<>>)
        \o (IF b = z THEN <<Op("op", NoValue, <<"e">>)>> ELSE <<>>)]

Function(g, code, layout) ==
    [entry |-> 1, succs |-> g, code |-> code, layout |-> layout, args |-> {"a"}, imms |-> Imms]

\* Every use is dominated by its definition, and blocks 2 and 3 come in either
\* order in the layout.
Valid(g, x, U, y, z) == /\ \A b \in U : DominatesIn(g, x, b)
                        /\ y # 0 => y \in ReachIn(g, {})
                        /\ IF y = 0 THEN z = 0 ELSE z = 0 \/ DominatesIn(g, y, z)
Shapes == {s \in Graphs \X MCBlock \X (SUBSET MCBlock) \X {0, 2, 3} \X {0, 1, 2, 3} \X {0, 2, 3} :
             Valid(s[1], s[2], s[3], s[4], s[6])}
ValidFunctions ==
    {Function(s[1], Code(s[1], s[2], "op", s[3], s[4], s[5], s[6]), <<1, 2, 3>>) :
        s \in {r \in Shapes : r[5] \in {0, r[2]}}}

\* Calls, in both layouts.
CallFunctions ==
    {Function(s[1], Code(s[1], s[2], k, s[3], s[4], s[5], s[6]), l) :
        k \in {"op", "call"}, l \in {<<1, 2, 3>>, <<1, 3, 2>>},
        s \in {r \in Shapes : r[5] # 0 /\ r[6] = 0 /\ r[3] # {} /\ r[4] \in {0, 3}}}

\* Functions with a use of a value nothing defines, or that is defined in a
\* block that cannot run; the block that uses it may not run either.
UndefinedFunctions ==
    {Function(g, [b \in MCBlock |->
                    (IF b = x THEN <<Op("op", "u", <<"a">>)>> ELSE <<>>)
                    \o (IF b = y THEN <<Op("op", NoValue, <<"u">>)>> ELSE <<>>)
                    \o (IF b = 3 /\ 3 \in g[2]
                        THEN <<[kind |-> "phi", res |-> "e", uses |-> <<Use(v, 2)>>]>> ELSE <<>>)],
              <<1, 2, 3>>) :
        g \in Graphs, x \in {0, 2}, y \in {0, 2, 3}, v \in {"a", "u"}}

MCFunctions == ValidFunctions \cup UndefinedFunctions \cup CallFunctions

\* A few functions, one computed after the other.
ReuseFunctions ==
    {f \in ValidFunctions : /\ f.succs[1] = {2} /\ 3 \in f.succs[2] /\ f.succs[3] \in {{}, {2}}
                            /\ Len(f.code[2]) = 1 /\ Len(f.code[3]) <= 1}
====
