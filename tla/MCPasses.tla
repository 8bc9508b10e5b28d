---- MODULE MCPasses ----
EXTENDS FuncPasses

\* The destinations of the blocks 0, 1, 2, ... of a function.
Shapes == {
    << <<1, 2>>, <<3>>, <<3>>, <<>> >>,              \* a diamond
    << <<1, 2>>, <<2>>, <<3>>, <<>> >>,              \* one side only
    << <<1>>, <<2, 3>>, <<1>>, <<>> >>,              \* a loop
    << <<1>>, <<2, 3>>, <<1, 3>>, <<>> >>,           \* with two exits
    << <<1, 2>>, <<1, 2>>, <<>> >>,                  \* with two ways in
    << <<1>>, <<0, 2>>, <<>> >>,                     \* at the entry
    << <<1>>, <<2>>, <<2, 3>>, <<1, 4>>, <<>> >>,    \* in a loop
    << <<1, 2, 3, 2>>, <<3>>, <<3>>, <<>> >>,        \* a table
    << <<1, 1>>, <<2, 3>>, <<3>>, <<>> >>,           \* two ways to one block
    << <<1>>, <<3>>, <<1, 3>>, <<>> >>,              \* an unreachable block
    << <<1, 3>>, <<2>>, <<3>>, <<>> >>,              \* blocks that only jump
    << <<1, 2>>, <<1>>, <<3>>, <<>> >>,              \* an endless loop
    << <<1, 2>>, <<>>, <<3, 1>>, <<>> >> }           \* two exits

\* Block b of a function has at most a phi, an operation and a terminator.
PhiOf(b) == 3 * b + 1
OpOf(b) == 3 * b + 2
TermOf(b) == 3 * b + 3

\* The function of a shape: which operation is in each block, and whether phis
\* take constants only, a constant and results, or results only.
MakeFunction(shape, ops, phis) ==
    LET blocks == 0 .. Len(shape) - 1
        dests(b) == shape[b + 1]
        preds(b) == {p \in blocks : b \in ToSet(dests(p))}
        hasPhi(b) == b # 0 /\ Cardinality(preds(b)) > 1
        hasOp(b) == ops[b] # "none"
        above(b) == IF hasPhi(b) THEN PhiOf(b)
                    ELSE IF \E p \in preds(b) : preds(b) = {p} /\ hasPhi(p)
                    THEN PhiOf(CHOOSE p \in preds(b) : TRUE)
                    ELSE IF b # 0 THEN OpOf(0) ELSE 0
        latest(b) == IF hasOp(b) THEN OpOf(b) ELSE above(b)
        const(p, b) == IF p = Min(preds(b)) THEN 0 ELSE -1
        phi(b) == LET from == Ascending(preds(b))
                      val(p) == IF phis = "constants" \/ (phis = "mixed" /\ p = Min(preds(b)))
                                THEN const(p, b) ELSE latest(p)
                  IN [kind |-> "phi", dests |-> <<>>,
                      args |-> [k \in DOMAIN from |-> [val |-> val(from[k]), from |-> from[k]]]]
        op(b) == [kind |-> ops[b], args |-> <<Arg(above(b))>>, dests |-> <<>>]
        term(b) == [kind |-> IF dests(b) = <<>> THEN "exit" ELSE "branch",
                    args |-> IF Len(dests(b)) = 1 THEN <<>> ELSE <<Arg(latest(b))>>,
                    dests |-> dests(b)]
        data(i) == LET b == (i - 1) \div 3
                   IN CASE b \notin blocks -> Unborn
                        [] i = PhiOf(b) -> IF hasPhi(b) THEN phi(b) ELSE Unborn
                        [] i = OpOf(b) -> IF hasOp(b) THEN op(b) ELSE Unborn
                        [] i = TermOf(b) -> term(b)
        insts == [i \in Inst |-> data(i)]
        body == [b \in Block |-> SelectSeq(<<PhiOf(b), OpOf(b), TermOf(b)>>,
                                           LAMBDA i : b \in blocks /\ insts[i] # Unborn)]
    IN [order |-> [k \in DOMAIN shape |-> k - 1], made |-> blocks, body |-> body, insts |-> insts,
        users |-> UNION {{<<insts[i].args[k].val, i>> : k \in DOMAIN insts[i].args} : i \in Inst},
        ok |-> TRUE]

MCBlock == 0 .. 8
MCConst == {0, -1}

\* The operations: one everywhere but at the entry, or a call in block 1 that
\* does not come back and a write elsewhere.
OpsOf(shape) ==
    {[b \in 0 .. Len(shape) - 1 |-> IF b = 0 THEN "pure" ELSE op] : op \in {"none", "pure", "write"}}
    \cup {[b \in 0 .. Len(shape) - 1 |->
             IF b = 0 THEN "pure" ELSE IF b = 1 THEN "noreturn" ELSE "write"]}
MCFunctions ==
    UNION {{MakeFunction(shape, ops, phis) : ops \in OpsOf(shape), phis \in {"constants", "mixed", "results"}} :
           shape \in Shapes}
====
