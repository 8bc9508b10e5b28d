---- MODULE SsaStep ----
(* How a function runs, as its SSA form says: each step executes one         *)
(* instruction with the values its operands hold.  A value holds a token: an *)
(* immediate itself, anything else the name it was computed under and which  *)
(* time, modulo 3; a phi holds the token of its operand.                     *)
EXTENDS StackFunc

VARIABLES running,  \* "no", "yes" or "over"
          block, inst,   \* the instruction that is next
          env,      \* what each value holds
          times     \* how often each value was computed, modulo 3

runVars == <<running, block, inst, env, times>>

Nothing == <<0, 0>>
Caller == <<-3, 0>>      \* what the caller has on its stack
Holds(v) == IF v < 1 \/ IsImm(v) THEN <<v, 0>> ELSE env[v]
AllHold(vals) == [k \in DOMAIN vals |-> Holds(vals[k])]

First(b) == Cardinality(PhisIn(ctx.f, b)) + 1
This == Code(block)[inst]

RunInit == /\ running = "no" /\ block = Entry /\ inst = 0
           /\ env = [v \in ctx.vals |-> Nothing]
           /\ times = [v \in ctx.vals |-> 0]

Begin == /\ running = "no" /\ running' = "yes"
         /\ inst' = First(Entry)
         /\ env' = [v \in ctx.vals |-> IF v \in Elements(ctx.f.args) THEN <<v, 1>> ELSE env[v]]
         /\ UNCHANGED <<block, times>>

Executes == running = "yes" /\ This.kind \in {"op", "comm", "call"}
Computed == <<This.res, times[This.res] + 1>>
Execute == /\ Executes
           /\ inst' = inst + 1
           /\ IF This.res = NoValue THEN UNCHANGED <<env, times>>
              ELSE /\ env' = [env EXCEPT ![This.res] = Computed]
                   /\ times' = [times EXCEPT ![This.res] = (@ + 1) % 3]
           /\ UNCHANGED <<running, block>>

\* The phis of the next block take their operands at once.
Goto(dest) ==
    LET phis == ctx.phi_results[dest]
        operands == PhiArgsFrom(ctx.f, block, dest)
    IN /\ block' = dest /\ inst' = First(dest)
       /\ env' = [v \in ctx.vals |->
                    IF v \in Elements(phis)
                    THEN Holds(operands[CHOOSE k \in DOMAIN phis : phis[k] = v])
                    ELSE env[v]]
       /\ UNCHANGED <<running, times>>
Branches(kind) == running = "yes" /\ This.kind = kind

End == /\ running = "yes" /\ This.kind \in {"ret", "exit"}
       /\ running' = "over"
       /\ UNCHANGED <<block, inst, env, times>>
====
