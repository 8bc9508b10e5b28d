---- MODULE SsaRun ----
(* What the code Stackify plans must do: every instruction sees, on top of   *)
(* the stack, what its operands hold, a call the address to return to right  *)
(* below, a return the value, the return address and the caller's stack as   *)
(* it was.                                                                   *)
EXTENDS SsaStep

VARIABLE seen   \* what the last instruction saw

OperandOrders ==
    {AllHold(This.args)} \cup (IF This.kind = "comm" THEN {AllHold(<<This.args[2], This.args[1]>>)} ELSE {})
CallFrame == Append(AllHold(This.args), <<CallRetAddr, 0>>)
Frame == AllHold(WithBarrier(This.args)) \o <<Caller>>
\* A br_table compares the scrutinee with one case after the other.
Compared(k) == [n \in 1 .. k |-> AllHold(<<This.args[1], This.args[n + 1]>>)]

Start == Begin /\ seen' = <<>>
Apply == Execute /\ This.kind # "call" /\ seen' \in OperandOrders
Call == Execute /\ This.kind = "call" /\ seen' = CallFrame
Jump == Branches("jump") /\ Goto(This.dests[1]) /\ seen' = <<>>
Br == Branches("br") /\ (\E d \in Elements(This.dests) : Goto(d)) /\ seen' = AllHold(This.args)
Case == /\ Branches("br_table")
        /\ \E k \in DOMAIN This.dests :
              /\ Goto(This.dests[k])
              /\ seen' = Compared(IF k < Len(This.args) THEN k ELSE k - 1)
Return == End /\ (This.kind = "ret" => seen' = Frame)

Next == Start \/ Apply \/ Call \/ Jump \/ Br \/ Case \/ Return
Init == RunInit /\ seen = <<>>
Spec == Init /\ [][Next]_<<runVars, seen>>
====
