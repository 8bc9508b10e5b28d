------------------------------ MODULE LayoutSeq ------------------------------
(***************************************************************************)
(* What a function layout promises its users: an order of the inserted     *)
(* blocks and, for each of them, an order of its instructions, changed one *)
(* insertion or one removal at a time.  No links, no cursor.               *)
(***************************************************************************)
EXTENDS Naturals, Sequences, SequencesExt

CONSTANTS Block, Inst

VARIABLES
  order,   \* the sequence of blocks, as Layout::iter_block yields it
  body     \* the sequence of instructions of each block, as iter_inst yields it

vars == <<order, body>>

Init == order = <<>> /\ body = [b \in Block |-> <<>>]

Placed == UNION {ToSet(body[b]) : b \in Block}

InsertBlock(b, k) ==
  /\ b \notin ToSet(order)
  /\ order' = InsertAt(order, k, b)
  /\ UNCHANGED body

\* A block leaves the order only once it is empty.
RemoveBlock(k) ==
  /\ body[order[k]] = <<>>
  /\ order' = RemoveAt(order, k)
  /\ UNCHANGED body

InsertInst(i, b, k) ==
  /\ b \in ToSet(order)
  /\ i \notin Placed
  /\ body' = [body EXCEPT ![b] = InsertAt(@, k, i)]
  /\ UNCHANGED order

RemoveInst(b, k) ==
  /\ b \in ToSet(order)
  /\ body' = [body EXCEPT ![b] = RemoveAt(@, k)]
  /\ UNCHANGED order

Next ==
  \/ \E b \in Block : \E k \in 1..Len(order) + 1 : InsertBlock(b, k)
  \/ \E k \in 1..Len(order) : RemoveBlock(k)
  \/ \E b \in Block : \/ \E i \in Inst : \E k \in 1..Len(body[b]) + 1 : InsertInst(i, b, k)
                      \/ \E k \in 1..Len(body[b]) : RemoveInst(b, k)

Spec == Init /\ [][Next]_vars

=============================================================================
