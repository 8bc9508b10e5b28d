---------------------------- MODULE LayoutHistory ----------------------------
(***************************************************************************)
(* The linked layout with a history: order and body record, for each step  *)
(* of the cursor, the insertion or removal its caller asked for, as a      *)
(* change of a plain sequence.  The history restricts nothing; the         *)
(* invariant Represents says that the links never say anything else.       *)
(***************************************************************************)
EXTENDS Layout, Sequences, SequencesExt

VARIABLES order, body

hvars == <<blocks, insts, entry_block, last_block, loc, removing, order, body>>

\* The position of x in the sequence s.
PosIn(s, x) == CHOOSE k \in 1..Len(s) : s[k] = x

RecordBlock(b, k) == order' = InsertAt(order, k, b) /\ UNCHANGED body
RecordInst(i, b, k) ==
  body' = [body EXCEPT ![b] = InsertAt(@, k, i)] /\ UNCHANGED order
RecordRemoveInst(i, b) ==
  body' = [body EXCEPT ![b] = RemoveAt(@, PosIn(@, i))] /\ UNCHANGED order
RecordRemoveBlock(b) == order' = RemoveAt(order, PosIn(order, b)) /\ UNCHANGED body

HInit == Init /\ order = <<>> /\ body = [b \in Block |-> <<>>]

HInsertBlock(b) ==
  \/ CursorAppendBlock(b) /\ RecordBlock(b, Len(order) + 1)
  \/ CursorInsertBlock(b) /\ RecordBlock(b, PosIn(order, CursorBlock) + 1)
  \/ CursorInsertBlockBefore(b) /\ RecordBlock(b, PosIn(order, CursorBlock))

\* Where FuncCursor::insert_inst puts an instruction in the cursor's block.
InsertPos ==
  CASE loc.at = "inst" -> PosIn(body[CursorBlock], loc.inst) + 1
    [] loc.at = "top" -> 1
    [] OTHER -> Len(body[CursorBlock]) + 1

HInsertInst(i) ==
  \/ CursorInsertInst(i) /\ RecordInst(i, CursorBlock, InsertPos)
  \/ CursorAppendInst(i) /\ RecordInst(i, CursorBlock, Len(body[CursorBlock]) + 1)
  \/ CursorPrependInst(i) /\ RecordInst(i, CursorBlock, 1)
  \/ \E before \in Inst :
        /\ LayoutInsertInstBefore(i, before)
        /\ LET b == insts[before].block
           IN RecordInst(i, b, PosIn(body[b], before))

HRemoveInst == CursorRemoveInst /\ RecordRemoveInst(loc.inst, insts[loc.inst].block)

HNext ==
  \/ /\ removing = None
     /\ \/ \E b \in Block : HInsertBlock(b)
        \/ \E i \in Inst : HInsertInst(i)
        \/ HRemoveInst
        \/ CursorMove /\ UNCHANGED <<order, body>>
     /\ UNCHANGED removing
  \/ RemoveBlockBegin /\ UNCHANGED <<order, body>>
  \/ /\ RemoveBlockInst
     /\ RecordRemoveInst(loc.inst, insts[loc.inst].block)
  \/ RemoveBlockEnd /\ RecordRemoveBlock(removing)

HSpec == HInit /\ [][HNext]_hvars

-----------------------------------------------------------------------------
\* The element at position k of s; None outside the sequence.
Elem(s, k) == IF k \in 1..Len(s) THEN s[k] ELSE None

Distinct(s) == \A j, k \in 1..Len(s) : s[j] = s[k] => j = k

HTypeOK ==
  /\ TypeOK
  /\ order \in Seq(Block)
  /\ body \in [Block -> Seq(Inst)]

BlockLinks ==
  /\ Distinct(order)
  /\ entry_block = Elem(order, 1)
  /\ last_block = Elem(order, Len(order))
  /\ \A k \in 1..Len(order) : /\ blocks[order[k]].prev = Elem(order, k - 1)
                              /\ blocks[order[k]].next = Elem(order, k + 1)
  /\ \A b \in Block : (\A k \in 1..Len(order) : order[k] # b) =>
        blocks[b] = NoBlockNode /\ body[b] = <<>>

InstLinks ==
  /\ \A b \in Block :
        /\ Distinct(body[b])
        /\ blocks[b].first_inst = Elem(body[b], 1)
        /\ blocks[b].last_inst = Elem(body[b], Len(body[b]))
        /\ \A k \in 1..Len(body[b]) :
             insts[body[b][k]] = InstOf(b, Elem(body[b], k - 1), Elem(body[b], k + 1))
  /\ \A i \in Inst : insts[i] # NoInstNode =>
        /\ insts[i].block \in Block
        /\ \E k \in 1..Len(body[insts[i].block]) : body[insts[i].block][k] = i

\* The links of blocks and instructions are exactly the recorded sequences:
\* walking next from entry_block, or from a block's first_inst, yields every
\* inserted element once, in the order the edits asked for, and prev, last_block
\* and last_inst agree with it (every operation of layout.rs).
Represents == BlockLinks /\ InstLinks

\* The cursor never points at something that has left the layout, whatever it
\* removed, and remove_block only ever removes instructions of its own block
\* (func_cursor.rs: remove_inst and remove_block move the cursor on first).
CursorValid ==
  /\ loc.at = "inst" => IsInstInserted(loc.inst)
  /\ loc.at \in {"top", "bottom"} => IsBlockInserted(loc.block)
  /\ removing # None => loc.at # "nowhere" /\ CursorBlock = removing

\* remove_block unlinks its block only when the loop has removed every
\* instruction: the loop always stands at the first one left, and it ends in an
\* empty block (func_cursor.rs: remove_block).
RemovalEmpties ==
  removing # None =>
    /\ loc.at = "inst" => body[removing] # <<>> /\ loc.inst = body[removing][1]
    /\ loc.at # "inst" => body[removing] = <<>>

\* The linked layout implements the layout of sequences.
Abstract == INSTANCE LayoutSeq
AbstractSpec == Abstract!Spec

=============================================================================
