------------------------------- MODULE Layout -------------------------------
(***************************************************************************)
(* The function layout of the IR (crates/ir/src/layout.rs) and the cursor  *)
(* every pass edits it through (crates/ir/src/func_cursor.rs).             *)
(*                                                                         *)
(* The layout keeps the order of the basic blocks of a function, and the   *)
(* order of the instructions of each block, as two intrusive doubly linked *)
(* lists: every block carries prev/next links and the first/last           *)
(* instruction of its body, every instruction carries its block and        *)
(* prev/next links.  The cursor is a location: at an instruction, at the   *)
(* top or the bottom of a block, or nowhere.                               *)
(*                                                                         *)
(* The guards are the debug_assert!s and panics of the code: a call that   *)
(* would trip one is a programming error of the caller, not a step.        *)
(***************************************************************************)
EXTENDS Naturals

CONSTANTS
  Block,   \* BlockId: the blocks the data flow graph has made
  Inst,    \* InstId: the instructions the data flow graph has made
  None     \* Option::None

ASSUME NoneAssumption == None \notin Block /\ None \notin Inst

VARIABLES
  blocks,       \* SecondaryMap<BlockId, BlockNode>
  insts,        \* SecondaryMap<InstId, InstNode>
  entry_block,  \* Option<BlockId>
  last_block,   \* Option<BlockId>
  loc,          \* CursorLocation of the cursor
  removing      \* the block FuncCursor::remove_block is emptying, or None

layoutVars == <<blocks, insts, entry_block, last_block>>
vars == <<blocks, insts, entry_block, last_block, loc, removing>>

BlockNode == [prev : Block \cup {None}, next : Block \cup {None},
              first_inst : Inst \cup {None}, last_inst : Inst \cup {None}]
InstNode == [block : Block \cup {None}, prev : Inst \cup {None},
             next : Inst \cup {None}]

\* The Default values: a node that is not in the layout.
NoBlockNode == [prev |-> None, next |-> None,
                first_inst |-> None, last_inst |-> None]
NoInstNode == [block |-> None, prev |-> None, next |-> None]

\* CursorLocation.
At(i) == [at |-> "inst", inst |-> i]
BlockTop(b) == [at |-> "top", block |-> b]
BlockBottom(b) == [at |-> "bottom", block |-> b]
NoWhere == [at |-> "nowhere"]

Locations == [at : {"inst"}, inst : Inst] \cup [at : {"top", "bottom"}, block : Block]
                \cup [at : {"nowhere"}]

TypeOK ==
  /\ blocks \in [Block -> BlockNode]
  /\ insts \in [Inst -> InstNode]
  /\ entry_block \in Block \cup {None}
  /\ last_block \in Block \cup {None}
  /\ loc \in Locations
  /\ removing \in Block \cup {None}

Init ==
  /\ blocks = [b \in Block |-> NoBlockNode]
  /\ insts = [i \in Inst |-> NoInstNode]
  /\ entry_block = None
  /\ last_block = None
  /\ loc = NoWhere
  /\ removing = None

IsBlockInserted(b) == b = entry_block \/ blocks[b] # NoBlockNode
IsInstInserted(i) == insts[i] # NoInstNode

-----------------------------------------------------------------------------
(***************************************************************************)
(* The block list.  SetNext and SetPrev are the two link assignments of    *)
(* the code's matches on Option links; with no node there is no link to    *)
(* set.                                                                    *)
(***************************************************************************)
EmptyNode(prev, next) == [prev |-> prev, next |-> next,
                          first_inst |-> None, last_inst |-> None]

SetNext(nodes, x, y) == IF x = None THEN nodes ELSE [nodes EXCEPT ![x].next = y]
SetPrev(nodes, x, y) == IF x = None THEN nodes ELSE [nodes EXCEPT ![x].prev = y]

AppendBlock(b) ==
  /\ ~IsBlockInserted(b)
  /\ blocks' = [SetNext(blocks, last_block, b)
                  EXCEPT ![b] = EmptyNode(last_block, None)]
  /\ entry_block' = IF last_block = None THEN b ELSE entry_block
  /\ last_block' = b
  /\ UNCHANGED insts

InsertBlockBefore(b, before) ==
  LET prev == blocks[before].prev IN
  /\ IsBlockInserted(before)
  /\ ~IsBlockInserted(b)
  /\ blocks' = [SetPrev(SetNext(blocks, prev, b), before, b)
                  EXCEPT ![b] = EmptyNode(prev, before)]
  /\ entry_block' = IF prev = None THEN b ELSE entry_block
  /\ UNCHANGED <<insts, last_block>>

\* Mutant: the block after the new one keeps its old prev link.
InsertBlockAfterNoBackLink(b, after) ==
  LET next == blocks[after].next IN
  /\ IsBlockInserted(after)
  /\ ~IsBlockInserted(b)
  /\ blocks' = [SetNext(blocks, after, b) EXCEPT ![b] = EmptyNode(after, next)]
  /\ last_block' = IF next = None THEN b ELSE last_block
  /\ UNCHANGED <<insts, entry_block>>

InsertBlockAfter(b, after) ==
  LET next == blocks[after].next IN
  /\ IsBlockInserted(after)
  /\ ~IsBlockInserted(b)
  /\ blocks' = [SetNext(SetPrev(blocks, next, b), after, b)
                  EXCEPT ![b] = EmptyNode(after, next)]
  /\ last_block' = IF next = None THEN b ELSE last_block
  /\ UNCHANGED <<insts, entry_block>>

RemoveBlock(b) ==
  LET prev == blocks[b].prev
      next == blocks[b].next
  IN
  /\ IsBlockInserted(b)
  /\ blocks' = [SetPrev(SetNext(blocks, prev, next), next, prev)
                  EXCEPT ![b] = NoBlockNode]
  /\ entry_block' = IF prev = None THEN next ELSE entry_block
  /\ last_block' = IF next = None THEN prev ELSE last_block
  /\ UNCHANGED insts

-----------------------------------------------------------------------------
(***************************************************************************)
(* The instruction list of a block.                                        *)
(***************************************************************************)
WithEnds(b, first, last) ==
  [blocks EXCEPT ![b].first_inst = first, ![b].last_inst = last]
InstOf(b, prev, next) == [block |-> b, prev |-> prev, next |-> next]

\* Mutant: no check that the instruction is not in the layout already.
AppendInstUnchecked(i, b) ==
  LET last == blocks[b].last_inst IN
  /\ IsBlockInserted(b)
  /\ insts' = [SetNext(insts, last, i) EXCEPT ![i] = InstOf(b, last, None)]
  /\ blocks' = WithEnds(b, IF last = None THEN i ELSE blocks[b].first_inst, i)
  /\ UNCHANGED <<entry_block, last_block>>

AppendInst(i, b) ==
  LET last == blocks[b].last_inst IN
  /\ IsBlockInserted(b)
  /\ ~IsInstInserted(i)
  /\ insts' = [SetNext(insts, last, i) EXCEPT ![i] = InstOf(b, last, None)]
  /\ blocks' = WithEnds(b, IF last = None THEN i ELSE blocks[b].first_inst, i)
  /\ UNCHANGED <<entry_block, last_block>>

PrependInst(i, b) ==
  LET first == blocks[b].first_inst IN
  /\ IsBlockInserted(b)
  /\ ~IsInstInserted(i)
  /\ insts' = [SetPrev(insts, first, i) EXCEPT ![i] = InstOf(b, None, first)]
  /\ blocks' = WithEnds(b, i, IF first = None THEN i ELSE blocks[b].last_inst)
  /\ UNCHANGED <<entry_block, last_block>>

InsertInstBefore(i, before) ==
  LET prev == insts[before].prev
      b == insts[before].block
  IN
  /\ IsInstInserted(before)
  /\ ~IsInstInserted(i)
  /\ insts' = [SetPrev(SetNext(insts, prev, i), before, i)
                 EXCEPT ![i] = InstOf(b, prev, before)]
  /\ blocks' = WithEnds(b, IF prev = None THEN i ELSE blocks[b].first_inst, blocks[b].last_inst)
  /\ UNCHANGED <<entry_block, last_block>>

InsertInstAfter(i, after) ==
  LET next == insts[after].next
      b == insts[after].block
  IN
  /\ IsInstInserted(after)
  /\ ~IsInstInserted(i)
  /\ insts' = [SetNext(SetPrev(insts, next, i), after, i)
                 EXCEPT ![i] = InstOf(b, after, next)]
  /\ blocks' = WithEnds(b, blocks[b].first_inst, IF next = None THEN i ELSE blocks[b].last_inst)
  /\ UNCHANGED <<entry_block, last_block>>

RemoveInst(i) ==
  LET prev == insts[i].prev
      next == insts[i].next
      b == insts[i].block
  IN
  /\ IsInstInserted(i)
  /\ insts' = [SetPrev(SetNext(insts, prev, next), next, prev)
                 EXCEPT ![i] = NoInstNode]
  /\ blocks' = WithEnds(b, IF prev = None THEN next ELSE blocks[b].first_inst,
                         IF next = None THEN prev ELSE blocks[b].last_inst)
  /\ UNCHANGED <<entry_block, last_block>>

-----------------------------------------------------------------------------
(***************************************************************************)
(* FuncCursor.  CursorBlock is FuncCursor::block; its None is the panic of *)
(* expect_block, so the actions that need a block are disabled there.      *)
(***************************************************************************)
CursorBlock == CASE loc.at = "inst" -> insts[loc.inst].block
                 [] loc.at \in {"top", "bottom"} -> loc.block
                 [] OTHER -> None

NextLoc ==
  CASE loc.at = "inst" ->
         LET next == insts[loc.inst].next
         IN IF next = None THEN BlockBottom(insts[loc.inst].block) ELSE At(next)
    [] loc.at = "top" ->
         LET first == blocks[loc.block].first_inst
         IN IF first = None THEN BlockBottom(loc.block) ELSE At(first)
    [] loc.at = "bottom" ->
         LET next == blocks[loc.block].next
         IN IF next = None THEN NoWhere ELSE BlockTop(next)
    [] OTHER -> NoWhere

PrevLoc ==
  CASE loc.at = "inst" ->
         LET prev == insts[loc.inst].prev
         IN IF prev = None THEN BlockTop(insts[loc.inst].block) ELSE At(prev)
    [] loc.at = "top" ->
         LET prev == blocks[loc.block].prev
         IN IF prev = None THEN NoWhere ELSE BlockBottom(prev)
    [] loc.at = "bottom" ->
         LET last == blocks[loc.block].last_inst
         IN IF last = None THEN BlockTop(loc.block) ELSE At(last)
    [] OTHER -> NoWhere

TopOrNoWhere(b) == IF b = None THEN NoWhere ELSE BlockTop(b)

\* set_location: any instruction or block the caller knows to be in the layout.
SetLocation(l) ==
  /\ l.at = "inst" => IsInstInserted(l.inst)
  /\ l.at \in {"top", "bottom"} => IsBlockInserted(l.block)
  /\ loc' = l
  /\ UNCHANGED layoutVars

SetToEntry == loc' = TopOrNoWhere(entry_block) /\ UNCHANGED layoutVars
Proceed == loc' = NextLoc /\ UNCHANGED layoutVars
Back == loc' = PrevLoc /\ UNCHANGED layoutVars
ProceedBlock ==
  /\ loc' = IF CursorBlock = None THEN NoWhere
            ELSE TopOrNoWhere(blocks[CursorBlock].next)
  /\ UNCHANGED layoutVars

CursorAppendBlock(b) == AppendBlock(b) /\ UNCHANGED loc
CursorInsertBlock(b) ==
  CursorBlock # None /\ InsertBlockAfter(b, CursorBlock) /\ UNCHANGED loc
CursorInsertBlockBefore(b) ==
  CursorBlock # None /\ InsertBlockBefore(b, CursorBlock) /\ UNCHANGED loc

CursorInsertInst(i) ==
  /\ \/ loc.at = "inst" /\ InsertInstAfter(i, loc.inst)
     \/ loc.at = "top" /\ PrependInst(i, loc.block)
     \/ loc.at = "bottom" /\ AppendInst(i, loc.block)
  /\ UNCHANGED loc
CursorAppendInst(i) ==
  CursorBlock # None /\ AppendInst(i, CursorBlock) /\ UNCHANGED loc
CursorPrependInst(i) ==
  CursorBlock # None /\ PrependInst(i, CursorBlock) /\ UNCHANGED loc

\* Layout::insert_inst_before, which passes call without a cursor.
LayoutInsertInstBefore(i, before) == InsertInstBefore(i, before) /\ UNCHANGED loc

\* Mutant: the cursor stays at the instruction it has removed.
CursorRemoveInstInPlace == loc.at = "inst" /\ RemoveInst(loc.inst) /\ UNCHANGED loc

\* The cursor moves to the next location of the list it has not yet changed.
CursorRemoveInst ==
  /\ loc.at = "inst"
  /\ RemoveInst(loc.inst)
  /\ loc' = NextLoc

(***************************************************************************)
(* FuncCursor::remove_block empties the block with a loop of remove_inst,  *)
(* then unlinks it.  The loop is a sequence of steps during which removing *)
(* holds the block and the caller does nothing else.                       *)
(***************************************************************************)
\* Mutant: the loop starts where the cursor is, not at the first instruction.
RemoveBlockBeginHere ==
  /\ removing = None
  /\ CursorBlock # None
  /\ loc' = loc
  /\ removing' = CursorBlock
  /\ UNCHANGED layoutVars

RemoveBlockBegin ==
  /\ removing = None
  /\ CursorBlock # None
  /\ LET first == blocks[CursorBlock].first_inst
     IN loc' = IF first = None THEN loc ELSE At(first)
  /\ removing' = CursorBlock
  /\ UNCHANGED layoutVars

RemoveBlockInst ==
  /\ removing # None
  /\ CursorRemoveInst
  /\ UNCHANGED removing

RemoveBlockEnd ==
  /\ removing # None
  /\ loc.at # "inst"
  /\ RemoveBlock(removing)
  /\ loc' = TopOrNoWhere(blocks[removing].next)
  /\ removing' = None

CursorEdit ==
  \/ \E b \in Block : \/ CursorAppendBlock(b)
                      \/ CursorInsertBlock(b)
                      \/ CursorInsertBlockBefore(b)
  \/ \E i \in Inst : \/ CursorInsertInst(i)
                     \/ CursorAppendInst(i)
                     \/ CursorPrependInst(i)
  \/ \E i, before \in Inst : LayoutInsertInstBefore(i, before)
  \/ CursorRemoveInst

CursorMove ==
  \/ \E l \in Locations : SetLocation(l)
  \/ SetToEntry
  \/ Proceed
  \/ Back
  \/ ProceedBlock

Next ==
  \/ removing = None /\ (CursorEdit \/ CursorMove) /\ UNCHANGED removing
  \/ RemoveBlockBegin
  \/ RemoveBlockInst
  \/ RemoveBlockEnd

Spec == Init /\ [][Next]_vars

=============================================================================
