----------------------------- MODULE SsaBuilder -----------------------------
(***************************************************************************)
(* SSA construction while a function is being built                        *)
(* (crates/ir/src/builder/ssa.rs, driven by builder/func_builder.rs).      *)
(*                                                                         *)
(* A frontend fills the blocks of a function one after the other, in any   *)
(* order: it assigns variables (def_var), reads them (use_var), inserts    *)
(* instructions and at last the branch, and it seals a block once all its  *)
(* predecessors have branched.  use_var and seal_block recurse through the *)
(* control flow graph; stack holds the frames of that recursion, so that   *)
(* each model step is one call or one return.                              *)
(*                                                                         *)
(* An instruction and its result have the same number.  The users sets     *)
(* are those of the data flow graph (crates/ir/src/dfg.rs).                *)
(***************************************************************************)
EXTENDS Naturals, Sequences, FiniteSets, SequencesExt

CONSTANTS
  Var,         \* Variable: what the frontend declared
  Program,     \* the programs the frontend may build, see IsProgram
  MaxInsts     \* bound on the instructions of a function

InstId == 1..MaxInsts
Entry == 1

\* What the frontend does in a block: define a variable by a new instruction,
\* read a variable into a value it holds, define a variable to be the held value,
\* insert an instruction that uses the held value.
Op == [op : {"def", "read", "write"}, var : Var] \cup [op : {"emit"}]

\* A program: the destinations of every block's branch, the operations before it,
\* and the order in which the frontend fills the blocks.  What a block writes or
\* emits is a value it has read before: the frontend has no other.
IsProgram(p) ==
  /\ DOMAIN p = {"dests", "code", "fill"}
  /\ LET blocks == 1..Len(p.dests)
     IN /\ p.fill \in [blocks -> blocks] /\ ToSet(p.fill) = blocks
        /\ p.dests \in Seq(Seq(blocks))
        /\ p.code \in [blocks -> Seq(Op)]
        /\ \A b \in blocks : \A k \in 1..Len(p.code[b]) :
             p.code[b][k].op \in {"write", "emit"} =>
               \E j \in 1..(k - 1) : p.code[b][j].op = "read"

ASSUME ProgramAssumption == \A p \in Program : IsProgram(p)
ASSUME MaxInstsAssumption == MaxInsts \in Nat

None == 0

VARIABLES
  prog,       \* the program being built
  insts,      \* PrimaryMap<InstId, Inst>: kind, block, arguments
  body,       \* the layout: the instructions of each block
  users,      \* dfg.users
  preds,      \* SsaBlock::preds
  sealed,     \* SsaBlock::is_sealed
  defs,       \* SsaBlock::defs
  incomplete, \* SsaBlock::incomplete_phis
  aliases,    \* SsaBuilder::aliases; its domain is trivial_phis
  stack,      \* the calls in progress, the innermost last
  ret,        \* the value the last call returned, until its caller takes it
  panicked,   \* the panic of remove_trivial_phi
  cur,        \* the block the frontend is filling
  pc,         \* how many operations of each block are done
  held        \* the value the frontend holds

\* The blocks, numbered in layout order.
Block == DOMAIN prog.dests

dfg == <<insts, body, users>>
ssa == <<preds, sealed, defs, incomplete, aliases>>
client == <<cur, pc, held>>
vars == <<prog, dfg, ssa, stack, ret, panicked, client>>

Init ==
  /\ prog \in Program
  /\ insts = <<>>
  /\ body = [b \in Block |-> <<>>]
  /\ users = [v \in InstId |-> {}]
  /\ preds = [b \in Block |-> <<>>]
  /\ sealed = [b \in Block |-> FALSE]
  /\ defs = [b \in Block |-> [x \in Var |-> None]]
  /\ incomplete = [b \in Block |-> <<>>]
  /\ aliases = <<>>
  /\ stack = <<>>
  /\ ret = None
  /\ panicked = FALSE
  /\ cur = None
  /\ pc = [b \in Block |-> 0]
  /\ held = None

-----------------------------------------------------------------------------
(***************************************************************************)
(* The pieces of state: aliases, instructions, users.                      *)
(***************************************************************************)

\* resolve_alias follows the chain of aliases to its end.
ResolveAlias(value) ==
  LET follow == [v \in InstId |-> IF v \in DOMAIN aliases THEN aliases[v] ELSE v]
      chain[n \in 0..MaxInsts] == IF n = 0 THEN value ELSE follow[chain[n - 1]]
  IN chain[MaxInsts]

ValuesOf(inst) == {inst.args[k].value : k \in 1..Len(inst.args)}

Fresh == Len(insts) + 1
NewInst(kind, block, args) == [kind |-> kind, block |-> block, args |-> args]

\* Inserting instruction data: make_inst attaches it to the users of its operands.
InsertInst(inst, at) ==
  /\ Fresh <= MaxInsts
  /\ insts' = Append(insts, inst)
  /\ users' = [v \in InstId |-> IF v \in ValuesOf(inst) THEN users[v] \cup {Fresh}
                                ELSE users[v]]
  /\ body' = [body EXCEPT ![inst.block] = at]

PrependPhi(block) ==
  InsertInst(NewInst("phi", block, <<>>), <<Fresh>> \o body[block])
AppendInst(kind, block, args) ==
  InsertInst(NewInst(kind, block, args), Append(body[block], Fresh))

Renamed(inst, value, alias) ==
  [inst EXCEPT !.args = [k \in DOMAIN @ |->
     IF @[k].value = value THEN [@[k] EXCEPT !.value = alias] ELSE @[k]]]

\* The elements of s that are in keep, in their order.
Keep(s, keep) ==
  FlattenSeq([k \in 1..Len(s) |-> IF s[k] \in keep THEN <<s[k]>> ELSE <<>>])

\* The instructions of the layout in order, and those of them that use value.
Scan == FlattenSeq([b \in Block |-> body[b]])

Modified(value) == Keep(Scan, {i \in DOMAIN insts : value \in ValuesOf(insts[i])})

Push(frame) == Append(stack, frame)
Top == Last(stack)
Pop == Front(stack)
ReplaceTop(frame) == Append(Pop, frame)

Frame(f) == stack # <<>> /\ Top.f = f
Running(f) == Frame(f) /\ ~panicked

UseFrame(var, block) == [f |-> "use", var |-> var, block |-> block]
ArgsFrame(var, phi, block) ==
  [f |-> "args", var |-> var, phi |-> phi, preds |-> preds[block], done |-> 0]
CheckFrame(insts_) == [f |-> "check", todo |-> insts_]

-----------------------------------------------------------------------------
(***************************************************************************)
(* use_var and use_var_recursive.                                          *)
(***************************************************************************)
UseVarLocal ==
  /\ Running("use")
  /\ defs[Top.block][Top.var] # None
  /\ ret' = ResolveAlias(defs[Top.block][Top.var])
  /\ stack' = Pop
  /\ UNCHANGED <<prog, dfg, ssa, panicked, client>>

NoLocal == Running("use") /\ defs[Top.block][Top.var] = None

DefPhi == defs' = [defs EXCEPT ![Top.block][Top.var] = Fresh]

\* An unsealed block gets a phi whose arguments are added when it is sealed.
UseVarUnsealed ==
  /\ NoLocal
  /\ ~sealed[Top.block]
  /\ PrependPhi(Top.block)
  /\ incomplete' = [incomplete EXCEPT ![Top.block] = Append(@, <<Top.var, Fresh>>)]
  /\ DefPhi
  /\ ret' = ResolveAlias(Fresh)
  /\ stack' = Pop
  /\ UNCHANGED <<prog, preds, sealed, aliases, panicked, client>>

\* Mutant: the first of several predecessors is asked too.
UseVarFirstPred ==
  /\ NoLocal
  /\ sealed[Top.block]
  /\ preds[Top.block] # <<>>
  /\ stack' = ReplaceTop(UseFrame(Top.var, preds[Top.block][1]))
  /\ UNCHANGED <<prog, dfg, ssa, ret, panicked, client>>

UseVarSinglePred ==
  /\ NoLocal
  /\ sealed[Top.block]
  /\ Len(preds[Top.block]) = 1
  /\ stack' = ReplaceTop(UseFrame(Top.var, preds[Top.block][1]))
  /\ UNCHANGED <<prog, dfg, ssa, ret, panicked, client>>

\* Mutant: no definition breaks the cycles.
UseVarJoinNoDef ==
  /\ NoLocal
  /\ sealed[Top.block]
  /\ Len(preds[Top.block]) # 1
  /\ PrependPhi(Top.block)
  /\ stack' = ReplaceTop([f |-> "result", phi |-> Fresh]) \o <<ArgsFrame(Top.var, Fresh, Top.block)>>
  /\ preds' = [preds EXCEPT ![Top.block] = <<>>]
  /\ UNCHANGED <<prog, sealed, defs, incomplete, aliases, ret, panicked, client>>

\* The phi is the definition while its arguments are looked up, which breaks cycles.
UseVarJoin ==
  /\ NoLocal
  /\ sealed[Top.block]
  /\ Len(preds[Top.block]) # 1
  /\ PrependPhi(Top.block)
  /\ DefPhi
  /\ stack' = ReplaceTop([f |-> "result", phi |-> Fresh]) \o <<ArgsFrame(Top.var, Fresh, Top.block)>>
  /\ preds' = [preds EXCEPT ![Top.block] = <<>>]
  /\ UNCHANGED <<prog, sealed, incomplete, aliases, ret, panicked, client>>

UseVarResult ==
  /\ Running("result")
  /\ ret' = ResolveAlias(Top.phi)
  /\ stack' = Pop
  /\ UNCHANGED <<prog, dfg, ssa, panicked, client>>

-----------------------------------------------------------------------------
(***************************************************************************)
(* add_phi_args.  mem::take has emptied the predecessors of the block; the *)
(* frame holds them until they are put back.                               *)
(***************************************************************************)
NextPred ==
  /\ Running("args")
  /\ ret = None
  /\ Top.done < Len(Top.preds)
  /\ stack' = Push(UseFrame(Top.var, Top.preds[Top.done + 1]))
  /\ UNCHANGED <<prog, dfg, ssa, ret, panicked, client>>

\* Mutant: the phi does not become a user of its argument.
AppendPhiArgNoUser ==
  /\ Running("args")
  /\ ret # None
  /\ insts' = [insts EXCEPT ![Top.phi].args =
                 Append(@, [value |-> ret, pred |-> Top.preds[Top.done + 1]])]
  /\ stack' = ReplaceTop([Top EXCEPT !.done = @ + 1])
  /\ ret' = None
  /\ UNCHANGED <<prog, body, users, ssa, panicked, client>>

\* dfg.append_phi_arg.
AppendPhiArg ==
  /\ Running("args")
  /\ ret # None
  /\ insts' = [insts EXCEPT ![Top.phi].args =
                 Append(@, [value |-> ret, pred |-> Top.preds[Top.done + 1]])]
  /\ users' = [users EXCEPT ![ret] = @ \cup {Top.phi}]
  /\ stack' = ReplaceTop([Top EXCEPT !.done = @ + 1])
  /\ ret' = None
  /\ UNCHANGED <<prog, body, ssa, panicked, client>>

PhiComplete ==
  /\ Running("args")
  /\ ret = None
  /\ Top.done = Len(Top.preds)
  /\ preds' = [preds EXCEPT ![insts[Top.phi].block] = Top.preds]
  /\ stack' = ReplaceTop(CheckFrame(<<Top.phi>>))
  /\ panicked' = (Top.preds = <<>>)
  /\ UNCHANGED <<prog, dfg, sealed, defs, incomplete, aliases, ret, client>>

-----------------------------------------------------------------------------
(***************************************************************************)
(* remove_trivial_phi, once for the completed phi and then for every phi   *)
(* whose operands a removal has changed.  A phi is trivial if its          *)
(* arguments other than itself are one value.                              *)
(***************************************************************************)
Others(phi) == ValuesOf(insts[phi]) \ {phi}
IsTrivial(phi) == Cardinality(Others(phi)) = 1

\* change_to_alias, remove_inst: the phi leaves the layout, and the instructions of
\* the layout that used it use the alias instead.
ReplacePhi(phi, alias) ==
  \E changed \in {ToSet(Modified(phi))} :
  LET renamed == [i \in DOMAIN insts |->
                    IF i \in changed THEN Renamed(insts[i], phi, alias) ELSE insts[i]]
  IN
  /\ insts' = renamed
  /\ aliases' = [v \in DOMAIN aliases \cup {phi} |-> IF v = phi THEN alias ELSE aliases[v]]
  /\ users' = [v \in InstId |->
                 ((users[v] \ {i \in changed : v \in ValuesOf(insts[i])})
                    \cup {i \in changed : v \in ValuesOf(renamed[i])})
                 \ {i \in {phi} : v \in ValuesOf(renamed[i])}]
  /\ body' = [body EXCEPT ![insts[phi].block] = Keep(@, DOMAIN insts \ {phi})]

Candidate == Head(Top.todo)

\* The loop skips instructions that are no phis and phis already removed.
IsCandidate == insts[Candidate].kind = "phi" /\ Candidate \notin DOMAIN aliases

KeepPhi ==
  /\ Running("check")
  /\ Top.todo # <<>>
  /\ IsCandidate => ~IsTrivial(Candidate)
  /\ stack' = ReplaceTop(CheckFrame(Tail(Top.todo)))
  /\ UNCHANGED <<prog, dfg, ssa, ret, panicked, client>>

\* Mutant: the users of a removed phi are not looked at again.
RemoveTrivialPhiOnce ==
  /\ Running("check")
  /\ Top.todo # <<>>
  /\ IsCandidate
  /\ IsTrivial(Candidate)
  /\ \E alias \in Others(Candidate) : ReplacePhi(Candidate, alias)
  /\ stack' = ReplaceTop(CheckFrame(Tail(Top.todo)))
  /\ UNCHANGED <<prog, preds, sealed, defs, incomplete, ret, panicked, client>>

RemoveTrivialPhi ==
  /\ Running("check")
  /\ Top.todo # <<>>
  /\ IsCandidate
  /\ IsTrivial(Candidate)
  /\ \E alias \in Others(Candidate) : ReplacePhi(Candidate, alias)
  /\ stack' = Append(ReplaceTop(CheckFrame(Tail(Top.todo))),
                     CheckFrame(Modified(Candidate)))
  /\ UNCHANGED <<prog, preds, sealed, defs, incomplete, ret, panicked, client>>

Checked ==
  /\ Running("check")
  /\ Top.todo = <<>>
  /\ stack' = Pop
  /\ UNCHANGED <<prog, dfg, ssa, ret, panicked, client>>

-----------------------------------------------------------------------------
(***************************************************************************)
(* seal_block and seal_all.  The block counts as unsealed until all its    *)
(* incomplete phis have their arguments.                                   *)
(***************************************************************************)
SealFrame(block) == [f |-> "seal", block |-> block, todo |-> incomplete[block]]

SealNextPhi ==
  /\ Running("seal")
  /\ Top.todo # <<>>
  /\ LET var == Head(Top.todo)[1]
         phi == Head(Top.todo)[2]
     IN /\ stack' = Append(ReplaceTop([Top EXCEPT !.todo = Tail(@)]),
                           ArgsFrame(var, phi, Top.block))
        /\ preds' = [preds EXCEPT ![Top.block] = <<>>]
  /\ UNCHANGED <<prog, dfg, sealed, defs, incomplete, aliases, ret, panicked, client>>

Seal ==
  /\ Running("seal")
  /\ Top.todo = <<>>
  /\ sealed' = [sealed EXCEPT ![Top.block] = TRUE]
  /\ stack' = Pop
  /\ UNCHANGED <<prog, dfg, preds, defs, incomplete, aliases, ret, panicked, client>>

SealAllNext ==
  /\ Running("sealall")
  /\ IF Top.todo = <<>> THEN stack' = Pop /\ UNCHANGED incomplete
     ELSE LET block == Head(Top.todo)
              rest == ReplaceTop([Top EXCEPT !.todo = Tail(@)])
          IN IF sealed[block] THEN stack' = rest /\ UNCHANGED incomplete
             ELSE /\ stack' = Append(rest, SealFrame(block))
                  /\ incomplete' = [incomplete EXCEPT ![block] = <<>>]
  /\ UNCHANGED <<prog, dfg, preds, sealed, defs, aliases, ret, panicked, client>>

-----------------------------------------------------------------------------
(***************************************************************************)
(* The frontend.                                                           *)
(***************************************************************************)
Idle == stack = <<>> /\ ~panicked
Filled(b) == pc[b] = Len(prog.code[b]) + 1
Busy == cur # None /\ ~Filled(cur)
AtOp(op) == Idle /\ Busy /\ pc[cur] < Len(prog.code[cur])
              /\ prog.code[cur][pc[cur] + 1].op = op
OpVar == prog.code[cur][pc[cur] + 1].var
Advance == pc' = [pc EXCEPT ![cur] = @ + 1]

SwitchToBlock ==
  /\ Idle /\ ~Busy
  /\ \E k \in Block : /\ ~Filled(prog.fill[k])
                      /\ \A j \in 1..(k - 1) : Filled(prog.fill[j])
                      /\ cur' = prog.fill[k]
  /\ UNCHANGED <<prog, dfg, ssa, stack, ret, panicked, pc, held>>

DefVar ==
  /\ AtOp("def")
  /\ AppendInst("def", cur, <<>>)
  /\ defs' = [defs EXCEPT ![cur][OpVar] = Fresh]
  /\ Advance
  /\ UNCHANGED <<prog, preds, sealed, incomplete, aliases, stack, ret, panicked, cur, held>>

ReadVar ==
  /\ AtOp("read")
  /\ ret = None
  /\ stack' = Push(UseFrame(OpVar, cur))
  /\ UNCHANGED <<prog, dfg, ssa, ret, panicked, client>>

HoldValue ==
  /\ AtOp("read")
  /\ ret # None
  /\ held' = ret
  /\ ret' = None
  /\ Advance
  /\ UNCHANGED <<prog, dfg, ssa, stack, panicked, cur>>

WriteVar ==
  /\ AtOp("write")
  /\ defs' = [defs EXCEPT ![cur][OpVar] = held]
  /\ Advance
  /\ UNCHANGED <<prog, dfg, preds, sealed, incomplete, aliases, stack, ret, panicked, cur, held>>

\* insert_inst resolves the operands first: the held value may be a removed phi.
EmitUse ==
  /\ AtOp("emit")
  /\ AppendInst("use", cur, <<[value |-> ResolveAlias(held), pred |-> None]>>)
  /\ Advance
  /\ UNCHANGED <<prog, ssa, stack, ret, panicked, cur, held>>

\* Inserting the branch makes cur a predecessor of each of its destinations.
Branch ==
  /\ Idle /\ Busy /\ pc[cur] = Len(prog.code[cur])
  /\ preds' = [b \in Block |->
                 preds[b] \o [k \in 1..Cardinality({n \in 1..Len(prog.dests[cur]) :
                                                     prog.dests[cur][n] = b}) |-> cur]]
  /\ Advance
  /\ UNCHANGED <<prog, dfg, sealed, defs, incomplete, aliases, stack, ret, panicked, cur, held>>

\* The frontend may seal a block when all the branches to it are there.
SealBlock(b) ==
  /\ Idle /\ ret = None
  /\ ~sealed[b]
  /\ \A c \in Block : Contains(prog.dests[c], b) => Filled(c)
  /\ stack' = Push(SealFrame(b))
  /\ incomplete' = [incomplete EXCEPT ![b] = <<>>]
  /\ UNCHANGED <<prog, dfg, preds, sealed, defs, aliases, ret, panicked, client>>

AllFilled == \A b \in Block : Filled(b)

SealAll ==
  /\ Idle
  /\ AllFilled
  /\ \E b \in Block : ~sealed[b]
  /\ stack' = Push([f |-> "sealall", todo |-> [b \in Block |-> b]])
  /\ UNCHANGED <<prog, dfg, ssa, ret, panicked, client>>

Step == \/ UseVarLocal \/ UseVarUnsealed \/ UseVarSinglePred \/ UseVarJoin \/ UseVarResult
        \/ NextPred \/ AppendPhiArg \/ PhiComplete
        \/ KeepPhi \/ RemoveTrivialPhi \/ Checked
        \/ SealNextPhi \/ Seal \/ SealAllNext

Frontend == \/ \E b \in Block : SealBlock(b)
            \/ SwitchToBlock \/ DefVar \/ ReadVar \/ HoldValue \/ WriteVar \/ EmitUse \/ Branch
            \/ SealAll

Built == Idle /\ AllFilled /\ \A b \in Block : sealed[b]

Next == Step \/ Frontend

Spec == Init /\ [][Next]_vars
FairSpec == Spec /\ WF_vars(Step)

-----------------------------------------------------------------------------
(***************************************************************************)
(* What a function built by SsaBuilder means.  Once every block is filled  *)
(* and sealed, the function runs: along any path of the control flow graph *)
(* the program with variables and the instructions in SSA form run side by *)
(* side.  A definition produces a token; two runs of the same definition   *)
(* in a row produce different tokens, so that a value of an earlier        *)
(* iteration of a loop is not taken for the current one.                   *)
(***************************************************************************)
VARIABLES
  at,     \* the block that runs
  pos,    \* how many of its operations have run
  env,    \* the value of each variable, in the program with variables
  hand,   \* the value the program holds
  val,    \* the value of each instruction, in SSA form
  agrees  \* the last use instruction saw what the program holds

run == <<at, pos, env, hand, val, agrees>>
mvars == <<vars, run>>

NoToken == <<None, 0>>

MInit ==
  /\ Init
  /\ at = None /\ pos = 0
  /\ env = [x \in Var |-> NoToken]
  /\ hand = NoToken
  /\ val = [i \in InstId |-> NoToken]
  /\ agrees = TRUE

\* The instruction that the operation after the first k of block b inserted.
NoPhi(b) == SelectSeq(body[b], LAMBDA i : insts[i].kind # "phi")
InsertedBy(b, k) ==
  LET inserting == SelectSeq(SubSeq(prog.code[b], 1, k), LAMBDA o : o.op \in {"def", "emit"})
  IN NoPhi(b)[Len(inserting) + 1]

NewToken(i) == <<i, 1 - val[i][2]>>

\* Control passes from block b to block c: the phis of c take the values of the
\* arguments that come from b, all at once.
PhiValue(phi, b) ==
  LET fromB == SelectSeq(insts[phi].args, LAMBDA a : a.pred = b)
  IN val[fromB[1].value]

EnterBlock(c) ==
  /\ at' = c /\ pos' = 0
  /\ val' = [i \in InstId |->
               IF Contains(body[c], i) /\ insts[i].kind = "phi" THEN PhiValue(i, at)
               ELSE val[i]]
  /\ UNCHANGED <<vars, env, hand, agrees>>

Start == Built /\ at = None /\ EnterBlock(Entry)

RunOp ==
  /\ at # None
  /\ pos < Len(prog.code[at])
  /\ LET o == prog.code[at][pos + 1]
         i == InsertedBy(at, pos)
     IN \/ /\ o.op = "def"
           /\ env' = [env EXCEPT ![o.var] = NewToken(i)]
           /\ val' = [val EXCEPT ![i] = NewToken(i)]
           /\ UNCHANGED <<hand, agrees>>
        \/ o.op = "read" /\ hand' = env[o.var] /\ UNCHANGED <<env, val, agrees>>
        \/ /\ o.op = "write"
           /\ env' = [env EXCEPT ![o.var] = hand]
           /\ UNCHANGED <<hand, val, agrees>>
        \/ /\ o.op = "emit"
           /\ agrees' = (val[insts[i].args[1].value] = hand)
           /\ UNCHANGED <<env, hand, val>>
  /\ pos' = pos + 1
  /\ UNCHANGED <<vars, at>>

TakeBranch ==
  /\ at # None
  /\ pos = Len(prog.code[at])
  /\ \E k \in 1..Len(prog.dests[at]) : EnterBlock(prog.dests[at][k])

MNext == (Next /\ UNCHANGED run) \/ Start \/ RunOp \/ TakeBranch

MSpec == MInit /\ [][MNext]_mvars
MFairSpec == MSpec /\ WF_mvars(Step /\ UNCHANGED run)

-----------------------------------------------------------------------------

\* On every path every instruction sees the value the variable has there, through
\* joins, loops, copies, held values and removed phis (the purpose of ssa.rs), and a
\* variable defined on every path is never reported undefined.
ValuesAgree == agrees /\ ~panicked

Live == ToSet(Scan)

\* At every moment, also in the middle of a removal, the users of a value are the
\* instructions of the layout that use it (dfg.rs: attach_user and untrack_inst), and
\* no instruction uses a phi that has been removed (comment of change_to_alias).
UsersExact ==
  LET live == Live
  IN \A v \in InstId : /\ users[v] = {i \in live : v \in ValuesOf(insts[i])}
                       /\ users[v] # {} => v \in live

\* A phi whose arguments are still being added is not removed by the removal of
\* another phi, and its block's emptied predecessors are not read (add_phi_args).
ConstructionUndisturbed ==
  \A k \in DOMAIN stack : stack[k].f = "args" =>
    /\ stack[k].phi \in Live
    /\ \A j \in DOMAIN stack : stack[j].f = "use" /\ stack[j].block = insts[stack[k].phi].block
          => defs[stack[j].block][stack[j].var] # None

\* A sealed block has no phi left without arguments: sealing completes all its phis,
\* also those the completion itself asks for (seal_block takes the list only once).
\* Once the function is built, each phi has one argument for each edge into its
\* block, and none is trivial.
PhisComplete ==
  /\ \A b \in Block : sealed[b] => incomplete[b] = <<>>
  /\ Built => \A b \in Block : \A phi \in ToSet(body[b]) : insts[phi].kind = "phi" =>
       /\ [k \in DOMAIN insts[phi].args |-> insts[phi].args[k].pred] = preds[b]
       /\ ~IsTrivial(phi)

\* Every call of use_var, seal_block and seal_all returns: the recursion of ssa.rs ends.
CallsReturn == (stack # <<>>) ~> (stack = <<>>)

\* The calls in progress never disturb each other and no phi is left unfinished, in
\* whatever order the frontend fills and seals blocks (ssa.rs: use_var_recursive,
\* seal_block, remove_trivial_phi).
ConstructionSound == ConstructionUndisturbed /\ PhisComplete

=============================================================================
