# Sonatina in TLA+

Sonatina is a compiler backend for smart contracts, written in Rust: an SSA
intermediate representation with its builders, analyses and passes over it, and
a backend that lowers it to EVM bytecode.  This directory holds TLA+ models of
its data structures and algorithms, the TLC runs that check them on small
instances, and the theorems TLAPS proves about them for every instance.

A compiler is a sequential program; almost nothing in it waits for anything.
What makes it hard is that its state is a web of tables that must agree with
each other (links of the layout, users of values, phis and edges, offsets and
widths, stack shapes), that each table is changed by many callers in orders
nobody enumerated, and that several algorithms recurse or iterate while they
change what they walk over.  The properties below are about those things.

## Inventory

| Component | State | Operations | What can go wrong |
|---|---|---|---|
| Function layout and cursor (`ir/layout.rs`, `ir/func_cursor.rs`) | two intrusive doubly linked lists; the cursor | insert/append/prepend/remove block and instruction, cursor moves, remove_block | links that disagree; a cursor at something removed; a block removed with instructions in it |
| Data flow graph (`ir/dfg.rs`) | instructions, values, results, users | make, replace, attach/untrack users, rewrite branches | users that are stale |
| SSA construction (`ir/builder/ssa.rs`, `func_builder.rs`) | definitions per block, predecessors, sealed flags, incomplete phis, aliases | def_var, use_var, seal_block, seal_all, append_pred | a wrong reaching definition; a removed phi still in use; a phi removed while it is built; endless recursion |
| CFG, dominators, post-dominators, loops, SCCs, liveness (`ir/cfg.rs`, `codegen/*.rs`) | trees and sets over blocks | compute, query, incremental edits | wrong on irreducible or unreachable parts; stale after an edit |
| CFG editing and passes (`cfg_edit.rs`, `critical_edge.rs`, `optim/*`) | the function itself | split edges, remove edges, SCCP, ADCE, LICM, inlining, e-graph | phis out of step with edges; a value moved before its definition; lost effects |
| Module analysis (`module_analysis.rs`, `analysis/func_behavior.rs`) | call graph, SCCs, attributes | compute | attributes that claim too much in recursive groups |
| Stackify (`stackalloc/stackify`) | symbolic stack, spill slots, templates per block | plan the stack code of each instruction and edge | a value out of reach (16 deep), a slot reused while live, shapes that disagree at joins |
| EVM memory planning (`isa/evm/*_plan.rs`, `static_arena_alloc.rs`, ...) | object lifetimes and offsets | place allocas, heap, call-save areas | two live objects at one address; an escaping pointer into scratch memory |
| Assembler and linker (`machinst/assemble.rs`, `object/link.rs`) | offsets, push widths, symbol table | sweep until stable, fix up symbols, emit | jump targets or symbol values that are off; no end |
| Object compiler (`object/*.rs`) | sections, embeds, cache | resolve, order, compile | cyclic embeds; a section compiled before what it embeds |
| Module store, builder, linker (`ir/module.rs`, `module_builder.rs`, `module_linker.rs`) | shared function and type tables | declare, define, link | two declarations of one name; references to the wrong module's table |
| Parser, writer, interpreter, verifier, macros, triple, filecheck | - | - | not modelled: text, tests, code generation |

The components interact by function calls on shared tables: builders and passes
edit a `Function` (layout and data flow graph) through cursors; analyses read
it; Stackify and the memory planners read the analyses; lowering turns the
function into machine code blocks; the assembler and the linker lay them out.

## Plan

| | Modules | State |
|---|---|---|
| 1 | `Layout`, `LayoutSeq`, `LayoutHistory`, `LayoutProofs`: the function layout, refinement of sequences | modelled, checked, proved |
| 2 | `SsaBuilder`, `SsaProofs`: SSA construction and what it builds | modelled, checked; `UsersExact` and `ConstructionSound` proved |
| 3 | `Assembler`, `AssemblerProofs`: relaxation and linking | modelled, checked; `LabelsExact` and `SymbolsExact` proved |
| 4 | `Paths`, `Cfg`, `DomTree`, `LoopTree`, `CfgScc`, `FlowAnalyses`, `FlowProofs`, `Liveness`, `LivenessProofs`, with `CommonLemmas` | modelled, checked; `DominanceExact`, `ControlDependence`, `LoopsExact`, `SccsExact`, `LiveExact` and `CallsLiveExact` proved |
| 5 | `CfgEdit`, `FuncPasses`: edits of the graph and the passes made of them | modelled, checked; next hoisting of LICM, the lattice of SCCP |
| 6 | `StackFunc`, `StackPlanner`, `Stackify`, `StackMachine`, with `SsaStep` and `SsaRun` as what they promise | modelled, checked |
| 7 | `SymbolTable`, `Linker`, `ObjectCompiler`: modules linked into one and its objects compiled | modelled, checked |
| 8 | `CallGraph`, `FuncBehavior`, `CallsProofs`: what is said of a function for every module it may be linked with | modelled, checked; `RecursionSound`, `ReturnsSound` and `MemorySound` proved |
| 9 | `MemoryPlan`, `EvmMemory`: addresses of objects, frames and allocations, and the program in them | modelled, checked |
| 10 | `Inliner`, `InlinerProofs` | modelled, checked; `UsersKept` and `CacheFresh` proved |
| 11 | the elaboration of the e-graph optimizer | planned |

Modules that composed ones rest on come first: `FlowAnalyses` composes `DomTree`,
`LoopTree` and `CfgScc` over the one iterator of `Cfg`;
`FuncPasses` composes the edits of `CfgEdit`; `StackMachine` composes `Stackify`,
which rests on the two modules before it, with the run of `SsaStep`;
`LayoutHistory` puts a history beside `Layout` and refines `LayoutSeq`;
`ObjectCompiler` goes on with the module that `Linker` made, which refines
`SymbolTable`; `EvmMemory` composes the plans of `MemoryPlan`, which share the
components of `CallGraph` with `FuncBehavior`, and runs the program in the memory
they gave it.  No module with theorems reaches a RECURSIVE operator.

## Function layout: `Layout`, `LayoutSeq`, `LayoutHistory`, `LayoutProofs`

`Layout` has the four fields of `Layout`, the cursor's location and one action
per public operation of `FuncCursor` (and `insert_inst_before`, which passes
call directly).  A debug assertion or a panic of the code is a guard.
`FuncCursor::remove_block` is a loop; its iterations are separate steps, during
which `removing` holds the block.  `LayoutSeq` is the specification a caller has
in mind: a sequence of blocks, each with a sequence of instructions.
`LayoutHistory` adds two history variables that record what each edit asked for
and states the properties:

- `Represents`: the links are exactly the recorded sequences;
- `CursorValid`: the cursor never points at anything outside the layout;
- `RemovalEmpties`: a block is unlinked only when it is empty;
- `AbstractSpec`: the layout refines `LayoutSeq`.

Run `layout` (of `LayoutHistory` itself): three blocks and three instructions,
which is enough for every combination of first, middle, last and only element.
Deadlock is checked.  The types are proved rather than run.

`LayoutProofs` proves the type invariant, the three invariants and the
refinement for any sets of blocks and instructions.  The only assumption is that
`None` is neither a block nor an instruction.  The inductive invariant
`HInv` is the conjunction of the types, `Represents`, `CursorValid` and
`RemovalEmpties`: none is inductive alone, because where an edit links a node is
known only from the cursor, and that the cursor's node is in the layout is known
only from the links.  The two workhorses are `InsertLinked` and `RemoveLinked`,
about an abstract doubly linked list; the operations on blocks and on
instructions are both instances of them.

## SSA construction: `SsaBuilder`, `SsaProofs`

`SsaBuilder` follows `ssa.rs`: `preds`, `sealed`, `defs`, `incomplete` and
`aliases` are its fields, `insts`, `body` and `users` the part of the function it
changes.  The recursion of use_var, add_phi_args and remove_trivial_phi is an
explicit `stack` of frames, one model step per call or return, so that what the
algorithm looks like in the middle (predecessors taken away, phis half built,
users being rewritten) is visible to the properties.  The frontend fills the
blocks of a program in any order and seals a block at any time after all its
predecessors have branched, which is what the algorithm asks of it.

The second part of the module runs the finished function: the program with
variables and the SSA form side by side along every path.

- `ValuesAgree`: each instruction sees the value of the variable it asked for, and
  a variable defined on every path is never reported undefined;
- `UsersExact`: at every step, also in the middle of a removal, the users sets
  are exact and nothing uses a phi that is gone (the comment of change_to_alias
  fears that they may be stale there; they are not);
- `ConstructionSound`, of two parts.  `ConstructionUndisturbed`: a phi is never
  removed while its arguments are being added, and emptied predecessors are never
  read.  `PhisComplete`: sealing completes every phi, also those the completion
  itself asks for; at the end every phi has one argument per edge and none is
  trivial;
- `CallsReturn`: the recursion ends (weak fairness of the running call: the
  code does not stop in the middle of a call).

Run `ssa`: every graph of three reachable blocks with orders of filling and every
order of sealing; nested, irreducible and two-latch loops of four blocks and two
variables with copies, where phis refer to each other; a loop that does not
mention a variable used behind it.  `MaxInsts` bounds the instructions and is
never reached.  Deadlock is not checked: a function without a way on has ended.
The programs define every variable in the entry block and every block can be
reached (see the known disagreements for what happens otherwise).

`SsaProofs` proves `UsersExact` and `ConstructionSound` for every program the
frontend may build (`IsProgram`: what a block writes or emits it has read before)
and any number of instructions.  The inductive invariant has five parts:
`GraphSound` (live instructions use live values only, the users table is exact,
chains of aliases end), `StackSound` (which call may be below which; the phis
whose arguments are being added are alive, in different blocks, and hold the
predecessors their block lacks; what a lookup makes is newer than all its
callers work on), `PhisSound` (phis that wait for arguments, those that are
complete, and that no branch to a sealed block is missing), `ClientSound` (a
returned value is alive) and the types.  That the calls do not disturb each other
rests on the third item of `StackSound`: a trivial phi that is removed is newer
than any phi whose arguments are under way, and so replaces nothing of theirs.

## Assembler and linker: `Assembler`, `AssemblerProofs`

One action per sweep of a function (`FuncLayout::resize`), per symbol fixup and
per round of `link_section`.  A function is a sequence of block starts, plain
instructions and pushes; a sweep computes the running offset with the addresses
it has read so far, new ones for backward labels and old ones for forward ones.
The byte widths are the real ones (256, 65536).

- `LabelsExact`, `SymbolsExact`: in the emitted section each label and symbol
  push, and each entry of the symbol table, is what the bytes say;
- `Terminates`: the sweeps and rounds end (weak fairness of the loop itself).

Run `assembler`: all sections of two functions with four or five pushes, with
code sizes that put targets at 254 to 258, both push policies.  Termination is
checked for those sizes only: three byte widths in play at once (16 MB of code)
would be needed for forward labels that widen each other in turn.

`AssemblerProofs` proves `LabelsExact` and `SymbolsExact` for every section and
both policies, of any size.  A sweep reads offsets that it has not yet updated, so
nothing is exact while sweeps go on: the invariant `SweepSound` says that as long
as a sweep has noticed no change, all functions it has passed are placed exactly
(`PlacedTo`), and `MoveSeen` that a function that has moved since its layout was
computed will be noticed to have.  `LaidOut` carries the result over the fixups
that change no width, and `SymbolsSound` says that the table built before the
fixups is still that of the layout, and which fixups hold its values.

## Flow analyses: `Paths`, `Cfg`, `DomTree`, `LoopTree`, `CfgScc`, `FlowAnalyses`, `FlowProofs`

`Cfg` has the graph and the state of `CfgPostOrder`, one action for a block
visited and one for a block popped; every analysis begins with it.  `DomTree` is
the iteration of `compute`, one action per block of a round, and the walk of
`compute_df`, one per join; `intersect` moves the lower of two blocks up until they
meet.  The second part of the module is `PostDomTree`: `PostGraph` is the reversed
graph with its dummy entry and exit, of which the same tree is computed.  `LoopTree` finds headers
and walks each loop backwards from its latches, one step per block met, and has
the iterator over the blocks of a loop; `CfgScc` has the search, the data of
every component and the topological order.  `FlowAnalyses` runs them in the order
the passes ask for them.  Each is compared with a definition by paths, which
`Paths` gives (what can be reached while avoiding a set of blocks):

- `DominanceExact`: the iterator yields a post-order of the reachable blocks
  (`OrderExact`), and the tree (`DominatorsExact`) and the frontiers
  (`FrontiersExact`) are what paths from the entry define;
- `ControlDependence`: the frontiers of the reversed graph name exactly the
  branches that decide whether a block runs, the dummies left out;
- `LoopsExact`: a block is only put in loops it belongs to (`LoopsSound`), and
  up to two loops deep in all of them (`TwoDeepExact`);
- `SccsExact`: components, entries and cycles are those of mutual reachability
  (`ComponentsExact`), and the order puts predecessors first (`TopoOrderExact`);
- `Terminates`: every analysis ends, on irreducible graphs too (weak fairness of
  the next step of the one thread that computes).

Run `flow`: every function of three blocks with any terminators, every entry and
any choice of returning blocks, and every function of four reached blocks with at
most two targets; and the reversals of all of them.  Three blocks have every
irreducible core and self loop, four have two loops sharing a header, a latch or
an exit.  `Reversals` are the functions whose reversed graphs are among `Graphs`;
those of four blocks that never end are left out, since nothing of them can be
reached in the reversed graph.  Three nested loops also fit four blocks, and `flow_nest` shows that
there the property fails: the walk of an outer loop, meeting a block two loops
further in, goes on at the header of the innermost loop and leaves the blocks
between out of the outer loop.

Two behaviours the models take from the code and no property speaks of:
`DomTree::is_reachable` (domtree.rs:127) is false for the entry, whose idom is
none; and a loop's walk (loop_analysis.rs:141) also takes in predecessors that
cannot be reached from the entry.

`FlowProofs` proves `DominanceExact`, `ControlDependence`, `LoopsExact` and `SccsExact` for every
set of graphs: of any size, irreducible, with unreachable blocks and endless loops.

- The iterator (`OrderInv`).  Several copies of a block may be on its stack, so the
  invariant says which copies matter: everything on the stack is reachable; what a
  visited block leads to is visited, finished, or on the stack above it; a visited
  block waits below its copies; and of an edge between returned blocks the target
  was returned first or closes a cycle.
- The rounds (`DomInv`).  Besides that the chain of a block keeps all its true
  dominators (`Keeps`, the property), it needs that the parent of a block has a
  larger number (`Tree`), so that `intersect` ends: with each move the sum of the
  two numbers grows.  And it needs `Low`: a block can be reached from its parent
  through lower blocks only.  Without it, moving a block up might take a true
  dominator from the chains of the blocks below it; with it, what is skipped is
  no dominator of any of them.  `Settled` says that if nothing has changed so far in
  a round, the blocks it has passed have the meet of their predecessors; after a
  whole round of that, what is not in a chain can be avoided on a path
  (`RoundDone`).
- The frontiers are then a matter of the tree (`FrontierLemma`).
- Post-dominance follows because a path of the reversed graph is a path of the
  function read backwards (`PathBack`).
- The loops (`LoopInv`, which is `IInv` and `LoopPart`).  Headers are in reverse
  post-order and are the targets of edges from blocks they dominate (`Heads`);
  parents come before their children and each loop is listed once as a child
  (`Shape`), so that going up from a loop ends; a block, and a loop, is only put where it
  belongs (`Inside`), and the loops already walked hold their natural loops
  as far as no third loop is between (`Whole`).  `Walking` is the worklist of the walk in
  progress: what leads to a block met is met or waits, or lies in a loop that is met.
  There `TwoDeep` is needed: a walk that meets a block of an inner loop goes on at the
  header of the innermost, and with loops at most two deep it passes over none.
  `IterInv` follows the iterator over the blocks of a loop.  `LoopsExact` has two
  conditions: that no block out of reach jumps to a block in reach (`OnlyReachedJump`,
  for all of it), and `TwoDeep` for exactness; that a block is only put in loops it
  belongs to is proved at any depth.
- The components (`SccInv`) need one more fact about the iterator, by which a search
  from the last block not seen cannot leave its component (`Joins`): whatever a block
  leads to was returned before the last block of its component, or is that block
  (`Leading`).  It is no invariant while the iterator runs: a finished block may lead
  to blocks still on the stack.  `Anchored` says that it holds of a block unless a
  block of its component is still visited.
- `Between` and `Searching` say what the numbers mean between and during searches:
  the components found are whole, and what leads to one is in one with a number not
  larger.  So in the topological order the component left out with the least
  number would be ready, and there is none (`TopoEnds`); `SmallestFirst`
  compares each component with all that could have been placed instead.

`CommonLemmas` has the fact all of this rests on: `ReachSteps` takes as many steps as
the graph has nodes and computes the least set closed under the edges
(`ReachLemma`).

## Liveness: `Liveness`, `LivenessProofs`

`up_and_mark` recurses along the predecessors, a frame of `stack` per call;
`compute` takes the blocks in post-order, uses before, definitions after.
`InstLiveness` then walks each block backwards.  One `Liveness` may be computed
for several functions.

- `LiveExact`: a value is live in and out of exactly the blocks on a path from
  its definition to a use (`BlocksLiveExact`), and what is live after each
  instruction agrees with that (`InstsLiveExact`);
- `CallsLiveExact`: in whatever order the blocks are laid out, `call_live_values`
  finds the values live across the calls of a function but for the `LostResults`.
  The code takes the result of each call out of what all calls before it have added
  (liveness.rs:182), so that the result of a call which the layout has after every
  other call it survives is lost; no other value is, and none is found that
  survives no call.  `LostResults` is empty when each block follows those that
  dominate it (`LayoutFollowsDefs`) and definitions dominate uses
  (`DefsDominateUses`); nothing in the code orders a layout so.  And uses are counted
  once each, in the blocks they are in (`UseCountsExact`).

Run `liveness`: functions of three blocks on every graph with an argument, a
value, a phi, a call and an immediate in every combination of places, and a
second function computed with the tables of a first.  Functions with calls come in
two layouts, `<<1, 2, 3>>` and `<<1, 3, 2>>`: in the second a result of block 2 that
lives across a call of block 3 is lost, in the first it is not.  As in the code, the use
counts are not cleared between functions (liveness.rs:125), and the live-out set
of a block omits values that only the phis of its successors take
(liveness.rs:148): they are listed with the edges.

`LivenessProofs` proves `LiveExact` for every function, every order in which uses
are met and every sequence of functions on one `Liveness`.  What is assumed of a
function (`IsFunction`) is what the verifier of any SSA form asks: a value has one
definition, before its uses in the same block.  A use without a definition is
allowed.  The invariant `WalkSound` is that of a search in progress: whatever is
marked is live (`Found`); a block marked live-out by a walk is marked live-in
unless it defines the value (`Arrived`); a predecessor that is not marked yet is
one that a waiting call has still to go to (`Waiting`, `Walked`); and every use of
the blocks passed is marked or still to be visited (`Visited`, `ToVisit`).  When
nothing waits, the marked set is closed and so is the least one (`WalkedLemma`).

It proves `CallsLiveExact` as well (`CallsLive`).  `CountInv` says of the counts, in the
middle of a function, how many of the uses are not counted yet.  For the calls, a value
is in the set when it is live after a call and no call at or after that one in the
layout defines it (`Survives`, by following the loop); since a value has one
definition and a block one place in the layout, what is missing from
`LiveAcrossCalls` is `LostResults` (`CallsLemma`), for every layout.  That nothing is
lost has two conditions (`NothingLost`), and the proof asked for the second: the
result of a call that is read on a path around that call can be live across an
earlier call, and is taken out of the set when its own comes.

## Function passes: `CfgEdit`, `FuncPasses`

`CfgEdit` begins with a function as the passes see it: blocks in order, the
instructions of each, operands, destinations, and the users table, which is state
of its own because the code updates it by hand.  `ok` becomes false where an
assertion or an unwrap would fail.  Each operation of `CfgEditor`, the phi
helpers, `CfgCleanup` and `CriticalEdgeSplitter` is an operator from a function to
the edited one, in the order of the code: edges, then phis, then what has become
trivial.  `FuncPasses` has a round of the dead code elimination (post-dominators
are taken by definition, as `flow` shows the tree to be exact).

`FuncPasses` edits a function, one action per edit or pass (a round, for the
elimination), with the arguments the callers of the code give: loops with the
predecessors from outside (LICM), edges that are known not to be taken (SCCP).
After the edits it runs the function beside the one it was: the instructions both
have in step, those only one has alone.  Instead of data, `equal` holds which
value of the one equals which of the other; two values are equal if the same
operation made them from equal operands, so agreement holds for every input.

- `WellFormed`, of three parts.  `PhisMatchEdges`: each phi has one argument per
  predecessor, parallel edges counted once ("helpers that keep CFG preds and phi
  incoming sets consistent").  `UsersTracked`: the users table is exact.
  `DefinitionsDominate`: every operand is still defined, above its use on every
  path or, for a phi, above the edge it comes over;
- `EditsNeverPanic`: no assertion of the editor, of the strict cleanup or of the
  elimination fails, whatever went before;
- `NoCriticalEdges`: none is left after the splitter;
- `SameBehaviour`: along every path, the edited function has the same effects on
  equal operands in the same order and returns the same.

Run `passes`: `MaxEdits` = 2 edits on functions of thirteen graphs (diamonds, one
and two sided branches, loops with one and two exits, at the entry, endless and
nested; two ways into a loop; a table with two arms to one block; a branch with
both arms to one block; unreachable and empty blocks; two returns), each with
constants, results or both in its phis, and no operation, pure ones, writes or a
call that does not return in its blocks.  Two edits are what it takes for one to
meet what another left behind; `Block` and `NumInsts` bound the blocks and
instructions and are not reached.  Deadlock is not checked: a run that has ended
stays there.

`SameBehaviour` and `DefinitionsDominate` are stated for functions in which the
elimination met no live phi with a dead incoming block (`ForgetsPhiEdge`): it marks
what a phi takes but not where it comes from, removes the block, and with it the
edge and the value.

Left out: `append_inst_with_result` and `replace_succ` with values for phis, the
hoisting of LICM and the lattice and folding of SCCP.  `truncate_block_from_inst`
serves the inliner, and is there.

## Stackify: `StackFunc`, `StackPlanner`, `Stackify`, `SsaStep`, `SsaRun`, `StackMachine`

Stackify decides, before anything is emitted, which DUP, SWAP, PUSH, POP, load
and store goes around each instruction.  `StackFunc` begins with the symbolic stack,
whose operations emit actions and whose assertions make a plan panic, and goes on
with `StackifyContext`, the function and the analyses read off it (liveness, dominance
and components by definition, as `flow` and `liveness` show them);
`StackPlanner` has the planner: spill slots, cleaning up, the two ways operands
are brought to the top (one by one, and by searching for the cheapest sequence
when there are two), the normalization of a stack to an exact shape, edges and
returns; `Stackify` plans a block and solves for the stack each block
expects, component by component, and is the builder as a state machine:
iterations that plan every block, one instruction a step, until no plan asks for
a spill it does not have; the pool of scratch slots outlives an iteration, as in
the code.

`StackMachine` then runs the plan: a stack, the scratch words and the memory
objects, with what the backend puts between the actions.  The caller's part of
the stack is a token below the return address, and a call overwrites every
scratch word.  `SsaStep` is how the SSA form runs, `SsaRun` what every
instruction must see, and the machine has the variables of both, so that
`Implements` is the refinement `Ssa!Spec` without further mapping.  Values hold
tokens that tell one computation from the next, in loops too.

- `Implements`: every instruction finds its operands on the top of the stack (in
  either order if it is commutative), a call the continuation below them, each
  case of a br_table the scrutinee and the case, and a return nothing but its
  value above the return address and the caller's stack;
- `PlanHolds`: by every way into a block the stack is what its template says
  (`JoinsAgree`), no assertion of the planner fails, nothing is popped or swapped
  below the return address and no DUP or SWAP is out of range (`NeverPanics`);
- `SpillsKept`: a spilled value that is still read is in its slot or object.

Run `stackify`: seven shapes (one block, calls, a branch and its join with two
phis, a loop whose phis exchange values, a loop around a call, a loop with two
entries, a br_table with a block that stops), in each of which two operands vary
over arguments, results, phis and an immediate; reaches 1 to 4 stand for the 16
of the EVM, so that a handful of values is already more than DUP and SWAP reach
and every one is rotated, deleted, spilled and reloaded somewhere; 0 to 2 scratch
slots, so that the pool runs out.  `MaxActions` = 4 (12 in the code) bounds the
search for two operands, which falls back on the general way as in the code.  Of
equally cheap plans the code takes the first it meets and the model any fixed
one.  `PhisInReach` leaves out blocks with more phis than DUP reaches: with them
the assertion of planner/mod.rs:150 does fail.  `CallsKnown` leaves out, when
there are scratch slots, functions where only a phi reads a value after a call.  No fairness is
assumed.  Deadlock is not checked: a program that has returned stops.

Left out: the trace observer, the encoded size of an immediate (all of the model
are small), and a br_table without cases, which the lowering refuses.

## Module linker and object compiler: `SymbolTable`, `Linker`, `ObjectCompiler`

`Linker` begins with what a module keeps (types, globals, functions, objects, with
references that are positions in its tables) and the calls that intern and declare
in it.  The rest is `ModuleLinker`: modules are registered, and each is linked into
the first, triple, types, globals and functions in turn, one action per entity in
any order the tables allow; a struct is declared before its fields are linked.
Then the objects move, and the bodies, each in a step of its own and in any order,
because the code moves them in parallel.  A linked module can be the destination of
another link.  `ObjectCompiler` resolves the sections of the result, looks for
cycles of embeds, collects what each section needs, orders them and compiles one
after the other into the cache; what `link_section` makes of a section is
`Assembler`.

- `LinkedMeansTheSame`: every reference the caller holds, and every reference of a
  moved body, means in the linked module what it meant in its own (names, the
  shape of types through recursive structs, initializers), and the body of a
  defined function arrives whatever stubs arrive beside it;
- `LinksIffConsistent`: modules link exactly when they agree pairwise, whatever the
  order, at once or appended;
- `OneDefinitionRule`: the linker implements `SymbolTable`, in which names are
  declared, defined at most once, and their code installed once and never
  replaced (`OneDefinition == INSTANCE SymbolTable WITH ...`);
- `CyclesFound`: a cycle of embeds is found if there is one, across objects of
  different modules, and what is reported is one;
- `ArtifactsComplete`: the artifact of every section has exactly the functions,
  data and embeds that what it contains refers to, and is made of finished ones.

Run `objects`: up to `MaxModules` = 3 of sixteen modules, in every order: rival
definitions, stubs, borrowed and recursive types, another triple, sections that
embed forwards, backwards, sideways and themselves, directives that cannot be
resolved and data that cannot be encoded.  Three is what it takes for two modules
to meet in a third.  Deadlock is not checked: a link that has failed stays there.

## Module analysis: `CallGraph`, `FuncBehavior`, `CallsProofs`

`CallGraph` has the call graph, Tarjan's components and the order in which they are
visited; `FuncBehavior` the recursion and leaf flags of `module_analysis.rs` and the
attributes of `func_behavior.rs`.  The module is then executed: a call enters a
function, a path through its blocks is followed, and an external function may do
anything to memory and call any public function of the module, as the modules
linked later may.

- `RecursionSound`: no function that is not called recursive is active twice;
- `ReturnsSound`: what may not return does not, what will return never stops or
  meets itself, and what will terminate does not loop;
- `MemorySound`: whatever an active call does to memory is among its attributes.

Run `calls`: 15 bodies and 2 linkages for three functions that call each other and
themselves, on one way only, in loops, before a stop, or where nothing reaches, or
are external; `MaxDepth` = 4 active calls, enough for each function to be active
once and one of them again.  Deadlock is not checked: a program ends.

`CallsProofs` proves the three properties for every set of modules, with functions of
any size, and any `MaxDepth`.  What is assumed of a module (`ModulesAssumption`) is what
the other parts of the compiler leave: a function that is not external has a body, calls
are of functions of the module, terminators lead to blocks of their function, and an
exit is a block whose terminator leads nowhere.

- *Components.*  `ComputeScc` is Tarjan's algorithm with its recursion laid out in the
  field `calls`: a step enters a function, comes to a callee or returns.  `SccInv` is
  what holds between the steps: the stack is in the order of the indices, and the
  calls that have not returned are on it in this order; a callee that was come to is
  visited and, while it is on the stack, has an index no lower than the caller's
  lowlink; what has returned and is still on the stack has a lowlink no lower than
  the calls below it.  Every step does one thing that was not done before, and there are
  n + 2 of them for each function (entering it, each callee, returning), so that
  n * (n + 2) steps finish (`ComputeSccRight`).  What the analyses
  use of the result is `SccsRight`: every function is in one component, components
  call only earlier ones and themselves, and one that is no cycle is one function
  that does not call itself.
- *Order.*  `CalleesFirstRight`: the reversed topological order has every component
  once, after the components it calls.
- *What is gathered.*  Flows and memory effects are both a union over what a component
  calls, less what it drops; visited callees first, they satisfy their equation
  at the end (`AllGathered`).  The attributes of returning only grow, and for each
  function say what its own blocks and the marks of its callees imply (`AttrsRight`).
- *Calls.*  Nothing of this restricts a run of the module.  `FramesRight` does: any
  two active calls, not only neighbours, are either `Below` (called through functions
  of the module: in an earlier component or in the same cycle, with no more effects and
  no weaker promises) or `Across` (an external function is between them: the lower
  one depends outwards, touches any memory and promises nothing, and the upper one
  is reached from public functions).  Neighbours alone would not do: what has to be
  excluded is that a function is above itself.  A function above itself through
  functions of the module is in a cycle; across an external one its component has
  both directions.  In both cases it was marked recursive.
- For the marks of returning, the block of a call is among those that can be left
  without a NORETURN call (`Inside`), and `seen` holds only blocks with a path to the present
  one, so that a block comes back only on a cycle of the control flow graph.

## EVM memory: `MemoryPlan`, `EvmMemory`

The functions of a program share one memory.  `MemoryPlan` has first what the plans
read off a function: liveness, provenance of pointers, which arguments escape; the
objects of a function (local memory and spilled values), the
instructions each lives at, those live across each call, and the packing of them
into free segments.  It then gives each component of the call graph its
addresses: fixed ones, with the calls chosen at which words are pushed on the stack
instead, by cost, or a frame per call; it also says what may write scratch
memory, which allocations are placed without moving the free memory pointer, and
where the heap may begin.  `EvmMemory` is `prepare_section`, the search for the
functions that may use scratch slots (one round per step), the plans and then the
lowered program: one step per instruction, with frames, saved words, the dynamic
frame pointer and the free memory pointer as the code emits them.  Beside the
memory the state holds what the program meant: every object has contents of its own.

- `SpillsSurvive`: a spilled value is in its slot when it is read;
- `ObjectsSurvive`: a word of local memory or of an allocation that is loaded or
  copied is what was stored there last;
- `FramesUnwind`: a frame is left with the frame pointer it was entered with;
- `PlanVerifies`: the search for scratch slots and that for the cost cap end, and
  the plans they lead to pass the checks of debug builds.

Run `memory`: some 2100 programs of three functions (local memory given down,
stored, returned as a pointer, indexed, copied and cast; calls in one arm, in loops,
to itself and to each other; allocations that stay, are returned or are transient),
each spilling nothing, everything, or one value, with two cost models.  `MaxDepth` =
4 active calls lets a recursive function be entered twice below its callers;
`MaxJumps` = 6 bounds the loops of a run; `MaxRounds` = 6 and `CapRounds` = 8 bound
the two searches, and `PlanVerifies` says that they are not reached.  Memory is counted in words.
What is spilled is given with the program; with Stackify it is decided before.
Programs are laid out in reverse post-order (`MemoryPlan`): see `liveness.rs:182` under
Findings for what other layouts do to `ScratchLiveValues`.
Deadlock is not checked: a program ends.

## Inliner: `Inliner`, `InlinerProofs`

`Inliner` is `Inliner::run`: in each iteration the call sites of every function are
collected, then taken one by one, one action per site, with the plan
`analyze_callee` makes of the callee (remove the call, use an argument or constant
for its result, call what it calls, splice its body, splice a body that ends the
program) and the cache of these.  A module keeps its instructions, blocks and users
table.  What a function means is computed by running it (`Invoke` of `MCInliner`), not
by the code of the inliner.

- `MeaningKept`: after every single edit, every function still emits the same, in
  the same order, and ends with the same result, for every input;
- `UsersKept`: the users tables are exact at every moment;
- `CacheFresh`: what is remembered of a callee is what would be found now, though
  it has been edited as a caller since.

Run `inliner`: about 9000 pairs of a module of three functions (chains, wrappers,
direct and mutual recursion, declared functions, calls in the arms of a branch,
functions without a result, bodies that end the program) and one of three
configurations.  `MaxIters` = 3 bounds the iterations (8 in the code: from the
second on a call is met that an earlier iteration made); `MaxDepth` = 5 calls are
followed, and an input that goes deeper is not compared.  Deadlock is not checked.  Globals and undefined values are constants,
statistics and phis of the blocks behind a splice are left out.

`InlinerProofs` proves `UsersKept` and `CacheFresh` for modules of any number of
functions, of any size, under any configuration and any `MaxIters`.  All that is
assumed of a module (`ModulesAssumption`) is what the code takes for granted of its
input: calls are of functions of the module, a block ends with a terminator, the
layout has an instruction once, and the users tables are right.  That this stays so is
the inductive invariant (`InlineInv`), with two parts more: the call sites that are
left are calls (`SitesAreCalls`), and the cache is fresh.

- A users table stays exact only if the layout has no instruction twice, or a removal
  would take away the uses of one that is still there; and no instruction made for a
  splice may be one that is in the function already.  Each edit is shown to keep
  `Core`, the part of `IsFunction` that the edits of a block touch: `RemoveKeeps`,
  `ReplaceKeeps`, `AppendKeeps`, `SpliceKeeps`, `TruncateKeeps` and `AliasKeeps`.
- Between its truncation and its new last instruction, a block has no terminator
  (`ApplyExit`); the plans as a whole give it back (`ExitSound`; together `PlanKeeps`).
  The panics of `analyze_callee` about empty blocks and missing terminators so never
  happen after an edit.
- An edit keeps the instructions there were and whether they are calls (`Kept`), even
  those it takes out of the layout, so that a call site collected earlier still is
  one: `apply_plan` then asks only whether it is still inserted.
- What `analyze_callee` finds depends on the callee, the configuration, the counts of
  the iteration and, for wrappers, the signatures of others (`AnalyzeSame`).  The
  first is forgotten when it changes and the others do not change.

## Findings

| Run | Where | What |
|---|---|---|
| `flow_nest` | `codegen/src/loop_analysis.rs:140` | blocks of a loop are lost when loops nest three deep |

The run checks one property that the code does not have, and ends with a
counterexample; PROJECT.json quotes what the code says of it.

Known disagreements that the instances of the passing runs leave out.  They came up
as counterexamples while the instances were chosen, and each precondition is named
where it is stated:

- `ssa.rs:114`: a use behind an unreachable cycle of single-predecessor blocks
  recurses for ever where the code means to panic;
- `adce.rs:122`: a block is removed that a live phi takes a value from
  (`ForgetsPhiEdge`);
- `planner/mod.rs:150`: with more phis in a block than DUP reaches the assertion
  fails (`PhisInReach`);
- `scratch_plan.rs:119` with `liveness.rs:148`: a value only a phi reads after a call
  is not live across the call, is kept in scratch memory, and is overwritten
  (`CallsKnown` in `stackify`; in `memory` no value is made before a call of its
  block only for a phi of the next);
- `heap_plan.rs:112`: where a callee makes the first allocation, it can lie among the
  static objects of its callers;
- `evm/mod.rs:466`: for a function that calls itself, directly or through another, and
  spills some of its values, the set of functions with scratch slots can alternate
  between two, and the loop does not end;
- provenance: the interval of a local object ends too early when a pointer to it is
  carried around a loop, and a pointer loaded through an argument and returned is
  not followed; a caller that restores the free memory pointer frees an allocation
  that its callee made and that is still referred to.  `MCMemory` has no such
  programs;
- `evm/mod.rs:864`: the continuation is removed from the actions inside
  `debug_assert_eq!`, so that debug and release builds lower a call differently.  No
  model has the two builds.

One is in the instances and in what is stated.  `liveness.rs:182` takes results out of the
union of all calls so far, and drops a call result that lives across a call if its own
call comes later in the layout: `CallsLiveExact` says which values are dropped
(`LostResults`).  `scratch_plan.rs:119-122` accumulates in the same way, and could keep
such a result in scratch memory across a call that overwrites it.  `ScratchLiveValues`
(`MemoryPlan`) and `ScratchLive` (`StackFunc`) take the results out in layout order as
the code does, but the functions of `memory` and `stackify` are all laid out in reverse
post-order, where nothing is dropped: `SpillsSurvive` and the runs of stackified code say
nothing of other layouts.

## Proved, and only checked

Proved by TLAPS, for every value of the constants:

| Module | Theorem | What it states | Assumed of the constants |
|---|---|---|---|
| `LayoutProofs` | `LayoutTypes`, `LinksRepresentSequences`, `CursorAlwaysValid`, `RemovedBlocksAreEmpty`, `LayoutImplementsSequences`, from `LayoutInvariant` | types, `Represents`, `CursorValid`, `RemovalEmpties`, `AbstractSpec` | None is no block and no instruction |
| `SsaProofs` | `Users`, `Phis`, from `Construction` | `UsersExact`, `ConstructionSound` | a program writes and emits only what it has read |
| `AssemblerProofs` | `Labels`, `Symbols`, from `Linking` | `LabelsExact`, `SymbolsExact` | labels of a function are its own items, or functions of the section |
| `LivenessProofs` | `Live`, `CallsLive`, from `Walks` | `LiveExact`, `CallsLiveExact` | one definition per value, before its uses in a block; branches lead to blocks of the layout, which has each once; finitely many blocks |
| `FlowProofs` | `Dominance`, `PostDominance`, from `Invariant`; `LoopNesting`, `StronglyConnected` | `DominanceExact`, `ControlDependence`, `LoopsExact`, `SccsExact` | finitely many blocks; the dummies of the reversed graphs are no blocks of the function |
| `InlinerProofs` | `UsersTables`, `SummariesFresh`, from `FunctionsKept` | `UsersKept`, `CacheFresh` | a module is a sequence of functions with exact users tables, as above |
| `CallsProofs` | `NoHiddenRecursion`, `ReturnsAsMarked`, `MemoryMarked`, from `Invariant` | `RecursionSound`, `ReturnsSound`, `MemorySound` | modules as the compiler leaves them: bodies, calls and branches that lead somewhere, as above |

Each of them is `Spec => []P` by an inductive invariant (`HInv`, `IInv`, `CountInv`,
`LoopInv`, `SccInv`, `InlineInv`, `FramesRight`) described with its component above; no assumption but those of the table, which TLC evaluates
on every run, is made.  `CommonLemmas` has what the proofs share about sequences
(appending, popping and replacing the top of a stack, flattening), `CountUp`, by which a
function defined by recursion on numbers is followed one step after the other, and what
paths reach.

Only model-checked, on the instances above:

- `CallsReturn` and both `Terminates`: liveness under fairness, which TLAPS does not
  prove here.  The fairness is in every case that of a sequential program: the one
  thread that computes takes its next step.  The environment (the frontend, the
  caller of an edit, an external function) is never assumed to do anything.  The
  bodies that the linker moves in parallel need no fairness: no property asks that
  a link ends.
- `ValuesAgree`: it compares two runs of a whole program, before and after; its
  invariant would have to say what each variable means at every point of a
  construction in progress, and the program's variables would have to be defined on
  every path.  `SameBehaviour` of `passes` and `MeaningKept` of
  `inliner` are of the same kind.
- Stackify, EVM memory, linker and object compiler: their models, or the definitions they are compared with, are recursive
  operators, which take tlapm its arithmetic backend.
- `CfgEdit` and `FuncPasses`: `WellFormed`, `EditsNeverPanic`, `NoCriticalEdges`.

## Not modelled

- The e-graph optimizer: its rules run in an engine outside this repository; how a
  solution is elaborated into a function is planned.
- LICM's hoisting and SCCP's lattice; `ObjectBuilder`; two threads on one
  `ModuleBuilder`, whose tables are shared under locks.
- Instruction selection apart from what keeps state: a table from instructions to
  opcodes.  Types apart from those linking interns and updates.
- The interpreter, which tests use; parser and writer, text formats; the verifier,
  which checks nothing at this commit; procedural macros, triple and filecheck.

PROJECT.json lists every part with its sources.
