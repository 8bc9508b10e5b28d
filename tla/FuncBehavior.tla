---------------------------- MODULE FuncBehavior ----------------------------
(***************************************************************************)
(* What the code generator assumes of a function for every module it may   *)
(* be linked with: whether it can be recursive                             *)
(* (crates/codegen/src/module_analysis.rs) and its attributes, what memory *)
(* it touches and whether it returns                                       *)
(* (crates/codegen/src/analysis/func_behavior.rs).                         *)
(*                                                                         *)
(* A module is a function from the functions, numbered, to records         *)
(* [linkage, blocks]; blocks is empty for a declaration; a block is        *)
(* [effects, calls, succs, exit]: the memory effects of its instructions,  *)
(* the functions it calls in order, the blocks its terminator leads to and *)
(* "return" or "stop" for the exits.                                       *)
(***************************************************************************)
EXTENDS CallGraph, Paths

IsExternal(mod, f) == mod[f].linkage = "external"
HasBody(mod, f) == mod[f].blocks # <<>>
IsExit(block) == block.succs = {}

\* The calls of every block, reachable or not.
BuildGraph(mod) == [f \in DOMAIN mod |-> UNION {ToSet(b.calls) : b \in ToSet(mod[f].blocks)}]

-----------------------------------------------------------------------------
(***************************************************************************)
(* ModuleAnalyzer.  A DependencyFlow is the set of the directions it       *)
(* depends in: IncomingOnly is {"in"}, Bidirectional both, Closed none;    *)
(* join is the union, remove_flow the difference.                          *)
(***************************************************************************)

\* Mutant: the functions public ones call are not traversed with their flow.
PublicOnly(mod, g) == {f \in DOMAIN mod : mod[f].linkage = "public"}
\* Reached from a public function: what the first round of traversals visits.
PublicSide(mod, g) == ReachSteps(g, {f \in DOMAIN mod : mod[f].linkage = "public"}, {})

\* The flow of a component, from the flows of those it calls.
FlowOf(mod, g, sccs, succ, flow, i) ==
  LET scc == sccs[i].components
      callees == UNION {flow[j] : j \in succ[i]}
  IN IF \E f \in scc : IsExternal(mod, f) THEN {"out"}
     ELSE IF scc \subseteq PublicSide(mod, g) THEN {"in"} \cup callees
     ELSE callees \ {"in"}

\* A component comes after the others it calls.
Flows(mod, g, sccs, succ) ==
  LET flow[k \in 0 .. Len(sccs)] ==
        IF k = 0 THEN [i \in DOMAIN sccs |-> {}]
        ELSE LET before == flow[k - 1]
             IN [before EXCEPT ![k] = FlowOf(mod, g, sccs, succ, before, k)]
  IN flow[Len(sccs)]

IsRecursive(mod, sccs, flow, i) ==
  \/ sccs[i].is_cycle
  \/ \E f \in sccs[i].components : IsExternal(mod, f)
  \/ flow[i] = {"in", "out"}

\* External functions are taken to be anything at the end, whatever their component was.
AnalyzeModule(mod, g, sccs, succ) ==
  LET flow == Flows(mod, g, sccs, succ)
  IN [f \in DOMAIN mod |->
        [is_recursive |-> IsRecursive(mod, sccs, flow, SccOf(sccs, f)),
         is_leaf |-> ~IsExternal(mod, f) /\ g[f] = {}]]

-----------------------------------------------------------------------------
(***************************************************************************)
(* FuncBehaviorAnalyzer: local facts first, then from callees to callers.  *)
(***************************************************************************)
Succs(blocks) == [b \in DOMAIN blocks |-> blocks[b].succs]
ComputeReachable(blocks) == ReachSteps(Succs(blocks), {1}, {})

LocalFacts(blocks) ==
  LET reachable == ComputeReachable(blocks)
      exits == {b \in reachable : IsExit(blocks[b])}
  IN [local_mem |-> UNION {blocks[b].effects : b \in reachable},
      callees |-> UNION {ToSet(blocks[b].calls) : b \in reachable},
      cfg_has_cycle |-> \E b \in reachable : b \in ReachSteps(Succs(blocks), blocks[b].succs, {}),
      exits_all_return_like |-> exits # {} /\ \A b \in exits : blocks[b].exit = "return",
      exits_all_terminate_like |-> exits # {},
      has_any_return_like_exit |-> \E b \in exits : blocks[b].exit = "return"]

AnyMem == {"MEM_READ", "MEM_WRITE"}
Known(mod, f) == ~IsExternal(mod, f) /\ HasBody(mod, f)
StartAttrs(mod, facts, f) ==
  IF ~Known(mod, f) THEN AnyMem
  ELSE IF facts[f].has_any_return_like_exit THEN {} ELSE {"NORETURN"}

\* What a component's functions do themselves.
OwnEffects(mod, facts, scc) ==
  UNION {IF Known(mod, f) THEN facts[f].local_mem ELSE AnyMem : f \in scc.components}
\* Mutant: the effects of the components it calls are left out.
OwnMem(mod, facts, sccs, succ, mem, i) == OwnEffects(mod, facts, sccs[i])
\* The memory effects of a component: its functions' and those of the components it calls.
SccMem(mod, facts, sccs, succ, mem, i) ==
  OwnEffects(mod, facts, sccs[i]) \cup UNION {mem[j] : j \in succ[i]}

\* From callees to callers; order holds the components.
PropagateMem(mod, facts, sccs, succ, order) ==
  LET mem[k \in 0 .. Len(order)] ==
        IF k = 0 THEN [i \in DOMAIN sccs |-> {}]
        ELSE LET before == mem[k - 1]
             IN [before EXCEPT ![order[k]] = SccMem(mod, facts, sccs, succ, before, order[k])]
  IN [f \in DOMAIN mod |-> (StartAttrs(mod, facts, f) \ AnyMem) \cup mem[Len(order)][SccOf(sccs, f)]]

\* Mutant: any call that is not known to return is taken for one that does not.
HasDoubtfulCall(block, attrs) == \E c \in ToSet(block.calls) : "WILLRETURN" \notin attrs[c]
HasNoreturnCall(block, attrs) == \E c \in ToSet(block.calls) : "NORETURN" \in attrs[c]
\* A block with a call that does not return is reached but not left.
HasReachableReturn(blocks, attrs) ==
  LET stuck == {b \in DOMAIN blocks : HasNoreturnCall(blocks[b], attrs)}
      left == ReachSteps(Succs(blocks), {1}, stuck)
  IN \E b \in left : blocks[b].exit = "return"

\* The attributes of a function that is on no cycle of calls, given its callees'.
WillAttrs(mod, facts, attrs, f) ==
  LET all(attr) == \A c \in facts[f].callees : attr \in attrs[c]
  IN (IF HasReachableReturn(mod[f].blocks, attrs) THEN {} ELSE {"NORETURN"})
     \cup (IF facts[f].cfg_has_cycle THEN {}
           ELSE IF facts[f].exits_all_return_like /\ all("WILLRETURN")
                THEN {"WILLRETURN", "WILLTERMINATE"}
           ELSE IF facts[f].exits_all_terminate_like /\ all("WILLTERMINATE")
                THEN {"WILLTERMINATE"} ELSE {})

PropagateScc(mod, facts, sccs, attrs, i) ==
  IF sccs[i].is_cycle THEN attrs
  ELSE [f \in DOMAIN attrs |->
          IF f \in sccs[i].components /\ Known(mod, f)
          THEN attrs[f] \cup WillAttrs(mod, facts, attrs, f) ELSE attrs[f]]

PropagateWill(mod, facts, sccs, start, order) ==
  LET attrs[k \in 0 .. Len(order)] ==
        IF k = 0 THEN start
        ELSE LET before == attrs[k - 1] IN PropagateScc(mod, facts, sccs, before, order[k])
  IN attrs[Len(order)]

\* The attributes analyze_module records for every function.
FuncAttrs(mod, sccs, succ) ==
  LET facts == [f \in {h \in DOMAIN mod : HasBody(mod, h)} |-> LocalFacts(mod[f].blocks)]
      order == CalleesFirst(sccs, succ)
  IN PropagateWill(mod, facts, sccs, PropagateMem(mod, facts, sccs, succ, order), order)

-----------------------------------------------------------------------------
(***************************************************************************)
(* What the analyses of functions say, against what calls can do: modules  *)
(* are analysed, and then any function is called.  Branches go either way, *)
(* and an external function may return, stop the machine, touch memory,    *)
(* and call any public function, as another module that is linked later    *)
(* may make it.                                                            *)
(***************************************************************************)
CONSTANTS Modules,   \* the modules explored
          MaxDepth   \* the most calls that are active at once

\* A module as the other modules of the compiler leave it: every function that is not
\* external has a body, what is called is one of the functions, terminators lead to blocks
\* of the function and those that do not are exits.
IsModule(m) ==
  /\ m \in Seq([linkage : {"public", "private", "external"},
                 blocks : Seq([effects : SUBSET AnyMem, calls : Seq(1 .. Len(m)),
                               succs : SUBSET Nat, exit : {"none", "return", "stop"}])])
  /\ \A f \in DOMAIN m :
       /\ IsExternal(m, f) \/ HasBody(m, f)
       /\ \A b \in ToSet(m[f].blocks) :
            b.succs \subseteq DOMAIN m[f].blocks /\ (b.exit = "none" <=> b.succs # {})
ASSUME ModulesAssumption == \A m \in Modules : IsModule(m)

VARIABLES mod,      \* the module
          info,     \* ModuleInfo::func_info
          attrs,    \* what set_all_func_attrs records
          frames    \* the active calls, innermost last

callVars == <<mod, info, attrs, frames>>

Frame(f) == [func |-> f, block |-> 1, done |-> 0, seen |-> {1}]

Analysed(m) ==
  \E g \in {BuildGraph(m)} : \E sccs \in {ComputeScc(g)} : \E succ \in {SuccSccs(sccs, g)} :
    /\ info = AnalyzeModule(m, g, sccs, succ)
    /\ attrs = FuncAttrs(m, sccs, succ)

Init == /\ mod \in Modules
        /\ Analysed(mod)
        /\ frames \in {<<Frame(f)>> : f \in DOMAIN mod}

Top == frames[Len(frames)]
Running == frames # <<>>
InBody == Running /\ ~IsExternal(mod, Top.func)
Block == mod[Top.func].blocks[Top.block]
AtEnd == Top.done = Len(Block.calls)

Call(f) == /\ Len(frames) < MaxDepth
           /\ frames' = Append(frames, Frame(f))

CallNext == /\ InBody /\ ~AtEnd
            /\ Call(Block.calls[Top.done + 1])
ExternalCalls == /\ Running /\ ~InBody
                 /\ \E f \in DOMAIN mod : mod[f].linkage = "public" /\ Call(f)

\* A call comes to a block.
Entering(fr, b) == [fr EXCEPT !.block = b, !.done = 0, !.seen = @ \cup {b}]
Jump == /\ InBody /\ AtEnd
        /\ \E b \in Block.succs : frames' = [frames EXCEPT ![Len(frames)] = Entering(@, b)]

CanReturn == IF InBody THEN AtEnd /\ Block.exit = "return" ELSE Running
Return == /\ CanReturn
          /\ frames' = IF Len(frames) = 1 THEN <<>>
                       ELSE [Front(frames) EXCEPT ![Len(frames) - 1].done =
                               IF IsExternal(mod, frames[Len(frames) - 1].func) THEN @ ELSE @ + 1]

CanStop == IF InBody THEN AtEnd /\ Block.exit = "stop" ELSE Running
Stop == /\ CanStop
        /\ frames' = <<>>

Next == /\ CallNext \/ ExternalCalls \/ Jump \/ Return \/ Stop
        /\ UNCHANGED <<mod, info, attrs>>

Spec == Init /\ [][Next]_callVars

-----------------------------------------------------------------------------
Active(f) == \E i \in DOMAIN frames : frames[i].func = f
HasAttr(f, attr) == attr \in attrs[f]

\* A function that is not marked recursive is never called while a call of it is active,
\* whatever the external functions call: module_analysis.rs promises this "regardless of
\* how the module is linked to other modules later", and the memory planner gives such a
\* function one static frame.
RecursionSound ==
  \A f \in DOMAIN mod :
    ~info[f].is_recursive => Cardinality({i \in DOMAIN frames : frames[i].func = f}) <= 1

\* A function marked NORETURN does not return.  A call of one marked WILLRETURN does, and
\* of one marked WILLTERMINATE returns or stops: it is not at a stop while WILLRETURN, and
\* neither comes back to a block or to itself.
ReturnsSound ==
  /\ CanReturn => ~HasAttr(Top.func, "NORETURN")
  /\ CanStop => \A f \in DOMAIN mod : Active(f) => ~HasAttr(f, "WILLRETURN")
  /\ \A i \in DOMAIN frames :
       HasAttr(frames[i].func, "WILLTERMINATE") =>
         /\ ~IsExternal(mod, frames[i].func)
         /\ \A j \in DOMAIN frames : frames[j].func = frames[i].func => i = j
         /\ mod[frames[i].func].blocks[frames[i].block].succs \cap frames[i].seen = {}

\* What touches memory is marked on every call that is active: a call with neither mark
\* that is sure to return may be removed with its result.
MemorySound ==
  Running =>
    LET effects == IF InBody THEN Block.effects ELSE AnyMem
    IN \A i \in DOMAIN frames : effects \subseteq attrs[frames[i].func]

=============================================================================
