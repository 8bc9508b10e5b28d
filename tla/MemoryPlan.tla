----------------------------- MODULE MemoryPlan -----------------------------
(***************************************************************************)
(* Which memory every function may use                                     *)
(* (crates/codegen/src/isa/evm/memory_plan.rs), what functions do to       *)
(* memory they share, and where they may allocate (scratch_effects.rs,     *)
(* scratch_plan.rs, mem_effects.rs, malloc_plan.rs, heap_plan.rs), and the *)
(* liveness the plans rest on (crates/codegen/src/liveness.rs).            *)
(*                                                                         *)
(* The functions of a StaticArena component have their objects at fixed    *)
(* addresses from StaticBase on; those of a DynamicFrame component enter a *)
(* frame at each call.  The objects a caller needs after a call lie above  *)
(* what the callee may clobber ("layout") or are pushed on the stack       *)
(* ("save").                                                               *)
(*                                                                         *)
(* A program is a sequence of functions [args, code, ends, spilled]: for   *)
(* every argument whether it is a pointer, the instructions of the blocks  *)
(* in reverse post-order, the position of the last instruction of each     *)
(* block, and the values the stack allocator could not keep on the stack.  *)
(* An instruction is [op, args, n, to, ptr]: the operands, a number (the   *)
(* words of an object or a copy, an offset, a constant, the callee), the   *)
(* blocks it leads to (for a phi, those its operands come from) and        *)
(* whether its result is a pointer.  A call without a result is a "do"; a  *)
(* constant is a "num" of its own.                                         *)
(*                                                                         *)
(* A value is the position of the instruction that defines it, or minus    *)
(* the number of an argument.  Memory is counted in words.                 *)
(***************************************************************************)
EXTENDS CallGraph, Paths

Larger(x, y) == IF x >= y THEN x ELSE y
MaxOf(S) == IF S = {} THEN 0 ELSE CHOOSE x \in S : \A y \in S : y <= x

Positions(f) == DOMAIN f.code
Blocks(f) == DOMAIN f.ends
Starts(f, b) == IF b = 1 THEN 1 ELSE f.ends[b - 1] + 1
BlockAt(f, i) == CHOOSE b \in Blocks(f) : Starts(f, b) <= i /\ i <= f.ends[b]
Args(f) == {-k : k \in DOMAIN f.args}
Op(f, i) == f.code[i].op
HasResult(f, i) ==
  Op(f, i) \in {"alloca", "malloc", "load", "gep", "cast", "i2p", "op", "num", "phi", "call"}
Values(f) == Args(f) \cup {i \in Positions(f) : HasResult(f, i)}
IsPtr(f, v) == IF v < 0 THEN f.args[-v] ELSE f.code[v].ptr
\* The values an instruction reads where it is.
Reads(f, i) == IF Op(f, i) = "phi" THEN {} ELSE ToSet(f.code[i].args)
OfOp(f, op) == {i \in Positions(f) : Op(f, i) = op}
Succs(f) == [b \in Blocks(f) |-> ToSet(f.code[f.ends[b]].to)]
Preds(f) == [b \in Blocks(f) |-> {p \in Blocks(f) : b \in Succs(f)[p]}]

\* The phis of a block and the operand each takes from pred.
Phis(f, b) == {i \in Starts(f, b) .. f.ends[b] : Op(f, i) = "phi"}
Incoming(f, i, pred) == f.code[i].args[CHOOSE k \in DOMAIN f.code[i].args : f.code[i].to[k] = pred]

-----------------------------------------------------------------------------
\* The blocks v is live out of: a phi uses its operand at the end of the block it comes
\* from, of which an operand that is defined there, or used by nothing else, is not live out.
LiveOutBlocks(f, v) ==
  LET home == IF v < 0 THEN 0 ELSE BlockAt(f, v)
      phi == v > 0 /\ Op(f, v) = "phi"
      back == [b \in Blocks(f) |-> IF phi /\ b = home THEN {} ELSE Preds(f)[b]]
      used == {BlockAt(f, i) : i \in {j \in Positions(f) : v \in Reads(f, j)}}
              \cup {b \in Blocks(f) : \E s \in Succs(f)[b] : \E i \in Phis(f, s) : Incoming(f, i, b) = v}
  IN UNION {back[b] : b \in ReachSteps(back, used, IF phi THEN {} ELSE {home})}

\* The values live after each instruction.
InstLiveOut(f) ==
  With([v \in Values(f) |-> LiveOutBlocks(f, v)], LAMBDA outs :
    [i \in Positions(f) |->
       LET b == BlockAt(f, i)
       IN {v \in Values(f) : /\ ~(i < v /\ v <= f.ends[b])
                             /\ \/ b \in outs[v]
                                \/ \E j \in i + 1 .. f.ends[b] : v \in Reads(f, j)}])

CallSites(f) == OfOp(f, "call") \cup OfOp(f, "do")
Callees(f) == {f.code[i].n : i \in CallSites(f)}
ProgramGraph(prog) == [g \in DOMAIN prog |-> Callees(prog[g])]

-----------------------------------------------------------------------------
(***************************************************************************)
(* Where pointers come from (crates/codegen/src/isa/evm/provenance.rs) and *)
(* what a call does with the pointers it is given (ptr_escape.rs).         *)
(*                                                                         *)
(* A provenance is a set of bases <<"arg", k>>, <<"alloca", i>> and        *)
(* <<"malloc", i>>, or Unknown, which has none.                            *)
(***************************************************************************)
Unknown == {<<"unknown", 0>>}
UnionWith(p, q) == IF Unknown \in {p, q} THEN Unknown ELSE p \cup q

BasesOf(p, kind) == {b[2] : b \in {c \in p : c[1] = kind}}
AllocaInsts(p) == BasesOf(p, "alloca")
MallocInsts(p) == BasesOf(p, "malloc")
ArgIndices(p) == BasesOf(p, "arg")
\* Only unknown pointers and those with a base are anything but numbers.
HasAnyArg(p) == ArgIndices(p) # {}
IsLocalAddr(p) == p # {} /\ \A b \in p : b[1] = "alloca"
\* What a provenance says when it has no bases: nothing, or that they are not known.
NoBases(p) == p \in {{}, Unknown}

-----------------------------------------------------------------------------
(***************************************************************************)
(* The analysis: val has the provenance of every value, mem what was       *)
(* stored into every local object.                                         *)
(***************************************************************************)
Seed(f, v) == CASE v < 0 -> IF IsPtr(f, v) THEN {<<"arg", -v>>} ELSE {}
                [] Op(f, v) \in {"alloca", "malloc"} -> {<<Op(f, v), v>>}
                [] OTHER -> {}

StoreLocalMem(s, addr, stored) ==
  IF ~IsLocalAddr(s.val[addr]) THEN s
  ELSE [s EXCEPT !.mem = [b \in DOMAIN @ |-> IF b \in AllocaInsts(s.val[addr])
                                             THEN UnionWith(@[b], stored) ELSE @[b]]]

LoadLocalMem(s, addr) ==
  IF ~IsLocalAddr(s.val[addr]) THEN {}
  ELSE LET stored == {s.mem[b] : b \in AllocaInsts(s.val[addr])}
       IN IF Unknown \in stored THEN Unknown ELSE UNION stored

\* Writes other than a store of a word: what they leave is not known.
IsUnmodeledWrite(op) == op \in {"store8", "copy", "fill"}

UnionOf(s, vs) == LET ps == {s.val[v] : v \in vs} IN IF Unknown \in ps THEN Unknown ELSE UNION ps

ReturnedArgs(inst, returned) == {inst.args[k] : k \in DOMAIN inst.args \cap returned[inst.n]}

Flow(s, inst, v, returned) ==
  CASE inst.op \in {"alloca", "malloc"} -> {<<inst.op, v>>}
    [] inst.op = "load" -> LoadLocalMem(s, inst.args[1])
    [] inst.op \in {"phi", "gep", "cast", "op"} -> UnionOf(s, ToSet(inst.args))
    [] inst.op = "i2p" -> LET from == s.val[inst.args[1]] IN IF from = {} THEN Unknown ELSE from
    [] inst.op = "call" -> LET from == UnionOf(s, ReturnedArgs(inst, returned))
                           IN IF inst.ptr /\ from = {} THEN Unknown ELSE from
    [] OTHER -> {}

Transfer(f, returned, s, i) ==
  LET inst == f.code[i]
      wrote == CASE inst.op = "store" -> StoreLocalMem(s, inst.args[1], s.val[inst.args[2]])
                 [] IsUnmodeledWrite(inst.op) -> StoreLocalMem(s, inst.args[1], Unknown)
                 [] OTHER -> s
  IN IF HasResult(f, i) THEN [wrote EXCEPT !.val[i] = Flow(wrote, inst, i, returned)] ELSE wrote

RECURSIVE Rounds(_, _, _)
Rounds(f, returned, s) ==
  With(Foldl(LAMBDA t, i : Transfer(f, returned, t, i), s, [i \in Positions(f) |-> i]),
       LAMBDA t : IF t = s THEN s ELSE Rounds(f, returned, t))

\* returned says which arguments every function may return.
ComputeProvenance(f, returned) ==
  Rounds(f, returned, [val |-> [v \in Values(f) |-> Seed(f, v)],
                       mem |-> [i \in OfOp(f, "alloca") |-> {}]])

\* What is not known of a callee: it may return any argument.
AnyReturned(prog) == [g \in DOMAIN prog |-> DOMAIN prog[g].args]

-----------------------------------------------------------------------------
(***************************************************************************)
(* PtrEscapeSummary: the arguments that may be stored where the caller     *)
(* cannot see them, and those that may be returned.                        *)
(***************************************************************************)
PtrArgs(f) == {k \in DOMAIN f.args : f.args[k]}
EscapeOf(f, p) == IF p = Unknown THEN PtrArgs(f) ELSE ArgIndices(p)

EscapesAt(f, s, escape, i) ==
  LET inst == f.code[i]
      nonlocal == ~IsLocalAddr(s.val[inst.args[1]])
      source == s.val[inst.args[2]]
  IN CASE inst.op \in {"store", "store8"} -> IF nonlocal THEN EscapeOf(f, source) ELSE {}
       [] inst.op = "copy" ->
            IF ~nonlocal THEN {}
            ELSE IF IsLocalAddr(source) THEN UNION {EscapeOf(f, s.mem[b]) : b \in AllocaInsts(source)}
            ELSE PtrArgs(f)
       [] inst.op \in {"call", "do"} ->
            UNION {ArgIndices(s.val[inst.args[k]]) : k \in DOMAIN inst.args \cap escape[inst.n]}
       [] OTHER -> {}

ReturnedAt(f, s, i) ==
  LET v == f.code[i].args[1]
  IN ArgIndices(s.val[v]) \cup (IF IsPtr(f, v) /\ ~HasAnyArg(s.val[v]) THEN PtrArgs(f) ELSE {})

ComputeSummary(f, sum) ==
  With(ComputeProvenance(f, sum.returned), LAMBDA s :
    [escape |-> UNION {EscapesAt(f, s, sum.escape, i) : i \in Positions(f)},
     returned |-> UNION {ReturnedAt(f, s, i) :
                           i \in {j \in OfOp(f, "ret") : f.code[j].args # <<>>}}])

SetSummary(sum, g, new) == [escape |-> [sum.escape EXCEPT ![g] = new.escape],
                            returned |-> [sum.returned EXCEPT ![g] = new.returned]]

RECURSIVE SolveScc(_, _, _)
SolveScc(prog, sum, members) ==
  With(Foldl(LAMBDA t, g : SetSummary(t, g, ComputeSummary(prog[g], t)), sum, Sorted(members)),
       LAMBDA t : IF t = sum THEN sum ELSE SolveScc(prog, t, members))

\* The components, callees first.
EscapeOrder(sccs, g) == CalleesFirst(sccs, SuccSccs(sccs, g))

ComputePtrEscapeSummaries(prog, sccs, g) ==
  Foldl(LAMBDA sum, i : SolveScc(prog, sum, sccs[i].components),
        [escape |-> [h \in DOMAIN prog |-> {}], returned |-> [h \in DOMAIN prog |-> {}]],
        EscapeOrder(sccs, g))

-----------------------------------------------------------------------------
(***************************************************************************)
(* The stack objects of a function, local memory and spilled values, and   *)
(* their places in its frame                                               *)
(* (crates/codegen/src/isa/evm/static_arena_alloc.rs).                     *)
(*                                                                         *)
(* An object is known by a number: the spilled values come before the      *)
(* local memory.  Its interval is the instructions it is live at.          *)
(***************************************************************************)
SpillObj(f, v) == v + Len(f.args)
AllocaObj(f, i) == i + Len(f.args) + Len(f.code)

\* The last instruction at which a value of vs is read or live; phis read at the end of
\* the block the operand comes from.
LastLive(f, live, vs) ==
  MaxOf({i \in Positions(f) : vs \cap (Reads(f, i) \cup live[i]) # {}}
        \cup {f.ends[f.code[i].to[k]] : <<i, k>> \in
                {<<j, m>> \in OfOp(f, "phi") \X (1 .. Len(f.code)) :
                   m \in DOMAIN f.code[j].args /\ f.code[j].args[m] \in vs}})

SpillInterval(f, live, v) ==
  LET start == IF v < 0 THEN 1 ELSE v
  IN [start |-> start, end |-> Larger(start, LastLive(f, live, {v}))]

AllocaInterval(f, live, s, i) ==
  [start |-> i,
   end |-> Larger(i, LastLive(f, live, {v \in DOMAIN s.val : i \in AllocaInsts(s.val[v])}))]

-----------------------------------------------------------------------------
\* The local objects reached from roots through what was stored into them.
ClosureAllocas(s, roots) ==
  ReachSteps([b \in DOMAIN s.mem |-> AllocaInsts(s.mem[b])], roots, {})
UnknownLocalPtr(s, roots) == \E b \in ClosureAllocas(s, roots) : s.mem[b] = Unknown

RootsOf(s, values) == UNION {AllocaInsts(s.val[v]) : v \in values}
LiveAcross(live, i) == live[i] \ {i}

CallSite(f, live, s, objs, i) ==
  LET allocas(values) == {AllocaObj(f, b) : b \in ClosureAllocas(s, RootsOf(s, values))}
  IN [callee |-> f.code[i].n, args |-> Len(f.code[i].args), result |-> HasResult(f, i),
      live |-> allocas(LiveAcross(live, i))
               \cup {SpillObj(f, v) : v \in LiveAcross(live, i) \cap objs},
      must |-> allocas(Reads(f, i))]

\* objs: the spilled values that have no scratch slot.
ComputeFuncStackObjects(f, live, s, objs) ==
  [objects |-> {[id |-> SpillObj(f, v), size |-> 1, at |-> SpillInterval(f, live, v)] : v \in objs}
               \cup {[id |-> AllocaObj(f, i), size |-> f.code[i].n, at |-> AllocaInterval(f, live, s, i)] :
                       i \in OfOp(f, "alloca")},
   calls |-> [i \in CallSites(f) |-> CallSite(f, live, s, objs, i)],
   requires_dynamic_frame |->
     \E i \in CallSites(f) : \/ UnknownLocalPtr(s, RootsOf(s, LiveAcross(live, i)))
                             \/ UnknownLocalPtr(s, RootsOf(s, Reads(f, i)))]

\* Local memory whose address leaves the function: the code generator panics.
EscapingAllocas(f, s, escape) ==
  LET values(i) ==
        LET inst == f.code[i]
        IN CASE inst.op = "ret" -> ToSet(inst.args)
             [] inst.op = "store" -> IF IsLocalAddr(s.val[inst.args[1]]) THEN {} ELSE {inst.args[2]}
             [] inst.op \in {"call", "do"} -> {inst.args[k] : k \in DOMAIN inst.args \cap escape[inst.n]}
             [] OTHER -> {}
  IN RootsOf(s, UNION {values(i) : i \in Positions(f)})

-----------------------------------------------------------------------------
(***************************************************************************)
(* pack_objects: a linear scan over the intervals.  A segment is           *)
(* <<start, length>>; free segments that touch are one.                    *)
(***************************************************************************)
InsertFreeSegment(free, start, len) ==
  IF len = 0 THEN free
  ELSE LET before == {g \in free : g[1] + g[2] = start}
           after == {g \in free : g[1] = start + len}
           first == MaxOf({start - g[2] : g \in before} \cup {IF before = {} THEN start ELSE 0})
           total == len + MaxOf({g[2] : g \in before}) + MaxOf({g[2] : g \in after})
       IN (free \ (before \cup after)) \cup {<<first, total>>}

\* Take words from start on out of the segment they lie in.
TakeSegment(free, g, start, size) ==
  InsertFreeSegment(InsertFreeSegment(free \ {g}, g[1], start - g[1]),
                    start + size, g[1] + g[2] - start - size)

FirstOf(segments) == CHOOSE g \in segments : \A h \in segments : g[1] <= h[1]
LastOf(segments) == CHOOSE g \in segments : \A h \in segments : g[1] >= h[1]

\* The segment min lies in, or the first one from there on that is long enough.
FindSegment(free, min, size) ==
  LET below == {g \in free : g[1] <= min}
      around == {g \in {LastOf(below)} : g[1] + g[2] >= min + size}
      above == {g \in free : g[1] >= min /\ g[2] >= size}
  IN IF below # {} /\ around # {} THEN around
     ELSE IF above # {} THEN {FirstOf(above)} ELSE {}

\* Mutant: an object is taken to be dead one instruction before its end.
ReleaseEarly(p, start) ==
  LET gone == {a \in p.active : a.end <= start + 1}
  IN [p EXCEPT !.active = @ \ gone,
               !.free = FoldSet(LAMBDA a, free : InsertFreeSegment(free, a.off, a.size), @, gone)]
Release(p, start) ==
  LET gone == {a \in p.active : a.end <= start}
  IN [p EXCEPT !.active = @ \ gone,
               !.free = FoldSet(LAMBDA a, free : InsertFreeSegment(free, a.off, a.size), @, gone)]

Place(p, obj, off, free) ==
  [p EXCEPT !.offset = @ @@ (obj.id :> off),
            !.active = @ \cup {[end |-> obj.at.end, off |-> off, size |-> obj.size]},
            !.free = free,
            !.max_used = Larger(@, off + obj.size)]

PackObject(before, obj, min) ==
  With(Release(before, obj.at.start), LAMBDA p :
    LET found == FindSegment(p.free, min, obj.size)
    IN IF obj.size = 0 THEN [p EXCEPT !.offset = @ @@ (obj.id :> 0)]
       ELSE IF found = {} THEN Place(p, obj, Larger(min, p.max_used), p.free)
       ELSE LET g == CHOOSE h \in found : TRUE
                start == Larger(g[1], min)
            IN Place(p, obj, start, TakeSegment(p.free, g, start, obj.size)))

Before(o, q) ==
  LET key(x) == <<x.at.start, x.at.end, x.id>>
  IN \E k \in 1 .. 3 : key(o)[k] < key(q)[k] /\ \A j \in 1 .. k - 1 : key(o)[j] = key(q)[j]

\* min: the least offset of every object.  What is between the words in use
\* and a least offset above them is not put among the free segments.
PackObjects(objects, min) ==
  Foldl(LAMBDA p, obj : PackObject(p, obj, min[obj.id]),
        [offset |-> <<>>, active |-> {}, free |-> {}, max_used |-> 0],
        SortedBy(objects, Before))

Layout(objects, min) ==
  With(PackObjects(objects, min), LAMBDA p : [offset |-> p.offset, locals_words |-> p.max_used])

-----------------------------------------------------------------------------
CONSTANT CostModels   \* the ArenaCostModels: [w_mem, w_save, w_code, w_stack, max_save]
ASSUME CostModelsAssumption ==
  CostModels \subseteq [{"w_mem", "w_save", "w_code", "w_stack", "max_save"} -> Nat]

StaticBase == 6                  \* the first word of the static arena
Huge == 10 ^ 8                   \* u64::MAX / 4: more than any other cost
CapRounds == 8                   \* bound: the rounds of the search for the cost cap

\* CallMeta: the calls the caller's objects must survive; need maps the functions planned
\* before to the words they may clobber, own is the component being planned.
CallMetas(stack, need, own) ==
  {[inst |-> i, need |-> IF stack.calls[i].callee \in own THEN 0 ELSE need[stack.calls[i].callee],
    internal |-> stack.calls[i].callee \in own, args |-> stack.calls[i].args,
    result |-> stack.calls[i].result, live |-> stack.calls[i].live, must |-> stack.calls[i].must] :
     i \in {j \in DOMAIN stack.calls : \/ stack.calls[j].callee \in own
                                       \/ need[stack.calls[j].callee] # 0}}
EligibleForLayout(call) == ~call.internal /\ call.need # 0

\* The words to save around a call that may clobber the first need words: those of the
\* objects live after it, but for what the callee itself is given.
SaveWordOffsets(stack, offset, call, need) ==
  Sorted(UNION {offset[o.id] .. Smaller(offset[o.id] + o.size, need) - 1 :
                  o \in {p \in stack.objects : p.id \in call.live \ call.must}})

-----------------------------------------------------------------------------
(***************************************************************************)
(* The cost of a choice: gas for the memory, and gas, code bytes and stack *)
(* slots for the saves.                                                    *)
(***************************************************************************)
MemExpansionGas(words) == 3 * words + (words * words) \div 512
AddrBytes(word) == LET addr == 32 * (StaticBase + word) IN IF addr < 256 THEN 1 ELSE 2
SwapChunks(k, result) == IF result THEN (k + 15) \div 16 ELSE 0
SaveGas(k, call) == 12 * k + 3 * k * call.args + 3 * SwapChunks(k, call.result)
SaveCodeBytes(words, call) ==
  MapThenSumSet(LAMBDA w : 2 * (2 + AddrBytes(w)), ToSet(words))
  + Len(words) * call.args + SwapChunks(Len(words), call.result)

MinOffsets(stack, calls, layout) ==
  [id \in {o.id : o \in stack.objects} |->
     MaxOf({c.need : c \in {d \in calls : \/ id \in d.must
                                          \/ /\ EligibleForLayout(d) /\ d.inst \in layout
                                             /\ id \in d.live}})]

\* What it costs to lay the objects out for the calls in layout and save them around the
\* others; not ok if a call within the component would save too much.
Evaluate(cm, stack, calls, layout, cap) ==
  With(Layout(stack.objects, MinOffsets(stack, calls, layout)), LAMBDA l :
    LET used == MaxOf({l.locals_words, cap} \cup {c.need : c \in calls})
        words(c) == SaveWordOffsets(stack, l.offset, c, IF c.internal THEN l.locals_words ELSE c.need)
        cost(c, k) == IF Len(k) > cm.max_save THEN Huge
                      ELSE cm.w_save * SaveGas(Len(k), c) + cm.w_code * SaveCodeBytes(k, c)
                           + cm.w_stack * Len(k)
        saved == {c \in calls : c.internal \/ c.inst \notin layout}
    IN [ok |-> \A c \in saved : c.internal => Len(words(c)) <= cm.max_save,
        cost |-> cm.w_mem * MemExpansionGas(StaticBase + used)
                + MapThenSumSet(LAMBDA c : cost(c, words(c)), saved),
        layout |-> l])

\* Of the calls whose promotion to layout pays, the one that pays most.
RECURSIVE Promote(_, _, _, _, _)
Promote(cm, stack, calls, cap, s) ==
  With([c \in {d.inst : d \in {e \in calls : EligibleForLayout(e)}} \ s.layout |->
          Evaluate(cm, stack, calls, s.layout \cup {c}, cap)], LAMBDA tried :
    LET pays == {c \in DOMAIN tried : tried[c].ok /\ tried[c].cost < s.best.cost}
        most == {c \in pays : \A d \in pays : tried[c].cost <= tried[d].cost}
    IN IF pays = {} THEN s
       ELSE Promote(cm, stack, calls, cap, [layout |-> s.layout \cup {Least(most)},
                                        best |-> tried[Least(most)],
                                        order |-> Append(s.order, Least(most))]))

Demote(cm, stack, calls, cap, s, c) ==
  With(Evaluate(cm, stack, calls, s.layout \ {c}, cap), LAMBDA e :
    IF e.ok /\ e.cost < s.best.cost THEN [s EXCEPT !.layout = @ \ {c}, !.best = e] ELSE s)

\* A set of no more than one: none if only a frame will do.
SolveCallPreservation(cm, stack, need, own, cap) ==
  With(CallMetas(stack, need, own), LAMBDA calls :
    With(Evaluate(cm, stack, calls, {}, cap), LAMBDA first :
      IF \/ stack.requires_dynamic_frame \/ ~first.ok
         \/ \E c \in calls : c.internal /\ c.must # {}
      THEN {}
      ELSE With(Promote(cm, stack, calls, cap, [layout |-> {}, best |-> first, order |-> <<>>]), LAMBDA up :
             With(Foldl(LAMBDA s, c : Demote(cm, stack, calls, cap, s, c), up, Reverse(up.order)), LAMBDA s :
               {[layout |-> s.best.layout,
                 choice |-> [i \in {c.inst : c \in calls} |->
                               IF \E c \in calls : c.inst = i /\ c.internal THEN "forced"
                               ELSE IF i \in s.layout THEN "layout" ELSE "save"]]}))))

-----------------------------------------------------------------------------
(***************************************************************************)
(* The plan of a component.                                                *)
(***************************************************************************)
\* The saves: what a call within the component may clobber is known by now.
FinalizeCallSaves(stack, offset, choice, need, own) ==
  LET words == [i \in {j \in DOMAIN choice : choice[j] # "layout"} |->
                  SaveWordOffsets(stack, offset, stack.calls[i], need[stack.calls[i].callee])]
  IN [i \in {j \in DOMAIN words : words[j] # <<>>} |-> words[i]]

StaticPlan(stack, solved, need, own, clobber) ==
  [static |-> TRUE, clobber |-> clobber, offset |-> solved.layout.offset,
   locals_words |-> solved.layout.locals_words, choice |-> solved.choice,
   saves |-> FinalizeCallSaves(stack, solved.layout.offset, solved.choice, need, own)]

DynamicPlan(stack, clobber) ==
  LET l == Layout(stack.objects, [id \in {o.id : o \in stack.objects} |-> 0])
  IN [static |-> FALSE, clobber |-> clobber, offset |-> l.offset,
      locals_words |-> l.locals_words, choice |-> <<>>, saves |-> <<>>]

\* The words the callees outside the component may clobber.
ExtNeedMax(stacks, need, own) ==
  MaxOf(UNION {{need[c] : c \in {stacks[f].calls[i].callee : i \in DOMAIN stacks[f].calls} \ own} : f \in own})

\* The costs assume that cap words are paid for anyway, and what a plan uses is the next
\* cap, until they agree.
RECURSIVE PlanComponent(_, _, _, _, _, _, _)
PlanComponent(cm, stacks, need, own, internal, cap, rounds) ==
  With([f \in own |-> SolveCallPreservation(cm, stacks[f], need, internal, cap)], LAMBDA solved :
    LET ext == ExtNeedMax(stacks, need, own)
        locals == MaxOf({s.layout.locals_words : s \in UNION {solved[f] : f \in own}})
        new_cap == Larger(ext, locals)
        known(w) == [f \in own |-> w] @@ need
    IN IF \E f \in own : solved[f] = {}
       THEN [plans |-> [f \in own |-> DynamicPlan(stacks[f], ext)], need |-> known(ext), settled |-> TRUE]
       ELSE IF new_cap # cap /\ rounds > 0
       THEN PlanComponent(cm, stacks, need, own, internal, new_cap, rounds - 1)
       ELSE [plans |-> [f \in own |-> LET s == CHOOSE t \in solved[f] : TRUE
                                      IN StaticPlan(stacks[f], s, known(cap), internal, cap)],
             need |-> known(cap), settled |-> new_cap = cap])

PlanOrder(sccs, g) == CalleesFirst(sccs, SuccSccs(sccs, g))

\* Callees first.  settled: every search for a cap came to an end.
ComputeProgramMemoryPlan(cm, stacks, sccs, g) ==
  LET step(p, i) ==
        LET own == sccs[i].components
            internal == IF sccs[i].is_cycle THEN own ELSE {}
        IN With(PlanComponent(cm, stacks, p.need, own, internal, ExtNeedMax(stacks, p.need, own), CapRounds),
                LAMBDA q : [plans |-> q.plans @@ p.plans, need |-> q.need,
                            settled |-> p.settled /\ q.settled])
  IN Foldl(step, [plans |-> <<>>, need |-> <<>>, settled |-> TRUE],
           PlanOrder(sccs, g))

\* The word the dynamic frames and the heap start at.
DynBase(plans) == StaticBase + MaxOf({plans[f].clobber : f \in {g \in DOMAIN plans : plans[g].static}})

-----------------------------------------------------------------------------
(***************************************************************************)
(* verify_static_arena_plan: what debug builds check of a plan on request. *)
(***************************************************************************)
\* verify_object_packing
PackingVerifies(stack, plan) ==
  LET top(o) == plan.offset[o.id] + o.size
  IN /\ plan.locals_words = MaxOf({top(o) : o \in {p \in stack.objects : p.size # 0}})
     /\ \A o, p \in stack.objects :
          o # p /\ o.size # 0 /\ p.size # 0 =>
            \/ o.at.end <= p.at.start \/ p.at.end <= o.at.start
            \/ top(o) <= plan.offset[p.id] \/ top(p) <= plan.offset[o.id]

CallVerifies(stack, plan, i, need) ==
  LET call == stack.calls[i]
      above(ids) == \A id \in ids : plan.offset[id] >= need
      saved == IF i \in DOMAIN plan.saves THEN ToSet(plan.saves[i]) ELSE {}
      kept(o) == \/ o.id \in call.must \/ o.size = 0
                 \/ plan.offset[o.id] .. Smaller(plan.offset[o.id] + o.size, need) - 1 \subseteq saved
  IN need # 0 \/ i \in DOMAIN plan.choice =>
       /\ i \in DOMAIN plan.choice
       /\ above(call.must)
       /\ IF plan.choice[i] = "layout" THEN above(call.live)
          ELSE \A o \in stack.objects : o.id \in call.live => kept(o)

VerifyStaticArenaPlan(stacks, plans, sccs) ==
  \A f \in {g \in DOMAIN plans : plans[g].static} :
    /\ PackingVerifies(stacks[f], plans[f])
    /\ \A i \in DOMAIN stacks[f].calls :
         LET callee == stacks[f].calls[i].callee
             internal == callee \in sccs[SccOf(sccs, f)].components /\ sccs[SccOf(sccs, f)].is_cycle
         IN /\ CallVerifies(stacks[f], plans[f], i, plans[callee].clobber)
            /\ internal => plans[f].choice[i] = "forced"

-----------------------------------------------------------------------------

ScratchSlots == 2   \* SCRATCH_SPILL_SLOTS: words 0 and 1

\* The functions f for which local holds of f or of one it may call.
Transitive(g, local) == {f \in DOMAIN g : local \cap ReachSteps(g, {f}, {}) # {}}

-----------------------------------------------------------------------------
(***************************************************************************)
(* Scratch memory.                                                         *)
(***************************************************************************)
AddrMayOverlapScratch(f, s, addr) ==
  IF addr > 0 /\ Op(f, addr) = "num" THEN f.code[addr].n < ScratchSlots
  ELSE NoBases(s.val[addr]) \/ HasAnyArg(s.val[addr])

IsScratchClobber(f, s, i) ==
  Op(f, i) \in {"store", "store8", "copy", "fill"} /\ AddrMayOverlapScratch(f, s, f.code[i].args[1])

\* provs: the provenances when any argument may be returned; spilling: the functions that
\* keep spilled values in scratch memory.
ScratchEffects(prog, g, provs, spilling) ==
  Transitive(g, spilling \cup {f \in DOMAIN prog :
                                 \E i \in Positions(prog[f]) : IsScratchClobber(prog[f], provs[f], i)})

\* The values scratch memory cannot hold: those live after what may write to it, its own
\* result and those of such calls further on taken out (in the order of the layout).
ScratchLiveValues(f, live, s, effects) ==
  LET barriers == {i \in Positions(f) : IF i \in CallSites(f) THEN f.code[i].n \in effects
                                        ELSE IsScratchClobber(f, s, i)}
  IN UNION {live[i] \ {j \in barriers : j >= i} : i \in barriers}

\* The first spilled values that may have one take the slots.
ScratchSlotOf(f, scratch_live) ==
  LET may == Sorted(f.spilled \ scratch_live)
      n == Smaller(ScratchSlots, Len(may))
  IN [v \in {may[k] : k \in 1 .. n} |-> (CHOOSE k \in 1 .. n : may[k] = v) - 1]

-----------------------------------------------------------------------------
(***************************************************************************)
(* FuncMemEffects, of a function and what it calls.                        *)
(***************************************************************************)
FuncMemEffects(prog, g, plans, scratch) ==
  [static |-> Transitive(g, {f \in DOMAIN prog : plans[f].static /\ plans[f].clobber # 0}),
   scratch |-> scratch,
   dyn |-> Transitive(g, {f \in DOMAIN prog : ~plans[f].static /\ plans[f].locals_words # 0}),
   heap |-> Transitive(g, {f \in DOMAIN prog : OfOp(prog[f], "malloc") # {}})]

-----------------------------------------------------------------------------
(***************************************************************************)
(* Which allocations leave the function, and which are needed no longer    *)
(* when the next one is made.                                              *)
(***************************************************************************)
\* The allocations that may have been made before i.
SeenMallocs(f, i) ==
  LET b == BlockAt(f, i)
      before == ReachSteps(Preds(f), Preds(f)[b], {})
  IN {m \in OfOp(f, "malloc") : BlockAt(f, m) \in before \/ (BlockAt(f, m) = b /\ m < i)}

EscapingProvenance(f, i, p) == IF p = Unknown THEN SeenMallocs(f, i) ELSE MallocInsts(p)

\* What instruction i writes where other functions may find it, or hands to them.
LeavingValues(f, s, escape, i) ==
  LET inst == f.code[i]
  IN CASE inst.op = "ret" -> ToSet(inst.args)
       [] inst.op \in {"store", "store8"} -> IF IsLocalAddr(s.val[inst.args[1]]) THEN {} ELSE {inst.args[2]}
       [] inst.op \in {"call", "do"} -> {inst.args[k] : k \in DOMAIN inst.args \cap escape[inst.n]}
       [] OTHER -> {}
CopiesOut(f, s, i) == Op(f, i) = "copy" /\ ~IsLocalAddr(s.val[f.code[i].args[1]])

EscapingMallocs(f, s, escape) ==
  UNION {EscapingProvenance(f, i, s.val[v]) :
           <<i, v>> \in {<<j, w>> \in Positions(f) \X Values(f) : w \in LeavingValues(f, s, escape, j)}}
  \cup UNION {LET source == s.val[f.code[i].args[2]]
              IN IF IsLocalAddr(source)
                 THEN UNION {EscapingProvenance(f, i, s.mem[b]) : b \in AllocaInsts(source)}
                 ELSE SeenMallocs(f, i) : i \in {j \in Positions(f) : CopiesOut(f, s, j)}}

\* The allocations the values vs lead to, directly or through local memory.
LiveMallocs(f, s, i, vs) ==
  UNION {LET p == s.val[v]
             stored == IF IsLocalAddr(p) THEN {s.mem[b] : b \in AllocaInsts(p)} ELSE {}
         IN UNION {EscapingProvenance(f, i, q) : q \in {p} \cup stored} : v \in vs}

\* barriers: the functions a call of which may allocate or enter a frame.
\* Mutant: what is passed to such a call need not live any longer.
TransientButPassed(f, live, s, escape, barriers) ==
  (OfOp(f, "malloc") \ EscapingMallocs(f, s, escape))
  \ UNION {LiveMallocs(f, s, i, LiveAcross(live, i)) :
             i \in OfOp(f, "malloc") \cup {j \in CallSites(f) : f.code[j].n \in barriers}}
TransientMallocs(f, live, s, escape, barriers) ==
  (OfOp(f, "malloc") \ EscapingMallocs(f, s, escape))
  \ (UNION {LiveMallocs(f, s, i, LiveAcross(live, i)) : i \in OfOp(f, "malloc")}
     \cup UNION {LiveMallocs(f, s, i, live[i] \cup Reads(f, i)) :
                   i \in {j \in CallSites(f) : f.code[j].n \in barriers}})

-----------------------------------------------------------------------------
(***************************************************************************)
(* The free pointer is put back at the returns of a function that keeps    *)
(* allocations, if none may be known outside.                              *)
(***************************************************************************)
MayBeHeapDerived(f, s, v) ==
  s.val[v] = Unknown \/ MallocInsts(s.val[v]) # {} \/ (IsPtr(f, v) /\ s.val[v] = {})

ShouldRestoreFreePtr(f, s, escape, transient) ==
  /\ OfOp(f, "ret") # {} /\ OfOp(f, "malloc") \ transient # {}
  /\ \A i \in Positions(f) :
       /\ \A v \in LeavingValues(f, s, escape, i) : ~MayBeHeapDerived(f, s, v)
       /\ CopiesOut(f, s, i) =>
            LET source == s.val[f.code[i].args[2]]
            IN IsLocalAddr(source) /\ \A b \in AllocaInsts(source) :
                                         s.mem[b] # Unknown /\ MallocInsts(s.mem[b]) = {}

-----------------------------------------------------------------------------
(***************************************************************************)
(* heap_plan.rs: the static words an allocation has to stay above, those   *)
(* that calls may clobber, or that live objects take, from there on.       *)
(***************************************************************************)
WordsAt(f, live, s, plans, plan, scratch, i) ==
  LET ends(v) == {plan.offset[AllocaObj(f, b)] + f.code[b].n : b \in AllocaInsts(s.val[v])}
                 \cup (IF v \in f.spilled \ DOMAIN scratch THEN {plan.offset[SpillObj(f, v)] + 1} ELSE {})
  IN MaxOf(UNION {ends(v) : v \in live[i]}
           \cup (IF i \in CallSites(f) THEN {plans[f.code[i].n].clobber} ELSE {}))

FutureStaticWords(f, live, s, plans, plan, scratch) ==
  [m \in OfOp(f, "malloc") |->
     LET b == BlockAt(f, m)
         later == ReachSteps(Succs(f), Succs(f)[b], {})
     IN MaxOf({WordsAt(f, live, s, plans, plan, scratch, i) :
                 i \in {j \in Positions(f) : BlockAt(f, j) \in later \/ (BlockAt(f, j) = b /\ j >= m)}})]
=============================================================================
