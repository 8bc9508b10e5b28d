----------------------------- MODULE EvmMemory -----------------------------
(***************************************************************************)
(* The memory the EVM backend gives a program, and the program using it    *)
(* (crates/codegen/src/isa/evm/mod.rs): prepare_section plans the memory   *)
(* of all functions, and the lowered program then runs in it.              *)
(*                                                                         *)
(* The run keeps, beside the memory of the machine, what the program meant *)
(* by it: a word is <<object, offset>>, the address of a word of an object *)
(* the program allocated, or <<0, n>>, the number n; every object has its  *)
(* own contents, which nothing but a store to it changes.  Junk is a word  *)
(* the program must not rely on.  Memory is counted in words.              *)
(***************************************************************************)
EXTENDS MemoryPlan

CONSTANTS Programs,   \* the programs explored
          MaxDepth,   \* the most calls active at once
          MaxRounds,  \* the most rounds of the search for scratch slots
          MaxJumps    \* the most jumps of a run

VARIABLES prog,    \* the program
          phase,   \* "summaries", "restore", "scratch", "plan", "malloc", "run" or "panic"
          prep,    \* what prepare_section found out so far
          mem,     \* the memory of the machine, where it was written
          regs,    \* the words at FREE_PTR_SLOT, DYN_SP_SLOT and DYN_FP_SLOT
          objs,    \* the objects: where they are and what the program put in them
          frames,  \* the active calls, innermost last
          jumps    \* the jumps made

memVars == <<prog, phase, prep, mem, regs, objs, frames, jumps>>

Junk == <<-1, 0>>
Number(n) == <<0, n>>

-----------------------------------------------------------------------------
(***************************************************************************)
(* prepare_section                                                         *)
(***************************************************************************)
Each(F(_)) == [f \in DOMAIN prog |-> F(f)]

Summaries ==
  /\ phase = "summaries"
  /\ \E g \in {ProgramGraph(prog)} : \E sccs \in {ComputeScc(g)} :
     \E sum \in {ComputePtrEscapeSummaries(prog, sccs, g)} :
       prep' = [graph |-> g, sccs |-> sccs, escape |-> sum.escape,
                live |-> Each(LAMBDA f : InstLiveOut(prog[f])),
                prov |-> Each(LAMBDA f : ComputeProvenance(prog[f], sum.returned)),
                any |-> Each(LAMBDA f : ComputeProvenance(prog[f], AnyReturned(prog)))]
  /\ phase' = "restore"

TransientOf(f, barriers) == TransientMallocs(prog[f], prep.live[f], prep.prov[f], prep.escape, barriers)

\* prepare_free_ptr_restore: any call may allocate, for all that is known yet.
PrepareFreePtrRestore ==
  /\ phase = "restore"
  /\ prep' = prep @@ [restore |-> {f \in DOMAIN prog :
                        ShouldRestoreFreePtr(prog[f], prep.prov[f], prep.escape, TransientOf(f, DOMAIN prog))},
                      spilling |-> {}, scratch |-> <<>>, rounds |-> 0]
  /\ phase' = "scratch"

\* One round: the slots that are safe if the functions in spilling use scratch memory
\* decide which functions do.
ScratchRound ==
  /\ phase = "scratch" /\ prep.rounds < MaxRounds
  /\ \E effects \in {ScratchEffects(prog, prep.graph, prep.any, prep.spilling)} :
     \E slots \in {Each(LAMBDA f : ScratchSlotOf(prog[f],
                          ScratchLiveValues(prog[f], prep.live[f], prep.prov[f], effects)))} :
     \E spilling \in {{f \in DOMAIN prog : DOMAIN slots[f] # {}}} :
       /\ prep' = [prep EXCEPT !.spilling = spilling, !.rounds = @ + 1,
                               !.scratch = [effects |-> effects, slots |-> slots]]
       /\ phase' = IF spilling = prep.spilling THEN "plan" ELSE "scratch"

ScratchOf(f) == prep.scratch.slots[f]

StacksOf ==
  Each(LAMBDA f : ComputeFuncStackObjects(prog[f], prep.live[f], prep.prov[f],
                                          prog[f].spilled \ DOMAIN ScratchOf(f)))

PlanMemory ==
  /\ phase = "plan"
  /\ \E stacks \in {StacksOf} : \E cm \in CostModels :
     \E p \in {ComputeProgramMemoryPlan(cm, stacks, prep.sccs, prep.graph)} :
       prep' = prep @@ [stacks |-> stacks, plans |-> p.plans, settled |-> p.settled,
                        dyn_base |-> DynBase(p.plans)]
  /\ phase' = IF \E f \in DOMAIN prog : EscapingAllocas(prog[f], prep.prov[f], prep.escape) # {}
              THEN "panic" ELSE "malloc"

MallocsOf(f, effects) ==
  [escaping |-> EscapingMallocs(prog[f], prep.prov[f], prep.escape),
   transient |-> TransientOf(f, effects.heap \cup effects.dyn),
   future |-> FutureStaticWords(prog[f], prep.live[f], prep.any[f], prep.plans, prep.plans[f], ScratchOf(f))]

PlanMallocs ==
  /\ phase = "malloc"
  /\ \E effects \in {FuncMemEffects(prog, prep.graph, prep.plans, prep.scratch.effects)} :
       prep' = prep @@ [mallocs |-> Each(LAMBDA f : MallocsOf(f, effects))]
  /\ phase' = "run"

-----------------------------------------------------------------------------
(***************************************************************************)
(* The lowered program.                                                    *)
(***************************************************************************)
Frame == frames[Len(frames)]
Func == prog[Frame.func]
Inst == Func.code[Frame.pc]
Plan(f) == prep.plans[f]
Arg(k) == Frame.env[Inst.args[k]]

\* The address of word off of the frame of a function whose frame pointer is fp.
StackAddr(f, fp, off) == IF Plan(f).static THEN StaticBase + off ELSE fp + off
SlotAddr(f, fp, v) == IF v \in DOMAIN ScratchOf(f) THEN ScratchOf(f)[v]
                      ELSE StackAddr(f, fp, Plan(f).offset[SpillObj(prog[f], v)])
\* m with the spilled among the values vs stored in their slots.
Spill(m, f, fp, env, vs) ==
  LET addr == [v \in vs \cap prog[f].spilled |-> SlotAddr(f, fp, v)]
  IN [w \in {addr[v] : v \in DOMAIN addr} |-> env[CHOOSE v \in DOMAIN addr : addr[v] = w]] @@ m

ReadWord(m, w) == IF w \in DOMAIN m THEN m[w] ELSE Junk
WriteWord(m, w, x) == (w :> x) @@ m

AddressOf(p) == IF p[1] = 0 THEN p[2] ELSE objs[p[1]].base + p[2]
IsObject(p) == p[1] > 0
Inside(p) == IsObject(p) /\ p[2] \in DOMAIN objs[p[1]].data
Meant(p) == IF Inside(p) THEN objs[p[1]].data[p[2]] ELSE Junk
Plus(p, n) == IF p = Junk THEN Junk ELSE <<p[1], p[2] + n>>
\* The objects after x was put where p points to.
Put(o, p, x) == IF Inside(p) THEN [o EXCEPT ![p[1]].data[p[2]] = x] ELSE o

\* Mutant: the frame is entered where the stack pointer is, wherever the heap ends.
EnterFrameAtSp(g, r, m) ==
  IF Plan(g).static \/ Plan(g).locals_words = 0 THEN [regs |-> r, mem |-> m]
  ELSE LET base == IF r.sp = 0 THEN prep.dyn_base ELSE r.sp
       IN [regs |-> [r EXCEPT !.fp = base + 1, !.sp = base + 1 + Plan(g).locals_words],
           mem |-> WriteWord(m, base, Number(r.fp))]
\* enter_frame: the frame is above the heap; the word below it keeps the frame pointer.
EnterFrame(g, r, m) ==
  IF Plan(g).static \/ Plan(g).locals_words = 0 THEN [regs |-> r, mem |-> m]
  ELSE LET base == Larger(IF r.sp = 0 THEN prep.dyn_base ELSE r.sp, r.free)
       IN [regs |-> [r EXCEPT !.fp = base + 1, !.sp = base + 1 + Plan(g).locals_words],
           mem |-> WriteWord(m, base, Number(r.fp))]
LeaveFrame(g, r, m) ==
  IF Plan(g).static \/ Plan(g).locals_words = 0 THEN r
  ELSE [r EXCEPT !.sp = r.fp - 1, !.fp = ReadWord(m, r.fp - 1)[2]]

EnterFunction(g, args, r, m) ==
  LET e == EnterFrame(g, r, m)
      env == [v \in Args(prog[g]) |-> args[-v]]
  IN [regs |-> e.regs, mem |-> Spill(e.mem, g, e.regs.fp, env, Args(prog[g])),
      frame |-> [func |-> g, pc |-> 1, env |-> env, free |-> e.regs.free, fp |-> r.fp,
                 allocas |-> {}, saved |-> <<>>]]

Start ==
  /\ phase = "run" /\ frames = <<>> /\ jumps = 0
  /\ \E e \in {EnterFunction(1, [k \in DOMAIN prog[1].args |-> Number(k)], regs, mem)} :
       /\ regs' = e.regs /\ mem' = e.mem /\ frames' = <<e.frame>>
  /\ jumps' = 1 /\ UNCHANGED objs

Running(ops) == phase = "run" /\ frames # <<>> /\ Inst.op \in ops
WithTop(fr) == [frames EXCEPT ![Len(frames)] = fr]
\* The result of the instruction is x.
DefineIn(fr, x) ==
  LET env == (fr.pc :> x) @@ fr.env
  IN /\ frames' = WithTop([fr EXCEPT !.env = env, !.pc = @ + 1])
     /\ mem' = Spill(mem, fr.func, regs.fp, env, {fr.pc})
Define(x) == DefineIn(Frame, x)
Advance == frames' = WithTop([Frame EXCEPT !.pc = @ + 1])

NewObject(base, size) == Append(objs, [base |-> base, data |-> [k \in 0 .. size - 1 |-> Junk]])

Compute ==
  /\ Running({"num", "gep", "cast", "i2p", "op", "load"})
  /\ Define(CASE Inst.op = "num" -> Number(Inst.n)
              [] Inst.op = "load" -> Meant(Arg(1))
              [] OTHER -> Plus(Arg(1), Inst.n))
  /\ UNCHANGED <<regs, objs, jumps>>

Alloca ==
  /\ Running({"alloca"})
  /\ DefineIn([Frame EXCEPT !.allocas = @ \cup {Len(objs) + 1}], <<Len(objs) + 1, 0>>)
  /\ objs' = NewObject(StackAddr(Frame.func, regs.fp, Plan(Frame.func).offset[AllocaObj(Func, Frame.pc)]), Inst.n)
  /\ UNCHANGED <<regs, jumps>>

\* Above the heap, the frames and the static words in use; a transient allocation is not
\* recorded.
MallocBase ==
  LET m == prep.mallocs[Frame.func]
      dyn == prep.dyn_base - StaticBase
      future == IF Frame.pc \in m.escaping THEN Larger(m.future[Frame.pc], dyn) ELSE m.future[Frame.pc]
  IN Larger(Larger(regs.free, regs.sp), StaticBase + future)

EvmMalloc ==
  /\ Running({"malloc"})
  /\ Define(<<Len(objs) + 1, 0>>)
  /\ objs' = NewObject(MallocBase, Inst.n)
  /\ regs' = IF Frame.pc \in prep.mallocs[Frame.func].transient THEN regs
             ELSE [regs EXCEPT !.free = MallocBase + Inst.n]
  /\ UNCHANGED jumps

\* A store of a byte leaves a word of which no more is said.
Store ==
  /\ Running({"store", "store8"})
  /\ LET x == IF Inst.op = "store" THEN Arg(2) ELSE Junk
     IN mem' = WriteWord(mem, AddressOf(Arg(1)), x) /\ objs' = Put(objs, Arg(1), x)
  /\ Advance /\ UNCHANGED <<regs, jumps>>

\* Inst.n words, from memory or from call data.
CopyWords ==
  /\ Running({"copy", "fill"})
  /\ LET words == 0 .. Inst.n - 1
         to == AddressOf(Arg(1))
         x(k) == IF Inst.op = "copy" THEN ReadWord(mem, AddressOf(Arg(2)) + k) ELSE Junk
         meant(k) == IF Inst.op = "copy" THEN Meant(Plus(Arg(2), k)) ELSE Junk
     IN /\ mem' = [w \in {to + k : k \in words} |-> x(w - to)] @@ mem
        /\ objs' = FoldLeft(LAMBDA o, k : Put(o, Plus(Arg(1), k - 1), meant(k - 1)), objs,
                            [k \in 1 .. Inst.n |-> k])
  /\ Advance /\ UNCHANGED <<regs, jumps>>

\* The words of the call save plan wait on the stack for the return.
SavedWords ==
  IF Plan(Frame.func).static /\ Frame.pc \in DOMAIN Plan(Frame.func).saves
  THEN Plan(Frame.func).saves[Frame.pc] ELSE <<>>

Call ==
  /\ Running({"call", "do"}) /\ Len(frames) < MaxDepth
  /\ \E e \in {EnterFunction(Inst.n, [k \in DOMAIN Inst.args |-> Arg(k)], regs, mem)} :
       /\ regs' = e.regs /\ mem' = e.mem
       /\ frames' = Append(WithTop([Frame EXCEPT !.saved =
                             [k \in DOMAIN SavedWords |->
                                <<StaticBase + SavedWords[k], ReadWord(mem, StaticBase + SavedWords[k])>>]]),
                           e.frame)
  /\ UNCHANGED <<objs, jumps>>

\* Mutant: the words saved are put back one below where they were.
RestoredBelow(fr, m) == [w \in {p[1] - 1 : p \in ToSet(fr.saved)} |->
                           (CHOOSE p \in ToSet(fr.saved) : p[1] - 1 = w)[2]] @@ m
Restored(fr, m) == [w \in {p[1] : p \in ToSet(fr.saved)} |->
                      (CHOOSE p \in ToSet(fr.saved) : p[1] = w)[2]] @@ m

\* The local memory of the call is gone; the caller has its saved words back before the
\* result is stored.
Return ==
  /\ Running({"ret"})
  /\ LET left == [r |-> LeaveFrame(Frame.func, IF Frame.func \in prep.restore
                                               THEN [regs EXCEPT !.free = Frame.free] ELSE regs, mem)]
         caller == frames[Len(frames) - 1]
         at == prog[caller.func].code[caller.pc]
         env == IF at.op = "call" THEN (caller.pc :> Arg(1)) @@ caller.env ELSE caller.env
     IN /\ regs' = left.r
        /\ IF Len(frames) = 1 THEN frames' = <<>> /\ UNCHANGED mem
           ELSE /\ frames' = Append(SubSeq(frames, 1, Len(frames) - 2),
                                    [caller EXCEPT !.env = env, !.pc = @ + 1, !.saved = <<>>])
                /\ mem' = Spill(Restored(caller, mem), caller.func, left.r.fp, env,
                                IF at.op = "call" THEN {caller.pc} ELSE {})
  /\ objs' = [o \in DOMAIN objs |-> IF o \in Frame.allocas THEN [objs[o] EXCEPT !.data = <<>>] ELSE objs[o]]
  /\ UNCHANGED jumps

\* The phis of the block take their operands at once.
Jump ==
  /\ Running({"jump", "br"}) /\ jumps < MaxJumps
  /\ \E b \in ToSet(Inst.to) :
       LET here == BlockAt(Func, Frame.pc)
           env == [i \in Phis(Func, b) |-> Frame.env[Incoming(Func, i, here)]] @@ Frame.env
       IN /\ frames' = WithTop([Frame EXCEPT !.env = env,
                                             !.pc = Starts(Func, b) + Cardinality(Phis(Func, b))])
          /\ mem' = Spill(mem, Frame.func, regs.fp, env, Phis(Func, b))
  /\ jumps' = jumps + 1 /\ UNCHANGED <<regs, objs>>

Stop == /\ Running({"stop"})
        /\ frames' = <<>> /\ UNCHANGED <<mem, regs, objs, jumps>>

Init ==
  /\ prog \in Programs
  /\ phase = "summaries" /\ prep = <<>>
  /\ mem = <<>> /\ regs = [free |-> 0, sp |-> 0, fp |-> 0]
  /\ objs = <<>> /\ frames = <<>> /\ jumps = 0

PrepareSection == /\ Summaries \/ PrepareFreePtrRestore \/ ScratchRound \/ PlanMemory \/ PlanMallocs
                  /\ UNCHANGED <<prog, mem, regs, objs, frames, jumps>>
Run == /\ Start \/ Compute \/ Alloca \/ EvmMalloc \/ Store \/ CopyWords \/ Call \/ Return \/ Jump \/ Stop
       /\ UNCHANGED <<prog, phase, prep>>
Next == PrepareSection \/ Run
Spec == Init /\ [][Next]_memVars

-----------------------------------------------------------------------------
(***************************************************************************)
(* What the machine reads is what the program meant.                       *)
(***************************************************************************)
\* What the next instruction reads from slots: its operands, and at the end of a block
\* the operands of the phis that follow.
ReadNext ==
  Reads(Func, Frame.pc)
  \cup {Incoming(Func, i, BlockAt(Func, Frame.pc)) : i \in UNION {Phis(Func, b) : b \in ToSet(Inst.to)}}

Agrees(w, meant) == meant = Junk \/ ReadWord(mem, w) = meant

\* A spilled value is in its slot when it is read, whatever was called since.
SpillsSurvive ==
  (phase = "run" /\ frames # <<>>) =>
    \A v \in (IF Inst.op = "phi" THEN {} ELSE ReadNext) \cap Func.spilled :
      Agrees(SlotAddr(Frame.func, regs.fp, v), Frame.env[v])

\* Memory the program allocated holds what was stored there last when it is read, though
\* local objects, frames and allocations share addresses.
ObjectsSurvive ==
  (phase = "run" /\ frames # <<>>) =>
    /\ Inst.op = "load" => Agrees(AddressOf(Arg(1)), Meant(Arg(1)))
    /\ Inst.op = "copy" => \A k \in 0 .. Inst.n - 1 :
                             Agrees(AddressOf(Arg(2)) + k, Meant(Plus(Arg(2), k)))

\* A frame is left with the frame pointer it was entered with.
FramesUnwind ==
  (phase = "run" /\ frames # <<>> /\ Inst.op = "ret") =>
    LeaveFrame(Frame.func, regs, mem).fp = Frame.fp

\* The search for the functions that use scratch slots and that for the cost cap come to
\* an end, and the plan they lead to passes the checks of debug builds.
PlanVerifies ==
  /\ phase = "scratch" => prep.rounds < MaxRounds
  /\ phase \in {"malloc", "run"} =>
       prep.settled /\ VerifyStaticArenaPlan(prep.stacks, prep.plans, prep.sccs)

=============================================================================
