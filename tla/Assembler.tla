----------------------------- MODULE Assembler -----------------------------
(***************************************************************************)
(* Laying out and linking a section                                        *)
(* (crates/codegen/src/machinst/assemble.rs, object/link.rs and the push   *)
(* widths of isa/evm/mod.rs).                                              *)
(*                                                                         *)
(* The operand of a push is as wide as the address it holds, and addresses *)
(* depend on the widths before them.  resize sweeps the functions until no *)
(* offset changes; link_section then writes the symbol values into the     *)
(* symbol pushes, which may widen them, and lays out again.                *)
(***************************************************************************)
EXTENDS Naturals, Sequences, FiniteSets, SequencesExt, FiniteSetsExt

CONSTANTS
  Programs,   \* the sections to link, see IsSection
  Policy      \* PushWidthPolicy: a subset of {"push4", "minimal"}

MAX_ITERS == 64

\* A function is the sequence of its items, in block_order: the start of a block, n
\* one-byte instructions, a push of the address of the item at index i (a block if that
\* is a start, an instruction otherwise) or of a function, or a push of the address or
\* the size of a symbol.
Start == [k |-> "start"]
Ops(n) == [k |-> "ops", n |-> n]
PushLabel(i) == [k |-> "label", to |-> i]
PushFunc(f) == [k |-> "func", to |-> f]
PushSym(sym, what) == [k |-> "sym", sym |-> sym, what |-> what]

AnyItem ==
  [k : {"start"}] \cup [k : {"ops"}, n : Nat] \cup [k : {"label", "func"}, to : Nat]
  \cup [k : {"sym"}, sym : {"func", "data"} \X Nat, what : {"addr", "size"}]
IsLabel(item) == item.k \in {"label", "func"}

\* A section: its functions in order, and the sizes of its data and embeds.  Labels are
\* those of the function, or functions of the section; a symbol may be unknown.
IsSection(p) ==
  /\ DOMAIN p = {"funcs", "data"}
  /\ p.funcs \in Seq(Seq(AnyItem))
  /\ \A f \in DOMAIN p.funcs : \A i \in DOMAIN p.funcs[f] :
       LET item == p.funcs[f][i]
       IN /\ item.k = "label" => item.to \in DOMAIN p.funcs[f]
          /\ item.k = "func" => item.to \in DOMAIN p.funcs
  /\ p.data \in Seq(Nat)

ASSUME ProgramsAssumption == \A p \in Programs : IsSection(p)
ASSUME PolicyAssumption == Policy \subseteq {"push4", "minimal"}

VARIABLES
  sect,       \* the section
  policy,     \* opts.fixup_policy
  func_off,   \* ObjectLayout::func_offsets
  layouts,    \* FuncLayout of each function
  imm,        \* inst_imm_bytes of the symbol pushes: their length and value
  opcode,     \* the operand width of each push opcode
  phase,      \* where link_section is
  next,       \* the function or fixup it handles next
  offset,     \* the running offset of ObjectLayout::resize
  changed,    \* did_change of the sweep, then layout_changed of the fixups
  iters,      \* completed rounds of link_section
  symtab      \* symbol -> offset and size

vars == <<sect, policy, func_off, layouts, imm, opcode, phase, next, offset, changed, iters, symtab>>

Funcs == DOMAIN sect.funcs
Item(f, i) == sect.funcs[f][i]

\* The bytes of an address or immediate without its leading zeros.
BytesLen(v) == IF v = 0 THEN 0 ELSE IF v < 2^8 THEN 1 ELSE IF v < 2^16 THEN 2
               ELSE IF v < 2^24 THEN 3 ELSE 4

\* The sum of the first k numbers of s, for each k.
Sums(s) ==
  LET sum[k \in 0..Len(s)] == IF k = 0 THEN 0 ELSE sum[k - 1] + s[k]
  IN sum
Total(s) == Sums(s)[Len(s)]

-----------------------------------------------------------------------------
(***************************************************************************)
(* FuncLayout::new: the guess the first sweep starts from.                 *)
(***************************************************************************)
OpCount(item) == IF item.k = "start" THEN 0 ELSE IF item.k = "ops" THEN item.n ELSE 1

NewLayout(fn, start) ==
  LET counts == [i \in DOMAIN fn |-> OpCount(fn[i])]
  IN [offset |-> start + Total(counts),
      size |-> Total(counts) + 2 * Cardinality({i \in DOMAIN fn : IsLabel(fn[i])}),
      at |-> [i \in DOMAIN fn |-> IF fn[i].k = "start" THEN start + Sums(counts)[i - 1] ELSE 0],
      targets |-> [i \in DOMAIN fn |-> 0]]

NewFuncOffset(funcs, f) == Sums([g \in DOMAIN funcs |-> NewLayout(funcs[g], 0).size])[f - 1]

Init ==
  /\ sect \in Programs
  /\ policy \in Policy
  /\ func_off = [f \in Funcs |-> NewFuncOffset(sect.funcs, f)]
  /\ layouts = [f \in Funcs |-> NewLayout(sect.funcs[f], func_off[f])]
  /\ imm = [f \in Funcs |-> [i \in DOMAIN sect.funcs[f] |-> [len |-> 0, val |-> 0]]]
  /\ opcode = [f \in Funcs |-> [i \in DOMAIN sect.funcs[f] |-> 0]]
  /\ phase = "resize"
  /\ next = 1
  /\ offset = 0
  /\ changed = FALSE
  /\ iters = 0
  /\ symtab = <<>>

-----------------------------------------------------------------------------
(***************************************************************************)
(* FuncLayout::resize: one sweep over a function.  Every offset is written *)
(* as it is reached, so a backward label sees the new offset of its target *)
(* and a forward label the old one.  end[i] is the offset after i items.   *)
(***************************************************************************)
Address(f, end, i) ==
  LET to == Item(f, i).to
  IN IF Item(f, i).k = "func" THEN func_off[to]
     ELSE IF to <= i THEN end[to - 1] ELSE layouts[f].at[to]

ItemLen(f, end, i) ==
  CASE Item(f, i).k = "sym" -> 1 + imm[f][i].len
    [] IsLabel(Item(f, i)) -> 1 + BytesLen(Address(f, end, i))
    [] OTHER -> OpCount(Item(f, i))

Ends(f, start) ==
  LET end[i \in 0..Len(sect.funcs[f])] ==
        IF i = 0 THEN start ELSE end[i - 1] + ItemLen(f, end, i)
  IN end

Sweep(f, start) ==
  LET end == Ends(f, start)
      items == DOMAIN sect.funcs[f]
  IN [offset |-> start,
      size |-> end[Len(sect.funcs[f])] - start,
      at |-> [i \in items |-> end[i - 1]],
      targets |-> [i \in items |-> IF IsLabel(Item(f, i)) THEN Address(f, end, i) ELSE 0]]

\* Mutant: a push that has its opcode keeps it.
OpcodesAfterOnce(f, lay) ==
  [i \in DOMAIN sect.funcs[f] |->
     CASE Item(f, i).k = "sym" -> imm[f][i].len
       [] IsLabel(Item(f, i)) /\ opcode[f][i] = 0 -> BytesLen(lay.targets[i])
       [] OTHER -> opcode[f][i]]

\* The opcode of a push gets the width of the address the sweep has read for it, or of
\* its immediate.
OpcodesAfter(f, lay) ==
  [i \in DOMAIN sect.funcs[f] |->
     CASE Item(f, i).k = "sym" -> imm[f][i].len
       [] IsLabel(Item(f, i)) -> BytesLen(lay.targets[i])
       [] OTHER -> 0]

Resizing == phase \in {"resize", "final"}

ResizeFunc ==
  /\ Resizing
  /\ next <= Len(sect.funcs)
  /\ LET lay == Sweep(next, offset)
     IN /\ layouts' = [layouts EXCEPT ![next] = lay]
        /\ changed' = (changed \/ lay # layouts[next])
        /\ opcode' = [opcode EXCEPT ![next] = OpcodesAfter(next, lay)]
        /\ func_off' = [func_off EXCEPT ![next] = offset]
        /\ offset' = offset + lay.size
        /\ next' = next + 1
  /\ UNCHANGED <<sect, policy, imm, phase, iters, symtab>>

\* Mutant: the flag of the previous sweep is kept.
SweepAgainKeepFlag ==
  /\ Resizing
  /\ next > Len(sect.funcs)
  /\ changed
  /\ next' = 1 /\ offset' = 0
  /\ UNCHANGED <<sect, policy, func_off, layouts, imm, opcode, phase, changed, iters, symtab>>

\* while layout.resize(backend, 0) {}
SweepAgain ==
  /\ Resizing
  /\ next > Len(sect.funcs)
  /\ changed
  /\ next' = 1 /\ offset' = 0 /\ changed' = FALSE
  /\ UNCHANGED <<sect, policy, func_off, layouts, imm, opcode, phase, iters, symtab>>

-----------------------------------------------------------------------------
(***************************************************************************)
(* link_section.  A symbol is <<"func", f>> or <<"data", d>>; the embeds   *)
(* follow the data in the same way and are data here.                      *)
(***************************************************************************)
CodeEnd == Max({0} \cup {func_off[f] + layouts[f].size : f \in Funcs})

Symtab ==
  [s \in {<<"func", f>> : f \in Funcs} \cup {<<"data", d>> : d \in DOMAIN sect.data} |->
     IF s[1] = "func" THEN [offset |-> func_off[s[2]], size |-> layouts[s[2]].size]
     ELSE [offset |-> CodeEnd + Sums(sect.data)[s[2] - 1], size |-> sect.data[s[2]]]]

BuildSymtab ==
  /\ phase = "resize"
  /\ next > Len(sect.funcs)
  /\ ~changed
  /\ symtab' = Symtab
  /\ phase' = "fixups"
  /\ next' = 1
  /\ UNCHANGED <<sect, policy, func_off, layouts, imm, opcode, offset, changed, iters>>

\* The symbol pushes of all functions, in the order they were lowered.
Fixups ==
  FlattenSeq([f \in Funcs |->
    FlattenSeq([i \in DOMAIN sect.funcs[f] |->
      IF Item(f, i).k = "sym" THEN << <<f, i>> >> ELSE <<>>])])

FixupValue(item) ==
  IF item.what = "addr" THEN symtab[item.sym].offset ELSE symtab[item.sym].size

NewImm(v) == [len |-> IF policy = "push4" THEN 4 ELSE BytesLen(v), val |-> v]

\* Mutant: a wider push does not count as a change of the layout.
ApplyFixupSameLayout ==
  /\ phase = "fixups"
  /\ next <= Len(Fixups)
  /\ LET f == Fixups[next][1]
         p == Fixups[next][2]
     IN /\ Item(f, p).sym \in DOMAIN symtab
        /\ imm' = [imm EXCEPT ![f][p] = NewImm(FixupValue(Item(f, p)))]
        /\ opcode' = [opcode EXCEPT ![f][p] = imm'[f][p].len]
        /\ next' = next + 1
  /\ UNCHANGED <<sect, policy, func_off, layouts, phase, offset, changed, iters, symtab>>

\* apply_sym_fixup.  Equal bytes are left alone; the length decides about the layout.
ApplyFixup ==
  /\ phase = "fixups"
  /\ next <= Len(Fixups)
  /\ LET f == Fixups[next][1]
         p == Fixups[next][2]
         item == Item(f, p)
     IN IF item.sym \in DOMAIN symtab
        THEN /\ imm' = [imm EXCEPT ![f][p] = NewImm(FixupValue(item))]
             /\ opcode' = [opcode EXCEPT ![f][p] = imm'[f][p].len]
             /\ changed' = (changed \/ imm'[f][p].len # imm[f][p].len)
             /\ next' = next + 1
             /\ UNCHANGED phase
        ELSE phase' = "unknown symbol" /\ UNCHANGED <<imm, opcode, changed, next>>
  /\ UNCHANGED <<sect, policy, func_off, layouts, offset, iters, symtab>>

FixupsDone == phase = "fixups" /\ next > Len(Fixups)

LayOutAgain ==
  /\ FixupsDone
  /\ changed
  /\ iters' = iters + 1
  /\ phase' = IF iters' < MAX_ITERS THEN "resize" ELSE "did not converge"
  /\ next' = 1 /\ offset' = 0 /\ changed' = FALSE
  /\ UNCHANGED <<sect, policy, func_off, layouts, imm, opcode, symtab>>

LastLayout ==
  /\ FixupsDone
  /\ ~changed
  /\ phase' = "final"
  /\ next' = 1 /\ offset' = 0
  /\ UNCHANGED <<sect, policy, func_off, layouts, imm, opcode, changed, iters, symtab>>

Emit ==
  /\ phase = "final"
  /\ next > Len(sect.funcs)
  /\ ~changed
  /\ phase' = "emitted"
  /\ UNCHANGED <<sect, policy, func_off, layouts, imm, opcode, next, offset, changed, iters, symtab>>

Next == ResizeFunc \/ SweepAgain \/ BuildSymtab \/ ApplyFixup \/ LayOutAgain \/ LastLayout \/ Emit

Spec == Init /\ [][Next]_vars
FairSpec == Spec /\ WF_vars(Next)

-----------------------------------------------------------------------------
(***************************************************************************)
(* What FuncLayout::emit writes: the bytes of each item, and where they    *)
(* are in the section.                                                     *)
(***************************************************************************)
EmittedLen(f, i) ==
  LET item == Item(f, i)
  IN CASE item.k = "sym" -> 1 + imm[f][i].len
       [] IsLabel(item) -> 1 + BytesLen(layouts[f].targets[i])
       [] OTHER -> OpCount(item)

Lens(f) == [i \in DOMAIN sect.funcs[f] |-> EmittedLen(f, i)]
FuncLen(f) == Total(Lens(f))
FuncStart(f) == Sums([g \in Funcs |-> FuncLen(g)])[f - 1]
Place(f, i) == FuncStart(f) + Sums(Lens(f))[i - 1]
PlaceOfTarget(f, item) == IF item.k = "func" THEN FuncStart(item.to) ELSE Place(f, item.to)

\* In the emitted section every label push holds the place of its target, and its
\* opcode says how many bytes follow (assemble.rs: resize until nothing changes).
LabelsExact ==
  phase = "emitted" =>
    \A f \in Funcs : \A i \in DOMAIN sect.funcs[f] :
      IsLabel(Item(f, i)) =>
        /\ layouts[f].targets[i] = PlaceOfTarget(f, Item(f, i))
        /\ opcode[f][i] = EmittedLen(f, i) - 1

\* In the emitted section every symbol push holds the offset or the size its symbol
\* has there, with an opcode of that width, and so does the symbol table of the
\* artifact, although it was built before the last fixups (link.rs).
SymbolsExact ==
  phase = "emitted" =>
    /\ \A f \in Funcs : symtab[<<"func", f>>] = [offset |-> FuncStart(f), size |-> FuncLen(f)]
    /\ LET codeLen == FuncStart(Len(sect.funcs) + 1)
           real(item) ==
             LET n == item.sym[2]
             IN CASE item.sym[1] = "func" /\ item.what = "addr" -> FuncStart(n)
                  [] item.sym[1] = "func" /\ item.what = "size" -> FuncLen(n)
                  [] item.sym[1] = "data" /\ item.what = "addr" ->
                       codeLen + Sums(sect.data)[n - 1]
                  [] OTHER -> sect.data[n]
       IN \A f \in Funcs : \A p \in DOMAIN sect.funcs[f] :
            Item(f, p).k = "sym" =>
              /\ imm[f][p].val = real(Item(f, p))
              /\ opcode[f][p] = imm[f][p].len
              /\ BytesLen(imm[f][p].val) <= imm[f][p].len

\* The sweeps come to an end, and so does linking: the rounds never reach the limit of
\* 64 (link.rs: "fixup relaxation did not converge").
Terminates == <>(phase \in {"emitted", "unknown symbol"})

=============================================================================
