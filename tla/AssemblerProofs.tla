-------------------------- MODULE AssemblerProofs --------------------------
(***************************************************************************)
(* Proofs about the assembler and the section linker, for every section:   *)
(* what is emitted is exact, however often the layout had to be repeated.  *)
(***************************************************************************)
EXTENDS Assembler, CommonLemmas

-----------------------------------------------------------------------------
(***************************************************************************)
(* Sums.                                                                   *)
(***************************************************************************)
SumsUp(f, s, n) == f = [k \in 0..n |-> IF k = 0 THEN 0 ELSE f[k - 1] + s[k]]

\* The sums of the first numbers exist, one after the other.
LEMMA SumsUpExists ==
  ASSUME NEW s, NEW N \in Nat
  PROVE  \E f : SumsUp(f, s, N)
<1> DEFINE G == {k \in Nat : \E f : SumsUp(f, s, k)}
<1>1. 0 \in G
  <2> DEFINE f == [k \in 0..0 |-> 0]
  <2>1. \A k \in 0..0 : k = 0
    OBVIOUS
  <2>2. f = [k \in 0..0 |-> IF k = 0 THEN 0 ELSE f[k - 1] + s[k]]
    BY <2>1
  <2>3. SumsUp(f, s, 0)
    BY <2>2 DEF SumsUp
  <2> QED BY <2>3
<1>2. ASSUME NEW n \in 0..(N - 1), n \in G PROVE n + 1 \in G
  <2>1. PICK g : SumsUp(g, s, n)
    BY <1>2
  <2> DEFINE f == [k \in 0..(n + 1) |-> IF k = n + 1 THEN g[n] + s[n + 1] ELSE g[k]]
  <2>2. \A k \in 0..n : g[k] = IF k = 0 THEN 0 ELSE g[k - 1] + s[k]
    BY <2>1 DEF SumsUp
  <2>3. n \in Nat /\ n + 1 # 0 /\ (n + 1) - 1 = n /\ n # n + 1 /\ n \in 0..(n + 1)
    OBVIOUS
  <2>4. \A k \in 0..(n + 1) : f[k] = IF k = 0 THEN 0 ELSE f[k - 1] + s[k]
    <3> TAKE k \in 0..(n + 1)
    <3>1. CASE k = n + 1
      BY <2>3, <3>1
    <3>2. CASE k # n + 1
      <4>1. k \in 0..n
        BY <3>2, <2>3
      <4>2. k # 0 => k - 1 \in 0..(n + 1) /\ k - 1 # n + 1
        BY <4>1, <2>3
      <4> QED BY <2>2, <4>1, <4>2, <3>2
    <3> QED BY <3>1, <3>2
  <2>5. f = [k \in 0..(n + 1) |-> IF k = 0 THEN 0 ELSE f[k - 1] + s[k]]
    BY <2>4
  <2> HIDE DEF f
  <2>6. SumsUp(f, s, n + 1)
    BY <2>5 DEF SumsUp
  <2> QED BY <2>6, <2>3
<1> HIDE DEF G
<1>3. \A n \in 0..N : n \in G
  BY <1>1, <1>2, CountUp
<1> QED BY <1>3 DEF G

\* What Sums computes.
LEMMA SumsLemma ==
  ASSUME NEW s \in Seq(Nat)
  PROVE  /\ Len(s) \in Nat /\ Sums(s)[0] = 0 /\ Total(s) \in Nat
         /\ \A k \in 0..Len(s) : Sums(s)[k] \in Nat
         /\ \A k \in 1..Len(s) : Sums(s)[k] = Sums(s)[k - 1] + s[k]
<1> DEFINE f == CHOOSE g : SumsUp(g, s, Len(s))
<1>0. Len(s) \in Nat /\ \A k \in 1..Len(s) : s[k] \in Nat
  BY LenProperties
<1>1. SumsUp(f, s, Len(s))
  BY <1>0, SumsUpExists
<1>2. Sums(s) = f
  BY DEF Sums, SumsUp
<1> HIDE DEF f
<1>3. \A k \in 0..Len(s) : f[k] = IF k = 0 THEN 0 ELSE f[k - 1] + s[k]
  BY <1>1 DEF SumsUp
<1>4. f[0] = 0 /\ \A k \in 1..Len(s) : f[k] = f[k - 1] + s[k]
  <2>1. 0 \in 0..Len(s) /\ \A k \in 1..Len(s) : k \in 0..Len(s) /\ k # 0
    BY <1>0
  <2> QED BY <1>3, <2>1
<1> DEFINE G == {k \in Nat : f[k] \in Nat}
<1>5. 0 \in G
  BY <1>4
<1>6. ASSUME NEW n \in 0..(Len(s) - 1), n \in G PROVE n + 1 \in G
  <2>1. n + 1 \in 1..Len(s) /\ (n + 1) - 1 = n /\ n + 1 \in Nat
    BY <1>0
  <2>2. f[n + 1] = f[n] + s[n + 1]
    BY <1>4, <2>1
  <2> QED BY <1>0, <1>6, <2>1, <2>2
<1> HIDE DEF G
<1>7. \A k \in 0..Len(s) : k \in G
  BY <1>0, <1>5, <1>6, CountUp
<1>8. \A k \in 0..Len(s) : f[k] \in Nat
  BY <1>7 DEF G
<1>9. Len(s) \in 0..Len(s)
  BY <1>0
<1> QED BY <1>0, <1>2, <1>4, <1>8, <1>9 DEF Total

\* A running total is where it starts and the sum so far.
LEMMA RunningTotal ==
  ASSUME NEW s \in Seq(Nat), NEW e, e[0] \in Nat,
         \A k \in 1..Len(s) : e[k] = e[k - 1] + s[k]
  PROVE  \A k \in 0..Len(s) : e[k] = e[0] + Sums(s)[k]
<1> DEFINE G == {k \in Nat : e[k] = e[0] + Sums(s)[k]}
<1>0. /\ Len(s) \in Nat /\ Sums(s)[0] = 0
      /\ \A k \in 0..Len(s) : Sums(s)[k] \in Nat
      /\ \A k \in 1..Len(s) : Sums(s)[k] = Sums(s)[k - 1] + s[k] /\ s[k] \in Nat
  BY SumsLemma, LenProperties
<1>1. 0 \in G
  BY <1>0
<1>2. ASSUME NEW n \in 0..(Len(s) - 1), n \in G PROVE n + 1 \in G
  <2>1. n + 1 \in 1..Len(s) /\ (n + 1) - 1 = n /\ n \in 0..Len(s) /\ n + 1 \in Nat
    BY <1>0
  <2>2. e[n + 1] = e[n] + s[n + 1] /\ Sums(s)[n + 1] = Sums(s)[n] + s[n + 1]
    BY <1>0, <2>1
  <2>3. e[n] = e[0] + Sums(s)[n] /\ Sums(s)[n] \in Nat /\ s[n + 1] \in Nat
    BY <1>0, <1>2, <2>1
  <2> QED BY <2>1, <2>2, <2>3
<1> HIDE DEF G
<1>3. \A k \in 0..Len(s) : k \in G
  BY <1>0, <1>1, <1>2, CountUp
<1> QED BY <1>3 DEF G

-----------------------------------------------------------------------------
(***************************************************************************)
(* The inductive invariant, part by part.                                  *)
(***************************************************************************)
Items(f) == DOMAIN sect.funcs[f]
Size(f) == Len(sect.funcs[f])
NFuncs == Len(sect.funcs)
LayoutsOf(f) ==
  [offset : Nat, size : Nat, at : [Items(f) -> Nat], targets : [Items(f) -> Nat]]
Phases == {"resize", "fixups", "final", "emitted", "unknown symbol", "did not converge"}
OnFuncs(g) == g = [f \in Funcs |-> g[f]]

Types ==
  /\ sect \in Programs
  /\ phase \in Phases
  /\ func_off \in [Funcs -> Nat]
  /\ OnFuncs(layouts) /\ \A f \in Funcs : layouts[f] \in LayoutsOf(f)
  /\ OnFuncs(imm) /\ \A f \in Funcs : imm[f] \in [Items(f) -> [len : Nat, val : Nat]]
  /\ OnFuncs(opcode) /\ \A f \in Funcs : opcode[f] \in [Items(f) -> Nat]
  /\ next \in Nat \ {0} /\ offset \in Nat /\ changed \in BOOLEAN

\* A function that has moved since its layout was computed will be seen to change.
MoveSeen(f) ==
  \/ layouts[f].offset = func_off[f]
  \/ /\ layouts[f].offset > func_off[f]
     /\ 1 \in Items(f) /\ layouts[f].at[1] \in {0, func_off[f]}

\* Where item i of a function ends, and the address its push holds, in its layout.
AtEnd(f, i) ==
  IF i < Size(f) THEN layouts[f].at[i + 1] ELSE layouts[f].offset + layouts[f].size
Target(f, i) ==
  IF Item(f, i).k = "func" THEN func_off[Item(f, i).to] ELSE layouts[f].at[Item(f, i).to]

\* A function that another sweep would not change, right behind the one before.
Behind(f) == IF f = 1 THEN 0 ELSE func_off[f - 1] + layouts[f - 1].size
Fits(f) ==
  /\ layouts[f].offset = func_off[f]
  /\ AtEnd(f, 0) = func_off[f]
  /\ \A i \in Items(f) : AtEnd(f, i) = AtEnd(f, i - 1) + EmittedLen(f, i)
  /\ \A i \in Items(f) :
       layouts[f].targets[i] = IF IsLabel(Item(f, i)) THEN Target(f, i) ELSE 0
Placed(f) ==
  /\ Fits(f)
  /\ opcode[f] = OpcodesAfter(f, layouts[f])
  /\ func_off[f] = Behind(f)
PlacedTo(n) == \A f \in 1..n : Placed(f)

\* A sweep that has changed nothing so far, and a layout that no sweep would change.
SweepSound ==
  Resizing =>
    /\ next <= NFuncs + 1
    /\ ~changed => PlacedTo(next - 1) /\ offset = Behind(next)
LaidOut ==
  phase \in {"final", "emitted"} \/ (phase = "fixups" /\ ~changed) => PlacedTo(NFuncs)

\* The symbol table is that of the layout, and the fixups applied hold its values.
Applied(f, p) ==
  /\ Item(f, p).sym \in DOMAIN symtab
  /\ imm[f][p] = NewImm(FixupValue(Item(f, p)))
  /\ opcode[f][p] = imm[f][p].len
AppliedTo(n) == \A j \in 1..n : Applied(Fixups[j][1], Fixups[j][2])
SymbolsSound ==
  /\ phase \in {"fixups", "final", "emitted"} =>
       symtab = Symtab /\ \A s \in DOMAIN symtab : symtab[s] \in [offset : Nat, size : Nat]
  /\ phase = "fixups" => next <= Len(Fixups) + 1 /\ AppliedTo(next - 1)
  /\ phase \in {"final", "emitted"} => ~changed /\ AppliedTo(Len(Fixups))

IInv ==
  Types /\ (\A f \in Funcs : MoveSeen(f)) /\ SweepSound /\ LaidOut /\ SymbolsSound

-----------------------------------------------------------------------------
(***************************************************************************)
(* Sections and their items.                                               *)
(***************************************************************************)

\* The parts of a section.
LEMMA SectionLemma ==
  ASSUME sect \in Programs
  PROVE  /\ NFuncs \in Nat /\ Funcs = 1..NFuncs
         /\ sect.data \in Seq(Nat)
         /\ \A f \in Funcs : /\ Size(f) \in Nat /\ Items(f) = 1..Size(f)
                             /\ sect.funcs[f] \in Seq(AnyItem)
<1>1. sect.funcs \in Seq(Seq(AnyItem)) /\ sect.data \in Seq(Nat)
  BY ProgramsAssumption DEF IsSection
<1>2. NFuncs \in Nat /\ Funcs = 1..NFuncs /\ \A f \in Funcs : sect.funcs[f] \in Seq(AnyItem)
  BY <1>1, LenProperties DEF NFuncs, Funcs
<1> QED BY <1>1, <1>2, LenProperties DEF Size, Items

\* Its items, by their kinds.
LEMMA ItemLemma ==
  ASSUME sect \in Programs, NEW f \in Funcs, NEW i \in Items(f)
  PROVE  /\ OpCount(Item(f, i)) \in Nat
         /\ Item(f, i).k \in {"start", "ops", "label", "func", "sym"}
         /\ Item(f, i).k = "label" => Item(f, i).to \in Items(f)
         /\ Item(f, i).k = "func" => Item(f, i).to \in Funcs
         /\ IsLabel(Item(f, i)) => Item(f, i).to \in Nat
         /\ Item(f, i).k = "sym" => /\ Item(f, i).what \in {"addr", "size"}
                                    /\ Item(f, i).sym \in {"func", "data"} \X Nat
<1>1. sect.funcs[f] \in Seq(AnyItem) /\ i \in 1..Size(f) /\ Size(f) \in Nat
  BY SectionLemma
<1>2. Item(f, i) \in AnyItem
  BY <1>1, LenProperties DEF Item, Size
<1>3. /\ Item(f, i).k = "label" => Item(f, i).to \in Items(f)
      /\ Item(f, i).k = "func" => Item(f, i).to \in Funcs
  BY ProgramsAssumption DEF IsSection, Item, Items, Funcs
<1>4. /\ Item(f, i).k \in {"start", "ops", "label", "func", "sym"}
      /\ Item(f, i).k = "ops" => Item(f, i).n \in Nat
      /\ IsLabel(Item(f, i)) => Item(f, i).to \in Nat
      /\ Item(f, i).k = "sym" => /\ Item(f, i).what \in {"addr", "size"}
                                 /\ Item(f, i).sym \in {"func", "data"} \X Nat
  BY <1>2 DEF AnyItem, IsLabel
<1> QED BY <1>3, <1>4 DEF OpCount

\* Addresses take at most four bytes.
LEMMA BytesLemma ==
  ASSUME NEW v
  PROVE  BytesLen(v) \in Nat /\ BytesLen(v) <= 4
  BY DEF BytesLen

\* A layout, position by position.
LEMMA LayoutLemma ==
  ASSUME Types, NEW f \in Funcs
  PROVE  /\ layouts[f].offset \in Nat /\ layouts[f].size \in Nat
         /\ \A i \in Items(f) : layouts[f].at[i] \in Nat /\ layouts[f].targets[i] \in Nat
         /\ \A i \in Items(f) : imm[f][i].len \in Nat /\ EmittedLen(f, i) \in Nat
         /\ \A i \in 0..Size(f) : AtEnd(f, i) \in Nat
<1>1. /\ layouts[f].offset \in Nat /\ layouts[f].size \in Nat
      /\ layouts[f].at \in [Items(f) -> Nat] /\ layouts[f].targets \in [Items(f) -> Nat]
  BY DEF Types, LayoutsOf
<1>2. \A i \in Items(f) : imm[f][i].len \in Nat
  BY DEF Types
<1>3. \A i \in Items(f) : EmittedLen(f, i) \in Nat
  BY <1>2, ItemLemma, BytesLemma DEF EmittedLen, Types
<1>4. ASSUME NEW i \in 0..Size(f) PROVE AtEnd(f, i) \in Nat
  <2>1. Size(f) \in Nat /\ Items(f) = 1..Size(f)
    BY SectionLemma DEF Types
  <2>2. i < Size(f) => i + 1 \in Items(f)
    BY <2>1
  <2> QED BY <1>1, <2>2 DEF AtEnd
<1> QED BY <1>1, <1>2, <1>3, <1>4

-----------------------------------------------------------------------------
(***************************************************************************)
(* A sweep over a function.                                                *)
(***************************************************************************)
EndsUp(e, f, start, n) ==
  e = [i \in 0..n |-> IF i = 0 THEN start ELSE e[i - 1] + ItemLen(f, e, i)]

\* The address of an item depends on the items before it only.
LEMMA AddressLocal ==
  ASSUME sect \in Programs, NEW f \in Funcs, NEW i \in Items(f), NEW d, NEW e,
         \A j \in 0..(i - 1) : d[j] = e[j]
  PROVE  /\ IsLabel(Item(f, i)) => Address(f, d, i) = Address(f, e, i)
         /\ ItemLen(f, d, i) = ItemLen(f, e, i)
<1>1. Items(f) = 1..Size(f) /\ Size(f) \in Nat
  BY SectionLemma
<1>2. ASSUME IsLabel(Item(f, i)) PROVE Address(f, d, i) = Address(f, e, i)
  <2>1. CASE Item(f, i).k = "func"
    BY <2>1 DEF Address
  <2>2. CASE Item(f, i).k = "label" /\ Item(f, i).to <= i
    <3>1. Item(f, i).to \in 1..Size(f)
      BY <1>1, <2>2, ItemLemma
    <3>2. Item(f, i).to - 1 \in 0..(i - 1)
      BY <1>1, <2>2, <3>1
    <3> QED BY <2>2, <3>2 DEF Address
  <2>3. CASE Item(f, i).k = "label" /\ ~(Item(f, i).to <= i)
    BY <2>3 DEF Address
  <2> QED BY <1>2, <2>1, <2>2, <2>3 DEF IsLabel
<1> QED BY <1>2 DEF ItemLen

\* The sweep over a function comes to its end.
LEMMA EndsUpExists ==
  ASSUME sect \in Programs, NEW f \in Funcs, NEW start
  PROVE  \E e : EndsUp(e, f, start, Size(f))
<1> DEFINE G == {n \in Nat : \E e : EndsUp(e, f, start, n)}
<1>0. Size(f) \in Nat /\ Items(f) = 1..Size(f)
  BY SectionLemma
<1>1. 0 \in G
  <2> DEFINE e == [i \in 0..0 |-> start]
  <2>1. \A i \in 0..0 : i = 0
    OBVIOUS
  <2>2. e = [i \in 0..0 |-> IF i = 0 THEN start ELSE e[i - 1] + ItemLen(f, e, i)]
    BY <2>1
  <2>3. EndsUp(e, f, start, 0)
    BY <2>2 DEF EndsUp
  <2> QED BY <2>3
<1>2. ASSUME NEW n \in 0..(Size(f) - 1), n \in G PROVE n + 1 \in G
  <2>1. PICK g : EndsUp(g, f, start, n)
    BY <1>2
  <2> DEFINE e == [i \in 0..(n + 1) |-> IF i = n + 1 THEN g[n] + ItemLen(f, g, n + 1) ELSE g[i]]
  <2>2. \A i \in 0..n : g[i] = IF i = 0 THEN start ELSE g[i - 1] + ItemLen(f, g, i)
    BY <2>1 DEF EndsUp
  <2>3. n \in Nat /\ n + 1 # 0 /\ (n + 1) - 1 = n /\ n # n + 1 /\ n \in 0..(n + 1)
    OBVIOUS
  <2>4. \A i \in 0..n : e[i] = g[i]
    <3>1. \A i \in 0..n : i \in 0..(n + 1) /\ i # n + 1
      BY <2>3
    <3> QED BY <3>1
  <2>5. e[n + 1] = g[n] + ItemLen(f, g, n + 1)
    <3>1. n + 1 \in 0..(n + 1)
      BY <2>3
    <3> QED BY <3>1
  <2>6. e = [i \in 0..(n + 1) |-> e[i]]
    OBVIOUS
  <2> HIDE DEF e
  <2>7. \A i \in 1..(n + 1) : ItemLen(f, e, i) = ItemLen(f, g, i)
    <3> TAKE i \in 1..(n + 1)
    <3>1. i \in Items(f) /\ \A j \in 0..(i - 1) : j \in 0..n
      BY <1>0, <2>3
    <3>2. \A j \in 0..(i - 1) : e[j] = g[j]
      BY <2>4, <3>1
    <3> QED BY <3>1, <3>2, AddressLocal
  <2>8. \A i \in 0..(n + 1) : e[i] = IF i = 0 THEN start ELSE e[i - 1] + ItemLen(f, e, i)
    <3> TAKE i \in 0..(n + 1)
    <3>1. CASE i = n + 1
      <4>1. i \in 1..(n + 1) /\ i # 0 /\ i - 1 = n /\ n \in 0..n
        BY <2>3, <3>1
      <4>2. ItemLen(f, e, i) = ItemLen(f, g, i) /\ e[n] = g[n]
        BY <2>4, <2>7, <4>1
      <4> QED BY <2>5, <3>1, <4>1, <4>2
    <3>2. CASE i # n + 1 /\ i # 0
      <4>1. i \in 0..n /\ i \in 1..(n + 1) /\ i - 1 \in 0..n
        BY <2>3, <3>2
      <4>2. ItemLen(f, e, i) = ItemLen(f, g, i) /\ e[i] = g[i] /\ e[i - 1] = g[i - 1]
        BY <2>4, <2>7, <4>1
      <4> QED BY <2>2, <3>2, <4>1, <4>2
    <3>3. CASE i = 0
      <4>1. 0 \in 0..n
        BY <2>3
      <4> QED BY <2>2, <2>4, <3>3, <4>1
    <3> QED BY <3>1, <3>2, <3>3
  <2>9. e = [i \in 0..(n + 1) |-> IF i = 0 THEN start ELSE e[i - 1] + ItemLen(f, e, i)]
    BY <2>6, <2>8
  <2>10. EndsUp(e, f, start, n + 1)
    BY <2>9 DEF EndsUp
  <2> QED BY <2>10, <2>3
<1> HIDE DEF G
<1>3. \A n \in 0..Size(f) : n \in G
  BY <1>0, <1>1, <1>2, CountUp
<1>4. Size(f) \in 0..Size(f)
  BY <1>0
<1> QED BY <1>3, <1>4 DEF G

\* Where the items of a function end.
LEMMA EndsLemma ==
  ASSUME Types, NEW f \in Funcs, NEW start \in Nat
  PROVE  /\ Ends(f, start)[0] = start
         /\ \A i \in Items(f) : Ends(f, start)[i] = Ends(f, start)[i - 1] + ItemLen(f, Ends(f, start), i)
         /\ \A i \in 0..Size(f) : Ends(f, start)[i] \in Nat /\ Ends(f, start)[i] >= start
         /\ \A i \in Items(f) : IsLabel(Item(f, i)) => Address(f, Ends(f, start), i) \in Nat
<1> DEFINE e == CHOOSE g : EndsUp(g, f, start, Size(f))
<1>0. sect \in Programs /\ Size(f) \in Nat /\ Items(f) = 1..Size(f)
  BY SectionLemma DEF Types
<1>1. EndsUp(e, f, start, Size(f))
  BY <1>0, EndsUpExists
<1>2. Ends(f, start) = e
  BY DEF Ends, EndsUp, Size
<1> HIDE DEF e
<1>3. \A i \in 0..Size(f) : e[i] = IF i = 0 THEN start ELSE e[i - 1] + ItemLen(f, e, i)
  BY <1>1 DEF EndsUp
<1>4. e[0] = start /\ \A i \in Items(f) : e[i] = e[i - 1] + ItemLen(f, e, i)
  <2>1. 0 \in 0..Size(f) /\ \A i \in Items(f) : i \in 0..Size(f) /\ i # 0
    BY <1>0
  <2> QED BY <1>3, <2>1
<1> DEFINE G == {n \in Nat : \A i \in 0..n : e[i] \in Nat /\ e[i] >= start}
<1>5. ASSUME NEW i \in Items(f), \A j \in 0..(i - 1) : e[j] \in Nat
      PROVE  ItemLen(f, e, i) \in Nat /\ (IsLabel(Item(f, i)) => Address(f, e, i) \in Nat)
  <2>1. ASSUME IsLabel(Item(f, i)) PROVE Address(f, e, i) \in Nat
    <3>1. CASE Item(f, i).k = "func"
      BY <1>0, <3>1, ItemLemma DEF Address, Types
    <3>2. CASE Item(f, i).k = "label" /\ Item(f, i).to <= i
      <4>1. Item(f, i).to \in 1..Size(f)
        BY <1>0, <3>2, ItemLemma
      <4>2. Item(f, i).to - 1 \in 0..(i - 1)
        BY <1>0, <3>2, <4>1
      <4> QED BY <1>5, <3>2, <4>2 DEF Address
    <3>3. CASE Item(f, i).k = "label" /\ ~(Item(f, i).to <= i)
      BY <1>0, <3>3, ItemLemma, LayoutLemma DEF Address
    <3> QED BY <2>1, <3>1, <3>2, <3>3 DEF IsLabel
  <2>2. imm[f][i].len \in Nat /\ OpCount(Item(f, i)) \in Nat
    BY <1>0, ItemLemma, LayoutLemma
  <2> QED BY <2>1, <2>2, BytesLemma DEF ItemLen
<1>6. 0 \in G
  <2>1. \A i \in 0..0 : i = 0
    OBVIOUS
  <2> QED BY <1>4, <2>1
<1>7. ASSUME NEW n \in 0..(Size(f) - 1), n \in G PROVE n + 1 \in G
  <2>1. n + 1 \in Items(f) /\ (n + 1) - 1 = n /\ n \in 0..n /\ n + 1 \in Nat
    BY <1>0
  <2>2. \A i \in 0..n : e[i] \in Nat /\ e[i] >= start
    BY <1>7
  <2>3. ItemLen(f, e, n + 1) \in Nat
    BY <1>5, <2>1, <2>2
  <2>4. e[n + 1] = e[n] + ItemLen(f, e, n + 1)
    BY <1>4, <2>1
  <2>5. e[n + 1] \in Nat /\ e[n + 1] >= start
    BY <2>1, <2>2, <2>3, <2>4
  <2>6. \A i \in 0..(n + 1) : i = n + 1 \/ i \in 0..n
    BY <2>1
  <2> QED BY <2>1, <2>2, <2>5, <2>6
<1> HIDE DEF G
<1>8. \A n \in 0..Size(f) : n \in G
  BY <1>0, <1>6, <1>7, CountUp
<1>9. \A i \in 0..Size(f) : e[i] \in Nat /\ e[i] >= start
  <2>1. Size(f) \in 0..Size(f)
    BY <1>0
  <2> QED BY <1>8, <2>1 DEF G
<1>10. \A i \in Items(f) : IsLabel(Item(f, i)) => Address(f, e, i) \in Nat
  <2> TAKE i \in Items(f)
  <2>1. \A j \in 0..(i - 1) : j \in 0..Size(f)
    BY <1>0
  <2> QED BY <1>5, <1>9, <2>1
<1> QED BY <1>2, <1>4, <1>9, <1>10

\* What a sweep finds is a layout.
LEMMA SweepTyped ==
  ASSUME Types, NEW f \in Funcs, NEW start \in Nat
  PROVE  /\ Sweep(f, start) \in LayoutsOf(f)
         /\ Sweep(f, start).offset = start
         /\ 1 \in Items(f) => Sweep(f, start).at[1] = start
         /\ OpcodesAfter(f, Sweep(f, start)) \in [Items(f) -> Nat]
<1> DEFINE e == Ends(f, start)
           lay == Sweep(f, start)
<1>0. Size(f) \in Nat /\ Items(f) = 1..Size(f)
  BY SectionLemma DEF Types
<1>1. /\ e[0] = start
      /\ \A i \in 0..Size(f) : e[i] \in Nat /\ e[i] >= start
      /\ \A i \in Items(f) : IsLabel(Item(f, i)) => Address(f, e, i) \in Nat
  BY EndsLemma
<1>2. lay = [offset |-> start, size |-> e[Size(f)] - start,
             at |-> [i \in Items(f) |-> e[i - 1]],
             targets |-> [i \in Items(f) |-> IF IsLabel(Item(f, i)) THEN Address(f, e, i) ELSE 0]]
  BY DEF Sweep, Size, Items
<1> HIDE DEF e
<1>3. e[Size(f)] - start \in Nat
  <2>1. Size(f) \in 0..Size(f)
    BY <1>0
  <2> QED BY <1>1, <2>1
<1>4. [i \in Items(f) |-> e[i - 1]] \in [Items(f) -> Nat]
  <2>1. \A i \in Items(f) : i - 1 \in 0..Size(f)
    BY <1>0
  <2> QED BY <1>1, <2>1
<1>5. [i \in Items(f) |-> IF IsLabel(Item(f, i)) THEN Address(f, e, i) ELSE 0] \in [Items(f) -> Nat]
  BY <1>1
<1>6. lay \in LayoutsOf(f)
  BY <1>2, <1>3, <1>4, <1>5 DEF LayoutsOf
<1>7. lay.offset = start /\ (1 \in Items(f) => lay.at[1] = start)
  BY <1>1, <1>2
<1> HIDE DEF lay
<1>8. OpcodesAfter(f, lay) \in [Items(f) -> Nat]
  <2>1. \A i \in Items(f) : imm[f][i].len \in Nat /\ BytesLen(lay.targets[i]) \in Nat
    BY LayoutLemma, BytesLemma
  <2>2. DOMAIN sect.funcs[f] = Items(f)
    BY DEF Items
  <2> QED BY <2>1, <2>2 DEF OpcodesAfter
<1> QED BY <1>6, <1>7, <1>8 DEF lay

\* A function that a sweep has not changed fits: each item ends where the next begins,
\* and each push holds where its target is, before or behind it.
LEMMA SweepFits ==
  ASSUME Types, NEW f \in Funcs, layouts[f] = Sweep(f, func_off[f])
  PROVE  Fits(f)
<1> DEFINE start == func_off[f]
           e == Ends(f, start)
<1>0. Size(f) \in Nat /\ Items(f) = 1..Size(f) /\ start \in Nat
  BY SectionLemma DEF Types
<1>1. /\ e[0] = start
      /\ \A i \in Items(f) : e[i] = e[i - 1] + ItemLen(f, e, i)
      /\ \A i \in 0..Size(f) : e[i] \in Nat
  BY <1>0, EndsLemma
<1>2. layouts[f] = [offset |-> start, size |-> e[Size(f)] - start,
             at |-> [i \in Items(f) |-> e[i - 1]],
             targets |-> [i \in Items(f) |-> IF IsLabel(Item(f, i)) THEN Address(f, e, i) ELSE 0]]
  BY DEF Sweep, Size, Items
<1> HIDE DEF e, start
<1>3. /\ layouts[f].offset = start /\ layouts[f].size = e[Size(f)] - start
      /\ \A i \in Items(f) : layouts[f].at[i] = e[i - 1]
      /\ \A i \in Items(f) :
           layouts[f].targets[i] = IF IsLabel(Item(f, i)) THEN Address(f, e, i) ELSE 0
  BY <1>2
<1>4. \A i \in 0..Size(f) : AtEnd(f, i) = e[i]
  <2> TAKE i \in 0..Size(f)
  <2>1. CASE i < Size(f)
    <3>1. i + 1 \in Items(f) /\ (i + 1) - 1 = i
      BY <1>0, <2>1
    <3> QED BY <1>3, <2>1, <3>1 DEF AtEnd
  <2>2. CASE ~(i < Size(f))
    <3>1. i = Size(f) /\ start \in Nat /\ e[i] \in Nat
      BY <1>0, <1>1, <2>2
    <3> QED BY <1>3, <2>2, <3>1 DEF AtEnd
  <2> QED BY <2>1, <2>2
<1>5. ASSUME NEW i \in Items(f), IsLabel(Item(f, i)) PROVE Address(f, e, i) = Target(f, i)
  <2>1. CASE Item(f, i).k = "func"
    BY <2>1 DEF Address, Target
  <2>2. CASE Item(f, i).k = "label"
    <3>1. Item(f, i).to \in Items(f)
      BY <2>2, ItemLemma DEF Types
    <3> QED BY <1>3, <2>2, <3>1 DEF Address, Target
  <2> QED BY <1>5, <2>1, <2>2 DEF IsLabel
<1>6. \A i \in Items(f) : ItemLen(f, e, i) = EmittedLen(f, i)
  BY <1>3 DEF ItemLen, EmittedLen
<1>7. \A i \in Items(f) : i \in 0..Size(f) /\ i - 1 \in 0..Size(f)
  BY <1>0
<1>8. 0 \in 0..Size(f)
  BY <1>0
<1> QED BY <1>1, <1>3, <1>4, <1>5, <1>6, <1>7, <1>8 DEF Fits, start

\* A function that fits is not changed by another sweep.
LEMMA FitsSweep ==
  ASSUME Types, NEW f \in Funcs, Fits(f)
  PROVE  Sweep(f, func_off[f]) = layouts[f]
<1> DEFINE start == func_off[f]
           e == Ends(f, start)
<1>0. Size(f) \in Nat /\ Items(f) = 1..Size(f) /\ start \in Nat
  BY SectionLemma DEF Types
<1>1. /\ e[0] = start
      /\ \A i \in Items(f) : e[i] = e[i - 1] + ItemLen(f, e, i)
      /\ \A i \in 0..Size(f) : e[i] \in Nat
  BY <1>0, EndsLemma
<1>2. Sweep(f, start) =
            [offset |-> start, size |-> e[Size(f)] - start,
             at |-> [i \in Items(f) |-> e[i - 1]],
             targets |-> [i \in Items(f) |-> IF IsLabel(Item(f, i)) THEN Address(f, e, i) ELSE 0]]
  BY DEF Sweep, Size, Items
<1>3. /\ layouts[f].offset = start
      /\ AtEnd(f, 0) = start
      /\ \A i \in Items(f) : AtEnd(f, i) = AtEnd(f, i - 1) + EmittedLen(f, i)
      /\ \A i \in Items(f) :
           layouts[f].targets[i] = IF IsLabel(Item(f, i)) THEN Target(f, i) ELSE 0
  BY DEF Fits
<1> HIDE DEF e, start
<1>4. ASSUME NEW i \in Items(f), \A j \in 0..(i - 1) : e[j] = AtEnd(f, j)
      PROVE  /\ IsLabel(Item(f, i)) => Address(f, e, i) = Target(f, i)
             /\ ItemLen(f, e, i) = EmittedLen(f, i)
  <2>1. ASSUME IsLabel(Item(f, i)) PROVE Address(f, e, i) = Target(f, i)
    <3>1. CASE Item(f, i).k = "func"
      BY <3>1 DEF Address, Target
    <3>2. CASE Item(f, i).k = "label" /\ Item(f, i).to <= i
      <4>1. PICK to : to = Item(f, i).to
        OBVIOUS
      <4>2. to \in 1..Size(f) /\ to <= i
        BY <1>0, <3>2, <4>1, ItemLemma DEF Types
      <4>3. to - 1 \in 0..(i - 1) /\ to - 1 < Size(f) /\ (to - 1) + 1 = to
        BY <1>0, <4>2
      <4>4. e[to - 1] = layouts[f].at[to]
        BY <1>4, <4>3 DEF AtEnd
      <4> QED BY <3>2, <4>1, <4>4 DEF Address, Target
    <3>3. CASE Item(f, i).k = "label" /\ ~(Item(f, i).to <= i)
      BY <3>3 DEF Address, Target
    <3> QED BY <2>1, <3>1, <3>2, <3>3 DEF IsLabel
  <2> QED BY <1>3, <2>1 DEF ItemLen, EmittedLen
<1> DEFINE G == {n \in Nat : \A i \in 0..n : e[i] = AtEnd(f, i)}
<1>5. 0 \in G
  <2>1. \A i \in 0..0 : i = 0
    OBVIOUS
  <2> QED BY <1>1, <1>3, <2>1
<1>6. ASSUME NEW n \in 0..(Size(f) - 1), n \in G PROVE n + 1 \in G
  <2>1. n + 1 \in Items(f) /\ (n + 1) - 1 = n /\ n \in 0..n /\ n + 1 \in Nat
    BY <1>0
  <2>2. \A i \in 0..n : e[i] = AtEnd(f, i)
    BY <1>6
  <2>3. ItemLen(f, e, n + 1) = EmittedLen(f, n + 1)
    BY <1>4, <2>1, <2>2
  <2>4. e[n + 1] = e[n] + ItemLen(f, e, n + 1)
    BY <1>1, <2>1
  <2>5. AtEnd(f, n + 1) = AtEnd(f, n) + EmittedLen(f, n + 1)
    BY <1>3, <2>1
  <2>6. \A i \in 0..(n + 1) : i = n + 1 \/ i \in 0..n
    BY <2>1
  <2> QED BY <2>1, <2>2, <2>3, <2>4, <2>5, <2>6
<1> HIDE DEF G
<1>7. \A i \in 0..Size(f) : e[i] = AtEnd(f, i)
  <2>1. \A n \in 0..Size(f) : n \in G
    BY <1>0, <1>5, <1>6, CountUp
  <2>2. Size(f) \in 0..Size(f)
    BY <1>0
  <2> QED BY <2>1, <2>2 DEF G
<1>8. layouts[f] \in LayoutsOf(f)
  BY DEF Types
<1>9. e[Size(f)] - start = layouts[f].size
  <2>1. Size(f) \in 0..Size(f) /\ ~(Size(f) < Size(f))
    BY <1>0
  <2>2. e[Size(f)] = start + layouts[f].size /\ layouts[f].size \in Nat
    BY <1>3, <1>7, <2>1, LayoutLemma DEF AtEnd
  <2> QED BY <1>0, <2>2
<1>10. \A i \in Items(f) : e[i - 1] = layouts[f].at[i]
  <2> TAKE i \in Items(f)
  <2>1. i - 1 \in 0..Size(f) /\ i - 1 < Size(f) /\ (i - 1) + 1 = i
    BY <1>0
  <2> QED BY <1>7, <2>1 DEF AtEnd
<1>11. \A i \in Items(f) :
         (IF IsLabel(Item(f, i)) THEN Address(f, e, i) ELSE 0) = layouts[f].targets[i]
  <2> TAKE i \in Items(f)
  <2>1. \A j \in 0..(i - 1) : j \in 0..Size(f)
    BY <1>0
  <2> QED BY <1>3, <1>4, <1>7, <2>1
<1>12. [i \in Items(f) |-> e[i - 1]] = layouts[f].at
  BY <1>8, <1>10 DEF LayoutsOf
<1>13. [i \in Items(f) |-> IF IsLabel(Item(f, i)) THEN Address(f, e, i) ELSE 0] = layouts[f].targets
  BY <1>8, <1>11 DEF LayoutsOf
<1> QED BY <1>2, <1>3, <1>8, <1>9, <1>12, <1>13 DEF LayoutsOf, start

-----------------------------------------------------------------------------
(***************************************************************************)
(* The initial layout.                                                     *)
(***************************************************************************)

\* The guess for a function.
LEMMA NewLayoutLemma ==
  ASSUME sect \in Programs, NEW f \in Funcs, NEW start \in Nat
  PROVE  LET lay == NewLayout(sect.funcs[f], start)
         IN /\ lay \in LayoutsOf(f)
            /\ \/ lay.offset = start
               \/ lay.offset > start /\ 1 \in Items(f) /\ lay.at[1] \in {0, start}
<1> DEFINE fn == sect.funcs[f]
           counts == [i \in Items(f) |-> OpCount(fn[i])]
           lay == NewLayout(fn, start)
<1>0. Size(f) \in Nat /\ Items(f) = 1..Size(f)
  BY SectionLemma
<1>1. counts \in Seq(Nat) /\ Len(counts) = Size(f)
  <2>1. \A i \in Items(f) : OpCount(fn[i]) \in Nat
    BY ItemLemma DEF Item
  <2>2. counts \in [1..Size(f) -> Nat]
    BY <1>0, <2>1
  <2> QED BY <1>0, <2>2
<1>2. lay = [offset |-> start + Total(counts),
             size |-> Total(counts) + 2 * Cardinality({i \in Items(f) : IsLabel(fn[i])}),
             at |-> [i \in Items(f) |-> IF fn[i].k = "start" THEN start + Sums(counts)[i - 1] ELSE 0],
             targets |-> [i \in Items(f) |-> 0]]
  BY DEF NewLayout, Items
<1>3. Cardinality({i \in Items(f) : IsLabel(fn[i])}) \in Nat
  <2>1. IsFiniteSet(Items(f))
    BY <1>0, FS_Interval
  <2>2. IsFiniteSet({i \in Items(f) : IsLabel(fn[i])})
    BY <2>1, FS_Subset
  <2> QED BY <2>2, FS_CardinalityType
<1> HIDE DEF counts
<1>4. /\ Sums(counts)[0] = 0 /\ Total(counts) \in Nat
      /\ \A k \in 0..Size(f) : Sums(counts)[k] \in Nat
  BY <1>1, SumsLemma
<1>5. [i \in Items(f) |-> IF fn[i].k = "start" THEN start + Sums(counts)[i - 1] ELSE 0]
        \in [Items(f) -> Nat]
  <2>1. \A i \in Items(f) : i - 1 \in 0..Size(f)
    BY <1>0
  <2>2. \A i \in Items(f) : start + Sums(counts)[i - 1] \in Nat
    BY <1>4, <2>1
  <2> QED BY <2>2
<1>6. Total(counts) + 2 * Cardinality({i \in Items(f) : IsLabel(fn[i])}) \in Nat
  BY <1>3, <1>4
<1>7. lay \in LayoutsOf(f)
  BY <1>2, <1>4, <1>5, <1>6 DEF LayoutsOf
<1>8. CASE Total(counts) = 0
  BY <1>2, <1>7, <1>8
<1>9. CASE Total(counts) # 0
  <2>1. Size(f) # 0
    BY <1>1, <1>4, <1>9 DEF Total
  <2>2. 1 \in Items(f) /\ 1 - 1 = 0
    BY <1>0, <2>1
  <2>3. lay.at[1] \in {0, start}
    BY <1>2, <1>4, <2>2
  <2>4. lay.offset > start
    BY <1>2, <1>4, <1>9
  <2> QED BY <1>7, <2>2, <2>3, <2>4
<1> QED BY <1>8, <1>9

\* Before the first sweep.
LEMMA InitSound == ASSUME Init PROVE IInv
<1> USE DEF Init
<1>0. sect \in Programs /\ NFuncs \in Nat /\ Funcs = 1..NFuncs
  BY SectionLemma
<1>1. \A f \in Funcs : func_off[f] \in Nat
  <2> DEFINE sizes == [g \in Funcs |-> NewLayout(sect.funcs[g], 0).size]
  <2>1. sizes \in Seq(Nat) /\ Len(sizes) = NFuncs
    <3>1. \A g \in Funcs : NewLayout(sect.funcs[g], 0).size \in Nat
      BY <1>0, NewLayoutLemma DEF LayoutsOf
    <3>2. sizes \in [1..NFuncs -> Nat]
      BY <1>0, <3>1
    <3> QED BY <1>0, <3>2
  <2>2. \A f \in Funcs : NewFuncOffset(sect.funcs, f) = Sums(sizes)[f - 1]
    BY DEF NewFuncOffset, Funcs
  <2> HIDE DEF sizes
  <2>3. \A f \in Funcs : f - 1 \in 0..NFuncs
    BY <1>0
  <2>4. \A k \in 0..NFuncs : Sums(sizes)[k] \in Nat
    BY <2>1, SumsLemma
  <2> QED BY <2>2, <2>3, <2>4
<1>2. \A f \in Funcs : layouts[f] \in LayoutsOf(f) /\ MoveSeen(f)
  <2> TAKE f \in Funcs
  <2>1. layouts[f] = NewLayout(sect.funcs[f], func_off[f])
    OBVIOUS
  <2> HIDE DEF Init
  <2>2. PICK start \in Nat : start = func_off[f]
    BY <1>1
  <2> QED BY <1>0, <2>1, <2>2, NewLayoutLemma DEF MoveSeen
<1>3. Types
  <2>1. phase \in Phases /\ next \in Nat \ {0} /\ offset \in Nat /\ changed \in BOOLEAN
    <3>1. phase = "resize" /\ next = 1 /\ offset = 0 /\ changed = FALSE
      OBVIOUS
    <3> HIDE DEF Init
    <3>2. phase \in Phases
      BY <3>1 DEF Phases
    <3>3. next \in Nat \ {0} /\ offset \in Nat
      BY <3>1
    <3> QED BY <3>1, <3>2, <3>3
  <2>4. OnFuncs(layouts) /\ OnFuncs(imm) /\ OnFuncs(opcode)
    BY DEF OnFuncs
  <2>2. func_off \in [Funcs -> Nat]
    BY <1>1
  <2>3. \A f \in Funcs : /\ imm[f] \in [Items(f) -> [len : Nat, val : Nat]]
                         /\ opcode[f] \in [Items(f) -> Nat]
    BY DEF Items
  <2> HIDE DEF Init
  <2> QED BY <1>0, <1>2, <2>1, <2>2, <2>3, <2>4 DEF Types
<1>4. SweepSound /\ LaidOut /\ SymbolsSound
  <2>1. PlacedTo(next - 1)
    BY DEF PlacedTo
  <2> QED BY <1>0, <2>1 DEF SweepSound, LaidOut, SymbolsSound, Behind
<1> QED BY <1>2, <1>3, <1>4 DEF IInv

-----------------------------------------------------------------------------
(***************************************************************************)
(* What the steps that keep the layout keep with it.                       *)
(***************************************************************************)
SymPushes ==
  {x \in Funcs \X Nat : x[2] \in Items(x[1]) /\ Item(x[1], x[2]).k = "sym"}

\* The fixups are the symbol pushes.
LEMMA FixupsLemma ==
  ASSUME sect \in Programs
  PROVE  /\ Len(Fixups) \in Nat
         /\ \A j \in 1..Len(Fixups) : Fixups[j] \in SymPushes
         /\ \A x \in SymPushes : \E j \in 1..Len(Fixups) : Fixups[j] = x
<1> DEFINE one(f, i) == IF Item(f, i).k = "sym" THEN << <<f, i>> >> ELSE <<>>
           row(f) == [i \in Items(f) |-> one(f, i)]
           rows == [f \in Funcs |-> FlattenSeq(row(f))]
<1>0. /\ NFuncs \in Nat /\ Funcs = 1..NFuncs
      /\ \A f \in Funcs : Size(f) \in Nat /\ Items(f) = 1..Size(f)
  BY SectionLemma
<1>1. \A f \in Funcs : \A i \in Items(f) :
        /\ one(f, i) \in Seq(SymPushes)
        /\ ToSet(one(f, i)) = IF Item(f, i).k = "sym" THEN {<<f, i>>} ELSE {}
  <2> TAKE f \in Funcs
  <2> TAKE i \in Items(f)
  <2>1. CASE Item(f, i).k = "sym"
    <3>1. i \in Nat
      BY <1>0
    <3>2. <<f, i>> \in SymPushes
      BY <2>1, <3>1 DEF SymPushes
    <3>3. PICK x : x = <<f, i>>
      OBVIOUS
    <3>4. <<x>> \in Seq(SymPushes) /\ ToSet(<<x>>) = {x}
      BY <3>2, <3>3 DEF ToSet
    <3> QED BY <2>1, <3>3, <3>4
  <2>2. CASE Item(f, i).k # "sym"
    BY <2>2 DEF ToSet
  <2> QED BY <2>1, <2>2
<1>2. \A f \in Funcs :
        /\ FlattenSeq(row(f)) \in Seq(SymPushes)
        /\ ToSet(FlattenSeq(row(f))) = UNION {ToSet(one(f, i)) : i \in Items(f)}
  <2> TAKE f \in Funcs
  <2> HIDE DEF one
  <2>1. row(f) \in [1..Size(f) -> Seq(SymPushes)]
    BY <1>0, <1>1
  <2>2. row(f) \in Seq(Seq(SymPushes)) /\ Len(row(f)) = Size(f)
    BY <1>0, <2>1
  <2>3. \A k \in 1..Size(f) : row(f)[k] = one(f, k)
    BY <1>0
  <2> HIDE DEF row
  <2>4. UNION {ToSet(row(f)[k]) : k \in 1..Size(f)} = UNION {ToSet(one(f, i)) : i \in Items(f)}
    BY <1>0, <2>3
  <2> QED BY <2>2, <2>4, FlattenLemma
<1>3. Fixups = FlattenSeq(rows)
  BY DEF Fixups, Items
<1> HIDE DEF one, row
<1>4. /\ Fixups \in Seq(SymPushes)
      /\ ToSet(Fixups) = UNION {ToSet(FlattenSeq(row(f))) : f \in Funcs}
  <2>1. rows \in [1..NFuncs -> Seq(SymPushes)]
    BY <1>0, <1>2
  <2>2. rows \in Seq(Seq(SymPushes)) /\ Len(rows) = NFuncs
    BY <1>0, <2>1
  <2>3. \A k \in 1..NFuncs : rows[k] = FlattenSeq(row(k))
    BY <1>0
  <2> HIDE DEF rows
  <2>4. UNION {ToSet(rows[k]) : k \in 1..NFuncs} = UNION {ToSet(FlattenSeq(row(f))) : f \in Funcs}
    BY <1>0, <2>3
  <2> QED BY <1>3, <2>2, <2>4, FlattenLemma
<1>5. ToSet(Fixups) = {Fixups[j] : j \in 1..Len(Fixups)} /\ Len(Fixups) \in Nat
  BY <1>4, LenProperties DEF ToSet
<1>6. ASSUME NEW x \in SymPushes PROVE x \in ToSet(Fixups)
  <2>1. PICK f \in Funcs, i \in Nat : x = <<f, i>> /\ i \in Items(f) /\ Item(f, i).k = "sym"
    BY DEF SymPushes
  <2>2. x \in ToSet(one(f, i))
    BY <1>1, <2>1
  <2>3. x \in ToSet(FlattenSeq(row(f)))
    BY <1>2, <2>1, <2>2
  <2> QED BY <1>4, <2>1, <2>3
<1> QED BY <1>4, <1>5, <1>6, LenProperties

\* The parts of the invariant about the layout depend on the lengths of the immediates
\* only, not on their values.
LEMMA SameLayout ==
  ASSUME Types, sect' = sect, layouts' = layouts, func_off' = func_off,
         \A f \in Funcs : \A i \in Items(f) : imm'[f][i].len = imm[f][i].len
  PROVE  /\ \A f \in Funcs : /\ MoveSeen(f)' = MoveSeen(f)
                             /\ Behind(f)' = Behind(f)
                             /\ OpcodesAfter(f, layouts[f])' = OpcodesAfter(f, layouts[f])
                             /\ Fits(f) => Fits(f)'
         /\ Symtab' = Symtab
<1>1. Funcs' = Funcs /\ NFuncs' = NFuncs
  BY DEF Funcs, NFuncs
<1>2. Symtab' = Symtab
  BY DEF Symtab, CodeEnd, Funcs
<1>3. ASSUME NEW f \in Funcs
      PROVE  /\ MoveSeen(f)' = MoveSeen(f) /\ Behind(f)' = Behind(f)
             /\ OpcodesAfter(f, layouts[f])' = OpcodesAfter(f, layouts[f])
  BY DEF MoveSeen, Behind, OpcodesAfter, Items, Item
<1>4. ASSUME NEW f \in Funcs, Fits(f) PROVE Fits(f)'
  <2>1. Size(f)' = Size(f) /\ Items(f)' = Items(f) /\ \A i : Item(f, i)' = Item(f, i)
    BY DEF Size, Items, Item
  <2>2. \A i : AtEnd(f, i)' = AtEnd(f, i) /\ Target(f, i)' = Target(f, i)
    BY <2>1 DEF AtEnd, Target
  <2>3. \A i \in Items(f) : EmittedLen(f, i)' = EmittedLen(f, i)
    BY <2>1 DEF EmittedLen
  <2> QED BY <1>4, <2>1, <2>2, <2>3 DEF Fits
<1> QED BY <1>2, <1>3, <1>4

\* The part of the invariant about the fixups.
LEMMA SameFixups ==
  ASSUME sect' = sect, policy' = policy, symtab' = symtab, imm' = imm, opcode' = opcode
  PROVE  /\ Fixups' = Fixups
         /\ \A n : AppliedTo(n) => AppliedTo(n)'
<1>1. Fixups' = Fixups
  BY DEF Fixups, Funcs, Item
<1>2. \A f, p : Applied(f, p)' = Applied(f, p)
  BY DEF Applied, NewImm, FixupValue, Item
<1> QED BY <1>1, <1>2 DEF AppliedTo

\* The types of what every step keeps.
LEMMA SameTypes ==
  ASSUME sect' = sect
  PROVE  /\ Funcs' = Funcs /\ NFuncs' = NFuncs
         /\ \A f : /\ Items(f)' = Items(f) /\ Size(f)' = Size(f) /\ LayoutsOf(f)' = LayoutsOf(f)
                   /\ \A i : Item(f, i)' = Item(f, i)
  BY DEF Funcs, NFuncs, Items, Size, LayoutsOf, Item

-----------------------------------------------------------------------------
(***************************************************************************)
(* A layout that no sweep would change is the one that is emitted.         *)
(***************************************************************************)

\* Every item of a function is emitted where the layout says.
LEMMA PlacedItems ==
  ASSUME Types, NEW f \in Funcs, Fits(f)
  PROVE  /\ FuncLen(f) = layouts[f].size
         /\ \A i \in 0..Size(f) : AtEnd(f, i) = func_off[f] + Sums(Lens(f))[i]
         /\ \A i \in Items(f) : layouts[f].at[i] = func_off[f] + Sums(Lens(f))[i - 1]
<1> DEFINE e == [i \in 0..Size(f) |-> AtEnd(f, i)]
<1>0. Size(f) \in Nat /\ Items(f) = 1..Size(f) /\ func_off[f] \in Nat
  BY SectionLemma DEF Types
<1>1. Lens(f) \in Seq(Nat) /\ Len(Lens(f)) = Size(f)
  <2>1. Lens(f) = [i \in Items(f) |-> EmittedLen(f, i)]
    BY DEF Lens, Items
  <2>2. Lens(f) \in [1..Size(f) -> Nat]
    BY <1>0, <2>1, LayoutLemma
  <2> QED BY <1>0, <2>2
<1>2. \A k \in 0..Size(f) : e[k] = AtEnd(f, k)
  OBVIOUS
<1>3. e[0] = func_off[f] /\ \A k \in 1..Size(f) : e[k] = e[k - 1] + Lens(f)[k]
  <2>1. 0 \in 0..Size(f) /\ \A k \in 1..Size(f) : k \in 0..Size(f) /\ k - 1 \in 0..Size(f)
    BY <1>0
  <2>2. \A k \in 1..Size(f) : Lens(f)[k] = EmittedLen(f, k)
    BY <1>0 DEF Lens, Items
  <2> HIDE DEF e
  <2> QED BY <1>0, <1>2, <2>1, <2>2 DEF Fits
<1> HIDE DEF e
<1>4. \A k \in 0..Size(f) : AtEnd(f, k) = func_off[f] + Sums(Lens(f))[k]
  BY <1>0, <1>1, <1>2, <1>3, RunningTotal, SMTT(40)
<1>5. \A i \in Items(f) : layouts[f].at[i] = func_off[f] + Sums(Lens(f))[i - 1]
  <2> TAKE i \in Items(f)
  <2>1. i - 1 \in 0..Size(f) /\ i - 1 < Size(f) /\ (i - 1) + 1 = i
    BY <1>0
  <2> QED BY <1>4, <2>1 DEF AtEnd
<1>6. FuncLen(f) = layouts[f].size
  <2>1. Size(f) \in 0..Size(f) /\ ~(Size(f) < Size(f))
    BY <1>0
  <2>2. layouts[f].offset + layouts[f].size = func_off[f] + Sums(Lens(f))[Size(f)]
    BY <1>4, <2>1 DEF AtEnd
  <2>3. layouts[f].offset = func_off[f] /\ layouts[f].size \in Nat
    BY LayoutLemma DEF Fits
  <2>4. Sums(Lens(f))[Size(f)] \in Nat
    BY <1>1, <2>1, SumsLemma
  <2>5. FuncLen(f) = Sums(Lens(f))[Size(f)]
    BY <1>1 DEF FuncLen, Total
  <2> QED BY <1>0, <2>2, <2>3, <2>4, <2>5
<1> QED BY <1>4, <1>5, <1>6

\* The functions lie one behind the other, and the code ends behind the last one.
LEMMA PlacedFuncs ==
  ASSUME Types, PlacedTo(NFuncs)
  PROVE  /\ \A f \in Funcs : Fits(f) /\ func_off[f] = FuncStart(f)
         /\ CodeEnd = FuncStart(NFuncs + 1) /\ CodeEnd \in Nat
<1> DEFINE sizes == [g \in Funcs |-> FuncLen(g)]
           e == [k \in 0..NFuncs |-> Behind(k + 1)]
<1>0. NFuncs \in Nat /\ Funcs = 1..NFuncs
  BY SectionLemma DEF Types
<1>1. ASSUME NEW f \in Funcs
      PROVE  /\ Fits(f) /\ func_off[f] = Behind(f)
             /\ FuncLen(f) = layouts[f].size /\ layouts[f].size \in Nat /\ func_off[f] \in Nat
  <2>1. Fits(f) /\ func_off[f] = Behind(f)
    BY <1>0 DEF PlacedTo, Placed
  <2> QED BY <2>1, PlacedItems, LayoutLemma DEF Types
<1>2. sizes \in Seq(Nat) /\ Len(sizes) = NFuncs
  <2>1. sizes \in [1..NFuncs -> Nat]
    BY <1>0, <1>1
  <2> QED BY <1>0, <2>1
<1>3. \A k \in 1..NFuncs : sizes[k] = layouts[k].size
  BY <1>0, <1>1
<1>4. \A f : FuncStart(f) = Sums(sizes)[f - 1]
  BY DEF FuncStart
<1> HIDE DEF sizes
<1>5. \A k \in 1..NFuncs : Behind(k + 1) = func_off[k] + layouts[k].size
  <2> TAKE k \in 1..NFuncs
  <2>1. k + 1 # 1 /\ (k + 1) - 1 = k
    BY <1>0
  <2> QED BY <2>1 DEF Behind
<1>6. Behind(1) = 0
  BY DEF Behind
<1>7. \A k \in 0..NFuncs : e[k] = Behind(k + 1)
  OBVIOUS
<1> HIDE DEF e
<1>8. e[0] = 0 /\ \A k \in 1..NFuncs : e[k] = e[k - 1] + sizes[k]
  <2>1. 0 \in 0..NFuncs
    BY <1>0
  <2>2. e[0] = 0
    BY <1>6, <1>7, <2>1
  <2>3. ASSUME NEW k \in 1..NFuncs PROVE e[k] = e[k - 1] + sizes[k]
    <3>1. k \in 0..NFuncs /\ k - 1 \in 0..NFuncs /\ (k - 1) + 1 = k
      BY <1>0
    <3>2. e[k] = func_off[k] + layouts[k].size /\ e[k - 1] = Behind(k)
      BY <1>5, <1>7, <3>1
    <3> QED BY <1>0, <1>1, <1>3, <3>2
  <2> QED BY <2>2, <2>3
<1>9. /\ \A k \in 0..NFuncs : Sums(sizes)[k] \in Nat
      /\ \A k \in 0..NFuncs : e[k] = e[0] + Sums(sizes)[k]
  <2>1. \A k \in 1..Len(sizes) : e[k] = e[k - 1] + sizes[k]
    BY <1>2, <1>8
  <2>2. e[0] \in Nat
    BY <1>8
  <2>3. \A k \in 0..Len(sizes) : e[k] = e[0] + Sums(sizes)[k]
    BY <1>2, <2>1, <2>2, RunningTotal
  <2> QED BY <1>2, <2>3, SumsLemma
<1>10. \A k \in 0..NFuncs : Behind(k + 1) = Sums(sizes)[k]
  BY <1>7, <1>8, <1>9
<1>11. \A f \in 1..(NFuncs + 1) : FuncStart(f) = Behind(f) /\ FuncStart(f) \in Nat
  <2> TAKE f \in 1..(NFuncs + 1)
  <2>1. f - 1 \in 0..NFuncs /\ (f - 1) + 1 = f
    BY <1>0
  <2> QED BY <1>4, <1>9, <1>10, <2>1
<1> DEFINE G == {n \in Nat : \A k \in 0..n : FuncStart(k + 1) <= FuncStart(n + 1)}
           last == FuncStart(NFuncs + 1)
<1>12. 0 \in G
  <2>1. \A k \in 0..0 : k = 0
    OBVIOUS
  <2>2. FuncStart(0 + 1) \in Nat
    BY <1>0, <1>11
  <2> QED BY <2>1, <2>2
<1>13. ASSUME NEW n \in 0..(NFuncs - 1), n \in G PROVE n + 1 \in G
  <2>1. n + 1 \in 1..NFuncs /\ (n + 1) - 1 = n /\ n + 1 \in 1..(NFuncs + 1)
        /\ (n + 1) + 1 \in 1..(NFuncs + 1) /\ n + 1 \in Nat
    BY <1>0
  <2>2. PICK a \in Nat, b \in Nat : a = FuncStart(n + 1) /\ b = FuncStart((n + 1) + 1)
    BY <1>11, <2>1
  <2>3. a <= b
    <3>1. FuncStart((n + 1) + 1) = func_off[n + 1] + layouts[n + 1].size
      BY <1>5, <1>11, <2>1
    <3>2. func_off[n + 1] = FuncStart(n + 1)
      BY <1>0, <1>1, <1>11, <2>1
    <3> QED BY <1>0, <1>1, <2>1, <2>2, <3>1, <3>2
  <2>4. ASSUME NEW k \in 0..(n + 1) PROVE FuncStart(k + 1) <= b
    <3>1. CASE k = n + 1
      BY <2>2, <3>1
    <3>2. CASE k # n + 1
      <4>1. k \in 0..n /\ k + 1 \in 1..(NFuncs + 1)
        BY <1>0, <2>1, <3>2
      <4>2. FuncStart(k + 1) <= a /\ FuncStart(k + 1) \in Nat
        BY <1>11, <1>13, <2>2, <4>1
      <4> QED BY <2>3, <4>2
    <3> QED BY <3>1, <3>2
  <2> QED BY <2>1, <2>2, <2>4
<1> HIDE DEF G
<1>14. \A k \in 0..NFuncs : FuncStart(k + 1) <= last
  <2>1. \A n \in 0..NFuncs : n \in G
    BY <1>0, <1>12, <1>13, CountUp
  <2>2. NFuncs \in 0..NFuncs
    BY <1>0
  <2> QED BY <2>1, <2>2 DEF G
<1>15. last \in Nat
  BY <1>0, <1>11
<1> DEFINE S == {0} \cup {func_off[f] + layouts[f].size : f \in Funcs}
<1>16. \A k \in 1..NFuncs : FuncStart(k + 1) = func_off[k] + layouts[k].size
  <2> TAKE k \in 1..NFuncs
  <2>1. k + 1 \in 1..(NFuncs + 1)
    BY <1>0
  <2> QED BY <1>5, <1>11, <2>1
<1> HIDE DEF last
<1>17. last \in S
  <2>1. CASE NFuncs = 0
    <3>1. last = 0
      BY <1>6, <1>11, <2>1 DEF last
    <3> QED BY <3>1
  <2>2. CASE NFuncs # 0
    <3>1. NFuncs \in 1..NFuncs
      BY <1>0, <2>2
    <3>2. last = func_off[NFuncs] + layouts[NFuncs].size
      BY <1>16, <3>1 DEF last
    <3> QED BY <1>0, <3>1, <3>2
  <2> QED BY <2>1, <2>2
<1>18. \A y \in S : y \in Nat /\ last >= y
  <2>1. ASSUME NEW f \in Funcs PROVE LET y == func_off[f] + layouts[f].size
                                     IN y \in Nat /\ last >= y
    <3>1. f \in 0..NFuncs /\ f + 1 \in 1..(NFuncs + 1)
      BY <1>0
    <3>2. PICK y : y = func_off[f] + layouts[f].size
      OBVIOUS
    <3>3. y = FuncStart(f + 1)
      BY <1>0, <1>16, <3>2
    <3>4. y \in Nat /\ y <= last
      BY <1>11, <1>14, <3>1, <3>3
    <3> QED BY <1>15, <3>2, <3>4
  <2> QED BY <1>15, <2>1
<1>19. CodeEnd = CHOOSE x \in S : \A y \in S : x >= y
  BY DEF CodeEnd, Max
<1> HIDE DEF S
<1>20. CodeEnd \in S /\ CodeEnd >= last
  BY <1>17, <1>18, <1>19
<1>21. CodeEnd = last /\ CodeEnd \in Nat
  BY <1>15, <1>18, <1>20
<1>22. \A f \in Funcs : Fits(f) /\ func_off[f] = FuncStart(f)
  <2> TAKE f \in Funcs
  <2>1. f \in 1..(NFuncs + 1)
    BY <1>0
  <2> QED BY <1>1, <1>11, <2>1
<1> QED BY <1>21, <1>22 DEF last

\* The symbol table of such a layout.
LEMMA SymtabLemma ==
  ASSUME Types, PlacedTo(NFuncs)
  PROVE  \A s \in DOMAIN Symtab : Symtab[s] \in [offset : Nat, size : Nat]
<1>0. NFuncs \in Nat /\ Funcs = 1..NFuncs /\ sect.data \in Seq(Nat)
  BY SectionLemma DEF Types
<1>1. CodeEnd \in Nat
  BY PlacedFuncs
<1>2. ASSUME NEW s \in DOMAIN Symtab PROVE Symtab[s] \in [offset : Nat, size : Nat]
  <2>1. \/ \E f \in Funcs : s = <<"func", f>>
        \/ \E d \in DOMAIN sect.data : s = <<"data", d>>
    BY DEF Symtab
  <2>2. ASSUME NEW f \in Funcs, s = <<"func", f>>
        PROVE  Symtab[s] \in [offset : Nat, size : Nat]
    <3>1. Symtab[s] = [offset |-> func_off[f], size |-> layouts[f].size]
      BY <2>2 DEF Symtab
    <3>2. func_off[f] \in Nat /\ layouts[f].size \in Nat
      BY LayoutLemma DEF Types
    <3> QED BY <3>1, <3>2
  <2>3. ASSUME NEW d \in DOMAIN sect.data, s = <<"data", d>>
        PROVE  Symtab[s] \in [offset : Nat, size : Nat]
    <3>1. Symtab[s] = [offset |-> CodeEnd + Sums(sect.data)[d - 1], size |-> sect.data[d]]
      BY <2>3 DEF Symtab
    <3>2. Len(sect.data) \in Nat /\ d \in 1..Len(sect.data) /\ sect.data[d] \in Nat
      BY <1>0, LenProperties
    <3>3. d - 1 \in 0..Len(sect.data)
      BY <3>2
    <3>4. Sums(sect.data)[d - 1] \in Nat
      BY <1>0, <3>3, SumsLemma
    <3> QED BY <1>1, <3>1, <3>2, <3>4
  <2> QED BY <2>1, <2>2, <2>3
<1> QED BY <1>2

-----------------------------------------------------------------------------
(***************************************************************************)
(* Each step keeps the invariant.                                          *)
(***************************************************************************)

\* A sweep over one function.  In the last layout it changes nothing.
LEMMA ResizeSound == ASSUME IInv, ResizeFunc PROVE IInv'
<1> PICK n : n = next
  OBVIOUS
<1> PICK start : start = offset
  OBVIOUS
<1> PICK lay : lay = Sweep(n, start)
  OBVIOUS
<1>1. Types /\ (\A f \in Funcs : MoveSeen(f)) /\ SweepSound /\ LaidOut /\ SymbolsSound
  BY DEF IInv
<1>2. /\ Resizing /\ n <= NFuncs
      /\ sect' = sect /\ policy' = policy /\ imm' = imm /\ phase' = phase /\ symtab' = symtab
      /\ layouts' = [layouts EXCEPT ![n] = lay]
      /\ func_off' = [func_off EXCEPT ![n] = start]
      /\ opcode' = [opcode EXCEPT ![n] = OpcodesAfter(n, lay)]
      /\ changed' = (changed \/ lay # layouts[n])
      /\ offset' = start + lay.size /\ next' = n + 1
  BY DEF ResizeFunc, NFuncs
<1>3. NFuncs \in Nat /\ Funcs = 1..NFuncs /\ n \in Funcs /\ start \in Nat /\ n \in Nat
  <2>1. NFuncs \in Nat /\ Funcs = 1..NFuncs
    BY <1>1, SectionLemma DEF Types
  <2>2. n \in Nat /\ n # 0 /\ start \in Nat
    BY <1>1 DEF Types
  <2> QED BY <1>2, <2>1, <2>2
<1>4. /\ lay \in LayoutsOf(n) /\ lay.offset = start /\ lay.size \in Nat
      /\ 1 \in Items(n) => lay.at[1] = start
      /\ OpcodesAfter(n, lay) \in [Items(n) -> Nat]
  BY <1>1, <1>3, SweepTyped DEF LayoutsOf
<1>5. /\ OnFuncs(layouts) /\ DOMAIN layouts = Funcs /\ \A f \in Funcs : layouts[f] \in LayoutsOf(f)
      /\ OnFuncs(opcode) /\ DOMAIN opcode = Funcs /\ \A f \in Funcs : opcode[f] \in [Items(f) -> Nat]
      /\ func_off \in [Funcs -> Nat]
      /\ next \in Nat \ {0} /\ changed \in BOOLEAN
  BY <1>1 DEF Types, OnFuncs
<1>6. Types'
  <2>1. layouts' = [f \in Funcs |-> layouts'[f]] /\ \A f \in Funcs : layouts'[f] \in LayoutsOf(f)
    BY <1>2, <1>3, <1>4, <1>5
  <2>2. opcode' = [f \in Funcs |-> opcode'[f]] /\ \A f \in Funcs : opcode'[f] \in [Items(f) -> Nat]
    BY <1>2, <1>3, <1>4, <1>5
  <2>3. func_off' \in [Funcs -> Nat]
    BY <1>2, <1>3, <1>5
  <2>4. next' \in Nat \ {0} /\ offset' \in Nat
    BY <1>2, <1>3, <1>4
  <2>5. changed' \in BOOLEAN
    BY <1>2, <1>5
  <2>6. sect' \in Programs /\ phase' \in Phases' /\ imm' = [f \in Funcs |-> imm'[f]]
        /\ \A f \in Funcs : imm'[f] \in [Items(f) -> [len : Nat, val : Nat]]
    BY <1>1, <1>2 DEF Types, Phases, OnFuncs
  <2> QED BY <1>2, <2>1, <2>2, <2>3, <2>4, <2>5, <2>6, SameTypes DEF Types, OnFuncs
<1>7. \A f \in Funcs : MoveSeen(f)'
  <2> TAKE f \in Funcs
  <2>1. CASE f = n
    BY <1>2, <1>3, <1>4, <1>5, <2>1 DEF MoveSeen
  <2>2. CASE f # n
    BY <1>1, <1>2, <1>3, <1>5, <2>2, SameTypes DEF MoveSeen
  <2> QED BY <2>1, <2>2
<1>8. ASSUME lay = layouts[n], start = Behind(n), PlacedTo(n - 1)
      PROVE  /\ layouts' = layouts /\ func_off' = func_off /\ func_off[n] = start
             /\ PlacedTo(n)'
             /\ offset' = Behind(n + 1)'
  <2>1. layouts' = layouts
    BY <1>2, <1>5, <1>8 DEF OnFuncs
  <2>2. func_off[n] = start
    <3>1. MoveSeen(n) /\ func_off[n] \in Nat
      BY <1>1, <1>3, <1>5
    <3> QED BY <1>3, <1>4, <1>8, <3>1 DEF MoveSeen
  <2>3. func_off' = func_off
    BY <1>2, <1>5, <2>2
  <2>4. Fits(n)
    BY <1>1, <1>3, <1>8, <2>2, SweepFits
  <2>5. ASSUME NEW f \in Funcs, Fits(f) PROVE Fits(f)'
    BY <1>1, <1>2, <2>1, <2>3, <2>5, SameLayout
  <2>6. \A f \in Funcs : /\ Behind(f)' = Behind(f)
                         /\ OpcodesAfter(f, layouts[f])' = OpcodesAfter(f, layouts[f])
    BY <1>1, <1>2, <2>1, <2>3, SameLayout
  <2>7. ASSUME NEW f \in 1..n PROVE Placed(f)'
    <3>1. f \in Funcs
      BY <1>3
    <3>2. Fits(f) /\ func_off[f] = Behind(f)
      <4>1. CASE f = n
        BY <1>8, <2>2, <2>4, <4>1
      <4>2. CASE f # n
        <5>1. f \in 1..(n - 1)
          BY <1>3, <4>2
        <5> QED BY <1>8, <5>1 DEF PlacedTo, Placed
      <4> QED BY <4>1, <4>2
    <3>3. opcode'[f] = OpcodesAfter(f, layouts[f])
      <4>1. CASE f = n
        BY <1>2, <1>3, <1>5, <1>8, <4>1
      <4>2. CASE f # n
        <5>1. f \in 1..(n - 1)
          BY <1>3, <4>2
        <5>2. opcode[f] = OpcodesAfter(f, layouts[f])
          BY <1>8, <5>1 DEF PlacedTo, Placed
        <5>3. opcode'[f] = opcode[f]
          BY <1>2, <1>5, <3>1, <4>2
        <5> QED BY <5>2, <5>3
      <4> QED BY <4>1, <4>2
    <3> QED BY <2>3, <2>5, <2>6, <3>1, <3>2, <3>3 DEF Placed
  <2>8. Behind(n + 1)' = func_off'[n] + layouts'[n].size
    <3>1. n + 1 # 1 /\ (n + 1) - 1 = n
      BY <1>3
    <3> QED BY <3>1 DEF Behind
  <2>9. offset' = Behind(n + 1)'
    BY <1>2, <1>8, <2>1, <2>2, <2>3, <2>8
  <2> QED BY <2>1, <2>2, <2>3, <2>7, <2>9 DEF PlacedTo
<1>9. SweepSound'
  <2>1. next' <= NFuncs' + 1
    BY <1>2, <1>3, SameTypes
  <2>2. ASSUME ~changed' PROVE PlacedTo(n)' /\ offset' = Behind(n + 1)'
    <3>1. lay = layouts[n] /\ ~changed
      BY <1>2, <1>5, <2>2
    <3>2. PlacedTo(n - 1) /\ start = Behind(n)
      BY <1>1, <1>2, <3>1 DEF SweepSound
    <3> QED BY <1>8, <3>1, <3>2
  <2>3. next' = n + 1 /\ (n + 1) - 1 = n
    BY <1>2, <1>3
  <2> QED BY <2>1, <2>2, <2>3 DEF SweepSound, PlacedTo, Behind
<1>10. ASSUME phase = "final"
       PROVE  /\ layouts' = layouts /\ func_off' = func_off /\ opcode' = opcode
              /\ ~changed' /\ PlacedTo(NFuncs)'
  <2>1. ~changed /\ PlacedTo(NFuncs)
    BY <1>1, <1>10 DEF LaidOut, SymbolsSound
  <2>2. start = Behind(n) /\ PlacedTo(n - 1)
    BY <1>1, <1>2, <2>1 DEF SweepSound
  <2>3. Placed(n)
    BY <1>3, <2>1 DEF PlacedTo
  <2>4. lay = layouts[n]
    BY <1>1, <1>3, <2>2, <2>3, FitsSweep DEF Placed
  <2>5. layouts' = layouts /\ func_off' = func_off
    BY <1>8, <2>2, <2>4
  <2>6. opcode' = opcode
    BY <1>2, <1>5, <2>3, <2>4 DEF Placed, OnFuncs
  <2>7. ~changed'
    BY <1>2, <1>5, <2>1, <2>4
  <2>8. ASSUME NEW f \in 1..NFuncs PROVE Placed(f)'
    <3>1. f \in Funcs /\ Placed(f)
      BY <1>3, <2>1 DEF PlacedTo
    <3>2. /\ Fits(f)' /\ Behind(f)' = Behind(f)
          /\ OpcodesAfter(f, layouts[f])' = OpcodesAfter(f, layouts[f])
      BY <1>1, <1>2, <2>5, <3>1, SameLayout DEF Placed
    <3> QED BY <2>5, <2>6, <3>1, <3>2 DEF Placed
  <2>9. NFuncs' = NFuncs
    BY <1>2, SameTypes
  <2> QED BY <2>5, <2>6, <2>7, <2>8, <2>9 DEF PlacedTo
<1>11. phase \in {"resize", "final"}
  BY <1>2 DEF Resizing
<1>12. LaidOut'
  BY <1>2, <1>10, <1>11 DEF LaidOut
<1>13. SymbolsSound'
  <2>1. CASE phase = "resize"
    BY <1>2, <2>1 DEF SymbolsSound
  <2>2. CASE phase = "final"
    <3>1. /\ symtab = Symtab /\ \A s \in DOMAIN symtab : symtab[s] \in [offset : Nat, size : Nat]
          /\ AppliedTo(Len(Fixups))
      BY <1>1, <2>2 DEF SymbolsSound
    <3>2. Symtab' = Symtab
      BY <1>1, <1>2, <1>10, <2>2, SameLayout
    <3>3. AppliedTo(Len(Fixups))'
      BY <1>2, <1>10, <2>2, <3>1, SameFixups DEF AppliedTo
    <3> QED BY <1>2, <1>10, <2>2, <3>1, <3>2, <3>3 DEF SymbolsSound
  <2> QED BY <1>11, <2>1, <2>2
<1> QED BY <1>2, <1>6, <1>7, <1>9, <1>12, <1>13, SameTypes DEF IInv

\* A step that keeps the layout and the immediates keeps the types and where the
\* functions lie.
LEMMA Kept ==
  ASSUME Types, \A f \in Funcs : MoveSeen(f), UNCHANGED <<sect, func_off, layouts, imm, opcode>>,
         phase' \in Phases, next' \in Nat \ {0}, offset' \in Nat, changed' \in BOOLEAN
  PROVE  /\ Types' /\ (\A f \in Funcs : MoveSeen(f))' /\ Symtab' = Symtab
         /\ NFuncs' = NFuncs /\ NFuncs \in Nat
         /\ \A n \in 0..NFuncs : PlacedTo(n) => PlacedTo(n)'
<1>1. /\ sect \in Programs /\ func_off \in [Funcs -> Nat]
      /\ OnFuncs(layouts) /\ \A f \in Funcs : layouts[f] \in LayoutsOf(f)
      /\ OnFuncs(imm) /\ \A f \in Funcs : imm[f] \in [Items(f) -> [len : Nat, val : Nat]]
      /\ OnFuncs(opcode) /\ \A f \in Funcs : opcode[f] \in [Items(f) -> Nat]
  BY DEF Types
<1>2. Funcs' = Funcs /\ \A f : Items(f)' = Items(f) /\ LayoutsOf(f)' = LayoutsOf(f)
  BY SameTypes
<1>3. Types'
  <2>1. OnFuncs(layouts)' /\ OnFuncs(imm)' /\ OnFuncs(opcode)'
    BY <1>1, <1>2 DEF OnFuncs
  <2>2. phase' \in Phases'
    BY DEF Phases
  <2> QED BY <1>1, <1>2, <2>1, <2>2 DEF Types
<1>4. (\A f \in Funcs : MoveSeen(f))' /\ Symtab' = Symtab
  BY <1>2, SameLayout
<1>5. NFuncs' = NFuncs /\ NFuncs \in Nat /\ Funcs = 1..NFuncs
  BY <1>1, SameTypes, SectionLemma
<1>6. ASSUME NEW n \in 0..NFuncs, PlacedTo(n) PROVE PlacedTo(n)'
  <2>1. ASSUME NEW f \in 1..n PROVE Placed(f)'
    <3>1. f \in Funcs
      BY <1>5
    <3>2. Placed(f)
      BY <1>6 DEF PlacedTo
    <3>3. /\ Fits(f)' /\ Behind(f)' = Behind(f)
          /\ OpcodesAfter(f, layouts[f])' = OpcodesAfter(f, layouts[f])
      BY <3>1, <3>2, SameLayout DEF Placed
    <3> QED BY <3>2, <3>3 DEF Placed
  <2> QED BY <2>1 DEF PlacedTo
<1> QED BY <1>3, <1>4, <1>5, <1>6

\* Another sweep: something has changed, so this is not the last layout.
LEMMA SweepAgainSound == ASSUME IInv, SweepAgain PROVE IInv'
<1>1. Types /\ (\A f \in Funcs : MoveSeen(f)) /\ SweepSound /\ LaidOut /\ SymbolsSound
  BY DEF IInv
<1>2. /\ changed /\ phase = "resize"
      /\ phase' = "resize" /\ next' = 1 /\ offset' = 0 /\ changed' = FALSE
      /\ UNCHANGED <<sect, policy, func_off, layouts, imm, opcode, symtab>>
  BY <1>1 DEF SweepAgain, Resizing, SymbolsSound
<1>3. Types' /\ (\A f \in Funcs : MoveSeen(f))' /\ NFuncs' = NFuncs /\ NFuncs \in Nat
  <2>1. phase' \in Phases
    BY <1>2 DEF Phases
  <2>2. next' \in Nat \ {0} /\ offset' \in Nat
    <3>1. next' = 1 /\ offset' = 0
      BY <1>2
    <3> QED BY <3>1
  <2>3. changed' \in BOOLEAN
    BY <1>2
  <2> QED BY <1>1, <1>2, <2>1, <2>2, <2>3, Kept
<1>4. SweepSound'
  <2>1. next' = 1 /\ offset' = 0
    BY <1>2
  <2>2. PlacedTo(next - 1)' /\ offset' = Behind(next)'
    BY <2>1 DEF PlacedTo, Behind
  <2>3. next' <= NFuncs' + 1
    BY <1>3, <2>1
  <2> QED BY <2>2, <2>3 DEF SweepSound
<1>5. LaidOut' /\ SymbolsSound'
  BY <1>2 DEF LaidOut, SymbolsSound
<1> QED BY <1>3, <1>4, <1>5 DEF IInv

\* The symbol table is built from a layout that no sweep would change.
LEMMA BuildSymtabSound == ASSUME IInv, BuildSymtab PROVE IInv'
<1>1. Types /\ (\A f \in Funcs : MoveSeen(f)) /\ SweepSound /\ LaidOut /\ SymbolsSound
  BY DEF IInv
<1>2. /\ phase = "resize" /\ next > NFuncs /\ ~changed
      /\ symtab' = Symtab /\ phase' = "fixups" /\ next' = 1
      /\ UNCHANGED <<sect, policy, func_off, layouts, imm, opcode, offset, changed>>
  BY DEF BuildSymtab, NFuncs
<1>3. /\ Types' /\ (\A f \in Funcs : MoveSeen(f))' /\ Symtab' = Symtab
      /\ NFuncs' = NFuncs /\ NFuncs \in Nat
      /\ \A n \in 0..NFuncs : PlacedTo(n) => PlacedTo(n)'
  <2>1. offset \in Nat /\ changed \in BOOLEAN
    BY <1>1 DEF Types
  <2> QED BY <1>1, <1>2, <2>1, Kept DEF Phases
<1>4. PlacedTo(NFuncs)
  <2>1. next <= NFuncs + 1 /\ PlacedTo(next - 1)
    BY <1>1, <1>2 DEF SweepSound, Resizing
  <2>2. next \in Nat
    BY <1>1 DEF Types
  <2>3. next - 1 = NFuncs
    BY <1>2, <1>3, <2>1, <2>2
  <2> QED BY <2>1, <2>3
<1>5. PlacedTo(NFuncs)'
  <2>1. NFuncs \in 0..NFuncs
    BY <1>3
  <2> QED BY <1>3, <1>4, <2>1 DEF PlacedTo
<1>6. SweepSound' /\ LaidOut'
  BY <1>2, <1>5 DEF SweepSound, LaidOut, Resizing
<1>7. SymbolsSound'
  <2>1. \A s \in DOMAIN Symtab : Symtab[s] \in [offset : Nat, size : Nat]
    BY <1>1, <1>4, SymtabLemma
  <2>2. Len(Fixups)' \in Nat
    BY <1>3, FixupsLemma DEF Types
  <2>3. next' <= Len(Fixups)' + 1
    BY <1>2, <2>2
  <2>4. AppliedTo(next - 1)'
    BY <1>2 DEF AppliedTo
  <2> QED BY <1>2, <1>3, <2>1, <2>3, <2>4 DEF SymbolsSound
<1> QED BY <1>3, <1>6, <1>7 DEF IInv

\* Laying out again after the fixups.
LEMMA LayOutAgainSound == ASSUME IInv, LayOutAgain PROVE IInv'
<1>1. Types /\ (\A f \in Funcs : MoveSeen(f))
  BY DEF IInv
<1>2. /\ phase' \in {"resize", "did not converge"} /\ next' = 1 /\ offset' = 0 /\ changed' = FALSE
      /\ UNCHANGED <<sect, policy, func_off, layouts, imm, opcode, symtab>>
  BY DEF LayOutAgain
<1>3. Types' /\ (\A f \in Funcs : MoveSeen(f))' /\ NFuncs' = NFuncs /\ NFuncs \in Nat
  <2>1. phase' \in Phases
    BY <1>2 DEF Phases
  <2>2. next' \in Nat \ {0} /\ offset' \in Nat
    <3>1. next' = 1 /\ offset' = 0
      BY <1>2
    <3> QED BY <3>1
  <2>3. changed' \in BOOLEAN
    BY <1>2
  <2> QED BY <1>1, <1>2, <2>1, <2>2, <2>3, Kept
<1>4. SweepSound'
  <2>1. next' = 1 /\ offset' = 0
    BY <1>2
  <2>2. PlacedTo(next - 1)' /\ offset' = Behind(next)'
    BY <2>1 DEF PlacedTo, Behind
  <2>3. next' <= NFuncs' + 1
    BY <1>3, <2>1
  <2> QED BY <2>2, <2>3 DEF SweepSound
<1>5. LaidOut' /\ SymbolsSound'
  BY <1>2 DEF LaidOut, SymbolsSound
<1> QED BY <1>3, <1>4, <1>5 DEF IInv

\* The layout once more, when no fixup has changed a width.
LEMMA LastLayoutSound == ASSUME IInv, LastLayout PROVE IInv'
<1>1. Types /\ (\A f \in Funcs : MoveSeen(f)) /\ SweepSound /\ LaidOut /\ SymbolsSound
  BY DEF IInv
<1>2. /\ phase = "fixups" /\ next > Len(Fixups) /\ ~changed
      /\ phase' = "final" /\ next' = 1 /\ offset' = 0
      /\ UNCHANGED <<sect, policy, func_off, layouts, imm, opcode, changed, symtab>>
  BY DEF LastLayout, FixupsDone
<1>3. /\ Types' /\ (\A f \in Funcs : MoveSeen(f))' /\ Symtab' = Symtab
      /\ NFuncs' = NFuncs /\ NFuncs \in Nat
      /\ \A n \in 0..NFuncs : PlacedTo(n) => PlacedTo(n)'
  <2>1. changed \in BOOLEAN
    BY <1>1 DEF Types
  <2> QED BY <1>1, <1>2, <2>1, Kept DEF Phases
<1>4. PlacedTo(NFuncs)'
  <2>1. NFuncs \in 0..NFuncs
    BY <1>3
  <2>2. PlacedTo(NFuncs)
    BY <1>1, <1>2 DEF LaidOut
  <2> QED BY <1>3, <2>1, <2>2 DEF PlacedTo
<1>5. SweepSound' /\ LaidOut'
  <2>1. PlacedTo(next - 1)' /\ offset' = Behind(next)'
    BY <1>2 DEF PlacedTo, Behind
  <2> QED BY <1>2, <1>3, <1>4, <2>1 DEF SweepSound, LaidOut
<1>6. SymbolsSound'
  <2>1. next <= Len(Fixups) + 1 /\ AppliedTo(next - 1) /\ next \in Nat /\ Len(Fixups) \in Nat
    BY <1>1, <1>2, FixupsLemma DEF SymbolsSound, Types
  <2>2. next - 1 = Len(Fixups)
    BY <1>2, <2>1
  <2>3. AppliedTo(Len(Fixups))'
    BY <1>2, <2>1, <2>2, SameFixups DEF AppliedTo
  <2> QED BY <1>1, <1>2, <1>3, <2>3 DEF SymbolsSound
<1> QED BY <1>3, <1>5, <1>6 DEF IInv

\* Emitting the section.
LEMMA EmitSound == ASSUME IInv, Emit PROVE IInv'
<1>1. Types /\ (\A f \in Funcs : MoveSeen(f)) /\ SweepSound /\ LaidOut /\ SymbolsSound
  BY DEF IInv
<1>2. /\ phase = "final" /\ ~changed /\ phase' = "emitted"
      /\ UNCHANGED <<sect, policy, func_off, layouts, imm, opcode, next, offset, changed, symtab>>
  BY DEF Emit
<1>3. /\ Types' /\ (\A f \in Funcs : MoveSeen(f))' /\ Symtab' = Symtab
      /\ NFuncs' = NFuncs /\ NFuncs \in Nat
      /\ \A n \in 0..NFuncs : PlacedTo(n) => PlacedTo(n)'
  <2>1. changed \in BOOLEAN /\ next \in Nat \ {0} /\ offset \in Nat
    BY <1>1 DEF Types
  <2> QED BY <1>1, <1>2, <2>1, Kept DEF Phases
<1>4. SweepSound' /\ LaidOut'
  <2>1. NFuncs \in 0..NFuncs
    BY <1>3
  <2>2. PlacedTo(NFuncs)
    BY <1>1, <1>2 DEF LaidOut
  <2>3. PlacedTo(NFuncs)'
    BY <1>3, <2>1, <2>2 DEF PlacedTo
  <2> QED BY <1>2, <2>3 DEF SweepSound, LaidOut, Resizing
<1>5. SymbolsSound'
  <2>1. AppliedTo(Len(Fixups))'
    BY <1>1, <1>2, SameFixups DEF SymbolsSound, AppliedTo
  <2> QED BY <1>1, <1>2, <1>3, <2>1 DEF SymbolsSound
<1> QED BY <1>3, <1>4, <1>5 DEF IInv

\* The value of a symbol is written into its push.  A push of the same width leaves the
\* layout alone.
LEMMA ApplyFixupSound == ASSUME IInv, ApplyFixup PROVE IInv'
<1>1. Types /\ (\A f \in Funcs : MoveSeen(f)) /\ SweepSound /\ LaidOut /\ SymbolsSound
  BY DEF IInv
<1> PICK f, p : f = Fixups[next][1] /\ p = Fixups[next][2]
  OBVIOUS
<1> PICK n : n = next
  OBVIOUS
<1>2. /\ phase = "fixups" /\ n <= Len(Fixups)
      /\ UNCHANGED <<sect, policy, func_off, layouts, offset, symtab>>
      /\ \/ /\ phase' = "unknown symbol" /\ UNCHANGED <<imm, opcode, changed, next>>
         \/ /\ Item(f, p).sym \in DOMAIN symtab
            /\ imm' = [imm EXCEPT ![f][p] = NewImm(FixupValue(Item(f, p)))]
            /\ opcode' = [opcode EXCEPT ![f][p] = imm'[f][p].len]
            /\ changed' = (changed \/ imm'[f][p].len # imm[f][p].len)
            /\ next' = n + 1
            /\ phase' = phase
  BY DEF ApplyFixup
<1>3. /\ sect \in Programs /\ NFuncs \in Nat /\ Funcs = 1..NFuncs
      /\ OnFuncs(imm) /\ \A g \in Funcs : imm[g] \in [Items(g) -> [len : Nat, val : Nat]]
      /\ OnFuncs(opcode) /\ \A g \in Funcs : opcode[g] \in [Items(g) -> Nat]
      /\ n \in Nat \ {0} /\ offset \in Nat /\ changed \in BOOLEAN
  BY <1>1, SectionLemma DEF Types
<1>4. CASE phase' = "unknown symbol" /\ UNCHANGED <<imm, opcode, changed, next>>
  <2>1. phase' \in Phases
    BY <1>4 DEF Phases
  <2>2. next' \in Nat \ {0} /\ offset' \in Nat
    BY <1>2, <1>3, <1>4
  <2>3. changed' \in BOOLEAN
    BY <1>3, <1>4
  <2>4. Types' /\ (\A g \in Funcs : MoveSeen(g))'
    BY <1>1, <1>2, <1>4, <2>1, <2>2, <2>3, Kept
  <2> QED BY <1>4, <2>4 DEF IInv, SweepSound, LaidOut, SymbolsSound, Resizing
<1>5. CASE /\ Item(f, p).sym \in DOMAIN symtab
           /\ imm' = [imm EXCEPT ![f][p] = NewImm(FixupValue(Item(f, p)))]
           /\ opcode' = [opcode EXCEPT ![f][p] = imm'[f][p].len]
           /\ changed' = (changed \/ imm'[f][p].len # imm[f][p].len)
           /\ next' = n + 1
           /\ phase' = phase
  <2> PICK new : new = NewImm(FixupValue(Item(f, p)))
    OBVIOUS
  <2>1. n \in 1..Len(Fixups) /\ Len(Fixups) \in Nat
    <3>1. Len(Fixups) \in Nat
      BY <1>3, FixupsLemma
    <3>2. n <= Len(Fixups) /\ n \in Nat /\ n # 0
      BY <1>2, <1>3
    <3> QED BY <3>1, <3>2
  <2>2. Fixups[n] \in SymPushes
    BY <1>3, <2>1, FixupsLemma
  <2>3. f \in Funcs /\ p \in Items(f) /\ Item(f, p).k = "sym"
    BY <2>2 DEF SymPushes
  <2>4. /\ symtab = Symtab /\ \A s \in DOMAIN symtab : symtab[s] \in [offset : Nat, size : Nat]
        /\ AppliedTo(n - 1)
    BY <1>1, <1>2 DEF SymbolsSound
  <2>5. new \in [len : Nat, val : Nat]
    <3>1. symtab[Item(f, p).sym] \in [offset : Nat, size : Nat]
      BY <1>5, <2>4
    <3>2. FixupValue(Item(f, p)) \in Nat
      BY <3>1 DEF FixupValue
    <3> QED BY <3>2, BytesLemma DEF NewImm
  <2>6. /\ DOMAIN imm = Funcs /\ imm'[f] = [imm[f] EXCEPT ![p] = new]
        /\ \A g \in Funcs : g # f => imm'[g] = imm[g]
        /\ imm' = [g \in Funcs |-> imm'[g]]
    BY <1>3, <1>5, <2>3 DEF OnFuncs
  <2>7. imm'[f][p] = new /\ imm[f] \in [Items(f) -> [len : Nat, val : Nat]]
    BY <1>3, <2>3, <2>6
  <2>8. /\ DOMAIN opcode = Funcs /\ opcode'[f] = [opcode[f] EXCEPT ![p] = new.len]
        /\ \A g \in Funcs : g # f => opcode'[g] = opcode[g]
        /\ opcode' = [g \in Funcs |-> opcode'[g]]
    BY <1>3, <1>5, <2>3, <2>7 DEF OnFuncs
  <2>9. \A g \in Funcs : /\ imm'[g] \in [Items(g) -> [len : Nat, val : Nat]]
                         /\ opcode'[g] \in [Items(g) -> Nat]
    <3> TAKE g \in Funcs
    <3>1. CASE g = f
      <4>1. new.len \in Nat
        BY <2>5
      <4>2. imm'[f] \in [Items(f) -> [len : Nat, val : Nat]]
        BY <2>3, <2>5, <2>6, <2>7
      <4>3. opcode'[f] \in [Items(f) -> Nat]
        BY <1>3, <2>3, <2>8, <4>1
      <4> QED BY <3>1, <4>2, <4>3
    <3>2. CASE g # f
      BY <1>3, <2>6, <2>8, <3>2
    <3> QED BY <3>1, <3>2
  <2>10. Types'
    <3>1. next' \in Nat \ {0} /\ offset' \in Nat
      BY <1>2, <1>3, <1>5
    <3>2. changed' \in BOOLEAN
      BY <1>3, <1>5
    <3>3. phase' \in Phases'
      BY <1>2, <1>5 DEF Phases
    <3>4. /\ func_off' \in [Funcs -> Nat]
          /\ layouts' = [g \in Funcs |-> layouts'[g]]
          /\ \A g \in Funcs : layouts'[g] \in LayoutsOf(g)
      BY <1>1, <1>2 DEF Types, OnFuncs
    <3>5. sect' \in Programs
      BY <1>2, <1>3
    <3>6. Funcs' = Funcs /\ \A g : Items(g)' = Items(g) /\ LayoutsOf(g)' = LayoutsOf(g)
      BY <1>2, SameTypes
    <3>7. OnFuncs(layouts)' /\ OnFuncs(imm)' /\ OnFuncs(opcode)'
      BY <2>6, <2>8, <3>4, <3>6 DEF OnFuncs
    <3> QED BY <2>9, <3>1, <3>2, <3>3, <3>4, <3>5, <3>6, <3>7 DEF Types
  <2>11. (\A g \in Funcs : MoveSeen(g))'
    BY <1>1, <1>2, SameTypes DEF MoveSeen
  <2>12. Symtab' = Symtab
    <3>1. sect' = sect /\ func_off' = func_off /\ layouts' = layouts
      BY <1>2
    <3> QED BY <3>1 DEF Symtab, CodeEnd, Funcs
  <2>13. Fixups' = Fixups
    BY <1>2, ZenonT(60) DEF Fixups, Funcs, Item
  <2>14. ASSUME ~changed' PROVE PlacedTo(NFuncs)'
    <3>1. ~changed /\ new.len = imm[f][p].len
      BY <1>3, <1>5, <2>7, <2>14
    <3>2. PlacedTo(NFuncs)
      BY <1>1, <1>2, <3>1 DEF LaidOut
    <3>3. \A g \in Funcs : \A i \in Items(g) : imm'[g][i].len = imm[g][i].len
      <4> TAKE g \in Funcs
      <4> TAKE i \in Items(g)
      <4>1. CASE g = f /\ i = p
        BY <2>7, <3>1, <4>1
      <4>2. CASE g = f /\ i # p
        BY <2>6, <2>7, <4>2
      <4>3. CASE g # f
        BY <2>6, <4>3
      <4> QED BY <4>1, <4>2, <4>3
    <3>4. opcode[f] = OpcodesAfter(f, layouts[f])
      BY <1>3, <2>3, <3>2 DEF PlacedTo, Placed
    <3>5. opcode[f][p] = imm[f][p].len
      <4>1. \A lay : OpcodesAfter(f, lay)[p] = imm[f][p].len
        BY <2>3 DEF OpcodesAfter, Items, IsLabel
      <4> QED BY <3>4, <4>1
    <3>6. opcode'[f] = opcode[f]
      <4>1. opcode'[f] = [opcode[f] EXCEPT ![p] = opcode[f][p]]
        BY <2>8, <3>1, <3>5
      <4>2. opcode[f] = [i \in Items(f) |-> opcode[f][i]]
        BY <1>3, <2>3
      <4> QED BY <4>1, <4>2
    <3>7. ASSUME NEW g \in 1..NFuncs PROVE Placed(g)'
      <4>1. g \in Funcs /\ Placed(g)
        BY <1>3, <3>2 DEF PlacedTo
      <4>2. /\ Fits(g)' /\ Behind(g)' = Behind(g)
            /\ OpcodesAfter(g, layouts[g])' = OpcodesAfter(g, layouts[g])
        BY <1>1, <1>2, <3>3, <4>1, SameLayout DEF Placed
      <4>3. opcode'[g] = opcode[g]
        BY <2>8, <3>6, <4>1
      <4> QED BY <1>2, <4>1, <4>2, <4>3 DEF Placed
    <3>8. NFuncs' = NFuncs
      BY <1>2, SameTypes
    <3> QED BY <3>7, <3>8 DEF PlacedTo
  <2>15. ASSUME NEW j \in 1..n PROVE Applied(Fixups[j][1], Fixups[j][2])'
    <3> PICK g, q : g = Fixups[j][1] /\ q = Fixups[j][2]
      OBVIOUS
    <3>1. j \in 1..Len(Fixups)
      BY <1>3, <2>1
    <3>2. Fixups[j] \in SymPushes
      BY <1>3, <3>1, FixupsLemma
    <3>3. g \in Funcs /\ q \in Items(g)
      BY <3>2 DEF SymPushes
    <3>4. Item(g, q)' = Item(g, q) /\ \A x : NewImm(x)' = NewImm(x)
      BY <1>2 DEF Item, NewImm
    <3>5. FixupValue(Item(g, q))' = FixupValue(Item(g, q))
      BY <1>2, <3>4 DEF FixupValue
    <3>6. CASE g = f /\ q = p
      <4>1. opcode'[f][p] = new.len
        BY <1>3, <2>3, <2>8
      <4>2. imm'[g][q] = NewImm(FixupValue(Item(g, q))) /\ opcode'[g][q] = imm'[g][q].len
        BY <2>7, <3>6, <4>1
      <4>3. Item(g, q)'.sym \in DOMAIN symtab'
        BY <1>2, <1>5, <3>4, <3>6
      <4>4. NewImm(FixupValue(Item(g, q)))' = NewImm(FixupValue(Item(g, q)))
        BY <1>2, <3>5 DEF NewImm
      <4>5. Applied(g, q)'
        BY <4>2, <4>3, <4>4 DEF Applied
      <4> QED BY <2>13, <4>5
    <3>7. CASE ~(g = f /\ q = p)
      <4>1. imm'[g][q] = imm[g][q] /\ opcode'[g][q] = opcode[g][q]
        <5>1. CASE g = f /\ q # p
          <6>1. imm[f] \in [Items(f) -> [len : Nat, val : Nat]] /\ opcode[f] \in [Items(f) -> Nat]
            BY <1>3, <2>3
          <6> QED BY <2>6, <2>8, <3>3, <5>1, <6>1
        <5>2. CASE g # f
          BY <2>6, <2>8, <3>3, <5>2
        <5> QED BY <3>7, <5>1, <5>2
      <4>2. j # n
        BY <3>7
      <4>3. j \in 1..(n - 1)
        BY <1>3, <4>2
      <4>4. Applied(g, q)
        BY <2>4, <4>3 DEF AppliedTo
      <4>5. NewImm(FixupValue(Item(g, q)))' = NewImm(FixupValue(Item(g, q)))
        BY <1>2, <3>5 DEF NewImm
      <4>6. Applied(g, q)'
        BY <1>2, <3>4, <4>1, <4>4, <4>5 DEF Applied
      <4> QED BY <2>13, <4>6
    <3> QED BY <3>6, <3>7
  <2>16. SweepSound' /\ LaidOut'
    <3>1. phase' = "fixups"
      BY <1>2, <1>5
    <3> QED BY <2>14, <3>1 DEF SweepSound, LaidOut, Resizing
  <2>17. SymbolsSound'
    <3>1. next' = n + 1 /\ phase' = "fixups" /\ symtab' = symtab
      BY <1>2, <1>5
    <3>2. next' <= Len(Fixups') + 1
      BY <1>3, <2>1, <2>13, <3>1
    <3>3. next' - 1 = n
      BY <1>3, <3>1
    <3>4. AppliedTo(next - 1)'
      BY <2>15, <3>3 DEF AppliedTo
    <3> QED BY <2>4, <2>12, <3>1, <3>2, <3>4 DEF SymbolsSound
  <2> QED BY <2>10, <2>11, <2>16, <2>17 DEF IInv
<1> QED BY <1>2, <1>4, <1>5

-----------------------------------------------------------------------------
(***************************************************************************)
(* The theorems.                                                           *)
(***************************************************************************)

\* Every state of every run of the linker is sound: a sweep that has changed nothing so
\* far has left behind it functions that fit, one after the other; the layout from which
\* the symbol table was built is still that one when no fixup has changed a width; and
\* every fixup that was applied holds the value of that table (ObjectLayout::resize,
\* link_section).
THEOREM Linking == Spec => []IInv
<1>1. Init => IInv
  BY InitSound
<1>2. IInv /\ [Next]_vars => IInv'
  <2> SUFFICES ASSUME IInv, [Next]_vars PROVE IInv'
    OBVIOUS
  <2>1. CASE ResizeFunc
    BY <2>1, ResizeSound
  <2>2. CASE SweepAgain
    BY <2>2, SweepAgainSound
  <2>3. CASE BuildSymtab
    BY <2>3, BuildSymtabSound
  <2>4. CASE ApplyFixup
    BY <2>4, ApplyFixupSound
  <2>5. CASE LayOutAgain
    BY <2>5, LayOutAgainSound
  <2>6. CASE LastLayout
    BY <2>6, LastLayoutSound
  <2>7. CASE Emit
    BY <2>7, EmitSound
  <2>8. CASE UNCHANGED vars
    <3>1. /\ Types /\ (\A f \in Funcs : MoveSeen(f)) /\ SweepSound /\ LaidOut /\ SymbolsSound
          /\ UNCHANGED <<sect, policy, func_off, layouts, imm, opcode, phase, next, offset,
                         changed, symtab>>
      BY <2>8 DEF IInv, vars
    <3>2. phase \in Phases /\ next \in Nat \ {0} /\ offset \in Nat /\ changed \in BOOLEAN
      BY <3>1 DEF Types
    <3>3. /\ Types' /\ (\A f \in Funcs : MoveSeen(f))' /\ Symtab' = Symtab
          /\ NFuncs' = NFuncs /\ NFuncs \in Nat
          /\ \A n \in 0..NFuncs : PlacedTo(n) => PlacedTo(n)'
      BY <3>1, <3>2, Kept
    <3>4. SweepSound'
      <4>1. CASE Resizing /\ ~changed
        <5>1. next <= NFuncs + 1 /\ PlacedTo(next - 1) /\ offset = Behind(next)
          BY <3>1, <4>1 DEF SweepSound
        <5>2. next - 1 \in 0..NFuncs
          BY <3>2, <3>3, <5>1
        <5>3. PlacedTo(next - 1)'
          BY <3>1, <3>3, <5>1, <5>2 DEF PlacedTo
        <5>4. Behind(next)' = Behind(next)
          BY <3>1 DEF Behind
        <5> QED BY <3>1, <3>3, <5>1, <5>3, <5>4 DEF SweepSound
      <4>2. CASE ~(Resizing /\ ~changed)
        BY <3>1, <3>3, <4>2 DEF SweepSound, Resizing
      <4> QED BY <4>1, <4>2
    <3>5. LaidOut'
      <4>1. NFuncs \in 0..NFuncs
        BY <3>3
      <4>2. PlacedTo(NFuncs) => PlacedTo(NFuncs)'
        BY <3>3, <4>1 DEF PlacedTo
      <4> QED BY <3>1, <4>2 DEF LaidOut
    <3>6. SymbolsSound'
      <4>1. Fixups' = Fixups /\ \A n : AppliedTo(n) => AppliedTo(n)'
        BY <3>1, SameFixups
      <4>2. AppliedTo(next - 1) => AppliedTo(next - 1)'
        BY <3>1, <4>1 DEF AppliedTo
      <4>3. AppliedTo(Len(Fixups)) => AppliedTo(Len(Fixups))'
        BY <4>1 DEF AppliedTo
      <4> QED BY <3>1, <3>3, <4>1, <4>2, <4>3 DEF SymbolsSound
    <3> QED BY <3>3, <3>4, <3>5, <3>6 DEF IInv
  <2> QED BY <2>1, <2>2, <2>3, <2>4, <2>5, <2>6, <2>7, <2>8 DEF Next
<1> QED BY <1>1, <1>2, PTL DEF Spec

\* What is emitted is what was laid out.
LEMMA Emitted ==
  ASSUME IInv, phase = "emitted"
  PROVE  /\ Types /\ PlacedTo(NFuncs)
         /\ \A f \in Funcs : /\ Fits(f) /\ opcode[f] = OpcodesAfter(f, layouts[f])
                             /\ FuncStart(f) = func_off[f] /\ FuncLen(f) = layouts[f].size
                             /\ \A i \in Items(f) : Place(f, i) = layouts[f].at[i]
         /\ CodeEnd = FuncStart(NFuncs + 1)
<1>1. Types /\ PlacedTo(NFuncs)
  BY DEF IInv, LaidOut
<1>2. Funcs = 1..NFuncs
  BY <1>1, SectionLemma DEF Types
<1>3. (\A f \in Funcs : Fits(f) /\ func_off[f] = FuncStart(f)) /\ CodeEnd = FuncStart(NFuncs + 1)
  BY <1>1, PlacedFuncs
<1>4. ASSUME NEW f \in Funcs
      PROVE  /\ Fits(f) /\ opcode[f] = OpcodesAfter(f, layouts[f])
             /\ FuncStart(f) = func_off[f] /\ FuncLen(f) = layouts[f].size
             /\ \A i \in Items(f) : Place(f, i) = layouts[f].at[i]
  <2>1. opcode[f] = OpcodesAfter(f, layouts[f])
    BY <1>1, <1>2 DEF PlacedTo, Placed
  <2>2. FuncLen(f) = layouts[f].size
        /\ \A i \in Items(f) : layouts[f].at[i] = func_off[f] + Sums(Lens(f))[i - 1]
    BY <1>1, <1>3, PlacedItems
  <2> QED BY <1>3, <2>1, <2>2 DEF Place
<1> QED BY <1>1, <1>3, <1>4

\* In the emitted section every label push holds the place of its target, with an opcode
\* of its width: the sweeps stop at a layout in which backward and forward labels are
\* both right, and the fixups leave it so (FuncLayout::resize, FuncLayout::emit).
THEOREM Labels == Spec => []LabelsExact
<1>1. IInv => LabelsExact
  <2> SUFFICES ASSUME IInv, phase = "emitted", NEW f \in Funcs, NEW i \in Items(f),
                      IsLabel(Item(f, i))
               PROVE  /\ layouts[f].targets[i] = PlaceOfTarget(f, Item(f, i))
                      /\ opcode[f][i] = EmittedLen(f, i) - 1
    BY DEF LabelsExact, Items
  <2>1. Types /\ Fits(f) /\ opcode[f] = OpcodesAfter(f, layouts[f])
    BY Emitted
  <2>2. layouts[f].targets[i] = Target(f, i)
    BY <2>1 DEF Fits
  <2>3. Target(f, i) = PlaceOfTarget(f, Item(f, i))
    <3>1. CASE Item(f, i).k = "func"
      <4>1. Item(f, i).to \in Funcs
        BY <2>1, <3>1, ItemLemma DEF Types
      <4> QED BY <3>1, <4>1, Emitted DEF Target, PlaceOfTarget
    <3>2. CASE Item(f, i).k = "label"
      <4>1. Item(f, i).to \in Items(f)
        BY <2>1, <3>2, ItemLemma DEF Types
      <4> QED BY <3>2, <4>1, Emitted DEF Target, PlaceOfTarget
    <3> QED BY <3>1, <3>2 DEF IsLabel
  <2>4. PICK n : n = BytesLen(layouts[f].targets[i])
    OBVIOUS
  <2>5. Item(f, i).k # "sym"
    BY DEF IsLabel
  <2>6. OpcodesAfter(f, layouts[f])[i] = n
    BY <2>4, <2>5 DEF OpcodesAfter, Items
  <2>7. EmittedLen(f, i) = 1 + n
    BY <2>4, <2>5 DEF EmittedLen
  <2>8. n \in Nat
    BY <2>4, BytesLemma
  <2> QED BY <2>1, <2>2, <2>3, <2>6, <2>7, <2>8
<1> QED BY <1>1, Linking, PTL

\* In the emitted section every symbol push holds the offset or the size its symbol has
\* there, in an operand wide enough for it, and the symbol table of the artifact agrees,
\* although the table was built before the last fixups and is not built again
\* (link_section, apply_sym_fixup).
THEOREM Symbols == Spec => []SymbolsExact
<1>1. IInv => SymbolsExact
  <2> SUFFICES ASSUME IInv, phase = "emitted" PROVE SymbolsExact
    BY DEF SymbolsExact
  <2> DEFINE real(item) ==
        LET n == item.sym[2]
        IN CASE item.sym[1] = "func" /\ item.what = "addr" -> FuncStart(n)
             [] item.sym[1] = "func" /\ item.what = "size" -> FuncLen(n)
             [] item.sym[1] = "data" /\ item.what = "addr" ->
                  FuncStart(Len(sect.funcs) + 1) + Sums(sect.data)[n - 1]
             [] OTHER -> sect.data[n]
  <2>1. /\ Types /\ CodeEnd = FuncStart(NFuncs + 1)
        /\ \A f \in Funcs : FuncStart(f) = func_off[f] /\ FuncLen(f) = layouts[f].size
    BY Emitted
  <2>2. symtab = Symtab /\ AppliedTo(Len(Fixups))
    BY DEF IInv, SymbolsSound
  <2>3. ASSUME NEW f \in Funcs
        PROVE  symtab[<<"func", f>>] = [offset |-> FuncStart(f), size |-> FuncLen(f)]
    BY <2>1, <2>2 DEF Symtab
  <2>4. ASSUME NEW f \in Funcs, NEW p \in Items(f), Item(f, p).k = "sym"
        PROVE  /\ imm[f][p].val = real(Item(f, p))
               /\ opcode[f][p] = imm[f][p].len
               /\ BytesLen(imm[f][p].val) <= imm[f][p].len
    <3>1. sect \in Programs /\ p \in Nat
      BY <2>1, SectionLemma DEF Types
    <3>2. <<f, p>> \in SymPushes
      BY <2>4, <3>1 DEF SymPushes
    <3>3. PICK j \in 1..Len(Fixups) : Fixups[j] = <<f, p>>
      BY <3>1, <3>2, FixupsLemma
    <3>4. Applied(f, p)
      BY <2>2, <3>3 DEF AppliedTo
    <3> PICK v : v = FixupValue(Item(f, p))
      OBVIOUS
    <3>5. /\ Item(f, p).sym \in DOMAIN symtab
          /\ imm[f][p] = NewImm(v) /\ opcode[f][p] = imm[f][p].len
      BY <3>4 DEF Applied
    <3>6. imm[f][p].val = v /\ BytesLen(v) <= imm[f][p].len
      BY <3>5, BytesLemma DEF NewImm
    <3> PICK sym, what : sym = Item(f, p).sym /\ what = Item(f, p).what
      OBVIOUS
    <3>7. what \in {"addr", "size"}
      BY <2>4, <3>1, ItemLemma
    <3>8. v = real(Item(f, p))
      <4>1. ASSUME NEW g \in Funcs, sym = <<"func", g>> PROVE v = real(Item(f, p))
        <5>1. sym[1] = "func" /\ sym[2] = g
          BY <4>1
        <5>2. v = IF what = "addr" THEN FuncStart(g) ELSE FuncLen(g)
          <6>1. symtab[sym] = [offset |-> FuncStart(g), size |-> FuncLen(g)]
            BY <2>3, <4>1
          <6> QED BY <6>1 DEF FixupValue
        <5> QED BY <3>7, <5>1, <5>2
      <4>2. ASSUME NEW d \in DOMAIN sect.data, sym = <<"data", d>> PROVE v = real(Item(f, p))
        <5>1. sym[1] = "data" /\ sym[2] = d
          BY <4>2
        <5>2. symtab[sym] = [offset |-> CodeEnd + Sums(sect.data)[d - 1], size |-> sect.data[d]]
          BY <2>2, <4>2 DEF Symtab
        <5>3. v = IF what = "addr" THEN FuncStart(Len(sect.funcs) + 1) + Sums(sect.data)[d - 1]
                  ELSE sect.data[d]
          BY <2>1, <5>2 DEF FixupValue, NFuncs
        <5> QED BY <3>7, <5>1, <5>3
      <4>3. (\E g \in Funcs : sym = <<"func", g>>) \/ (\E d \in DOMAIN sect.data : sym = <<"data", d>>)
        BY <2>2, <3>5 DEF Symtab
      <4> QED BY <4>1, <4>2, <4>3
    <3> QED BY <3>5, <3>6, <3>8
  <2> QED BY <2>3, <2>4 DEF SymbolsExact, Items
<1> QED BY <1>1, Linking, PTL
=============================================================================
