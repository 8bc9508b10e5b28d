--------------------------- MODULE ObjectCompiler ---------------------------
(***************************************************************************)
(* Compiling the objects of a linked module                                *)
(* (crates/codegen/src/object/resolve.rs, compile.rs, data.rs).            *)
(*                                                                         *)
(* resolve validates the directives and rejects sections that embed each   *)
(* other; compile then links one section after the other, the embedded     *)
(* ones first, into a cache.  What link_section does with the functions is *)
(* module Assembler; here a section artifact is what is put into it.       *)
(***************************************************************************)
EXTENDS Linker

VARIABLES
  step,     \* where compile_object or compile_all_objects is
  goal,     \* the object to compile, 0 for all of them
  cycle,    \* what detect_embed_cycle returned
  order,    \* the sections still to compile
  cache     \* section -> artifact

compVars == <<step, goal, cycle, order, cache>>

-----------------------------------------------------------------------------
(***************************************************************************)
(* ResolvedProgram::resolve.  A section is <<object, index>>; objects are  *)
(* sorted by name.  A directive is [k, r]; an embed also has the object    *)
(* (0: this one) and the section it takes.                                 *)
(***************************************************************************)
SectionAt(id) == linked.objects[id[1]][id[2]]
Directives(id, kinds) == SelectSeq(SectionAt(id).dirs, LAMBDA d : d.k \in kinds)
Refs(ds) == [i \in DOMAIN ds |-> ds[i].r]

ObjectSections(name) == [i \in DOMAIN linked.objects[name] |-> <<name, i>>]
AllSections ==
  FlattenSeq([i \in 1..Cardinality(DOMAIN linked.objects) |->
                ObjectSections(SetToSortSeq(DOMAIN linked.objects, <)[i])])

\* resolve_section_ref; section 0 does not exist.
Target(id, embed) ==
  LET object == IF embed.obj = 0 THEN id[1] ELSE embed.obj
  IN IF object \notin DOMAIN linked.objects THEN <<object, 0>>
     ELSE <<object, Find(linked.objects[object], LAMBDA s : s.name = embed.sec)>>

SectionResolves(id) ==
  LET embeds == Directives(id, {"embed"})
  IN /\ Len(Directives(id, {"entry"})) = 1
     /\ \A i \in DOMAIN linked.objects[id[1]] :
          linked.objects[id[1]][i].name = SectionAt(id).name => i = id[2]
     /\ Range(Refs(Directives(id, {"entry", "include"}))) \subseteq DOMAIN linked.sigs
     /\ Range(Refs(Directives(id, {"data"}))) \subseteq DOMAIN linked.gvs
     /\ IsInjective(Refs(embeds))
     /\ \A i \in DOMAIN embeds : Target(id, embeds[i])[2] # 0

RECURSIVE WithoutRepeats(_)
WithoutRepeats(s) ==
  IF s = <<>> THEN <<>>
  ELSE <<Head(s)>> \o WithoutRepeats(SelectSeq(Tail(s), LAMBDA x : x # Head(s)))

EntryOf(id) == Directives(id, {"entry"})[1].r
Includes(id) == WithoutRepeats(Refs(Directives(id, {"include"})))
Embedded(id) == [i \in DOMAIN Directives(id, {"embed"}) |-> Target(id, Directives(id, {"embed"})[i])]

\* Mutant: with the sections that lead to the cycle.
WholePath(path, id) == path

\* The path from the section that is met again.
CycleIn(path, id) == SubSeq(path, Find(path, LAMBDA x : x = id), Len(path))

\* detect_embed_cycle: depth first.
RECURSIVE CycleFrom(_, _)
CycleFrom(st, id) ==
  CASE st.cycle # <<>> \/ id \in st.done -> st
    [] id \in Range(st.path) -> [st EXCEPT !.cycle = CycleIn(st.path, id)]
    [] OTHER ->
         With(Foldl(CycleFrom, [st EXCEPT !.path = Append(@, id)], Embedded(id)),
              LAMBDA a : IF a.cycle # <<>> THEN a
                         ELSE [a EXCEPT !.path = Front(@), !.done = @ \cup {id}])

DetectEmbedCycle ==
  Foldl(CycleFrom, [path |-> <<>>, done |-> {}, cycle |-> <<>>], AllSections).cycle

-----------------------------------------------------------------------------
(***************************************************************************)
(* compile_object and compile_all_objects.                                 *)
(***************************************************************************)
\* topo_sort_sections: a section after the sections it embeds.
RECURSIVE TopoVisit(_, _)
TopoVisit(st, id) ==
  IF id \in st.seen THEN st
  ELSE With(Foldl(TopoVisit, [st EXCEPT !.seen = @ \cup {id}], Embedded(id)),
            LAMBDA a : [a EXCEPT !.out = Append(@, id)])

TopoSortSections == Foldl(TopoVisit, [seen |-> {}, out |-> <<>>], AllSections).out

\* collect_embed_deps: S and what its sections embed.
RECURSIVE EmbedDeps(_)
EmbedDeps(S) ==
  LET more == S \cup UNION {Range(Embedded(id)) : id \in S}
  IN IF more = S THEN S ELSE EmbedDeps(more)

InitCompile == step = "idle" /\ goal = 0 /\ cycle = <<>> /\ order = <<>> /\ cache = <<>>

Start ==
  /\ stage = "done" /\ step = "idle"
  /\ goal' \in DOMAIN linked.objects \cup {0}
  /\ IF \A id \in Range(AllSections) : SectionResolves(id)
     THEN /\ cycle' = DetectEmbedCycle
          /\ step' = IF cycle' = <<>> THEN "sections" ELSE "embed cycle"
     ELSE step' = "unresolved" /\ UNCHANGED cycle
  /\ UNCHANGED <<order, cache>>

Wanted == IF goal = 0 THEN Range(AllSections) ELSE Range(ObjectSections(goal))

Order ==
  /\ step = "sections"
  /\ order' = SelectSeq(TopoSortSections, LAMBDA id : id \in EmbedDeps(Wanted))
  /\ step' = "compile"
  /\ UNCHANGED <<goal, cycle, cache>>

\* build_membership: the functions reached through calls, function pointers and symbols,
\* and the symbols they name.
BodyRefs(f, kinds) ==
  {linked.bodies[f].refs[i].r : i \in {j \in DOMAIN linked.bodies[f].refs :
                                         linked.bodies[f].refs[j].k \in kinds}}

RECURSIVE Members(_)
Members(funcs) ==
  LET more == funcs \cup UNION {BodyRefs(f, {"call", "fnptr", "symfn"}) : f \in funcs}
  IN IF more = funcs THEN funcs ELSE Members(more)

MemberFuncs(id) == Members({EntryOf(id)} \cup Range(Includes(id)))
MemberGlobals(id, funcs) ==
  Range(Refs(Directives(id, {"data"}))) \cup UNION {BodyRefs(f, {"symgv"}) : f \in funcs}
UsedEmbeds(funcs) == UNION {BodyRefs(f, {"symembed"}) : f \in funcs}

\* compare_func: included functions first, then by name.
Before(includes, a, b) ==
  LET priority(x) == IF x \in Range(includes) THEN Find(includes, LAMBDA y : y = x) ELSE Len(includes) + 1
  IN IF priority(a) # priority(b) THEN priority(a) < priority(b)
     ELSE linked.sigs[a].name < linked.sigs[b].name

Sorted(includes, funcs) == SetToSortSeq(funcs, LAMBDA a, b : Before(includes, a, b))

RECURSIVE EmitFrom(_, _, _)
EmitFrom(includes, out, f) ==
  IF f \in Range(out) THEN out
  ELSE Foldl(LAMBDA a, g : EmitFrom(includes, a, g), Append(out, f), Sorted(includes, BodyRefs(f, {"call"})))

EmitAll(includes, out, roots) == Foldl(LAMBDA a, f : EmitFrom(includes, a, f), out, Sorted(includes, roots))

\* Mutant: what no call reaches is left out.
EmissionOrderCalled(id, funcs) ==
  EmitAll(Includes(id), EmitFrom(Includes(id), <<>>, EntryOf(id)), Range(Includes(id)))

\* compute_function_emission_order: calls depth first from the entry, then from the
\* includes, then from what only pointers and symbols reach.
EmissionOrder(id, funcs) ==
  LET includes == Includes(id)
  IN With(EmitAll(includes, EmitFrom(includes, <<>>, EntryOf(id)), Range(includes)),
          LAMBDA out : EmitAll(includes, out, funcs \ Range(out)))

\* encode_initializer, by the number of bytes; -1 is an error.  An initializer is
\* <<"imm">> or <<"array" or "struct", initializers>>.
ByteWidth(ty) == IF ty = I1 THEN 1 ELSE (-ty) \div 8
Parts(c) ==
  CASE c.kind = "array" -> [i \in 1..c.attr |-> c.tys[1]]
    [] c.kind = "struct" /\ ~c.attr -> c.tys
    [] OTHER -> <<>>
Total(lens) == FoldLeft(LAMBDA a, b : IF a = -1 \/ b = -1 THEN -1 ELSE a + b, 0, lens)

RECURSIVE EncodedLen(_, _)
EncodedLen(ty, init) ==
  IF ~IsCompound(ty) THEN IF ty < 0 /\ init[1] = "imm" THEN ByteWidth(ty) ELSE -1
  ELSE LET c == linked.types[ty]
       IN IF init[1] # c.kind \/ (c.kind = "struct" /\ c.attr) THEN -1
          ELSE IF Len(init[2]) # Len(Parts(c)) THEN -1
          ELSE Total([i \in DOMAIN init[2] |-> EncodedLen(Parts(c)[i], init[2][i])])

\* encode_gv_initializer_to_bytes: only a constant with an initializer can be data.
DataLen(gv) ==
  IF ~linked.gvs[gv].const \/ linked.gvs[gv].init = <<>> THEN -1
  ELSE EncodedLen(linked.gvs[gv].tys[1], linked.gvs[gv].init)

\* compile_section.
SectionProblem(id, funcs) ==
  CASE ~(UsedEmbeds(funcs) \subseteq Range(Refs(Directives(id, {"embed"})))) -> "undefined embed"
    [] \E gv \in MemberGlobals(id, funcs) : DataLen(gv) = -1 -> "invalid data"
    [] ~(Range(Embedded(id)) \subseteq DOMAIN cache) -> "missing"
    [] OTHER -> "none"

Artifact(id, funcs) ==
  [funcs |-> EmissionOrder(id, funcs),
   data |-> [i \in 1..Cardinality(MemberGlobals(id, funcs)) |->
               LET gv == SetToSortSeq(MemberGlobals(id, funcs), <)[i]
               IN <<gv, DataLen(gv)>>],
   embeds |-> [i \in DOMAIN Embedded(id) |->
                 <<Directives(id, {"embed"})[i].r, cache[Embedded(id)[i]]>>]]

CompileSection ==
  /\ step = "compile" /\ order # <<>>
  /\ \E id \in {Head(order)} : \E funcs \in {MemberFuncs(id)} :
       IF SectionProblem(id, funcs) = "none"
       THEN /\ cache' = WithRef(cache, id, Artifact(id, funcs))
            /\ order' = Tail(order)
            /\ UNCHANGED step
       ELSE step' = SectionProblem(id, funcs) /\ UNCHANGED <<order, cache>>
  /\ UNCHANGED <<goal, cycle>>

\* Every section of the object is taken out of the cache.
Collect ==
  /\ step = "compile" /\ order = <<>>
  /\ step' = IF Wanted \subseteq DOMAIN cache THEN "compiled" ELSE "missing"
  /\ UNCHANGED <<goal, cycle, order, cache>>

CompileNext == Start \/ Order \/ CompileSection \/ Collect

-----------------------------------------------------------------------------
(***************************************************************************)
(* Linking modules and compiling the objects of the result: an object of   *)
(* one module may embed sections, and name functions and globals, of       *)
(* another, so most of what can go wrong needs both.                       *)
(***************************************************************************)
vars == <<linkVars, compVars>>

Init == InitLink /\ InitCompile

LinkStep == step = "idle" /\ LinkNext /\ UNCHANGED compVars
CompileStep == CompileNext /\ UNCHANGED linkVars
Next == LinkStep \/ CompileStep

Spec == Init /\ [][Next]_vars

-----------------------------------------------------------------------------
\* detect_embed_cycle returns a chain of sections each embedding the next and the last the
\* first, and returns one whenever some section embeds itself, directly or not, even
\* through objects that came from different modules (resolve.rs: EmbedCycle).
CyclesFound ==
  step \notin {"idle", "unresolved"} =>
    /\ \A i \in DOMAIN cycle : cycle[(i % Len(cycle)) + 1] \in Range(Embedded(cycle[i]))
    /\ cycle = <<>> =>
         \A id \in Range(AllSections) : id \notin EmbedDeps(Range(Embedded(id)))

\* The code of a section is closed: exactly the functions that its entry and includes
\* reach through calls, pointers and symbols, each once and the entry first; the globals
\* they name, and the final artifact of every section it embeds, so that link_section
\* meets no symbol it does not know (link.rs: "unknown symbol").
Closed(funcs) == \A f \in funcs : BodyRefs(f, {"call", "fnptr", "symfn"}) \subseteq funcs
ArtifactExact(id, art) ==
  LET funcs == Range(art.funcs)
      roots == Range(Refs(Directives(id, {"entry", "include"})))
  IN /\ art.funcs[1] = EntryOf(id) /\ IsInjective(art.funcs)
     /\ roots \subseteq funcs /\ Closed(funcs)
     /\ \A fewer \in SUBSET funcs : roots \subseteq fewer /\ Closed(fewer) => fewer = funcs
     /\ {d[1] : d \in Range(art.data)} =
          Range(Refs(Directives(id, {"data"}))) \cup UNION {BodyRefs(f, {"symgv"}) : f \in funcs}
     /\ \A i \in DOMAIN art.embeds : art.embeds[i][2] = cache[Embedded(id)[i]]
     /\ UNION {BodyRefs(f, {"symembed"}) : f \in funcs} \subseteq {e[1] : e \in Range(art.embeds)}
ArtifactsExact ==
  step \in {"compile", "compiled"} => \A id \in DOMAIN cache : ArtifactExact(id, cache[id])

\* Every section artifact is exact, and whatever order the sections and objects are named
\* in, and whether all objects are compiled or one, a section is compiled before it is
\* embedded and none that is wanted is left out (compile.rs: "missing embedded section
\* artifact", "missing compiled section").
ArtifactsComplete == ArtifactsExact /\ step # "missing"

=============================================================================
