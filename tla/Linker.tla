------------------------------- MODULE Linker -------------------------------
(***************************************************************************)
(* Linking modules into one (crates/ir/src/module_linker.rs).              *)
(*                                                                         *)
(* The first module is the destination.  Modules are registered, link      *)
(* maps the references of each registered module into the destination,     *)
(* then moves objects and function bodies there, the bodies in parallel.   *)
(* A linked module can be the destination of another link (append).        *)
(*                                                                         *)
(* First what a module keeps and the builder calls that change it          *)
(* (types.rs, global_variable.rs, module.rs, builder/module_builder.rs).   *)
(* References are positions: the PrimaryMaps are sequences.  Names are     *)
(* numbers, so that they can be sorted.                                    *)
(***************************************************************************)
EXTENDS Integers, FiniteSets, Sequences, SequencesExt, Paths

\* A type is a compound type's position, or minus the bits of an integer type (0: unit).
I1 == -1
I8 == -8
I32 == -32
I256 == -256
IsCompound(ty) == ty > 0

\* Compound types.  tys are the types it is made of; attr the length of an array or
\* whether a struct is packed; a function type lists its result last.
Ptr(ty) == [kind |-> "ptr", name |-> 0, tys |-> <<ty>>, attr |-> 0]
Array(ty, len) == [kind |-> "array", name |-> 0, tys |-> <<ty>>, attr |-> len]
Struct(name, tys, packed) == [kind |-> "struct", name |-> name, tys |-> tys, attr |-> packed]

\* The position of the element that satisfies P, 0 when there is none.
Find(seq, P(_)) ==
  IF \E i \in DOMAIN seq : P(seq[i]) THEN CHOOSE i \in DOMAIN seq : P(seq[i]) ELSE 0

-----------------------------------------------------------------------------
(***************************************************************************)
(* TypeStore: rev_types, which interns the compounds, is the inverse of    *)
(* compounds; struct_types indexes the structs by name.                    *)
(***************************************************************************)
LookupStruct(types, name) ==
  Find(types, LAMBDA c : c.kind = "struct" /\ c.name = name)

\* The types after make_compound, and the reference it returns.  A second struct of a
\* name panics: no reference.
MakeCompound(types, data) ==
  LET known == Find(types, LAMBDA c : c = data)
  IN CASE known # 0 -> [types |-> types, ref |-> known]
       [] data.kind = "struct" /\ LookupStruct(types, data.name) # 0 -> [types |-> types, ref |-> 0]
       [] OTHER -> [types |-> Append(types, data), ref |-> Len(types) + 1]

UpdateStructFields(types, name, fields) ==
  [types EXCEPT ![LookupStruct(types, name)].tys = fields]

-----------------------------------------------------------------------------
(***************************************************************************)
(* Symbols.  A global variable and a function's signature have a name, a   *)
(* linkage and types.  The body of a function is the list of its           *)
(* references: [k |-> "ty" | "gv" | "call" | "fnptr" | "sym", r |-> ...],  *)
(* and the context its references are into.                                *)
(***************************************************************************)
\* A linkage is public, private or external.
HasDefinition(linkage) == linkage \in {"public", "private"}

Gv(name, ty, linkage, init) ==
  [name |-> name, tys |-> <<ty>>, linkage |-> linkage, const |-> init # <<>>, init |-> init]
Sig(name, tys, linkage) == [name |-> name, tys |-> tys, linkage |-> linkage]

LookupSymbol(symbols, name) == Find(symbols, LAMBDA s : s.name = name)

\* declare_function of a name that is new: a stub for the body and empty attributes.
DeclareFunction(mod, sig, ctx) ==
  [mod EXCEPT !.sigs = Append(@, sig), !.bodies = Append(@, [ctx |-> ctx, refs |-> <<>>])]

DeclareGv(mod, gv) == [mod EXCEPT !.gvs = Append(@, gv)]

\* Objects are keyed by name.
DeclareObject(mod, name, sections) ==
  [mod EXCEPT !.objects = [n \in DOMAIN @ \cup {name} |-> IF n = name THEN sections ELSE @[n]]]

-----------------------------------------------------------------------------
(***************************************************************************)
(* ModuleLinker.                                                           *)
(***************************************************************************)
CONSTANTS
  Modules,      \* the modules to link
  MaxModules    \* bound on the modules of one linked module

VARIABLES
  sources,    \* the modules registered so far; sources[m] is ModuleRef m - 1
  linked,     \* the module being built
  ref_map,    \* RefMap of each ModuleRef
  done,       \* how many modules the destination holds
  stage,      \* what the linker does next
  cur,        \* for which module
  todo        \* with which of its entities

linkVars == <<sources, linked, ref_map, done, stage, cur, todo>>

Identity(S) == [x \in S |-> x]
WithRef(map, from, to) == [x \in DOMAIN map \cup {from} |-> IF x = from THEN to ELSE map[x]]

EmptyMap == [cmpd |-> <<>>, gv |-> <<>>, func |-> <<>>]
IdentityWith(mod) ==
  [cmpd |-> Identity(DOMAIN mod.types), gv |-> Identity(DOMAIN mod.gvs),
   func |-> Identity(DOMAIN mod.sigs)]

\* The destination's own references stay as they are; context 0 is the linked module's.
InitLink ==
  /\ \E mod \in Modules :
       /\ sources = <<mod>> /\ ref_map = <<IdentityWith(mod)>>
       /\ linked = [mod EXCEPT !.bodies = [f \in DOMAIN @ |-> [@[f] EXCEPT !.ctx = 0]]]
  /\ stage = "collect" /\ done = 1 /\ cur = 1 /\ todo = {}

Register ==
  /\ stage \in {"collect", "done"}
  /\ Len(sources) < MaxModules
  /\ \E mod \in Modules : sources' = Append(sources, mod)
  /\ ref_map' = Append(ref_map, EmptyMap)
  /\ stage' = "collect"
  /\ UNCHANGED <<linked, done, cur, todo>>

Source == sources[cur]
Fail(why) == stage' = why /\ UNCHANGED <<sources, linked, ref_map, done, cur, todo>>

\* Every source must be for the triple of the destination.
CheckTriple ==
  /\ stage = "triple"
  /\ IF Source.triple = linked.triple
     THEN stage' = "types" /\ todo' = DOMAIN Source.types /\ UNCHANGED <<sources, linked, ref_map, done, cur>>
     ELSE Fail("bad triple")

-----------------------------------------------------------------------------
(***************************************************************************)
(* link_cmpd.  The state is the destination's types, the map and whether a *)
(* struct disagrees.  A struct is mapped before its fields are linked, so  *)
(* that a recursive type ends.                                             *)
(***************************************************************************)
LookupType(map, ty) == IF IsCompound(ty) THEN map[ty] ELSE ty
LookupTypes(map, tys) == [i \in DOMAIN tys |-> LookupType(map, tys[i])]

RECURSIVE LinkCmpd(_, _, _)

LinkTypes(types, s, tys) ==
  Foldl(LAMBDA a, ty : IF IsCompound(ty) THEN LinkCmpd(types, a, ty) ELSE a, s, tys)

\* Mutant: a new struct keeps its empty fields.
FinishStructEmpty(s, data, existing) ==
  IF ~s.ok \/ existing = 0 THEN s
  ELSE [s EXCEPT !.ok = s.types[existing] = [data EXCEPT !.tys = LookupTypes(s.map, @)]]

\* A struct the destination has must have the same fields; a new one starts empty and
\* gets them at the end.
FinishStruct(s, data, existing) ==
  LET fields == LookupTypes(s.map, data.tys)
  IN CASE ~s.ok -> s
       [] existing = 0 -> [s EXCEPT !.types = UpdateStructFields(@, data.name, fields)]
       [] OTHER -> [s EXCEPT !.ok = s.types[existing] = [data EXCEPT !.tys = fields]]

LinkStruct(types, s, ref, existing) ==
  LET data == types[ref]
      made == MakeCompound(s.types, Struct(data.name, <<>>, data.attr))
      mapped == IF existing # 0 THEN [s EXCEPT !.map = WithRef(@, ref, existing)]
                ELSE [s EXCEPT !.types = made.types, !.map = WithRef(@, ref, made.ref)]
  IN With(LinkTypes(types, mapped, data.tys), LAMBDA a : FinishStruct(a, data, existing))

FinishCompound(s, data, ref) ==
  LET made == MakeCompound(s.types, [data EXCEPT !.tys = LookupTypes(s.map, @)])
  IN IF s.ok THEN [s EXCEPT !.types = made.types, !.map = WithRef(@, ref, made.ref)] ELSE s

LinkCmpd(types, s, ref) ==
  CASE ref \in DOMAIN s.map \/ ~s.ok -> s
    [] types[ref].kind = "struct" ->
         LinkStruct(types, s, ref, LookupStruct(s.types, types[ref].name))
    [] OTHER -> With(LinkTypes(types, s, types[ref].tys), LAMBDA a : FinishCompound(a, types[ref], ref))

First(S) == CHOOSE x \in S : \A y \in S : x <= y

LinkType ==
  /\ stage = "types" /\ todo # {}
  /\ \E s \in {LinkCmpd(Source.types, [types |-> linked.types, map |-> ref_map[cur].cmpd, ok |-> TRUE],
                        First(todo))} :
       IF s.ok THEN /\ linked' = [linked EXCEPT !.types = s.types]
                    /\ ref_map' = [ref_map EXCEPT ![cur].cmpd = s.map]
                    /\ todo' = todo \ {First(todo)}
                    /\ UNCHANGED <<sources, done, stage, cur>>
       ELSE Fail("bad struct")

-----------------------------------------------------------------------------
(***************************************************************************)
(* link_gv and link_func_ref.  A name the destination lacks is declared    *)
(* there; otherwise types and linkages must fit, and a definition turns an *)
(* external symbol public.                                                 *)
(***************************************************************************)
Mapped(symbol) == [symbol EXCEPT !.tys = LookupTypes(ref_map[cur].cmpd, @)]

\* Mutant: a declaration fits a private definition.
LinkagesFitAny(source, dest) == source = "external" \/ dest = "external"

LinkagesFit(source, dest) ==
  \/ source = "external" /\ dest \in {"public", "external"}
  \/ source = "public" /\ dest = "external"

Merged(source, dest) == IF source = "public" THEN "public" ELSE dest

LinkGv ==
  /\ stage = "gvs" /\ todo # {}
  /\ \E gv \in {Mapped(Source.gvs[First(todo)])}, ref \in {LookupSymbol(linked.gvs, Source.gvs[First(todo)].name)} :
       IF ref # 0 /\ (gv.tys # linked.gvs[ref].tys \/ ~LinkagesFit(gv.linkage, linked.gvs[ref].linkage))
       THEN Fail("bad gv")
       ELSE /\ linked' = IF ref = 0 THEN DeclareGv(linked, gv)
                         ELSE [linked EXCEPT !.gvs[ref].linkage = Merged(gv.linkage, @),
                                             !.gvs[ref].init = IF gv.init = <<>> THEN @ ELSE gv.init]
            /\ ref_map' = [ref_map EXCEPT ![cur].gv =
                             WithRef(@, First(todo), IF ref = 0 THEN Len(linked.gvs) + 1 ELSE ref)]
            /\ todo' = todo \ {First(todo)}
            /\ UNCHANGED <<sources, done, stage, cur>>

LinkFunc ==
  /\ stage = "funcs" /\ todo # {}
  /\ \E sig \in {Mapped(Source.sigs[First(todo)])}, ref \in {LookupSymbol(linked.sigs, Source.sigs[First(todo)].name)} :
       IF ref # 0 /\ (sig.tys # linked.sigs[ref].tys \/ ~LinkagesFit(sig.linkage, linked.sigs[ref].linkage))
       THEN Fail("bad func")
       ELSE /\ linked' = IF ref = 0 THEN DeclareFunction(linked, sig, 0)
                         ELSE [linked EXCEPT !.sigs[ref].linkage = Merged(sig.linkage, @)]
            /\ ref_map' = [ref_map EXCEPT ![cur].func =
                             WithRef(@, First(todo), IF ref = 0 THEN Len(linked.sigs) + 1 ELSE ref)]
            /\ todo' = todo \ {First(todo)}
            /\ UNCHANGED <<sources, done, stage, cur>>

-----------------------------------------------------------------------------
(***************************************************************************)
(* link: the objects, in the order of a hash map, then the bodies, by a    *)
(* parallel loop over the functions of the module.                         *)
(***************************************************************************)
Directive(map, d) ==
  CASE d.k \in {"entry", "include"} -> [d EXCEPT !.r = map.func[@]]
    [] d.k = "data" -> [d EXCEPT !.r = map.gv[@]]
    [] OTHER -> d

Sections(map, sections) ==
  [i \in DOMAIN sections |->
     [sections[i] EXCEPT !.dirs = [j \in DOMAIN @ |-> Directive(map, @[j])]]]

MoveObject ==
  /\ stage = "objects"
  /\ \E name \in todo :
       IF name \in DOMAIN linked.objects THEN Fail("bad object")
       ELSE /\ linked' = DeclareObject(linked, name, Sections(ref_map[cur], Source.objects[name]))
            /\ todo' = todo \ {name}
            /\ UNCHANGED <<sources, ref_map, done, stage, cur>>

\* update_value and InstUpdater, over the references of a body.
Reference(map, x) ==
  CASE x.k = "ty" -> [x EXCEPT !.r = LookupType(map.cmpd, @)]
    [] x.k \in {"gv", "symgv"} -> [x EXCEPT !.r = map.gv[@]]
    [] x.k \in {"call", "fnptr", "symfn"} -> [x EXCEPT !.r = map.func[@]]
    [] OTHER -> x

MovedBody(map, body) ==
  [ctx |-> 0, refs |-> [i \in DOMAIN body.refs |-> Reference(map, body.refs[i])]]

\* Mutant: the stub of an external function moves too.
MoveAnyBody ==
  /\ stage = "bodies"
  /\ \E f \in todo :
       /\ linked' = [linked EXCEPT !.bodies[ref_map[cur].func[f]] = MovedBody(ref_map[cur], Source.bodies[f])]
       /\ todo' = todo \ {f}
  /\ UNCHANGED <<sources, ref_map, done, stage, cur>>

MoveBody ==
  /\ stage = "bodies"
  /\ \E f \in todo :
       /\ linked' = IF Source.sigs[f].linkage = "external" THEN linked
                    ELSE [linked EXCEPT !.bodies[ref_map[cur].func[f]] =
                                          MovedBody(ref_map[cur], Source.bodies[f])]
       /\ todo' = todo \ {f}
  /\ UNCHANGED <<sources, ref_map, done, stage, cur>>

\* link_refs goes through the types, globals and functions of each new module, in this
\* order; only then link moves the objects and bodies of each.
GoTo(next, m, work) ==
  /\ stage' = next /\ cur' = m /\ todo' = work
  /\ UNCHANGED <<sources, linked, ref_map>>

More == cur < Len(sources)

Advance ==
  /\ todo = {}
  /\ \/ stage = "collect" /\ done < Len(sources) /\ GoTo("triple", done + 1, {}) /\ UNCHANGED done
     \/ stage = "types" /\ GoTo("gvs", cur, DOMAIN Source.gvs) /\ UNCHANGED done
     \/ stage = "gvs" /\ GoTo("funcs", cur, DOMAIN Source.sigs) /\ UNCHANGED done
     \/ stage = "funcs" /\ More /\ GoTo("triple", cur + 1, {}) /\ UNCHANGED done
     \/ stage = "funcs" /\ ~More /\ GoTo("objects", done + 1, DOMAIN sources[done + 1].objects) /\ UNCHANGED done
     \/ stage = "objects" /\ GoTo("bodies", cur, DOMAIN Source.bodies) /\ UNCHANGED done
     \/ stage = "bodies" /\ More /\ GoTo("objects", cur + 1, DOMAIN sources[cur + 1].objects) /\ UNCHANGED done
     \/ stage = "bodies" /\ ~More /\ GoTo("done", cur, {}) /\ done' = Len(sources)

LinkNext ==
  \/ Register \/ CheckTriple \/ LinkType \/ LinkGv \/ LinkFunc \/ MoveObject \/ MoveBody
  \/ Advance

Failures == {"bad triple", "bad struct", "bad gv", "bad func", "bad object"}

-----------------------------------------------------------------------------
(***************************************************************************)
(* What a link must preserve, stated over names and structure, which do    *)
(* not change when references do.                                          *)
(***************************************************************************)
\* A type without references: structs by name, the rest by what they are made of.
RECURSIVE Shape(_, _)
Shape(types, ty) ==
  IF ~IsCompound(ty) THEN <<"int", ty>>
  ELSE IF types[ty].kind = "struct" THEN <<"struct", types[ty].name>>
  ELSE <<types[ty].kind, types[ty].attr,
         [i \in DOMAIN types[ty].tys |-> Shape(types, types[ty].tys[i])]>>

Shapes(types, tys) == [i \in DOMAIN tys |-> Shape(types, tys[i])]
Structs(mod) ==
  {[name |-> c.name, attr |-> c.attr, fields |-> Shapes(mod.types, c.tys)] :
     c \in {mod.types[r] : r \in {q \in DOMAIN mod.types : mod.types[q].kind = "struct"}}}

\* What a reference of a body or a directive says.
Meaning(mod, x) ==
  CASE x.k = "ty" -> <<"ty", Shape(mod.types, x.r)>>
    [] x.k \in {"gv", "symgv", "data"} -> <<x.k, mod.gvs[x.r].name>>
    [] x.k \in {"call", "fnptr", "symfn", "entry", "include"} -> <<x.k, mod.sigs[x.r].name>>
    [] OTHER -> <<x.k, x.r>>
Meanings(mod, refs) == [i \in DOMAIN refs |-> Meaning(mod, refs[i])]
SymbolMeaning(mod, s) == [name |-> s.name, tys |-> Shapes(mod.types, s.tys)]

\* When a link succeeds, every reference that the caller holds into a source module, and
\* every one in a body or an object that was moved, means in the linked module what it
\* meant in the source: the same struct or shape of type, global, function, and code.
\* (ModuleRef and RefMap: "a mapping from the source module reference to the linked
\* module reference").
RefsMeanTheSame ==
  stage = "done" =>
    \A m \in DOMAIN sources :
      LET src == sources[m]
          map == ref_map[m]
      IN /\ \A r \in DOMAIN src.types : Shape(linked.types, map.cmpd[r]) = Shape(src.types, r)
         /\ Structs(src) \subseteq Structs(linked)
         /\ \A r \in DOMAIN src.gvs :
              SymbolMeaning(linked, linked.gvs[map.gv[r]]) = SymbolMeaning(src, src.gvs[r])
         /\ \A r \in DOMAIN src.sigs :
              SymbolMeaning(linked, linked.sigs[map.func[r]]) = SymbolMeaning(src, src.sigs[r])
         /\ \A name \in DOMAIN src.objects : \A i \in DOMAIN src.objects[name] :
              Meanings(linked, linked.objects[name][i].dirs) = Meanings(src, src.objects[name][i].dirs)

\* When a link succeeds every function that some module defines is defined in the linked
\* module with that code, in the context of the linked module, and a function nobody
\* defines is an external stub.
EveryBodyArrives ==
  stage = "done" =>
    \A f \in DOMAIN linked.sigs :
      LET here(m) == LookupSymbol(sources[m].sigs, linked.sigs[f].name)
          definers == {m \in DOMAIN sources :
                         here(m) # 0 /\ HasDefinition(sources[m].sigs[here(m)].linkage)}
      IN /\ linked.bodies[f].ctx = 0
         /\ definers = {} => linked.sigs[f].linkage = "external" /\ linked.bodies[f].refs = <<>>
         /\ \A m \in definers :
              /\ linked.sigs[f].linkage = sources[m].sigs[here(m)].linkage
              /\ Meanings(linked, linked.bodies[f].refs)
                   = Meanings(sources[m], sources[m].bodies[here(m)].refs)

\* What the caller holds and what was moved both keep their meaning.
LinkedMeansTheSame == RefsMeanTheSame /\ EveryBodyArrives

\* The modules that can be linked, whatever their order: one triple, one definition of a
\* struct, no object twice, and symbols that agree on their types with at most one
\* definition, which is public if another module names it.
SymbolsAgree(m, n, s, t) ==
  s.name = t.name =>
    /\ SymbolMeaning(m, s) = SymbolMeaning(n, t)
    /\ {s.linkage, t.linkage} \in {{"external"}, {"external", "public"}}

ModulesAgree(m, n) ==
  /\ m.triple = n.triple
  /\ \A s \in Structs(m), t \in Structs(n) : s.name = t.name => s = t
  /\ \A s \in Range(m.gvs), t \in Range(n.gvs) : SymbolsAgree(m, n, s, t)
  /\ \A s \in Range(m.sigs), t \in Range(n.sigs) : SymbolsAgree(m, n, s, t)
  /\ DOMAIN m.objects \cap DOMAIN n.objects = {}

Consistent ==
  \A i, j \in DOMAIN sources : i < j => ModulesAgree(sources[i], sources[j])

\* A link succeeds exactly when the modules agree pairwise: neither the order of the
\* modules, nor their order of types and symbols, nor linking in one call or appending
\* one by one, decides whether it does.
LinksIffConsistent ==
  /\ stage = "done" => Consistent
  /\ stage \in Failures => ~Consistent

\* The linker implements the one-definition rule for functions: every step of it declares,
\* defines or installs at most one name, and the parallel moves replace no code.
Defines(sig) == HasDefinition(sig.linkage)
Names(P(_)) == {linked.sigs[f].name : f \in {g \in DOMAIN linked.sigs : P(g)}}
OneDefinition ==
  INSTANCE SymbolTable WITH
    Name <- UNION {{s.name : s \in Range(mod.sigs)} : mod \in Modules},
    declared <- Names(LAMBDA f : TRUE),
    defined <- Names(LAMBDA f : Defines(linked.sigs[f])),
    code <- [n \in Names(LAMBDA f : linked.bodies[f].refs # <<>>) |->
               Meanings(linked, linked.bodies[LookupSymbol(linked.sigs, n)].refs)]
OneDefinitionRule == OneDefinition!Spec

=============================================================================
