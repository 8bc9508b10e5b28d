----------------------------- MODULE MCObjects -----------------------------
(***************************************************************************)
(* TLC instances: up to three of these modules in every order, linked at   *)
(* once or appended, and then compiled.                                    *)
(***************************************************************************)
EXTENDS ObjectCompiler

Imm == <<"imm">>
Fields == <<"struct", <<Imm, Imm>> >>
Body(refs) == [ctx |-> 1, refs |-> refs]
Ref(k, r) == [k |-> k, r |-> r]
Stub == Body(<<>>)
Module(types, gvs, sigs, bodies, objects) ==
  [triple |-> "evm", types |-> types, gvs |-> gvs, sigs |-> sigs, bodies |-> bodies, objects |-> objects]

\* Names.
S == 1  T == 2
f == 1  h == 2  p == 3
g == 1  k == 2
Obj == 1  Lib == 2

Entry(r) == Ref("entry", r)
Embed(object, section, sym) == [k |-> "embed", r |-> sym, obj |-> object, sec |-> section]
Section(name, dirs) == [name |-> name, dirs |-> dirs]

\* f calls h, which is elsewhere; a list node and a global.
User ==
  Module(<<Struct(S, <<I32, 2>>, FALSE), Ptr(1)>>,
         <<Gv(g, I256, "public", Imm)>>,
         <<Sig(f, <<2, I32>>, "public"), Sig(h, <<I32, 2>>, "external")>>,
         <<Body(<<Ref("ty", 2), Ref("call", 2), Ref("symgv", 1)>>), Stub>>,
         Obj :> <<Section(1, <<Entry(1), Ref("data", 1)>>), Section(3, <<Entry(1), Embed(Lib, 2, 7)>>)>>)

\* h and the same list node, found in another order.
Provider ==
  Module(<<Ptr(2), Struct(S, <<I32, 1>>, FALSE), Array(1, 4)>>,
         <<Gv(k, 3, "private", <<>>), Gv(g, I256, "external", <<>>)>>,
         <<Sig(h, <<I32, 1>>, "public"), Sig(p, <<I32>>, "private")>>,
         <<Body(<<Ref("gv", 2), Ref("ty", 3), Ref("fnptr", 2)>>), Body(<<Ref("gv", 1)>>)>>,
         Lib :> <<Section(2, <<Entry(2), Ref("include", 1)>>)>>)

\* A second definition of h, and mutually recursive structs of which one is S.
Rival == [Provider EXCEPT !.types = <<Ptr(2), Struct(S, <<I32, 1>>, FALSE), Array(1, 4), Struct(T, <<5>>, FALSE), Ptr(4)>>,
                          !.gvs = <<Gv(k, 3, "private", <<>>)>>,
                          !.bodies[1].refs = <<Ref("ty", 5)>>,
                          !.objects = <<>>]
\* S is not recursive here.
OtherS ==
  Module(<<Struct(S, <<I32, I32>>, FALSE)>>, <<>>, <<Sig(p, <<1>>, "public")>>,
         <<Body(<<Ref("ty", 1)>>)>>, <<>>)
\* Only declarations, with T before S and the recursion through both.
Caller ==
  Module(<<Array(2, 2), Struct(T, <<3, I8>>, FALSE), Ptr(2)>>, <<Gv(g, I256, "external", <<>>)>>,
         <<Sig(h, <<I32, I32>>, "external")>>, <<Stub>>, <<>>)
Declarer ==
  Module(<<Ptr(2), Struct(S, <<I32, 1>>, FALSE), Array(4, 2), Struct(T, <<5, I8>>, FALSE), Ptr(4)>>,
         <<Gv(g, I256, "external", <<>>)>>,
         <<Sig(h, <<I32, 1>>, "external"), Sig(f, <<1, I32>>, "external")>>, <<Stub, Stub>>, <<>>)
\* Wants a function that is private where it is defined.
Borrower == Module(<<>>, <<>>, <<Sig(p, <<I32>>, "external")>>, <<Stub>>, <<>>)
Foreign == [Declarer EXCEPT !.triple = "other"]

\* Two sections of which the first embeds the second, and that of another object; a
\* function that only its address reaches, one that calls back, and data of all shapes.
Factory ==
  Module(<<Struct(S, <<I8, I1>>, FALSE), Array(1, 2)>>,
         <<Gv(g, 2, "private", <<"array", <<Fields, Fields>> >>), Gv(k, I32, "private", Imm)>>,
         <<Sig(f, <<0>>, "public"), Sig(5, <<0>>, "private"), Sig(4, <<0>>, "private"), Sig(6, <<0>>, "private")>>,
         <<Body(<<Ref("call", 2), Ref("fnptr", 4), Ref("symembed", 7)>>), Body(<<Ref("call", 3), Ref("symgv", 2)>>),
           Body(<<Ref("symfn", 2)>>), Body(<<Ref("symgv", 1)>>)>>,
         Obj :> <<Section(1, <<Ref("include", 3), Entry(1), Embed(0, 3, 7), Ref("include", 3), Embed(Lib, 2, 8)>>),
                  Section(3, <<Entry(2), Ref("data", 1)>>)>>)

Imported(name, dirs, refs) ==
  Module(<<>>, <<>>, <<Sig(h, <<0>>, "public")>>, <<Body(refs)>>,
         Lib :> <<Section(2, <<Entry(1)>> \o dirs)>>)
Leaf == Imported(h, <<>>, <<Ref("ty", I8)>>)
\* Embeds the section that embeds it, one that does not, or itself.
Backward == Imported(h, <<Embed(Obj, 1, 1)>>, <<Ref("symembed", 1)>>)
Sideways == Imported(h, <<Embed(Obj, 3, 1)>>, <<Ref("symembed", 1)>>)
Selfish == Imported(h, <<Embed(0, 2, 1)>>, <<Ref("symembed", 1)>>)
\* Directives and references that cannot be resolved or encoded.
TwoEntries == Imported(h, <<Entry(1)>>, <<Ref("ty", I8)>>)
Unnamed == Imported(h, <<>>, <<Ref("symembed", 9)>>)
Shapeless == [Leaf EXCEPT !.types = <<Array(I8, 2)>>, !.gvs = <<Gv(p, 1, "private", <<"array", <<Imm>> >>)>>,
                          !.bodies[1].refs = <<Ref("symgv", 1)>>]

MCModules == {User, Provider, Rival, OtherS, Caller, Declarer, Borrower, Foreign, Factory, Leaf, Backward,
              Sideways, Selfish, TwoEntries, Unnamed, Shapeless}
=============================================================================
