-------------------------------- MODULE MCSsa --------------------------------
(***************************************************************************)
(* TLC instances of SSA construction.  The entry block defines every       *)
(* variable, every block can be reached from it and none branches to it.   *)
(***************************************************************************)
EXTENDS SsaBuilder

Def(x) == [op |-> "def", var |-> x]
Read(x) == [op |-> "read", var |-> x]
Write(x) == [op |-> "write", var |-> x]
Emit == [op |-> "emit"]
Use(x) == <<Read(x), Emit>>

Programs(dests, code, fill) == [dests : dests, code : code, fill : fill]
Orders == {<<1, 2, 3>>, <<3, 2, 1>>}

\* All control flow graphs of three blocks, one variable, which some block reads.
SmallDests == {<<>>, <<2>>, <<3>>, <<2, 3>>, <<2, 2>>}
SmallGraphs ==
  {d \in [1..3 -> SmallDests] :
     \A b \in {2, 3} : \E c \in 1..3 : c # b /\ Contains(d[c], b)
                          /\ (c = 1 \/ Contains(d[1], c))}
SmallCode == {<<>>, Use("x"), <<Def("x")>>, Use("x") \o <<Def("x")>>}
SmallPrograms ==
  Programs(SmallGraphs,
           {c \in [1..3 -> SmallCode] : /\ c[1] = <<Def("x")>>
                                        /\ c[3] # Use("x") \o <<Def("x")>>
                                        /\ \E b \in {2, 3} : Contains(c[b], Read("x"))},
           Orders)

\* Loops of four blocks: nested, irreducible, with two latches, and one whose latch
\* gets both destinations of a branch; two variables, one copied to the other.
LoopGraphs == {
  << <<2>>, <<3, 4>>, <<2, 3>>, <<>> >>,
  << <<2, 3>>, <<3>>, <<2, 4>>, <<>> >>,
  << <<2>>, <<3, 4>>, <<2>>, <<2>> >>,
  << <<2, 3>>, <<4, 4>>, <<4>>, <<2>> >>}
Swap == <<Read("x"), Write("y"), Def("x")>>
LoopCode == [1..4 -> {<<Def("x"), Def("y")>>, Use("x"), Use("y"), Swap}]
LoopPrograms ==
  Programs(LoopGraphs,
           {c \in LoopCode : /\ c[1] = <<Def("x"), Def("y")>>
                             /\ \A b \in 2..4 : c[b] # c[1]},
           {<<1, 2, 3, 4>>})
  \cup
  Programs(LoopGraphs,
           {c \in LoopCode : /\ c[1] = <<Def("x"), Def("y")>>
                             /\ c[2] \in {Use("x"), Swap} /\ c[3] = Swap /\ c[4] = Use("y")},
           {<<4, 2, 3, 1>>})

\* A loop that does not mention the variable used behind it.
PassedPrograms ==
  Programs({<< <<2>>, <<3, 4>>, <<2>>, <<>> >>},
           {<< <<Def("x")>>, <<>>, <<>>, Use("x") >>}, {<<1, 2, 3, 4>>})

MCProgram == SmallPrograms \cup LoopPrograms \cup PassedPrograms

=============================================================================
