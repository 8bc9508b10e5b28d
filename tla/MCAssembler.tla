---------------------------- MODULE MCAssembler ----------------------------
(***************************************************************************)
(* TLC instances: two functions of two and one blocks around the widths    *)
(* where an address needs one byte more.                                   *)
(***************************************************************************)
EXTENDS Assembler

Fills == {Ops(1), Ops(123), Ops(248), Ops(250)}
Pushes == {PushLabel(1), PushLabel(2), PushLabel(6), PushFunc(1), PushFunc(2),
           PushSym(<<"func", 2>>, "addr"), PushSym(<<"func", 1>>, "size"),
           PushSym(<<"data", 2>>, "addr")}

\* The first function: a push, some code, another push; then a block with a push.  The
\* second function: a push that may refer to itself.
Sections ==
  {[funcs |-> << <<Start, Ops(1), p, fill, q, Start, Ops(1), r>>, <<Start, Ops(2), s, Ops(1)>> >>,
    data |-> <<3, 300>>] :
     p \in Pushes, q \in Pushes, r \in Pushes \ {PushLabel(2), PushFunc(1)}, fill \in Fills,
     s \in {PushLabel(3), PushFunc(2), PushSym(<<"data", 1>>, "addr"),
            PushSym(<<"data", 3>>, "size")}}

=============================================================================
