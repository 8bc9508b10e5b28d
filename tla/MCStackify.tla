---- MODULE MCStackify ----
(* Small functions with every way into and out of a block, planned for short *)
(* reaches, so that values must be rotated, deleted, spilled and reloaded.   *)
EXTENDS StackMachine

I(kind, res, args, dests) == [kind |-> kind, res |-> res, args |-> args, dests |-> dests]
Op(res, args) == I("op", res, args, <<>>)
Comm(res, args) == I("comm", res, args, <<>>)
CallOf(res, args) == I("call", res, args, <<>>)
Phi(res, args, from) == I("phi", res, args, from)
JumpTo(b) == I("jump", 0, <<>>, <<b>>)
BrOn(v, b, c) == I("br", 0, <<v>>, <<b, c>>)
TableOn(v, cases, dests) == I("br_table", 0, <<v>> \o cases, dests)
Ret(args) == I("ret", 0, args, <<>>)
Stop == I("exit", 0, <<>>, <<>>)

\* Values 1 and 2 are the arguments and 20 is an immediate; blocks are numbered
\* in reverse post-order, and no edge is critical.
Fn(code) == [entry |-> 1, args |-> <<1, 2>>, imms |-> {20}, rpo |-> [b \in DOMAIN code |-> b],
             code |-> code]

\* One block; the operands that vary are used once, twice or for the last time.
Line(x, y) ==
    Fn(<<<<Op(3, <<1, x>>), Comm(4, <<y, 3>>), Op(5, <<1, 2, 4>>), Ret(<<5>>)>>>>)

\* Calls with two operands and with none, a result nobody reads and one kept
\* across the next call.
Calls(x, y) ==
    Fn(<<<<CallOf(3, <<x, 2>>), CallOf(4, <<>>), Op(0, <<y>>), CallOf(5, <<3>>),
           Op(6, <<1, 3, 5>>), Ret(<<6>>)>>>>)

\* A branch and its join, where two phis take what the sides computed.
Diamond(x, y) ==
    Fn(<<<<Op(3, <<1>>), BrOn(x, 2, 3)>>,
         <<Op(4, <<2, 3>>), JumpTo(4)>>,
         <<Op(5, <<1>>), JumpTo(4)>>,
         <<Phi(6, <<5, 4>>, <<3, 2>>), Phi(7, <<1, y>>, <<3, 2>>),
           Op(8, <<6, 7, 3>>), Ret(<<8>>)>>>>)

\* A loop whose phis exchange their values or keep them, and a value from before
\* it that is read after it.
Loop(x, y) ==
    Fn(<<<<Op(3, <<1, 2>>), JumpTo(2)>>,
         <<Phi(4, <<1, x>>, <<1, 4>>), Phi(5, <<2, y>>, <<1, 4>>),
           Op(6, <<4, 5>>), BrOn(6, 4, 3)>>,
         <<Op(8, <<3, 5>>), Ret(<<8>>)>>,
         <<Op(7, <<4, 3>>), JumpTo(2)>>>>)

\* A loop around a call, and values from before it read in it and after it.
CallLoop(x, y) ==
    Fn(<<<<Op(3, <<1>>), CallOf(4, <<2>>), Op(5, <<4, 1>>), JumpTo(2)>>,
         <<Phi(6, <<3, x>>, <<1, 4>>), Op(7, <<6, 4>>), BrOn(7, 4, 3)>>,
         <<Op(10, <<4, 5, y>>), Ret(<<10>>)>>,
         <<Op(8, <<6, 5>>), CallOf(9, <<6>>), Op(0, <<9, 3>>), JumpTo(2)>>>>)

\* A loop that is entered at two blocks.
TwoEntries(x, y) ==
    Fn(<<<<Op(3, <<1, 2>>), BrOn(3, 3, 2)>>,
         <<Op(4, <<x>>), JumpTo(7)>>,
         <<Op(5, <<2, 1>>), JumpTo(4)>>,
         <<Phi(6, <<5, y>>, <<3, 7>>), Op(7, <<6, 1>>), BrOn(7, 6, 5)>>,
         <<Op(8, <<6, 2, 3>>), Ret(<<8>>)>>,
         <<JumpTo(7)>>,
         <<Phi(9, <<4, 6>>, <<2, 6>>), Op(10, <<9, 2, 3>>), JumpTo(4)>>>>)

\* A br_table with a case that is no immediate and a default, after which the
\* program stops, or returns nothing.
Table(x, y) ==
    Fn(<<<<Op(3, <<1, 2>>), TableOn(x, <<20, 2>>, <<4, 3, 2>>)>>,
         <<Ret(<<>>)>>,
         <<Op(0, <<y, 3>>), Ret(<<>>)>>,
         <<Op(0, <<3>>), Stop>>>>)

Shapes ==
    {Line(x, y) : x \in {1, 2, 20}, y \in {1, 2, 20}}
    \cup {Calls(x, y) : x \in {1, 2, 20}, y \in {1, 2, 3, 4}}
    \cup {Diamond(x, y) : x \in {1, 2, 3}, y \in {2, 3, 4, 20}}
    \cup {Loop(x, y) : x \in {4, 5, 7}, y \in {4, 5, 7, 20}}
    \cup {CallLoop(x, y) : x \in {1, 4, 6, 8, 9}, y \in {1, 2, 6}}
    \cup {TwoEntries(x, y) : x \in {1, 2, 3}, y \in {2, 3, 9, 10}}
    \cup {Table(x, y) : x \in {1, 2, 3}, y \in {1, 2, 3}}

\* A spilled phi is stored from where its operand was left, which DUP must reach.
PhisInReach(f, reach) == \A b \in BlocksOf(f) : Cardinality(PhisIn(f, b)) <= reach

\* No call may lose what only phis take after it.
PhisTake(f, b) == UNION {Elements(PhiArgsFrom(f, b, s)) : s \in SuccsOf(f)[b]}
ComputedFrom(f, bi) == {f.code[bi[1]][i].res : i \in bi[2] .. Len(f.code[bi[1]])}
CallsKnown(f) ==
    \A bi \in InstsOf(f) : At(f, bi).kind = "call" =>
        PhisTake(f, bi[1]) \subseteq ComputedFrom(f, bi) \cup f.imms \cup Context(f, 1, 1).scratch_live

AllCases == {c \in [f : Shapes, reach : 1 .. 4, slots : 0 .. 2] : PhisInReach(c.f, c.reach)}
MCCases == {c \in AllCases : c.slots = 0 \/ CallsKnown(c.f)}
====
