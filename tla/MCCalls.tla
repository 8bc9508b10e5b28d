------------------------------ MODULE MCCalls ------------------------------
EXTENDS FuncBehavior

B(calls, effects, succs, exit) ==
  [calls |-> calls, effects |-> effects, succs |-> succs, exit |-> exit]
W == {"MEM_WRITE"}
R == {"MEM_READ"}

\* A call in a straight line, on one way only, before a loop that is left or not, before a
\* stop, twice, or where nothing reaches it.
Bodies(c, d) ==
  { <<B(<<c>>, {}, {}, "return")>>,
    <<B(<<c>>, R, {}, "stop")>>,
    <<B(<<>>, {}, {2, 3}, "none"), B(<<c>>, {}, {}, "return"), B(<<d>>, {}, {}, "stop")>>,
    <<B(<<>>, R, {2, 3}, "none"), B(<<c>>, {}, {3}, "none"), B(<<d>>, {}, {}, "return")>>,
    <<B(<<>>, {}, {1, 2}, "none"), B(<<c>>, {}, {}, "return")>>,
    <<B(<<c>>, {}, {1}, "none")>>,
    <<B(<<d>>, {}, {}, "return"), B(<<c>>, W, {}, "stop")>> }
Leaves ==
  { <<B(<<>>, {}, {}, "return")>>, <<B(<<>>, W, {}, "return")>>, <<B(<<>>, {}, {}, "stop")>>,
    <<B(<<>>, {}, {1}, "none")>> }

F(linkage, blocks) == [linkage |-> linkage, blocks |-> blocks]
Defined(bodies) == {F(l, b) : l \in {"public", "private"}, b \in bodies}
External == F("external", <<>>)

MCModules ==
  {<<f, g, h>> : f \in Defined(Bodies(2, 3)),
                 g \in Defined(Bodies(3, 1) \cup Bodies(1, 3)) \cup {External},
                 h \in Defined(Leaves \cup {<<B(<<2>>, {}, {}, "return")>>}) \cup {External}}
=============================================================================
