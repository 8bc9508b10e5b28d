------------------------------ MODULE MCMemory ------------------------------
EXTENDS EvmMemory

\* The default weights, and those of a chain where memory is dear and code is free.
MCCostModels ==
  {[w_mem |-> 1, w_save |-> 1, w_code |-> 200, w_stack |-> 0, max_save |-> 3],
   [w_mem |-> 1000, w_save |-> 1, w_code |-> 0, w_stack |-> 1, max_save |-> 4]}

I(op, args, n) == [op |-> op, args |-> args, n |-> n, to |-> <<>>, ptr |-> FALSE]
P(op, args, n) == [op |-> op, args |-> args, n |-> n, to |-> <<>>, ptr |-> TRUE]
J(op, to) == [op |-> op, args |-> <<>>, n |-> 0, to |-> to, ptr |-> FALSE]
PhiOf(args, to, ptr) == [op |-> "phi", args |-> args, n |-> 0, to |-> to, ptr |-> ptr]
Num(k) == I("num", <<>>, k)
Store1(p, x) == I("store", <<p, x>>, 0)
Load1(p) == I("load", <<p>>, 0)
Ret(v) == I("ret", <<v>>, 0)

\* A function with one pointer argument, or none; nothing is spilled yet.
F(code, ends) == [args |-> <<TRUE>>, code |-> code, ends |-> ends, spilled |-> {}]
M(code, ends) == [args |-> <<>>, code |-> code, ends |-> ends, spilled |-> {}]
\* What it spills: nothing, everything, or one value.
Spilling(f) == {[f EXCEPT !.spilled = s] : s \in {{}, Values(f)}}
SpillingOne(f) == {[f EXCEPT !.spilled = s] : s \in {{}, Values(f)} \cup {{v} : v \in Values(f)}}

\* The innermost functions: store to the argument; use local memory; allocate what stays
\* known; write to scratch memory and read the argument.
Leaves == {
  F(<<Num(7), Store1(-1, 1), Ret(1)>>, <<3>>),
  F(<<P("alloca", <<>>, 2), Num(8), Store1(1, 2), Load1(1), Ret(4)>>, <<5>>),
  F(<<P("malloc", <<>>, 1), Num(9), Store1(1, 2), Store1(-1, 1), Ret(2)>>, <<5>>),
  F(<<Num(0), Store1(1, 1), Load1(-1), Ret(3)>>, <<4>>)}
\* Recursive, with local memory across the call of itself.
Recursive ==
  F(<<P("alloca", <<>>, 1), Num(4), Store1(1, 2), J("br", <<2, 3>>),
      I("call", <<-1>>, 3), Load1(1), I("op", <<6>>, 1), J("jump", <<3>>),
      PhiOf(<<2, 7>>, <<1, 2>>, FALSE), Load1(-1), Ret(9)>>, <<4, 8, 11>>)
RecursivePass ==
  F(<<P("alloca", <<>>, 1), Store1(1, -1), J("br", <<2, 3>>),
      I("do", <<1>>, 3), J("jump", <<3>>),
      Load1(1), Load1(6), Ret(7)>>, <<3, 5, 8>>)

Mids == {
  \* local memory and the argument across a call
  F(<<P("alloca", <<>>, 1), Num(5), Store1(1, 2), I("call", <<-1>>, 3), Load1(1), Load1(-1), Ret(4)>>, <<7>>),
  \* local memory given to the callee, and local memory that points to the argument
  F(<<P("alloca", <<>>, 1), P("alloca", <<>>, 1), Store1(1, -1), Num(5), Store1(2, 4), I("do", <<2>>, 3),
      Load1(2), Load1(1), Load1(8), Ret(9)>>, <<10>>),
  \* a call on one way only, and values from both
  F(<<P("alloca", <<>>, 2), Num(5), P("gep", <<1>>, 1), Store1(3, 2), J("br", <<2, 3>>),
      I("call", <<-1>>, 3), Load1(3), J("jump", <<4>>), Num(6), J("jump", <<4>>),
      PhiOf(<<7, 9>>, <<2, 3>>, FALSE), Load1(3), Load1(-1), Ret(11)>>, <<5, 8, 10, 14>>),
  \* a call in a loop
  F(<<P("alloca", <<>>, 1), Num(1), Store1(1, 2), J("jump", <<2>>),
      PhiOf(<<2, 7>>, <<1, 2>>, FALSE), I("do", <<-1>>, 3), Load1(1), J("br", <<2, 3>>),
      Load1(1), Ret(9)>>, <<4, 8, 10>>)
}

\* Functions that give a pointer: the argument, or an allocation.
PtrLeaves == {
  F(<<Num(7), Store1(-1, 1), Ret(-1)>>, <<3>>),
  F(<<P("malloc", <<>>, 1), Num(9), Store1(1, 2), Ret(1)>>, <<4>>),
  F(<<P("alloca", <<>>, 1), Ret(1)>>, <<2>>)}
\* The pointer is used after another call, and kept in local memory meanwhile.
PtrMids == {
  F(<<P("call", <<-1>>, 3), Num(2), Store1(1, 2), P("call", <<1>>, 3), Load1(1), Load1(4), Ret(6)>>, <<7>>),
  F(<<P("alloca", <<>>, 1), P("call", <<-1>>, 3), Store1(1, 2), P("call", <<-1>>, 3), P("load", <<1>>, 0),
      Load1(5), Load1(4), Ret(7)>>, <<8>>),
  F(<<P("alloca", <<>>, 1), P("call", <<1>>, 3), Load1(1), Ret(3)>>, <<4>>)}
\* What the callers do not get to know of: allocations for the time of the call, one of
\* them needed after the other is made.
LocalMallocs == {
  F(<<P("malloc", <<>>, 1), Num(9), Store1(1, 2), Load1(1), Load1(-1), Ret(4)>>, <<6>>),
  F(<<P("malloc", <<>>, 1), Num(9), Store1(1, 2), P("malloc", <<>>, 1), Store1(4, 1), Load1(1), Load1(4),
      Load1(-1), Ret(6)>>, <<9>>)}
\* An allocation, or a copy of the argument, across calls.
MallocMids == {
  F(<<P("malloc", <<>>, 1), Num(5), Store1(1, 2), I("call", <<-1>>, 3), Load1(1), I("do", <<1>>, 3), Load1(1),
      Ret(5)>>, <<8>>),
  F(<<P("malloc", <<>>, 1), Num(5), Store1(1, 2), I("call", <<1>>, 3), Ret(4)>>, <<5>>),
  F(<<P("alloca", <<>>, 1), P("malloc", <<>>, 1), Store1(1, 2), Num(5), Store1(2, 4), I("do", <<-1>>, 3),
      P("load", <<1>>, 0), Load1(7), Ret(8)>>, <<9>>)}
\* Copies of memory, and bytes.
CopyMids == {
  F(<<P("alloca", <<>>, 2), P("gep", <<1>>, 1), Store1(1, -1), I("copy", <<2, 1>>, 1), Num(6),
      I("store8", <<1, 5>>, 0), I("do", <<-1>>, 3), P("load", <<2>>, 0), Load1(8), Ret(9)>>, <<10>>),
  F(<<P("alloca", <<>>, 1), I("fill", <<1>>, 1), I("cast", <<1>>, 0), P("i2p", <<3>>, 0), Num(6),
      Store1(4, 5), I("do", <<4>>, 3), Load1(1), Ret(5)>>, <<9>>)}
\* The middle and the inner function call each other.
Mutual ==
  F(<<P("alloca", <<>>, 1), Num(4), Store1(1, 2), J("br", <<2, 3>>),
      I("call", <<-1>>, 2), Load1(1), J("jump", <<3>>), Load1(-1), Load1(1), Ret(2)>>, <<4, 7, 10>>)

Mains == {
  M(<<P("alloca", <<>>, 2), Num(3), Store1(1, 2), P("gep", <<1>>, 1), Store1(4, 2), I("call", <<1>>, 2),
      Load1(4), I("do", <<4>>, 3), Load1(1), Num(6), I("ret", <<>>, 0)>>, <<11>>),
  M(<<P("malloc", <<>>, 2), Num(3), Store1(1, 2), P("gep", <<1>>, 1), Store1(4, 2), I("call", <<1>>, 2),
      Load1(4), P("malloc", <<>>, 1), Store1(8, 1), I("do", <<4>>, 3), Load1(8), Load1(11), Load1(1), Ret(2)>>, <<14>>)
}
\* The heap starts above all static memory, with an allocation that is returned.
HeapMains == {
  M(<<P("malloc", <<>>, 1), Num(3), Store1(1, 2), P("alloca", <<>>, 1), Store1(4, 1), I("call", <<4>>, 2),
      Load1(1), I("do", <<1>>, 3), P("load", <<4>>, 0), Load1(9), Ret(1)>>, <<11>>)}

Ints == Leaves \cup {Recursive, RecursivePass, F(<<Num(7), Store1(-1, 1), J("stop", <<>>)>>, <<3>>)}
\* The outer and the inner function spill nothing or everything.  No value is made before
\* a call of its block only for a phi of the next block, no function but the outermost
\* makes the first allocation while callers have local memory below, and none that calls
\* itself spills some of its values but not all: the plans of those do not hold.
With3(as, bs, cs) == {<<a, b, c>> : a \in UNION {Spilling(f) : f \in as}, b \in bs,
                                    c \in UNION {Spilling(f) : f \in cs}}
All(fs) == UNION {Spilling(f) : f \in fs}
One(fs) == UNION {SpillingOne(f) : f \in fs}
MCPrograms == With3(Mains, One(Mids), Ints) \cup With3(Mains, All(Mids), {Mutual})
              \cup With3(HeapMains, All(Mids), Ints \cup LocalMallocs \cup {Mutual})
              \cup With3(Mains \cup HeapMains, All(CopyMids), Ints \cup {Mutual})
              \cup With3(Mains, One(PtrMids), PtrLeaves) \cup With3(HeapMains, All(PtrMids), PtrLeaves)
              \cup With3(HeapMains, One(MallocMids), Ints \cup LocalMallocs)
              \cup With3(HeapMains, All(MallocMids), {Mutual})

=============================================================================
