----------------------------- MODULE MCInliner -----------------------------
EXTENDS Inliner, Paths

(***************************************************************************)
(* What a module means: what a call of one of its functions emits, and how *)
(* it ends.  A declared function emits its arguments and gives their sum.  *)
(***************************************************************************)
CONSTANT MaxDepth   \* calls nested deeper are not followed

Sum(values) == FoldLeft(+, 0, values)
Evaluate(v, s) ==
  CASE v[1] = "imm" -> v[2]
    [] v[1] = "arg" -> s.args[v[2]]
    [] OTHER -> IF v[2] \in DOMAIN s.env THEN s.env[v[2]] ELSE -99

\* A call that runs: out is what it emitted; end is how it ended, "" while it runs, and val
\* what it gave; next is the block that follows.
Entered(args) == [args |-> args, env |-> <<>>, out |-> <<>>, end |-> "", val |-> 0, next |-> 1]
Ended(s, end, val) == [s EXCEPT !.end = end, !.val = val]

RECURSIVE Invoke(_, _, _, _), RunBlocks(_, _, _, _)

Step(m, g, s, i, depth) ==
  LET inst == m[g].code[i]
      vals == [k \in DOMAIN inst.args |-> Evaluate(inst.args[k], s)]
  IN CASE s.end # "" -> s
       [] inst.op = "op" -> [s EXCEPT !.env = (i :> Sum(vals) + inst.n) @@ @]
       [] inst.op = "emit" -> [s EXCEPT !.out = Append(@, vals[1] + inst.n)]
       [] inst.op = "ret" -> Ended(s, "ret", Sum(vals))
       [] inst.op = "exit" -> Ended(s, "exit", Sum(vals))
       [] inst.op = "br" -> [s EXCEPT !.next = inst.n[IF vals = <<>> \/ vals[1] = 0 THEN 1 ELSE Len(inst.n)]]
       [] OTHER -> With(Invoke(m, inst.n, vals, depth - 1), LAMBDA r :
                     [s EXCEPT !.out = @ \o r.out, !.env = (i :> r.val) @@ @,
                               !.end = IF r.end = "ret" THEN "" ELSE r.end,
                               !.val = r.val])

RunBlocks(m, g, s, depth) ==
  With(Foldl(LAMBDA t, i : Step(m, g, t, i, depth), s, m[g].blocks[s.next]), LAMBDA t :
    IF t.end # "" THEN t ELSE RunBlocks(m, g, t, depth))

Invoke(m, g, args, depth) ==
  IF depth = 0 THEN Ended(Entered(args), "deep", 0)
  ELSE IF m[g].blocks = <<>> THEN Ended([Entered(args) EXCEPT !.out = args], "ret", Sum(args))
  ELSE RunBlocks(m, g, Entered(args), depth)

Meaning(m, g, args) ==
  With(Invoke(m, g, args, MaxDepth), LAMBDA r : [out |-> r.out, end |-> r.end, val |-> r.val])

Inputs(f) == [1 .. f.args -> {0, 1}]

\* At every moment every function emits what it did before the inliner began, in the same
\* order, and ends the same way; what was nested too deep to tell may not be any more.
MeaningKept ==
  \A g \in DOMAIN mod : \A args \in Inputs(given[g]) :
    LET before == Meaning(given, g, args)
    IN before.end = "deep" \/ Meaning(mod, g, args) = before

-----------------------------------------------------------------------------
(***************************************************************************)
(* The instance.                                                           *)
(***************************************************************************)

I(op, args, n) == [op |-> op, args |-> args, n |-> n]
A == Arg(1)
R(i) == Result(i)
Imm(n) == <<"imm", n>>
Ret(v) == I("ret", <<v>>, 0)
Emit(v, n) == I("emit", <<v>>, n)
F(code, blocks) ==
  [args |-> 1, code |-> code, blocks |-> blocks,
   users |-> UNION {{<<v, i>> : v \in ToSet(code[i].args)} : i \in DOMAIN code}]
One(code) == F(code, <<[i \in DOMAIN code |-> i]>>)
Declared == F(<<>>, <<>>)

\* Functions of a single block that call functions c and d.
Single(c, d) == {
  One(<<I("call", <<A>>, c), Ret(R(1))>>),
  One(<<I("call", <<Imm(1)>>, c), Ret(R(1))>>),
  One(<<I("call", <<A>>, c), I("call", <<R(1)>>, d), Emit(R(2), 5), Ret(R(1))>>),
  One(<<I("op", <<A>>, 1), I("call", <<R(1)>>, c), Emit(R(2), 7), I("op", <<R(2), R(1)>>, 0), Ret(R(4))>>),
  One(<<Emit(A, 3), I("do", <<A>>, c), I("do", <<Imm(0)>>, d), I("exit", <<A>>, 0)>>),
  One(<<I("do", <<A>>, c), Ret(A)>>)}
\* Calls of c and d in blocks of a branch.
Branching(c, d) == {
  F(<<I("br", <<A>>, <<2, 3>>), I("call", <<A>>, c), Ret(R(2)), I("do", <<Imm(1)>>, d), Ret(Imm(1))>>,
    <<<<1>>, <<2, 3>>, <<4, 5>>>>),
  F(<<I("do", <<A>>, c), I("br", <<A>>, <<2, 3>>), I("call", <<A>>, d), I("br", <<>>, <<3>>), Ret(A)>>,
    <<<<1, 2>>, <<3, 4>>, <<5>>>>)}
Leaves == {
  One(<<Ret(A)>>), One(<<Ret(Imm(4))>>),
  One(<<Emit(A, 9), Ret(A)>>),
  One(<<I("op", <<A>>, 2), Emit(R(1), 9), Emit(A, 1), Ret(R(1))>>),
  One(<<I("exit", <<A>>, 0)>>), One(<<Emit(A, 2), I("op", <<A>>, 1), I("exit", <<R(2)>>, 0)>>),
  Declared}

\* Functions that give nothing.
Void(c) == {One(<<I("ret", <<>>, 0)>>), One(<<Emit(A, 6), I("ret", <<>>, 0)>>),
            One(<<I("do", <<Imm(2)>>, c), I("ret", <<>>, 0)>>)}
VoidCallers == {One(<<I("do", <<A>>, 2), I("do", <<Imm(1)>>, 3), Ret(A)>>),
                F(<<I("br", <<A>>, <<2, 3>>), I("do", <<A>>, 2), I("ret", <<A>>, 0), I("do", <<A>>, 3), Ret(A)>>,
                  <<<<1>>, <<2, 3>>, <<4, 5>>>>)}

MCModules ==
  {<<f, g, h>> : f \in VoidCallers, g \in Void(3), h \in Void(2)} \cup
  {<<f, g, h>> : f \in Single(2, 3) \cup Single(2, 1) \cup Branching(2, 3),
                 g \in Single(3, 1) \cup Single(1, 3) \cup Single(3, 3) \cup Branching(3, 1) \cup Leaves,
                 h \in Leaves \cup Single(2, 3)}

Config(pure, max, recursive, others) ==
  [enable_noop |-> others, enable_return_alias |-> others, enable_wrapper_rewrite |-> others,
   enable_single_block_splice |-> TRUE, splice_require_pure |-> pure, splice_max_insts |-> max,
   allow_inline_recursive |-> recursive]
\* The defaults but for the length of a body, pure bodies only, and recursive functions.
MCConfigs == {Config(FALSE, 2, FALSE, TRUE), Config(TRUE, 8, FALSE, TRUE), Config(FALSE, 3, TRUE, FALSE)}
=============================================================================
