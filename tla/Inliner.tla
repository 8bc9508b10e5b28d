------------------------------ MODULE Inliner ------------------------------
(***************************************************************************)
(* The inliner (crates/codegen/src/optim/inliner.rs): calls of functions   *)
(* of a single block are removed, sent to another function, or replaced by *)
(* the body.                                                               *)
(*                                                                         *)
(* A module is a sequence of functions [args, code, blocks, users]: the    *)
(* number of arguments, the instructions ever made, the blocks with those  *)
(* inserted, in order, and the users table; a function without blocks is   *)
(* declared only.  A value is <<"arg", k>>, <<"inst", i>> or <<"imm", n>>, *)
(* which stands for globals and undefined values too.  An instruction is   *)
(* [op, args, n]: "op" computes a value, "emit" has a side effect, a call  *)
(* of function n with a result is a "call", without one a "do", "ret" and  *)
(* "exit" end the call and the program, and "br" leads to the blocks n.    *)
(***************************************************************************)
EXTENDS Integers, FiniteSets, Sequences, SequencesExt, TLC

CONSTANTS Modules,    \* the modules explored
          Configs,    \* the InlinerConfigs
          MaxIters    \* MAX_ITERS

VARIABLES given,     \* the module as it was
          config,    \* the InlinerConfig
          mod,       \* the module as it is
          iter,      \* the iterations that changed something
          sites,     \* the call sites of the iteration that are left, in order
          counts,    \* the call sites every function had when the iteration began
          cache,     \* callee_summary_cache
          changed,   \* whether the iteration changed anything
          pc         \* "collect", "inline" or "done"

inlineVars == <<given, config, mod, iter, sites, counts, cache, changed, pc>>

Arg(k) == <<"arg", k>>
Result(i) == <<"inst", i>>
IsTemplate(v) == v[1] # "inst"
IsCall(f, i) == f.code[i].op \in {"call", "do"}
HasResult(f, i) == f.code[i].op \in {"op", "call"}
IsTerminator(f, i) == f.code[i].op \in {"ret", "exit", "br"}
Operands(f, i) == ToSet(f.code[i].args)
Inserted(f) == UNION {ToSet(f.blocks[b]) : b \in DOMAIN f.blocks}
BlockOf(f, i) == CHOOSE b \in DOMAIN f.blocks : i \in ToSet(f.blocks[b])
PlaceOf(f, i) == CHOOSE k \in DOMAIN f.blocks[BlockOf(f, i)] : f.blocks[BlockOf(f, i)][k] = i

\* The users table names exactly the inserted instructions that use a value.
UsersExact(f) == f.users = UNION {{<<v, i>> : v \in Operands(f, i)} : i \in Inserted(f)}

\* What a function f of a module with the functions funcs is: its calls are of those, the
\* layout has an instruction once, and every block ends with a terminator (analyze_callee
\* panics otherwise); the users table is right.
IsSeq(s) == s \in Seq(ToSet(s))
IsInst(funcs, inst) ==
  /\ inst = [op |-> inst.op, args |-> inst.args, n |-> inst.n] /\ IsSeq(inst.args)
  /\ inst.op \in {"call", "do"} => inst.n \in funcs
Once(blocks) ==
  \A b, c \in DOMAIN blocks : \A j \in DOMAIN blocks[b], k \in DOMAIN blocks[c] :
    blocks[b][j] = blocks[c][k] => b = c /\ j = k
Terminated(f, b) == f.blocks[b] # <<>> /\ IsTerminator(f, Last(f.blocks[b]))
IsFunction(funcs, f) ==
  /\ f = [args |-> f.args, code |-> f.code, blocks |-> f.blocks, users |-> f.users]
  /\ IsSeq(f.code) /\ \A i \in DOMAIN f.code : IsInst(funcs, f.code[i])
  /\ f.blocks \in Seq(Seq(DOMAIN f.code)) /\ Once(f.blocks)
  /\ \A b \in DOMAIN f.blocks : Terminated(f, b)
  /\ UsersExact(f)
IsModule(m) == IsSeq(m) /\ \A g \in DOMAIN m : IsFunction(DOMAIN m, m[g])
ASSUME ModulesAssumption == \A m \in Modules : IsModule(m)

-----------------------------------------------------------------------------
(***************************************************************************)
(* analyze_callee: what may be done with the calls of a function; no       *)
(* element when nothing may.                                               *)
(***************************************************************************)
CollectSpliceBody(f, count, body) ==
  IF \/ count # 1 /\ Len(body) > config.splice_max_insts
     \/ config.splice_require_pure /\ \E k \in DOMAIN body : f.code[body[k]].op # "op"
  THEN {} ELSE {body}

AnalyzeSplice(f, count, insts) ==
  IF ~config.enable_single_block_splice THEN {}
  ELSE {[kind |-> "splice", body |-> b, ret |-> f.code[Last(insts)].args] :
          b \in CollectSpliceBody(f, count, Front(insts))}

AnalyzeTerminatorSplice(f, count, insts) ==
  IF ~config.enable_single_block_splice \/ f.code[Last(insts)].op = "br" THEN {}
  ELSE {[kind |-> "exit", body |-> b, term |-> Last(insts)] : b \in CollectSpliceBody(f, count, Front(insts))}

\* A block that only returns.
AnalyzeReturn(ret) ==
  IF ret = <<>> THEN IF config.enable_noop THEN {[kind |-> "remove", returned |-> <<>>]} ELSE {}
  ELSE IF config.enable_return_alias /\ IsTemplate(ret[1]) THEN {[kind |-> "remove", returned |-> ret]} ELSE {}

\* A call, and the return of what it gives.
AnalyzeWrapper(m, g, call, ret) ==
  LET inst == m[g].code[call]
      result == IF inst.op = "call" THEN <<Result(call)>> ELSE <<>>
      same_signature == m[g].args = m[inst.n].args   \* results agree, as result = ret
  IN IF result = ret /\ same_signature /\ \A k \in DOMAIN inst.args : IsTemplate(inst.args[k])
     THEN {[kind |-> "rewrite", callee |-> inst.n, args |-> inst.args]} ELSE {}

AnalyzeCallee(m, g) ==
  LET f == m[g]
      insts == f.blocks[1]
      ret == f.code[Last(insts)].args
  IN IF Len(f.blocks) # 1 THEN {}
     ELSE IF f.code[Last(insts)].op # "ret" THEN AnalyzeTerminatorSplice(f, counts[g], insts)
     ELSE IF Len(insts) = 1 THEN AnalyzeReturn(ret)
     ELSE IF Len(insts) = 2 /\ config.enable_wrapper_rewrite /\ IsCall(f, insts[1])
     THEN AnalyzeWrapper(m, g, insts[1], ret)
     ELSE AnalyzeSplice(f, counts[g], insts)

-----------------------------------------------------------------------------
(***************************************************************************)
(* The edits of the caller.                                                *)
(***************************************************************************)
Untrack(f, i) == [f EXCEPT !.users = {u \in @ : u[2] # i \/ u[1] \notin Operands(f, i)}]
Attach(f, i) == [f EXCEPT !.users = @ \cup {<<v, i>> : v \in Operands(f, i)}]
RemoveInst(f, i) == [Untrack(f, i) EXCEPT !.blocks[BlockOf(f, i)] = RemoveAt(@, PlaceOf(f, i))]
AppendInst(f, b, inst) ==
  Attach([f EXCEPT !.code = Append(@, inst), !.blocks[b] = Append(@, Len(f.code) + 1)], Len(f.code) + 1)
ReplaceInst(f, i, inst) == Attach([Untrack(f, i) EXCEPT !.code[i] = inst], i)

\* change_to_alias: what the users table names uses the alias instead.
ChangeToAlias(f, v, alias) ==
  LET swap(args) == [k \in DOMAIN args |-> IF args[k] = v THEN alias ELSE args[k]]
      swapped(inst) == [inst EXCEPT !.args = swap(inst.args)]
  IN [f EXCEPT !.code = [i \in DOMAIN f.code |-> IF <<v, i>> \in f.users THEN swapped(f.code[i]) ELSE f.code[i]],
               !.users = {IF u[1] = v THEN <<alias, u[2]>> ELSE u : u \in @}]

Materialize(template, args) == IF template[1] = "arg" THEN args[template[2]] ELSE template

\* The result of the call becomes alias, if it has one, and the call goes.
\* Mutant: the removed call stays among the users of its operands.
DropCallTracked(f, call, alias) ==
  LET g == IF HasResult(f, call) THEN ChangeToAlias(f, Result(call), alias) ELSE f
  IN [g EXCEPT !.blocks[BlockOf(g, call)] = RemoveAt(@, PlaceOf(g, call))]
DropCall(f, call, alias) ==
  RemoveInst(IF HasResult(f, call) THEN ChangeToAlias(f, Result(call), alias) ELSE f, call)

ApplyRemove(f, call, plan) ==
  LET ret == plan.returned
      alias == IF ret = <<>> THEN Result(call) ELSE Materialize(ret[1], f.code[call].args)
  IN IF HasResult(f, call) /\ ret = <<>> THEN {} ELSE {DropCall(f, call, alias)}

\* Mutant: the call is sent to the other function with the arguments it has.
RewriteCallee(f, call, plan) ==
  IF f.code[call].n = plan.callee THEN {} ELSE {ReplaceInst(f, call, [f.code[call] EXCEPT !.n = plan.callee])}
ApplyRewrite(f, call, plan) ==
  LET old == f.code[call]
      new == [old EXCEPT !.n = plan.callee,
                         !.args = [k \in DOMAIN plan.args |-> Materialize(plan.args[k], old.args)]]
  IN IF new = old THEN {} ELSE {ReplaceInst(f, call, new)}

\* The value map: the results of the body's instructions are those of the ones made for them.
ValueMap(f, body) ==
  [i \in ToSet(body) |-> Result(Len(f.code) + (CHOOSE k \in DOMAIN body : body[k] = i))]
Mapped(v, map, args) == IF IsTemplate(v) THEN Materialize(v, args) ELSE map[v[2]]
Rewritten(inst, map, args) ==
  [inst EXCEPT !.args = [k \in DOMAIN inst.args |-> Mapped(inst.args[k], map, args)]]

\* Every operand is an argument, a constant, or the result of an instruction before it.
ValueFlows(callee, body, needed) ==
  LET known(k) == {Result(body[j]) : j \in {h \in 1 .. k - 1 : HasResult(callee, body[h])}}
  IN /\ \A k \in DOMAIN body : \A v \in Operands(callee, body[k]) : IsTemplate(v) \/ v \in known(k)
     /\ \A v \in needed : IsTemplate(v) \/ v \in known(Len(body) + 1)

\* The body is made anew, in its order, before place `at` of block b.
SpliceBody(f, b, at, callee, body, map, args) ==
  LET made == [k \in DOMAIN body |-> Rewritten(callee.code[body[k]], map, args)]
      new == [k \in DOMAIN body |-> Len(f.code) + k]
  IN [f EXCEPT !.code = @ \o made,
               !.blocks[b] = SubSeq(@, 1, at - 1) \o new \o SubSeq(@, at, Len(@)),
               !.users = @ \cup UNION {{<<v, new[k]>> : v \in ToSet(made[k].args)} : k \in DOMAIN body}]

ApplySplice(f, call, callee, plan) ==
  LET args == f.code[call].args
      map == ValueMap(f, plan.body)
      s == SpliceBody(f, BlockOf(f, call), PlaceOf(f, call), callee, plan.body, map, args)
      alias == IF plan.ret = <<>> THEN Result(call) ELSE Mapped(plan.ret[1], map, args)
  IN IF \/ HasResult(f, call) /\ plan.ret = <<>>
        \/ callee.args # Len(args) \/ ~ValueFlows(callee, plan.body, ToSet(plan.ret))
     THEN {} ELSE {DropCall(s, call, alias)}

\* The rest of the block goes, and with it the call.
TruncateFrom(f, i) ==
  LET b == BlockOf(f, i)
      rest == ToSet(SubSeq(f.blocks[b], PlaceOf(f, i), Len(f.blocks[b])))
  IN [f EXCEPT !.blocks[b] = SubSeq(@, 1, PlaceOf(f, i) - 1),
               !.users = {u \in @ : u[2] \notin rest \/ u[1] \notin Operands(f, u[2])}]

ApplyExit(f, call, callee, plan) ==
  LET args == f.code[call].args
      map == ValueMap(f, plan.body)
      b == BlockOf(f, call)
      s == SpliceBody(TruncateFrom(f, call), b, PlaceOf(f, call), callee, plan.body, map, args)
  IN IF \/ HasResult(f, call) \/ f.code[Last(f.blocks[b])].op = "br" \/ callee.args # Len(args)
        \/ ~ValueFlows(callee, plan.body, Operands(callee, plan.term))
     THEN {} ELSE {AppendInst(s, b, Rewritten(callee.code[plan.term], map, args))}

ApplyPlan(f, call, callee, plan) ==
  IF call \notin Inserted(f) THEN {}
  ELSE CASE plan.kind = "remove" -> ApplyRemove(f, call, plan)
         [] plan.kind = "rewrite" -> ApplyRewrite(f, call, plan)
         [] plan.kind = "splice" -> ApplySplice(f, call, callee, plan)
         [] plan.kind = "exit" -> ApplyExit(f, call, callee, plan)

-----------------------------------------------------------------------------
(***************************************************************************)
(* Inliner::run                                                            *)
(***************************************************************************)
CollectCallSites(m, g) ==
  LET insts == FlattenSeq(m[g].blocks)
      site(i) == [caller |-> g, inst |-> i, callee |-> m[g].code[i].n]
  IN FlattenSeq([k \in DOMAIN insts |-> IF IsCall(m[g], insts[k]) THEN <<site(insts[k])>> ELSE <<>>])

CollectIteration ==
  /\ pc = "collect"
  /\ sites' = FlattenSeq([g \in DOMAIN mod |-> CollectCallSites(mod, g)])
  /\ counts' = [g \in DOMAIN mod |-> Cardinality({k \in DOMAIN sites' : sites'[k].callee = g})]
  /\ cache' = <<>> /\ changed' = FALSE /\ pc' = "inline"
  /\ UNCHANGED <<given, config, mod, iter>>

\* Mutant: what was found out about the caller is kept though it changed.
Remembered(summaries, caller) == summaries
\* The caller changed: what was found out about it is forgotten.
Forget(summaries, caller) == [g \in DOMAIN summaries \ {caller} |-> summaries[g]]

InlineSite ==
  /\ pc = "inline" /\ sites # <<>>
  /\ LET site == Head(sites)
         callee == site.callee
         summary == IF callee \in DOMAIN cache THEN cache[callee] ELSE AnalyzeCallee(mod, callee)
         known == [g \in DOMAIN cache \cup {callee} |-> IF g = callee THEN summary ELSE cache[g]]
         edited == UNION {ApplyPlan(mod[site.caller], site.inst, mod[callee], plan) : plan \in summary}
     IN IF callee = site.caller /\ ~config.allow_inline_recursive THEN UNCHANGED <<mod, cache, changed>>
        ELSE IF edited = {} THEN cache' = known /\ UNCHANGED <<mod, changed>>
        ELSE /\ \E f \in edited : mod' = [mod EXCEPT ![site.caller] = f]
             /\ cache' = Forget(known, site.caller)
             /\ changed' = TRUE
  /\ sites' = Tail(sites)
  /\ UNCHANGED <<given, config, iter, counts, pc>>

EndIteration ==
  /\ pc = "inline" /\ sites = <<>>
  /\ iter' = IF changed THEN iter + 1 ELSE iter
  /\ pc' = IF changed /\ iter + 1 < MaxIters THEN "collect" ELSE "done"
  /\ UNCHANGED <<given, config, mod, sites, counts, cache, changed>>

Init == /\ given \in Modules /\ config \in Configs
        /\ mod = given /\ iter = 0 /\ sites = <<>> /\ counts = <<>> /\ cache = <<>>
        /\ changed = FALSE /\ pc = "collect"
Next == CollectIteration \/ InlineSite \/ EndIteration
Spec == Init /\ [][Next]_inlineVars

-----------------------------------------------------------------------------
\* The users table of every function names exactly the inserted instructions that use a
\* value, whatever was replaced, spliced, renamed and cut off.
UsersKept == \A g \in DOMAIN mod : UsersExact(mod[g])

\* What the inliner remembers of a function is what it would find out about it now, though
\* the function may have been edited as a caller in the meantime.
CacheFresh == pc = "inline" => \A g \in DOMAIN cache : cache[g] = AnalyzeCallee(mod, g)

=============================================================================
