----------------------------- MODULE CallGraph -----------------------------
(***************************************************************************)
(* The call graph of a module, its strongly connected components and the   *)
(* order the analyses of whole modules visit them in                       *)
(* (crates/codegen/src/module_analysis.rs).  A graph is a function from    *)
(* the functions, numbered, to the sets of functions they call.            *)
(***************************************************************************)
EXTENDS Integers, FiniteSets, Sequences, SequencesExt

Least(S) == CHOOSE x \in S : \A y \in S : x <= y
Smaller(x, y) == IF x <= y THEN x ELSE y
\* A set in order, and a set of numbers in increasing order.
SortedBy(S, Less(_, _)) ==
  [k \in 1 .. Cardinality(S) |-> CHOOSE x \in S : Cardinality({y \in S : Less(y, x)}) = k - 1]
Sorted(S) == SortedBy(S, <)

-----------------------------------------------------------------------------
\* SccBuilder: index is 0 for a function that was not visited; a function is on the stack
\* until its component is stored; calls are the calls of strong_component that have not
\* returned, innermost last, with the callees they have not come to.
SccStart(g) == [index |-> [f \in DOMAIN g |-> 0], lowlink |-> [f \in DOMAIN g |-> 0],
                next |-> 1, stack |-> <<>>, sccs |-> <<>>, calls |-> <<>>]

StrongComponent(s, g, func) ==
  [index |-> [s.index EXCEPT ![func] = s.next], lowlink |-> [s.lowlink EXCEPT ![func] = s.next],
   next |-> s.next + 1, stack |-> Append(s.stack, func), sccs |-> s.sccs,
   calls |-> Append(s.calls, [func |-> func, left |-> g[func]])]

\* The component on the stack from func on.
StoreScc(s, g, func) ==
  LET at == CHOOSE i \in DOMAIN s.stack : s.stack[i] = func
      scc == ToSet(SubSeq(s.stack, at, Len(s.stack)))
  IN [s EXCEPT !.stack = SubSeq(@, 1, at - 1),
               !.sccs = Append(@, [components |-> scc,
                                   is_cycle |-> Cardinality(scc) > 1 \/ func \in g[func]])]

\* The innermost call came to the callee, and has l to go by.
Lower(s, func, l) == [s EXCEPT !.lowlink[func] = Smaller(@, l)]
VisitCallee(s, g, call, callee) ==
  LET t == [s EXCEPT !.calls = Append(Front(@), [func |-> call.func, left |-> call.left \ {callee}])]
  IN IF s.index[callee] = 0 THEN StrongComponent(t, g, callee)
     ELSE IF callee \in ToSet(s.stack) THEN Lower(t, call.func, s.index[callee]) ELSE t

\* The innermost call returns.
Leave(s, g, func) ==
  LET t == IF s.lowlink[func] = s.index[func] THEN StoreScc(s, g, func) ELSE s
      back == [t EXCEPT !.calls = Front(@)]
  IN IF back.calls = <<>> THEN back ELSE Lower(back, Last(back.calls).func, s.lowlink[func])

SccStep(s, g) ==
  LET unvisited == {f \in DOMAIN g : s.index[f] = 0}
      call == Last(s.calls)
  IN IF s.calls # <<>>
     THEN IF call.left = {} THEN Leave(s, g, call.func) ELSE VisitCallee(s, g, call, Least(call.left))
     ELSE IF unvisited # {} THEN StrongComponent(s, g, Least(unvisited)) ELSE s

\* The components in the order they are stored: an SccRef is a position.  A step visits a
\* function, comes to a callee or returns.
ComputeScc(g) ==
  LET n == Cardinality(DOMAIN g)
      run[k \in 0 .. n * (n + 2)] == IF k = 0 THEN SccStart(g) ELSE LET s == run[k - 1] IN SccStep(s, g)
  IN run[n * (n + 2)].sccs

SccOf(sccs, f) == CHOOSE i \in DOMAIN sccs : f \in sccs[i].components
\* The other components a component calls.
SuccSccs(sccs, g) ==
  [i \in DOMAIN sccs |-> {SccOf(sccs, c) : c \in UNION {g[f] : f \in sccs[i].components}} \ {i}]

-----------------------------------------------------------------------------
\* Of the components no component left calls, the one of least reference comes next.
Placed(succ, topo) ==
  LET left == DOMAIN succ \ ToSet(topo)
      ready == {i \in left : \A j \in left : i \notin succ[j]}
  IN IF ready = {} THEN topo ELSE Append(topo, Least(ready))
TopoSortSccs(sccs, succ) ==
  LET topo[k \in 0 .. Len(sccs)] == IF k = 0 THEN <<>> ELSE LET before == topo[k - 1] IN Placed(succ, before)
  IN topo[Len(sccs)]

\* The functions, callees first, as the analyses that go from callees to callers see them.
CalleesFirst(sccs, succ) == Reverse(TopoSortSccs(sccs, succ))
=============================================================================
