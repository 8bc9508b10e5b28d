---- MODULE Paths ----
(* What paths in a graph reach: the reference the analyses of control flow   *)
(* are compared with.                                                       *)
EXTENDS Naturals, FiniteSets, SequencesExt

\* The nodes reachable from S by edges of `next`, a function from each node to
\* the set of those it leads to, on paths that avoid `avoid`.
ReachSteps(next, S, avoid) ==
    LET step[n \in 0 .. Cardinality(DOMAIN next)] ==
            IF n = 0 THEN S \ avoid
            ELSE LET near == step[n - 1]
                 IN near \cup ((UNION {next[b] : b \in near}) \ avoid)
    IN step[Cardinality(DOMAIN next)]

-----------------------------------------------------------------------------
(***************************************************************************)
(* Values that are computed once, and folds that are.                      *)
(***************************************************************************)
\* F(v), with v evaluated once, and in full.
With(v, F(_)) == CHOOSE r \in {F(x) : x \in {y \in {v} : y = y}} : TRUE
\* The fold of a sequence, with every value evaluated once, and in full.
Foldl(F(_, _), base, seq) == FoldLeft(LAMBDA acc, x : With(acc, LAMBDA a : F(a, x)), base, seq)

====
