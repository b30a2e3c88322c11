--------------------------- MODULE MCMangleRuntime ---------------------------
(***************************************************************************)
(* Positive programs over the atoms a, b (loaded) and d, e (derived).  The *)
(* atom d is also loaded explicitly in some batches: a fact whose          *)
(* predicate is IDB, as the triple/3 facts of std.dl are.                  *)
(***************************************************************************)
EXTENDS MonotoneRuntime, TLC

CONSTANTS q1, q2, r1, r2

MCFacts == {"a", "b", "d", "e"}
MCUnits == {"p1", "p2", "builtin"}
RulesOf(u) ==
    CASE u = "p1" -> {[head |-> "d", body |-> {"a"}]}
      [] u = "p2" -> {[head |-> "e", body |-> {"d", "b"}]}
      [] u = "builtin" -> {[head |-> "d", body |-> {"b"}]}
Rules(U) == UNION {RulesOf(u) : u \in U}

RECURSIVE Fixpoint(_, _)
Fixpoint(R, X) ==
    LET Y == X \union {r.head : r \in {s \in R : s.body \subseteq X}}
    IN  IF Y = X THEN X ELSE Fixpoint(R, Y)

MCEval(U, X) == Fixpoint(Rules(U), X)
MCIdb(U) == {r.head : r \in Rules(U)}
MCRequests == {{}, {"b"}}
MCBatches == {{"a"}, {"b"}, {"d"}}
MCLoadPaths == {<<{"p1", "p2"}, {"a"}>>}
NoLoadPaths == {}
OneQuerier == {q1}
TwoQueriers == {q1, q2}
QuerierSymmetry == Permutations(TwoQueriers)
OneReloader == {r1}
TwoReloaders == {r1, r2}
NoProc == {}
=============================================================================
