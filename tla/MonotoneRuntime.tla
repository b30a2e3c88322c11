--------------------------- MODULE MonotoneRuntime ---------------------------
(***************************************************************************)
(* The runtime over programs without negation, aggregation or external     *)
(* predicates.  Evaluation is then the least fixpoint above the facts.     *)
(***************************************************************************)
EXTENDS MangleRuntime

ASSUME MonotoneAssumption ==
    /\ \A U, V \in SUBSET Units, X, Y \in SUBSET Facts :
          U \subseteq V /\ X \subseteq Y => Eval(U, X) \subseteq Eval(V, Y)
    /\ \A U \in SUBSET Units, X \in SUBSET Facts : Eval(U, Eval(U, X)) = Eval(U, X)
=============================================================================
