---------------------------- MODULE MCPolicyGate ----------------------------
(***************************************************************************)
(* Policies that halt input and output alike, or the output only: each     *)
(* kind of halt alone, and the mixtures in which the order of the tiers or *)
(* of the queries decides.                                                 *)
(***************************************************************************)
EXTENDS PolicyGate

CONSTANTS c1, c2

H(ts, two, one) == [halt3 |-> ts, halt2 |-> two, halt1 |-> one]
HaltSets == {H({}, FALSE, FALSE), H({}, TRUE, FALSE), H({}, TRUE, TRUE), H({}, FALSE, TRUE),
             H({"T1", "T3"}, FALSE, FALSE), H({"T2"}, FALSE, FALSE),
             H({"T3", "Unknown"}, FALSE, FALSE), H({"T3"}, TRUE, FALSE),
             H({"T0", "T1"}, FALSE, FALSE)}
MCPolicies ==
    {[e \in Entities |-> h] : h \in HaltSets}
      \union {[e \in Entities |-> IF e = "Req" THEN H({}, FALSE, FALSE) ELSE h] : h \in HaltSets}
BothCalls == {c1, c2}
OneCall == {c1}
UnnamedCall == {c2}
NoCall == {}
=============================================================================
