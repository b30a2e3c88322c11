------------------------------- MODULE MCOODA -------------------------------
(***************************************************************************)
(* Bounded instance of the OODA modules for TLC: one behaviour is a frame  *)
(* going through its cycles, an audit trail growing rule by rule, or a     *)
(* context being filled and shaved.                                        *)
(***************************************************************************)
EXTENDS OODAFrame, OODAContext

CONSTANTS Focuses

VARIABLES focus, trail

vars == <<focus, frameVars, contextVars, trail>>

Setup(mode, reused, brain, executor, dispatcher, memory, sess, retries) ==
  [mode |-> mode, reused |-> reused, brain |-> brain, executor |-> executor,
   dispatcher |-> dispatcher, memory |-> memory, session |-> sess, retries |-> retries]

MCSetups ==
  { Setup("Run", TRUE, TRUE, TRUE, TRUE, TRUE, TRUE, 1),
    Setup("Run", TRUE, TRUE, TRUE, FALSE, TRUE, FALSE, 0),
    Setup("Run", FALSE, TRUE, TRUE, FALSE, TRUE, TRUE, 1),
    Setup("Run", TRUE, FALSE, TRUE, FALSE, FALSE, FALSE, -1),
    Setup("RunOODA", TRUE, TRUE, TRUE, FALSE, TRUE, FALSE, 1),
    Setup("RunOODA", FALSE, TRUE, FALSE, TRUE, TRUE, FALSE, 0),
    Setup("RunOODA", FALSE, TRUE, FALSE, FALSE, FALSE, FALSE, 1),
    Setup("EAST", FALSE, TRUE, TRUE, TRUE, TRUE, TRUE, 3),
    Setup("EAST", FALSE, TRUE, FALSE, TRUE, FALSE, FALSE, 1),
    Setup("EAST", TRUE, FALSE, TRUE, FALSE, TRUE, FALSE, 0),
    Setup("Loop", FALSE, TRUE, TRUE, FALSE, FALSE, FALSE, 0),
    Setup("Loop", FALSE, FALSE, FALSE, FALSE, FALSE, FALSE, 0) }

MCTrails ==
  { <<>>, << [tier |-> "T0", bad |-> TRUE] >>, << [tier |-> "T1", bad |-> TRUE] >>,
    << [tier |-> "T2", bad |-> TRUE] >>, << [tier |-> "unknown", bad |-> TRUE] >>,
    << [tier |-> "T0", bad |-> FALSE] >> }

MCScans == {<<0, 0, 0>>, <<0, 3, 2>>, <<2, 3, 3>>}

Atom(p, o, w, n) == [pred |-> p, subj |-> "s", obj |-> o, weight |-> w, size |-> n]

MCAtoms == {Atom("p", "x", 3, 7), Atom("p", "y", 6, 7), Atom("q", "x", 0, 5), Atom("q", "y", 9, 12)}
MCAxioms == {Atom("p", "x", 0, 7)}

Init ==
  /\ focus \in Focuses
  /\ FrameInit /\ (focus = "frame" \/ (registry = {} /\ setup = CHOOSE s \in Setups : TRUE))
  /\ ContextInit
  /\ trail = <<>>

\* A rule of the policy fires and is appended to the audit trail.
MatchRule ==
  /\ Len(trail) < 3
  /\ \E r \in RuleInferences : trail' = Append(trail, r)

Next ==
  \/ focus = "frame" /\ FrameNext /\ UNCHANGED <<focus, contextVars, trail>>
  \/ focus = "context" /\ ContextNext /\ UNCHANGED <<focus, frameVars, trail>>
  \/ focus = "trail" /\ MatchRule /\ UNCHANGED <<focus, frameVars, contextVars>>

Spec == Init /\ [][Next]_vars

FairSpec == Spec /\ WF_vars(focus = "frame" /\ FrameStep /\ UNCHANGED <<focus, contextVars, trail>>)

\* ClassifyViolations finds the worst tier of every audit trail.
WorstTier == WorstTierOf(trail)

\* TieredVerify and ValidateAgainstRules agree on what has to fail.
VerifyAgree == VerifiersAgree(trail)

\* Classification, verification and the context budget agree with their
\* reference definitions.
TiersAndBudgetsExact == WorstTier /\ VerifyAgree /\ ShavingKeepsHeaviest /\ PruningKeepsConflicts
=============================================================================
