----------------------------- MODULE OODAVerify -----------------------------
(***************************************************************************)
(* Post-act verification of x/ooda/verify.go: how an audit trail is        *)
(* classified into a trust tier and an AuditResult, and when the           *)
(* refinement loop of x/east/run.go has to stop.                           *)
(*                                                                         *)
(* A matched rule is [tier |-> core tier, bad |-> isViolation(name)].      *)
(* Entropy is a rational number, a pair <<numerator, denominator>>.        *)
(***************************************************************************)
EXTENDS Integers, Sequences, SequencesExt, FiniteSetsExt

CoreTiers == {"T0", "T1", "T2", "T3", "unknown"}

RuleInferences == [tier : CoreTiers, bad : BOOLEAN]

\* isViolation: the rule's name says halt, deny, violation or prohibited.
isViolation(rule) == rule.bad

\* mapCoreTier: a tier the core does not know is a user rule.
mapCoreTier(t) == IF t = "unknown" THEN "T3" ELSE t

\* tierOrder: lower is more severe; the zero value of TrustTier comes last.
tierOrder(t) ==
  CASE t = "T0" -> 0 [] t = "T1" -> 1 [] t = "T2" -> 2 [] t = "T3" -> 3
    [] OTHER -> 4

\* ClassifyViolations: the most severe tier of a violation, T3 if none.
ClassifyViolations(trail) ==
  LET worse(rule, worst) ==
        IF isViolation(rule) /\ tierOrder(mapCoreTier(rule.tier)) < tierOrder(worst)
        THEN mapCoreTier(rule.tier) ELSE worst
  IN  FoldLeft(LAMBDA worst, rule : worse(rule, worst), "T3", trail)

\* EntropyDelta in tenths.
Delta(tier) ==
  CASE tier = "T0" -> 10 [] tier = "T1" -> 5 [] tier = "T2" -> 2
    [] tier = "T3" -> 1 [] OTHER -> 0

\* The AuditResult of a frame without a Brain: nothing was looked at.
NoBrainAudit == [Pass |-> TRUE, ViolationTier |-> "", EntropyDelta |-> 0]

\* ValidateAgainstRules: any violation fails, whatever its tier.
ValidateAgainstRules(trail) ==
  LET worst == ClassifyViolations(trail)
  IN  [Pass |-> /\ \A i \in DOMAIN trail : ~isViolation(trail[i])
                /\ worst \notin {"T0", "T1"},
       ViolationTier |-> worst,
       EntropyDelta |-> Delta(worst)]

\* TieredVerify that goes on after a T0 violation.
TieredVerifyToTheEnd(trail) ==
  LET note(r, rule) ==
        IF ~isViolation(rule) THEN r
        ELSE [r EXCEPT !.Pass = @ /\ rule.tier \notin {"T0", "T1"},
                       !.EntropyDelta = Delta(rule.tier)]
  IN  FoldLeft(note, [Pass |-> TRUE, ViolationTier |-> ClassifyViolations(trail),
                      EntropyDelta |-> 0], trail)

\* TieredVerify: the rules in order, up to and including the first T0
\* violation; T0 and T1 fail; the last violation with a known tier sets the
\* delta.
TieredVerify(trail) ==
  LET note(r, rule) ==
        IF r.halted \/ ~isViolation(rule) THEN r
        ELSE [Pass |-> r.Pass /\ rule.tier \notin {"T0", "T1"},
              EntropyDelta |-> IF rule.tier = "unknown" THEN r.EntropyDelta
                               ELSE Delta(rule.tier),
              halted |-> rule.tier = "T0"]
      end == FoldLeft(note, [Pass |-> TRUE, EntropyDelta |-> 0, halted |-> FALSE],
                      trail)
  IN  [Pass |-> end.Pass, ViolationTier |-> ClassifyViolations(trail),
       EntropyDelta |-> end.EntropyDelta]

\* CalculateEntropy: conflicts over rules, at most 1, and 0 without rules.
CalculateEntropy(conflicts, rules) ==
  IF rules = 0 THEN <<0, 1>> ELSE <<Min({conflicts, rules}), rules>>

\* UpdateEntropy: old + violations / rules, at most 1.
UpdateEntropy(old, violations, rules) ==
  IF rules = 0 THEN old
  ELSE LET num == old[1] * rules + violations * old[2]
           den == old[2] * rules
       IN  IF num >= den THEN <<1, 1>> ELSE <<num, den>>

\* entropy > tenths / 10 and entropy < tenths / 10.
Above(entropy, tenths) == 10 * entropy[1] > tenths * entropy[2]
Below(entropy, tenths) == 10 * entropy[1] < tenths * entropy[2]

\* ShouldTerminate: "" lets the refinement go on.
ShouldTerminate(audit, retryCount, maxRetries, entropy) ==
  CASE audit.ViolationTier = "T0" -> "t0_violation"
    [] audit.ViolationTier # "T0" /\ retryCount >= maxRetries -> "max_iterations"
    [] OTHER -> IF Above(entropy, 9) THEN "chaos_threshold" ELSE ""

(***************************************************************************)
(* What the three readings of one audit trail promise each other.          *)
(***************************************************************************)
Tiers(trail) ==
  {mapCoreTier(trail[i].tier) : i \in {j \in DOMAIN trail : trail[j].bad}}

\* ClassifyViolations returns a tier of the trail that no violation of the
\* trail beats, whatever the order in which the rules fired.
WorstTierOf(trail) ==
  LET worst == ClassifyViolations(trail)
  IN  /\ worst \in Tiers(trail) \cup {"T3"}
      /\ \A t \in Tiers(trail) : tierOrder(worst) <= tierOrder(t)

\* TieredVerify, which looks at the rules one by one and stops at T0, fails a
\* trail exactly when its worst tier is T0 or T1; ValidateAgainstRules, which
\* looks at the worst tier, fails all of those trails too; and a T0 trail has
\* the maximal entropy in both although the two stop at different rules.
VerifiersAgree(trail) ==
  LET tiered == TieredVerify(trail)
      strict == ValidateAgainstRules(trail)
  IN  /\ ~tiered.Pass <=> tiered.ViolationTier \in {"T0", "T1"}
      /\ strict.Pass => tiered.Pass
      /\ strict.ViolationTier = "T0" =>
           strict.EntropyDelta = 10 /\ tiered.EntropyDelta = 10
=============================================================================
