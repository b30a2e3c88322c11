----------------------------- MODULE PolicyGate -----------------------------
(***************************************************************************)
(* The zero-trust supervisor (internal/supervisor) around the gate of the  *)
(* policy engine (internal/engine/solver.go).  A supervised call runs the  *)
(* gate on its input, executes the wrapped action and runs the gate on the *)
(* output.  A gate asks the runtime for halt/3, then halt/2, then halt/1,  *)
(* each a query of its own, while other goroutines may reload the policy.  *)
(*                                                                         *)
(* A policy is what it derives for the request at hand: for each entity    *)
(* the tiers of its halt/3 facts, and whether it derives halt/2 and        *)
(* halt/1.  A tier that is empty or misspelt is "Unknown".  The violation  *)
(* message and rule-id queries only word the error.                        *)
(***************************************************************************)
EXTENDS Naturals, FiniteSets

CONSTANTS
    Calls,          \* concurrent supervised executions
    Unnamed,        \* those whose action has an empty name
    Policies,       \* the policies that may be in force
    QueryErrors,    \* may a query of the engine fail (timeout, fact limit)?
    MaxReloads      \* bound on policy loads and reloads

Tiers == {"T0", "T1", "T2", "T3", "Unknown"}
Entities == {"Req", "Output"}
Halts == [halt3 : SUBSET Tiers, halt2 : BOOLEAN, halt1 : BOOLEAN]

ASSUME GateAssumption ==
    /\ Unnamed \subseteq Calls
    /\ Policies \subseteq [Entities -> Halts] /\ Policies # {}
    /\ QueryErrors \in BOOLEAN
    /\ MaxReloads \in Nat

VARIABLES
    ready,      \* has a policy been loaded?
    policy,     \* the policy in force, once ready
    reloads,    \* loads and reloads so far
    step,       \* where each call is
    phase,      \* "pre" or "post": which check it is in
    matches,    \* halts found by the check so far
    reported,   \* the tier in the PolicyViolationError, or "none"
    seen,       \* history: policies in force since the check began
    failed      \* history: has a query of the call failed?

vars == <<ready, policy, reloads, step, phase, matches, reported, seen, failed>>
engine == <<ready, policy, reloads>>

TrustTiers == {"Tier0Kernel", "Tier1Admin", "Tier2AI", "Tier3User"}
Blocking == {"Tier0Kernel", "Tier1Admin"}
-----------------------------------------------------------------------------
\* solver.go: the order in which the gate ranks halts.
tierPriority(t) ==
    CASE t = "T0" -> 0 [] t = "T1" -> 1 [] t = "T2" -> 2 [] t = "T3" -> 3 [] OTHER -> 4

\* sdk_adapter.go: the order in which the pre-check ranks them.
tierSeverity(t) ==
    CASE t = "T0" -> 0 [] t = "T1" -> 1 [] t = "T2" -> 2 [] t = "T3" -> 3 [] OTHER -> 1

mapCoreTier(t) ==
    CASE t = "T0" -> "Tier0Kernel"
      [] t = "T1" -> "Tier1Admin"
      [] t = "T2" -> "Tier2AI"
      [] t = "T3" -> "Tier3User"
      [] OTHER -> "Tier1Admin"

coreTierName(vt) ==
    CASE vt = "Tier0Kernel" -> "T0"
      [] vt = "Tier1Admin" -> "T1"
      [] vt = "Tier2AI" -> "T2"
      [] vt = "Tier3User" -> "T3"

\* Mutant: the last rule of the trail wins.
violationTierFromDecisionLeast(M) ==
    {mapCoreTier(t) : t \in {m \in M : \A n \in M : tierSeverity(n) <= tierSeverity(m)}}

\* Pre-check: the most severe tier in the trail.  A set with one element:
\* tiers of equal severity map to the same trust tier.
violationTierFromDecision(M) ==
    {mapCoreTier(t) : t \in {m \in M : \A n \in M : tierSeverity(m) <= tierSeverity(n)}}

\* Post-check: the tier of the gate's AlignmentError.
violationTierFromReflect(M) ==
    {mapCoreTier(t) : t \in {m \in M : \A n \in M : tierPriority(m) <= tierPriority(n)}}

\* Mutant: provenance from whichever rule comes first.
provenanceFirst(M, vt) == M

\* policyViolationFromResult with a trail: a rule of the violation's own tier.
provenance(M, vt) == {m \in M : mapCoreTier(m) = vt}
-----------------------------------------------------------------------------
\* A post-check of a named action goes through Reflect, which yields no trail;
\* any other check is an AssessPlan of the input entity.
ViaReflect(c) == phase[c] = "post" /\ c \notin Unnamed
Entity(c) == IF ViaReflect(c) THEN "Output" ELSE "Req"
Asked(c) == policy[Entity(c)]

Init ==
    /\ ready = FALSE
    /\ policy = CHOOSE p \in Policies : TRUE
    /\ reloads = 0
    /\ step = [c \in Calls |-> "idle"]
    /\ phase = [c \in Calls |-> "pre"]
    /\ matches = [c \in Calls |-> {}]
    /\ reported = [c \in Calls |-> "none"]
    /\ seen = [c \in Calls |-> {}]
    /\ failed = [c \in Calls |-> FALSE]

\* LoadPolicy, LoadFromSource and ReloadPolicySource: the runtime swaps.
Reload(p) ==
    /\ reloads < MaxReloads
    /\ ready' = TRUE
    /\ policy' = p
    /\ reloads' = reloads + 1
    /\ seen' = [c \in Calls |-> IF step[c] \in {"halt3", "halt2", "halt1"}
                                THEN seen[c] \union {p} ELSE seen[c]]
    /\ UNCHANGED <<step, phase, matches, reported, failed>>

Goto(c, s) == step' = [step EXCEPT ![c] = s]
Deny(c, tier) == Goto(c, "blocked") /\ reported' = [reported EXCEPT ![c] = tier]
Pass(c) ==
    /\ Goto(c, IF phase[c] = "pre" THEN "inner" ELSE "released")
    /\ UNCHANGED reported

\* supervisedActionV2.Execute: an extraction error blocks.
Execute(c) ==
    /\ step[c] = "idle"
    /\ Goto(c, "verify") \/ Goto(c, "error")
    /\ UNCHANGED <<engine, phase, matches, reported, seen, failed>>

\* VerifyAtoms and the gate up to its first query.  More than
\* maxFactsPerVerify atoms are a Tier-0 violation; an engine without a policy
\* denies with no tier; a payload, label or fact that does not convert is an
\* InputError.
VerifyAtoms(c) ==
    /\ step[c] = "verify"
    /\ matches' = [matches EXCEPT ![c] = {}]
    /\ \/ /\ \/ Deny(c, coreTierName("Tier0Kernel"))
             \/ ~ready /\ Deny(c, coreTierName("Tier1Admin"))
             \/ ready /\ Goto(c, "error") /\ UNCHANGED reported
          /\ seen' = [seen EXCEPT ![c] = {}]
       \/ /\ ready
          /\ Goto(c, "halt3")
          /\ seen' = [seen EXCEPT ![c] = {policy}]
          /\ UNCHANGED reported
    /\ UNCHANGED <<engine, phase, failed>>

\* Matches M have been found: the violation's tier decides.
Resolve(c, M) ==
    \E vt \in IF ViaReflect(c) THEN violationTierFromReflect(M) ELSE violationTierFromDecision(M) :
        \/ /\ vt \in Blocking
           /\ \E t \in IF ViaReflect(c) THEN {coreTierName(vt)} ELSE provenance(M, vt) : Deny(c, t)
        \/ vt \notin Blocking /\ Pass(c)

\* The halt/3 query.  Its error is only logged; the solutions it delivered
\* before failing stay.
QueryHalt3(c) ==
    /\ step[c] = "halt3"
    /\ \/ /\ matches' = [matches EXCEPT ![c] = Asked(c).halt3]
          /\ UNCHANGED failed
       \/ /\ QueryErrors
          /\ \E M \in SUBSET Asked(c).halt3 : matches' = [matches EXCEPT ![c] = M]
          /\ failed' = [failed EXCEPT ![c] = TRUE]
    /\ \/ matches'[c] = {} /\ Goto(c, "halt2") /\ UNCHANGED reported
       \/ matches'[c] # {} /\ Resolve(c, matches'[c])
    /\ UNCHANGED <<engine, phase, seen>>

QueryFails(c) ==
    /\ QueryErrors
    /\ failed' = [failed EXCEPT ![c] = TRUE]
    /\ Goto(c, "error")
    /\ UNCHANGED <<engine, phase, matches, reported, seen>>

\* The halt/2 query, for policies without tiers.
QueryHalt2(c) ==
    /\ step[c] = "halt2"
    /\ \/ QueryFails(c)
       \/ /\ \/ /\ Asked(c).halt2
                /\ matches' = [matches EXCEPT ![c] = {"Unknown"}]
                /\ Resolve(c, {"Unknown"})
             \/ ~Asked(c).halt2 /\ Goto(c, "halt1") /\ UNCHANGED <<matches, reported>>
          /\ UNCHANGED <<engine, phase, seen, failed>>

\* Mutant: the legacy query is skipped.
QueryHalt1Skipped(c) ==
    /\ step[c] = "halt1"
    /\ Pass(c)
    /\ UNCHANGED <<engine, phase, matches, seen, failed>>

\* The legacy halt/1 query; a denial carries no trail and no tier.
QueryHalt1(c) ==
    /\ step[c] = "halt1"
    /\ \/ QueryFails(c)
       \/ /\ \/ Asked(c).halt1 /\ Deny(c, coreTierName(mapCoreTier("Unknown")))
             \/ ~Asked(c).halt1 /\ Pass(c)
          /\ UNCHANGED <<engine, phase, matches, seen, failed>>

\* The wrapped action runs; its error ends the call, otherwise the output is
\* checked.
Inner(c) ==
    /\ step[c] = "inner"
    /\ \/ Goto(c, "error") /\ UNCHANGED phase
       \/ Goto(c, "verify") /\ phase' = [phase EXCEPT ![c] = "post"]
    /\ UNCHANGED <<engine, matches, reported, seen, failed>>

Next ==
    \/ \E p \in Policies : Reload(p)
    \/ \E c \in Calls :
        \/ Execute(c)
        \/ VerifyAtoms(c)
        \/ QueryHalt3(c)
        \/ QueryHalt2(c)
        \/ QueryHalt1(c)
        \/ Inner(c)

Spec == Init /\ [][Next]_vars
-----------------------------------------------------------------------------
TypeOK ==
    /\ ready \in BOOLEAN
    /\ policy \in Policies
    /\ reloads \in 0 .. MaxReloads
    /\ step \in [Calls -> {"idle", "verify", "halt3", "halt2", "halt1", "inner",
                           "released", "blocked", "error"}]
    /\ phase \in [Calls -> {"pre", "post"}]
    /\ matches \in [Calls -> SUBSET Tiers]
    /\ reported \in [Calls -> Tiers \union {"none"}]
    /\ seen \in [Calls -> SUBSET Policies]
    /\ failed \in [Calls -> BOOLEAN]

Passed(c) == step[c] \in {"inner", "released"}

\* "Violations at T0/T1 block", whatever is reloaded meanwhile: a call passes a
\* check only if some policy in force during it derives no T0 or T1 halt for
\* the entity checked, and in the pre-check no halt/3 of unknown tier either.
\* Calls with failing queries excepted.
HardTiersBlock ==
    \A c \in Calls : Passed(c) /\ ~failed[c] =>
        \E p \in seen[c] :
            /\ p[Entity(c)].halt3 \intersect {"T0", "T1"} = {}
            /\ ~ViaReflect(c) => "Unknown" \notin p[Entity(c)].halt3

\* The untiered fallbacks lose no halt to a reload between the queries: if all
\* policies in force derive no halt/3 but halt/2, or all derive no halt/3 but
\* halt/1, the check blocks.
LegacyHaltsBlock ==
    \A c \in Calls : Passed(c) /\ ~failed[c] =>
        /\ \E p \in seen[c] : p[Entity(c)].halt3 = {} => ~p[Entity(c)].halt2
        /\ \E p \in seen[c] : p[Entity(c)].halt3 = {} => ~p[Entity(c)].halt1

\* "Rules tagged T2/T3 are advisory": the gate blocks a call only if some
\* policy in force during the check derives a halt/3 of another tier, or one
\* derives no halt/3 at all and one derives an untiered halt.
AdvisoryNeverBlocks ==
    \A c \in Calls : step[c] = "blocked" /\ seen[c] # {} /\ ~failed[c] =>
        LET halts == {p[Entity(c)] : p \in seen[c]}
        IN  \/ \E h \in halts : h.halt3 \intersect {"T0", "T1", "Unknown"} # {}
            \/ (\E h \in halts : h.halt3 = {}) /\ (\E h \in halts : h.halt2 \/ h.halt1)

\* A PolicyViolationError names a blocking tier, the most severe one that the
\* check found ("never 'first rule wins'").
ReportedTierIsBlocking ==
    \A c \in Calls : step[c] = "blocked" =>
        /\ mapCoreTier(reported[c]) \in Blocking
        /\ \A m \in matches[c] : ~ViaReflect(c) => tierSeverity(reported[c]) <= tierSeverity(m)

\* "Halts that do not carry an explicit tier (halt/2, deny/1, ...) keep
\* blocking": no action runs while all policies in force derive halt/2 for it.
UntieredHaltsBlock ==
    \A c \in Calls : step[c] = "inner" => \E p \in seen[c] : ~p["Req"].halt2

\* "Verifier/engine errors always block": a call whose query failed neither
\* runs its action nor releases its output.
EngineErrorsBlock == \A c \in Calls : failed[c] => ~Passed(c)

\* What blocks does so for a halt of a blocking kind, and says so.
BlocksAreEarned == AdvisoryNeverBlocks /\ ReportedTierIsBlocking
=============================================================================
