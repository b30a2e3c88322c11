-------------------------- MODULE PolicyGateProofs --------------------------
(***************************************************************************)
(* Proofs about PolicyGate, for any set of policies, any number of calls   *)
(* and any number of reloads.                                              *)
(***************************************************************************)
EXTENDS PolicyGate, TLAPS

Steps == {"idle", "verify", "halt3", "halt2", "halt1", "inner", "released", "blocked", "error"}
Querying == {"halt3", "halt2", "halt1"}

\* What resolving a set of matches may report, and when it lets a call pass.
LEMMA ResolveReports ==
    ASSUME NEW M \in SUBSET Tiers, NEW vt \in TrustTiers
    PROVE  provenance(M, vt) \subseteq Tiers /\ coreTierName(vt) \in Tiers
BY DEF provenance, coreTierName, Tiers, TrustTiers

\* Every tier maps to a trust tier.
LEMMA ViolationTiers ==
    ASSUME NEW M \in SUBSET Tiers
    PROVE  /\ violationTierFromDecision(M) \subseteq TrustTiers
           /\ violationTierFromReflect(M) \subseteq TrustTiers
BY DEF violationTierFromDecision, violationTierFromReflect, mapCoreTier, TrustTiers

\* The pre-check lets matches pass only if all are explicit T2 or T3.
LEMMA DecisionPasses ==
    ASSUME NEW M \in SUBSET Tiers, NEW vt \in violationTierFromDecision(M), vt \notin Blocking
    PROVE  M \intersect {"T0", "T1"} = {} /\ "Unknown" \notin M
<1>1. PICK m \in M : vt = mapCoreTier(m) /\ \A n \in M : tierSeverity(m) <= tierSeverity(n)
  BY DEF violationTierFromDecision
<1>2. m \in {"T2", "T3"}
  BY <1>1 DEF mapCoreTier, Blocking, Tiers
<1>3. tierSeverity(m) >= 2
  BY <1>2 DEF tierSeverity
<1>4. \A n \in {"T0", "T1", "Unknown"} : tierSeverity(n) <= 1
  BY DEF tierSeverity
<1> QED
  BY <1>1, <1>2, <1>3, <1>4 DEF tierSeverity

\* The post-check lets matches pass only if none is T0 or T1 and some is
\* explicit T2 or T3.
LEMMA ReflectPasses ==
    ASSUME NEW M \in SUBSET Tiers, NEW vt \in violationTierFromReflect(M), vt \notin Blocking
    PROVE  M \intersect {"T0", "T1"} = {} /\ M # {"Unknown"}
<1>1. PICK m \in M : vt = mapCoreTier(m) /\ \A n \in M : tierPriority(m) <= tierPriority(n)
  BY DEF violationTierFromReflect
<1>2. m \in {"T2", "T3"}
  BY <1>1 DEF mapCoreTier, Blocking, Tiers
<1>3. tierPriority(m) >= 2
  BY <1>2 DEF tierPriority
<1>4. \A n \in {"T0", "T1"} : tierPriority(n) <= 1
  BY DEF tierPriority
<1> QED
  BY <1>1, <1>2, <1>3, <1>4 DEF tierPriority

\* What Resolve does to a call.
LEMMA ResolveEffect ==
    ASSUME TypeOK, NEW c \in Calls, NEW M \in SUBSET Tiers, Resolve(c, M)
    PROVE  \/ /\ step' = [step EXCEPT ![c] = "blocked"]
              /\ \E t \in Tiers : reported' = [reported EXCEPT ![c] = t]
           \/ /\ step' = [step EXCEPT ![c] = IF phase[c] = "pre" THEN "inner" ELSE "released"]
              /\ reported' = reported
              /\ M \intersect {"T0", "T1"} = {}
              /\ ~ViaReflect(c) => "Unknown" \notin M
              /\ M # {"Unknown"}
<1>1. CASE ViaReflect(c)
  <2>1. PICK vt \in violationTierFromReflect(M) :
           \/ vt \in Blocking /\ Deny(c, coreTierName(vt))
           \/ vt \notin Blocking /\ Pass(c)
    BY <1>1 DEF Resolve
  <2>2. CASE vt \in Blocking /\ Deny(c, coreTierName(vt))
    BY <2>1, <2>2, ViolationTiers, ResolveReports DEF Deny, Goto
  <2>3. CASE vt \notin Blocking /\ Pass(c)
    BY <1>1, <2>1, <2>3, ReflectPasses DEF Pass, Goto
  <2> QED
    BY <2>1, <2>2, <2>3
<1>2. CASE ~ViaReflect(c)
  <2>1. PICK vt \in violationTierFromDecision(M) :
           \/ vt \in Blocking /\ \E t \in provenance(M, vt) : Deny(c, t)
           \/ vt \notin Blocking /\ Pass(c)
    BY <1>2 DEF Resolve
  <2>2. CASE vt \in Blocking /\ \E t \in provenance(M, vt) : Deny(c, t)
    BY <2>1, <2>2 DEF Deny, Goto, provenance
  <2>3. CASE vt \notin Blocking /\ Pass(c)
    BY <1>2, <2>1, <2>3, DecisionPasses DEF Pass, Goto
  <2> QED
    BY <2>1, <2>2, <2>3
<1> QED
  BY <1>1, <1>2

\* What the policy in force derives for the entity asked.
LEMMA AskedType ==
    ASSUME TypeOK, NEW c \in Calls
    PROVE  Asked(c).halt3 \in SUBSET Tiers
<1>1. Entity(c) \in Entities
  BY DEF Entity, Entities
<1>2. policy[Entity(c)] \in Halts
  BY <1>1, GateAssumption DEF TypeOK
<1> QED
  BY <1>2 DEF Asked, Halts

\* The type invariant is inductive.
LEMMA TypeStep == TypeOK /\ [Next]_vars => TypeOK'
<1> SUFFICES ASSUME TypeOK, [Next]_vars PROVE TypeOK'
  OBVIOUS
<1>1. ASSUME NEW p \in Policies, Reload(p) PROVE TypeOK'
  BY <1>1, GateAssumption DEF TypeOK, Reload
<1>2. ASSUME NEW c \in Calls, Execute(c) PROVE TypeOK'
  BY <1>2 DEF TypeOK, Execute, Goto, engine
<1>3. ASSUME NEW c \in Calls, VerifyAtoms(c) PROVE TypeOK'
  <2>1. coreTierName("Tier0Kernel") \in Tiers /\ coreTierName("Tier1Admin") \in Tiers
    BY DEF coreTierName, Tiers
  <2>2. seen' \in [Calls -> SUBSET Policies] /\ matches' \in [Calls -> SUBSET Tiers]
    BY <1>3 DEF TypeOK, VerifyAtoms
  <2>3. reported' \in [Calls -> Tiers \union {"none"}]
    BY <1>3, <2>1 DEF TypeOK, VerifyAtoms, Deny
  <2>4. step' \in [Calls -> Steps]
    BY <1>3 DEF TypeOK, VerifyAtoms, Deny, Goto, Steps
  <2>5. UNCHANGED <<engine, phase, failed>>
    BY <1>3 DEF VerifyAtoms
  <2> QED
    BY <2>2, <2>3, <2>4, <2>5 DEF TypeOK, Steps, engine
<1>4. ASSUME NEW c \in Calls, QueryHalt3(c) PROVE TypeOK'
  <2>1. PICK M \in SUBSET Tiers : matches' = [matches EXCEPT ![c] = M]
    BY <1>4, AskedType DEF QueryHalt3
  <2>2. matches'[c] = M
    BY <2>1 DEF TypeOK
  <2>3. \/ Goto(c, "halt2") /\ UNCHANGED reported
        \/ Resolve(c, M)
    BY <1>4, <2>2 DEF QueryHalt3
  <2>4. step' \in [Calls -> Steps] /\ reported' \in [Calls -> Tiers \union {"none"}]
    <3>1. CASE Goto(c, "halt2") /\ UNCHANGED reported
      BY <3>1 DEF TypeOK, Goto, Steps
    <3>2. CASE Resolve(c, M)
      BY <3>2, ResolveEffect DEF TypeOK, Steps
    <3> QED
      BY <2>3, <3>1, <3>2
  <2>5. failed' \in [Calls -> BOOLEAN] /\ UNCHANGED <<engine, phase, seen>>
    BY <1>4 DEF TypeOK, QueryHalt3
  <2>6. matches' \in [Calls -> SUBSET Tiers]
    BY <2>1 DEF TypeOK
  <2> QED
    BY <2>4, <2>5, <2>6 DEF TypeOK, Steps, engine
<1>5. ASSUME NEW c \in Calls, QueryFails(c) PROVE TypeOK'
  BY <1>5 DEF TypeOK, QueryFails, Goto, engine
<1>6. ASSUME NEW c \in Calls, QueryHalt2(c) PROVE TypeOK'
  <2>1. CASE QueryFails(c)
    BY <1>5, <2>1
  <2>2. CASE ~QueryFails(c)
    <3>1. UNCHANGED <<engine, phase, seen, failed>>
      BY <1>6, <2>2 DEF QueryHalt2
    <3>2. {"Unknown"} \in SUBSET Tiers
      BY DEF Tiers
    <3>3. matches' \in [Calls -> SUBSET Tiers]
      BY <1>6, <2>2, <3>2 DEF TypeOK, QueryHalt2
    <3>4. step' \in [Calls -> Steps] /\ reported' \in [Calls -> Tiers \union {"none"}]
      <4>1. CASE Resolve(c, {"Unknown"})
        BY <3>2, <4>1, ResolveEffect DEF TypeOK, Steps
      <4>2. CASE Goto(c, "halt1") /\ UNCHANGED reported
        BY <4>2 DEF TypeOK, Goto, Steps
      <4> QED
        BY <1>6, <2>2, <4>1, <4>2 DEF QueryHalt2
    <3> QED
      BY <3>1, <3>3, <3>4 DEF TypeOK, Steps, engine
  <2> QED
    BY <2>1, <2>2
<1>7. ASSUME NEW c \in Calls, QueryHalt1(c) PROVE TypeOK'
  <2>1. CASE QueryFails(c)
    BY <1>5, <2>1
  <2>2. CASE ~QueryFails(c)
    <3>1. coreTierName(mapCoreTier("Unknown")) \in Tiers
      BY DEF coreTierName, mapCoreTier, Tiers
    <3>2. UNCHANGED <<engine, phase, matches, seen, failed>>
      BY <1>7, <2>2 DEF QueryHalt1
    <3>3. step' \in [Calls -> Steps] /\ reported' \in [Calls -> Tiers \union {"none"}]
      BY <1>7, <2>2, <3>1 DEF TypeOK, QueryHalt1, Deny, Pass, Goto, Steps
    <3> QED
      BY <3>2, <3>3 DEF TypeOK, Steps, engine
  <2> QED
    BY <2>1, <2>2
<1>8. ASSUME NEW c \in Calls, Inner(c) PROVE TypeOK'
  BY <1>8 DEF TypeOK, Inner, Goto, engine
<1>9. CASE UNCHANGED vars
  BY <1>9 DEF TypeOK, vars
<1> QED
  BY <1>1, <1>2, <1>3, <1>4, <1>6, <1>7, <1>8, <1>9 DEF Next

\* The initial state is well typed.
LEMMA TypeInit == Init => TypeOK
<1> SUFFICES ASSUME Init PROVE TypeOK
  OBVIOUS
<1>1. (CHOOSE p \in Policies : TRUE) \in Policies
  BY GateAssumption
<1>2. reloads \in 0 .. MaxReloads
  BY GateAssumption DEF Init
<1>3. /\ matches \in [Calls -> SUBSET Tiers]
      /\ seen \in [Calls -> SUBSET Policies]
      /\ failed \in [Calls -> BOOLEAN]
  BY DEF Init
<1>4. /\ step \in [Calls -> Steps]
      /\ phase \in [Calls -> {"pre", "post"}]
      /\ reported \in [Calls -> Tiers \union {"none"}]
  BY DEF Init, Steps
<1>5. ready \in BOOLEAN /\ policy \in Policies
  BY <1>1 DEF Init
<1> QED
  BY <1>2, <1>3, <1>4, <1>5 DEF TypeOK, Steps

\* Every reachable state is well typed; errors report tiers of the policy
\* vocabulary only.
THEOREM TypeCorrect == Spec => []TypeOK
BY TypeInit, TypeStep, PTL DEF Spec
-----------------------------------------------------------------------------
\* While a call queries, the policy in force is among those it has seen; past
\* the halt/3 query, without failures, one of them derives no halt/3.
Witnessed ==
    \A c \in Calls :
        /\ step[c] \in Querying => policy \in seen[c]
        /\ step[c] \in {"halt2", "halt1"} /\ ~failed[c] =>
              \E p \in seen[c] : p[Entity(c)].halt3 = {}

GateInv == Witnessed /\ HardTiersBlock

\* p derives nothing for the entity of call c that must block it.
Soft(c, p) ==
    /\ p[Entity(c)].halt3 \intersect {"T0", "T1"} = {}
    /\ ~ViaReflect(c) => "Unknown" \notin p[Entity(c)].halt3

\* The part of GateInv about one call.
CallInv(c) ==
    /\ step[c] \in Querying => policy \in seen[c]
    /\ step[c] \in {"halt2", "halt1"} /\ ~failed[c] =>
          \E p \in seen[c] : p[Entity(c)].halt3 = {}
    /\ Passed(c) /\ ~failed[c] => \E p \in seen[c] : Soft(c, p)

\* The gate invariant is one condition per call.
LEMMA GateInvSplits == GateInv <=> \A c \in Calls : CallInv(c)
BY DEF GateInv, Witnessed, HardTiersBlock, CallInv, Soft

\* A call that takes no step keeps its part of the invariant.
LEMMA OthersKeep ==
    ASSUME NEW c \in Calls, CallInv(c), UNCHANGED policy, step'[c] = step[c],
           phase'[c] = phase[c], seen'[c] = seen[c], failed'[c] = failed[c]
    PROVE  CallInv(c)'
BY DEF CallInv, Passed, Soft, Entity, ViaReflect

\* GateInv is preserved.
LEMMA GateStep == TypeOK /\ GateInv /\ [Next]_vars => GateInv'
<1> SUFFICES ASSUME TypeOK, GateInv, [Next]_vars, NEW d \in Calls PROVE CallInv(d)'
  <2>1. (GateInv <=> \A c \in Calls : CallInv(c))'
    BY GateInvSplits, PTL
  <2> QED
    BY <2>1
<1>a. CallInv(d)
  BY GateInvSplits
<1>1. ASSUME NEW p \in Policies, Reload(p) PROVE CallInv(d)'
  <2>1. /\ UNCHANGED <<step, phase, failed>>
        /\ policy' = p
        /\ seen'[d] = IF step[d] \in Querying THEN seen[d] \union {p} ELSE seen[d]
    BY <1>1 DEF Reload, Querying
  <2> QED
    BY <1>a, <2>1 DEF CallInv, Passed, Soft, Entity, ViaReflect, Querying
<1>2. ASSUME NEW c \in Calls, c # d,
             Execute(c) \/ VerifyAtoms(c) \/ QueryHalt3(c) \/ QueryHalt2(c)
               \/ QueryHalt1(c) \/ Inner(c)
      PROVE  CallInv(d)'
  <2>1. \A M \in SUBSET Tiers : Resolve(c, M) => step'[d] = step[d]
    BY <1>2, ResolveEffect DEF TypeOK
  <2>2. {"Unknown"} \in SUBSET Tiers
    BY DEF Tiers
  <2>3. UNCHANGED policy
    BY <1>2 DEF Execute, VerifyAtoms, QueryHalt3, QueryHalt2, QueryHalt1, Inner, QueryFails, engine
  <2>4. phase'[d] = phase[d]
    BY <1>2 DEF TypeOK, Execute, VerifyAtoms, QueryHalt3, QueryHalt2, QueryHalt1, Inner, QueryFails
  <2>5. seen'[d] = seen[d]
    BY <1>2 DEF TypeOK, Execute, VerifyAtoms, QueryHalt3, QueryHalt2, QueryHalt1, Inner, QueryFails
  <2>6. failed'[d] = failed[d]
    BY <1>2 DEF TypeOK, Execute, VerifyAtoms, QueryHalt3, QueryHalt2, QueryHalt1, Inner, QueryFails
  <2>7. step'[d] = step[d]
    <3>1. CASE Execute(c) \/ VerifyAtoms(c) \/ QueryHalt1(c) \/ Inner(c)
      BY <1>2, <3>1 DEF TypeOK, Execute, VerifyAtoms, QueryHalt1, Inner, QueryFails,
                        Deny, Pass, Goto
    <3>2. CASE QueryHalt3(c)
      <4>1. matches'[c] \in SUBSET Tiers
        BY <3>2, AskedType DEF TypeOK, QueryHalt3
      <4> QED
        BY <1>2, <2>1, <3>2, <4>1 DEF TypeOK, QueryHalt3, Goto
    <3>3. CASE QueryHalt2(c)
      BY <1>2, <2>1, <2>2, <3>3 DEF TypeOK, QueryHalt2, QueryFails, Goto
    <3> QED
      BY <1>2, <3>1, <3>2, <3>3
  <2> QED
    BY <1>a, <2>3, <2>4, <2>5, <2>6, <2>7, OthersKeep
<1>3. ASSUME Execute(d) PROVE CallInv(d)'
  BY <1>3 DEF TypeOK, Execute, Goto, CallInv, Passed, Querying
<1>4. ASSUME VerifyAtoms(d) PROVE CallInv(d)'
  BY <1>4 DEF TypeOK, VerifyAtoms, Deny, Goto, CallInv, Passed, Querying, engine
<1>5. ASSUME QueryHalt3(d) PROVE CallInv(d)'
  <2>1. policy \in seen[d] /\ UNCHANGED <<policy, phase, seen>>
    BY <1>5, <1>a DEF QueryHalt3, CallInv, Querying, engine
  <2>2. matches'[d] \in SUBSET Tiers
    BY <1>5, AskedType DEF TypeOK, QueryHalt3
  <2>3. ~failed'[d] => matches'[d] = Asked(d).halt3
    BY <1>5 DEF TypeOK, QueryHalt3
  <2>4. CASE matches'[d] = {} /\ Goto(d, "halt2")
    <3>1. step'[d] = "halt2"
      BY <2>4 DEF TypeOK, Goto
    <3> QED
      BY <2>1, <2>3, <2>4, <3>1 DEF CallInv, Passed, Querying, Asked, Entity, ViaReflect
  <2>5. CASE Resolve(d, matches'[d])
    <3>1. \/ step'[d] = "blocked"
          \/ /\ step'[d] \in {"inner", "released"}
             /\ matches'[d] \intersect {"T0", "T1"} = {}
             /\ ~ViaReflect(d) => "Unknown" \notin matches'[d]
      BY <2>2, <2>5, ResolveEffect DEF TypeOK
    <3>2. CASE step'[d] = "blocked"
      BY <3>2 DEF CallInv, Passed, Querying
    <3>3. CASE step'[d] # "blocked"
      <4>1. ~failed'[d] => Soft(d, policy)
        BY <2>3, <3>1, <3>3 DEF Soft, Asked
      <4> QED
        BY <2>1, <3>1, <3>3, <4>1 DEF CallInv, Passed, Querying, Soft, Entity, ViaReflect
    <3> QED
      BY <3>2, <3>3
  <2> QED
    BY <1>5, <2>4, <2>5 DEF QueryHalt3
<1>6. ASSUME QueryHalt2(d) PROVE CallInv(d)'
  <2>1. CASE step'[d] \in {"blocked", "error"}
    BY <2>1 DEF CallInv, Passed, Querying
  <2>2. CASE step'[d] = "halt1" /\ UNCHANGED <<policy, phase, seen, failed>>
    BY <1>6, <1>a, <2>2 DEF QueryHalt2, CallInv, Passed, Querying, Entity, ViaReflect
  <2>3. Resolve(d, {"Unknown"}) => step'[d] = "blocked"
    <3>1. {"Unknown"} \in SUBSET Tiers
      BY DEF Tiers
    <3> QED
      BY <3>1, ResolveEffect DEF TypeOK
  <2> QED
    BY <1>6, <2>1, <2>2, <2>3 DEF TypeOK, QueryHalt2, QueryFails, Goto, engine
<1>7. ASSUME QueryHalt1(d) PROVE CallInv(d)'
  <2>1. CASE step'[d] \in {"blocked", "error"}
    BY <2>1 DEF CallInv, Passed, Querying
  <2>2. CASE step'[d] \in {"inner", "released"} /\ UNCHANGED <<phase, seen, failed>>
    <3>1. ~failed[d] => \E p \in seen[d] : Soft(d, p)
      BY <1>7, <1>a DEF QueryHalt1, CallInv, Soft
    <3> QED
      BY <2>2, <3>1 DEF CallInv, Passed, Querying, Soft, Entity, ViaReflect
  <2> QED
    BY <1>7, <2>1, <2>2 DEF TypeOK, QueryHalt1, QueryFails, Deny, Pass, Goto
<1>8. ASSUME Inner(d) PROVE CallInv(d)'
  BY <1>8 DEF TypeOK, Inner, Goto, CallInv, Passed, Querying
<1>9. CASE UNCHANGED vars
  BY <1>a, <1>9, OthersKeep DEF vars
<1> QED
  BY <1>1, <1>2, <1>3, <1>4, <1>5, <1>6, <1>7, <1>8, <1>9 DEF Next

\* Initially no call queries or has passed a check.
LEMMA GateInit == Init => GateInv
BY DEF Init, GateInv, Witnessed, HardTiersBlock, Passed, Querying

\* No action runs, and no output is released, against T0 or T1 halts that hold
\* throughout the check, however often the policy is reloaded during it.
THEOREM HardHaltsBlock == Spec => []HardTiersBlock
BY TypeInit, TypeStep, GateInit, GateStep, PTL DEF Spec, GateInv
=============================================================================
