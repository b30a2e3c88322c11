------------------------ MODULE CircuitBreakerProofs ------------------------
(***************************************************************************)
(* The safety properties of CircuitBreaker for any number of callers, any  *)
(* threshold and any reset timeout, and its refinement of BreakerAutomaton. *)
(***************************************************************************)
EXTENDS CircuitBreaker, TLAPS

\* Copied generations never run ahead of the shared one; this is what makes
\* GenerationGuardsSnapshot inductive, since a fresh generation is then
\* different from every copy.
SnapshotsBehind == \A t \in Callers : snap[t].gen <= generation

IInv ==
    /\ TypeOK
    /\ SingleProbe
    /\ SnapshotsBehind
    /\ GenerationGuardsSnapshot
    /\ ClosedBelowThreshold

\* A new breaker is Closed, with no failure counted and no probe out.
LEMMA InitIInv == Init => IInv
  BY BreakerAssumption DEF Init, IInv, TypeOK, States, Points, SingleProbe, Probers,
     SnapshotsBehind, GenerationGuardsSnapshot, ClosedBelowThreshold

\* Every critical section of Execute preserves the inductive invariant.
LEMMA NextIInv == IInv /\ [Next]_vars => IInv'
<1> SUFFICES ASSUME IInv, [Next]_vars PROVE IInv'
  OBVIOUS
<1> USE BreakerAssumption
<1> USE DEF IInv, TypeOK, States, Points, shared, Goto
<1>1. ASSUME NEW t \in Callers, Call(t) PROVE IInv'
  BY <1>1 DEF Call, SingleProbe, Probers, SnapshotsBehind,
     GenerationGuardsSnapshot, ClosedBelowThreshold
<1>2. ASSUME NEW t \in Callers, Snapshot(t) PROVE IInv'
  BY <1>2 DEF Snapshot, SingleProbe, Probers, SnapshotsBehind,
     GenerationGuardsSnapshot, ClosedBelowThreshold
<1>3. ASSUME NEW t \in Callers, Reject(t) PROVE IInv'
  BY <1>3 DEF Reject, SingleProbe, Probers, SnapshotsBehind,
     GenerationGuardsSnapshot, ClosedBelowThreshold
<1>4. ASSUME NEW t \in Callers, TryHalfOpen(t) PROVE IInv'
  <2>1. TypeOK'
    BY <1>4 DEF TryHalfOpen
  <2>2. SingleProbe'
    BY <1>4 DEF TryHalfOpen, SingleProbe, Probers
  <2>3. SnapshotsBehind' /\ GenerationGuardsSnapshot' /\ ClosedBelowThreshold'
    BY <1>4 DEF TryHalfOpen, SnapshotsBehind, GenerationGuardsSnapshot, ClosedBelowThreshold
  <2>4. QED BY <2>1, <2>2, <2>3
<1>5. ASSUME NEW t \in Callers, NEW err \in Outcomes, ProbeReturn(t, err) PROVE IInv'
  <2>1. TypeOK'
    BY <1>5 DEF ProbeReturn
  <2>2. SingleProbe'
    BY <1>5 DEF ProbeReturn, SingleProbe, Probers
  <2>3. SnapshotsBehind' /\ GenerationGuardsSnapshot' /\ ClosedBelowThreshold'
    BY <1>5 DEF ProbeReturn, SnapshotsBehind, GenerationGuardsSnapshot, ClosedBelowThreshold
  <2>4. QED BY <2>1, <2>2, <2>3
<1>6. ASSUME NEW t \in Callers, NEW err \in Outcomes, StandardReturn(t, err) PROVE IInv'
  <2>1. TypeOK'
    BY <1>6 DEF StandardReturn, Record
  <2>2. SingleProbe'
    BY <1>6 DEF StandardReturn, Record, SingleProbe, Probers
  <2>3. SnapshotsBehind' /\ GenerationGuardsSnapshot' /\ ClosedBelowThreshold'
    BY <1>6 DEF StandardReturn, Record, SnapshotsBehind, GenerationGuardsSnapshot,
       ClosedBelowThreshold
  <2>4. QED BY <2>1, <2>2, <2>3
<1>7. CASE Tick
  BY <1>7 DEF Tick, SingleProbe, Probers, SnapshotsBehind,
     GenerationGuardsSnapshot, ClosedBelowThreshold
<1>8. CASE UNCHANGED vars
  BY <1>8 DEF vars, SingleProbe, Probers, SnapshotsBehind,
     GenerationGuardsSnapshot, ClosedBelowThreshold
<1>9. QED BY <1>1, <1>2, <1>3, <1>4, <1>5, <1>6, <1>7, <1>8 DEF Next

\* The inductive invariant holds throughout.
THEOREM Inductive == Spec => []IInv
  BY InitIInv, NextIInv, PTL DEF Spec

\* Execute, runProbe and runStandard keep every variable in its type.
THEOREM TypeCorrect == Spec => []TypeOK
<1>1. IInv => TypeOK
  BY DEF IInv
<1>2. QED BY <1>1, Inductive, PTL

\* However many goroutines call Execute, at most one probe is out, and the
\* circuit is HalfOpen exactly while it is.
THEOREM OneProbe == Spec => []SingleProbe
<1>1. IInv => SingleProbe
  BY DEF IInv
<1>2. QED BY <1>1, Inductive, PTL

\* The generation counter does protect the unlocked reads of Execute.
THEOREM GenerationProtects == Spec => []GenerationGuardsSnapshot
<1>1. IInv => GenerationGuardsSnapshot
  BY DEF IInv
<1>2. QED BY <1>1, Inductive, PTL

\* A Closed circuit has counted fewer failures than the threshold.
THEOREM BelowThreshold == Spec => []ClosedBelowThreshold
<1>1. IInv => ClosedBelowThreshold
  BY DEF IInv
<1>2. QED BY <1>1, Inductive, PTL

\* A new breaker is an initial state of the automaton.
LEMMA InitRefines == Init => Automaton!Init
  BY DEF Init, Automaton!Init, Probers

\* Every step of the breaker is a step of the automaton or a stutter.
LEMMA StepRefines ==
  IInv /\ [Next]_vars => [Automaton!Next]_(Automaton!abstractVars)
<1> SUFFICES ASSUME IInv, [Next]_vars PROVE [Automaton!Next]_(Automaton!abstractVars)
  OBVIOUS
<1> USE BreakerAssumption
<1> USE DEF IInv, TypeOK, States, Points, shared, Goto, Automaton!abstractVars
<1>1. ASSUME NEW t \in Callers, Call(t) \/ Snapshot(t) \/ Reject(t)
      PROVE  UNCHANGED Automaton!abstractVars
  BY <1>1 DEF Call, Snapshot, Reject, Probers
<1>2. ASSUME NEW t \in Callers, TryHalfOpen(t)
      PROVE  Automaton!Admit \/ UNCHANGED Automaton!abstractVars
  <2>1. CASE generation = snap[t].gen /\ state = "Open"
    BY <1>2, <2>1 DEF TryHalfOpen, Expired, GenerationGuardsSnapshot, Probers, Automaton!Admit
  <2>2. CASE ~(generation = snap[t].gen /\ state = "Open")
    BY <1>2, <2>2 DEF TryHalfOpen, Probers
  <2>3. QED BY <2>1, <2>2
<1>3. ASSUME NEW t \in Callers, NEW err \in Outcomes, ProbeReturn(t, err)
      PROVE  Automaton!ProbeFails \/ Automaton!ProbeSucceeds
  BY <1>3 DEF ProbeReturn, SingleProbe, Probers, Automaton!ProbeFails, Automaton!ProbeSucceeds
<1>4. ASSUME NEW t \in Callers, NEW err \in Outcomes, StandardReturn(t, err)
      PROVE  Automaton!Trip \/ UNCHANGED Automaton!abstractVars
  BY <1>4 DEF StandardReturn, Record, Probers, Automaton!Trip
<1>5. CASE Tick
  BY <1>5 DEF Tick, Probers, Automaton!Tick, Automaton!Next
<1>6. CASE UNCHANGED vars
  BY <1>6 DEF vars, Probers
<1>7. QED BY <1>1, <1>2, <1>3, <1>4, <1>5, <1>6 DEF Next, Automaton!Next

\* The breaker with its copies, generations and late results implements the
\* three-state automaton.
THEOREM Refinement == Spec => AutomatonSpec
  BY InitRefines, StepRefines, Inductive, PTL DEF Spec, AutomatonSpec, Automaton!Spec
=============================================================================
