-------------------------- MODULE BreakerAutomaton --------------------------
(***************************************************************************)
(* What the circuit breaker promises, without its locks, snapshots and     *)
(* generations: a three-state automaton in which the circuit trips from    *)
(* Closed, admits ONE probe once the reset timeout has run out, and is     *)
(* settled by that probe alone.  CircuitBreaker refines this module.       *)
(***************************************************************************)
EXTENDS Naturals

CONSTANT ResetTimeout    \* CircuitBreakerConfig.ResetTimeout

VARIABLES
    state,       \* "Closed", "Open" or "HalfOpen"
    lastOpen,    \* when the circuit last opened
    now,         \* the clock
    probing      \* is the one probe out?

abstractVars == <<state, lastOpen, now, probing>>

Init ==
    /\ state = "Closed"
    /\ lastOpen = 0
    /\ now = 0
    /\ probing = FALSE

Trip ==
    /\ state = "Closed"
    /\ state' = "Open"
    /\ lastOpen' = now
    /\ UNCHANGED <<now, probing>>

Admit ==
    /\ state = "Open"
    /\ now - lastOpen > ResetTimeout
    /\ state' = "HalfOpen"
    /\ probing' = TRUE
    /\ UNCHANGED <<lastOpen, now>>

ProbeFails ==
    /\ probing
    /\ state' = "Open"
    /\ lastOpen' = now
    /\ probing' = FALSE
    /\ UNCHANGED now

ProbeSucceeds ==
    /\ probing
    /\ state' = "Closed"
    /\ probing' = FALSE
    /\ UNCHANGED <<lastOpen, now>>

Tick ==
    /\ now' = now + 1
    /\ UNCHANGED <<state, lastOpen, probing>>

Next == Trip \/ Admit \/ ProbeFails \/ ProbeSucceeds \/ Tick

Spec == Init /\ [][Next]_abstractVars
=============================================================================
