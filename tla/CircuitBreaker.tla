--------------------------- MODULE CircuitBreaker ---------------------------
(***************************************************************************)
(* adapters/resilience: CircuitBreaker.Execute called by several           *)
(* goroutines.  Execute reads the shared state under RLock, leaves the     *)
(* lock, and only later decides on that snapshot; the inner action runs    *)
(* with no lock held, so the state may have moved on, several times, when  *)
(* its result is recorded.  Every critical section is one step.            *)
(***************************************************************************)
EXTENDS Naturals, FiniteSets

CONSTANTS
    Callers,             \* goroutines that call Execute
    FailureThreshold,    \* CircuitBreakerConfig.FailureThreshold
    ResetTimeout,        \* CircuitBreakerConfig.ResetTimeout
    MaxGeneration,       \* bound: no new call once the generation passed it
    MaxNow               \* bound: the clock stops here

ASSUME BreakerAssumption ==
    /\ FailureThreshold \in Nat
    /\ ResetTimeout \in Nat
    /\ MaxGeneration \in Nat
    /\ MaxNow \in Nat

VARIABLES
    state,         \* c.state
    failures,      \* c.failures
    lastOpen,      \* c.lastOpen
    generation,    \* c.generation
    now,           \* time.Now()
    pc,            \* where each caller is in Execute
    snap           \* its copy of state, lastOpen and generation (lines 70-72)

shared == <<state, failures, lastOpen, generation>>
vars == <<state, failures, lastOpen, generation, now, pc, snap>>

States == {"Closed", "Open", "HalfOpen"}
Points == {"idle", "call", "decide", "probe", "standard"}

\* What the inner action returns: no error, an error that FailureWhen counts,
\* or one that it does not (a caller-side rejection).
Outcomes == {"ok", "infra", "caller"}

counts(err) == err = "infra"

Goto(t, point) == pc' = [pc EXCEPT ![t] = point]

Init ==
    /\ state = "Closed"
    /\ failures = 0
    /\ lastOpen = 0
    /\ generation = 0
    /\ now = 0
    /\ pc = [t \in Callers |-> "idle"]
    /\ snap = [t \in Callers |-> [state |-> "Closed", lastOpen |-> 0, gen |-> 0]]

Call(t) ==
    /\ pc[t] = "idle"
    /\ generation <= MaxGeneration
    /\ Goto(t, "call")
    /\ UNCHANGED <<shared, now, snap>>

\* The RLock section at the head of Execute; a restarted call comes back here.
\* On Closed nothing lies between the copy and the start of the inner action.
Snapshot(t) ==
    /\ pc[t] = "call"
    /\ snap' = [snap EXCEPT ![t] = [state |-> state, lastOpen |-> lastOpen,
                                    gen |-> generation]]
    /\ Goto(t, IF state = "Closed" THEN "standard" ELSE "decide")
    /\ UNCHANGED <<shared, now>>

\* time.Since(lastOpen) > ResetTimeout, on the copied lastOpen.
Expired(t) == now - snap[t].lastOpen > ResetTimeout

\* ErrCircuitOpen without the write lock.
Reject(t) ==
    /\ pc[t] = "decide"
    /\ \/ snap[t].state = "HalfOpen"
       \/ snap[t].state = "Open" /\ ~Expired(t)
    /\ Goto(t, "idle")
    /\ UNCHANGED <<shared, now, snap>>

\* Mutant: re-validates the state but not the generation.
TryHalfOpenNoGen(t) ==
    /\ pc[t] = "decide"
    /\ snap[t].state = "Open" /\ Expired(t)
    /\ IF state = "Open"
       THEN /\ state' = "HalfOpen"
            /\ generation' = generation + 1
            /\ Goto(t, "probe")
       ELSE /\ Goto(t, "idle")
            /\ UNCHANGED <<state, generation>>
    /\ UNCHANGED <<failures, lastOpen, now, snap>>

\* The write-locked section that turns Open into HalfOpen.
TryHalfOpen(t) ==
    /\ pc[t] = "decide"
    /\ snap[t].state = "Open" /\ Expired(t)
    /\ IF generation = snap[t].gen /\ state = "Open"
       THEN /\ state' = "HalfOpen"
            /\ generation' = generation + 1
            /\ Goto(t, "probe")
       ELSE /\ Goto(t, IF generation # snap[t].gen THEN "call" ELSE "idle")
            /\ UNCHANGED <<state, generation>>
    /\ UNCHANGED <<failures, lastOpen, now, snap>>

\* Mutant: a rejected request neither closes nor re-opens the circuit.
ProbeReturnIgnoresCaller(t, err) ==
    /\ pc[t] = "probe"
    /\ generation' = generation + 1
    /\ state' = CASE err = "infra" -> "Open" [] err = "ok" -> "Closed" [] OTHER -> state
    /\ lastOpen' = IF err = "infra" THEN now ELSE lastOpen
    /\ failures' = IF err = "ok" THEN 0 ELSE failures
    /\ Goto(t, "idle")
    /\ UNCHANGED <<now, snap>>

\* The inner action of a probe returns and runProbe records the result.
ProbeReturn(t, err) ==
    /\ pc[t] = "probe"
    /\ generation' = generation + 1
    /\ \/ /\ counts(err)
          /\ state' = "Open"
          /\ lastOpen' = now
          /\ UNCHANGED failures
       \/ /\ ~counts(err)
          /\ state' = "Closed"
          /\ failures' = 0
          /\ UNCHANGED lastOpen
    /\ Goto(t, "idle")
    /\ UNCHANGED <<now, snap>>

\* What runStandard does with err while the circuit is Closed.
Record(err) ==
    \/ /\ err = "ok"
       /\ failures' = 0
       /\ UNCHANGED <<state, lastOpen, generation>>
    \/ /\ counts(err)
       /\ failures' = failures + 1
       /\ IF failures + 1 >= FailureThreshold
          THEN /\ state' = "Open"
               /\ lastOpen' = now
               /\ generation' = generation + 1
          ELSE UNCHANGED <<state, lastOpen, generation>>
    \/ /\ err = "caller"
       /\ UNCHANGED shared

\* Mutant: the result is recorded whatever the state has become meanwhile.
StandardReturnUnchecked(t, err) ==
    /\ pc[t] = "standard"
    /\ Record(err)
    /\ Goto(t, "idle")
    /\ UNCHANGED <<now, snap>>

\* The inner action of an ordinary call returns.
StandardReturn(t, err) ==
    /\ pc[t] = "standard"
    /\ IF state = "Closed" THEN Record(err) ELSE UNCHANGED shared
    /\ Goto(t, "idle")
    /\ UNCHANGED <<now, snap>>

Tick ==
    /\ now < MaxNow
    /\ now' = now + 1
    /\ UNCHANGED <<shared, pc, snap>>

Next ==
    \/ \E t \in Callers :
        \/ Call(t)
        \/ Snapshot(t)
        \/ Reject(t)
        \/ TryHalfOpen(t)
        \/ \E err \in Outcomes : ProbeReturn(t, err) \/ StandardReturn(t, err)
    \/ Tick

Spec == Init /\ [][Next]_vars

\* A goroutine inside Execute keeps running, and the inner action returns
\* (provider calls carry a deadline).  Nothing obliges a caller to call.
Fairness ==
    \A t \in Callers :
        /\ WF_vars(Snapshot(t) \/ Reject(t) \/ TryHalfOpen(t))
        /\ WF_vars(\E err \in Outcomes : ProbeReturn(t, err) \/ StandardReturn(t, err))

FairSpec == Spec /\ Fairness
-----------------------------------------------------------------------------
TypeOK ==
    /\ state \in States
    /\ failures \in Nat
    /\ lastOpen \in Nat
    /\ generation \in Nat
    /\ now \in Nat
    /\ pc \in [Callers -> Points]
    /\ snap \in [Callers -> [state : States, lastOpen : Nat, gen : Nat]]

Probers == {t \in Callers : pc[t] = "probe"}

\* The circuit is half-open exactly while one probe is out, and there is never
\* a second probe: no result of an ordinary call, however late, ends the
\* half-open phase that a probe is deciding.
SingleProbe ==
    /\ state = "HalfOpen" <=> Probers # {}
    /\ \A t, u \in Probers : t = u

\* The generation protects the unlocked reads (line 55): a caller whose copied
\* generation is still the current one holds the current state and lastOpen.
GenerationGuardsSnapshot ==
    \A t \in Callers :
        pc[t] \in {"decide", "standard"} /\ snap[t].gen = generation =>
            snap[t].state = state /\ snap[t].lastOpen = lastOpen

\* While Closed the count has not reached the threshold: a circuit that should
\* have tripped is not Closed.  A threshold of 0 trips on the first failure.
ClosedBelowThreshold ==
    state = "Closed" => failures = 0 \/ failures < FailureThreshold

\* Seen from outside the breaker is BreakerAutomaton: it trips from Closed
\* only, admits one probe only after the timeout since the CURRENT opening
\* (the code tests a copied lastOpen), and that probe alone settles it.
Automaton == INSTANCE BreakerAutomaton WITH probing <- Probers # {}
AutomatonSpec == Automaton!Spec

\* A half-open circuit is always settled: whatever the probe's inner action
\* returns, counted error or not, runProbe leaves HalfOpen (in HalfOpen every
\* other call is rejected, so nothing else could).
HalfOpenResolves == state = "HalfOpen" ~> state # "HalfOpen"
=============================================================================
