--------------------------- MODULE ClientShutdown ---------------------------
(***************************************************************************)
(* sdk: background memorization and Client.Shutdown.  Executions hand their *)
(* result to asyncMemorize, which starts a goroutine counted by memWg;     *)
(* Shutdown refuses new ones, waits for those in flight, bounded by its    *)
(* context, and then stops the exporters.  memMu makes the test of         *)
(* shuttingDown and the Add one step.                                      *)
(***************************************************************************)
EXTENDS Naturals, FiniteSets

CONSTANTS
    Results,    \* results that executions hand to asyncMemorize
    Closers     \* goroutines that call Shutdown

VARIABLES
    shuttingDown,    \* c.shuttingDown
    memory,          \* what became of each result
    closer,          \* where each closer is, and what its call returned
    exporters        \* how often shutdownFunc has run

shutdownVars == <<shuttingDown, memory, closer, exporters>>

ShutdownInit ==
    /\ shuttingDown = FALSE
    /\ memory = [m \in Results |-> "new"]
    /\ closer = [s \in Closers |-> "new"]
    /\ exporters = 0


\* The goroutines counted by memWg.
InFlight == {m \in Results : memory[m] = "inflight"}

\* Mutant: the flag is not looked at.
asyncMemorizeUnchecked(m) ==
    /\ memory[m] = "new"
    /\ memory' = [memory EXCEPT ![m] = "inflight"]
    /\ UNCHANGED <<shuttingDown, closer, exporters>>

\* The critical section of asyncMemorize.
asyncMemorize(m) ==
    /\ memory[m] = "new"
    /\ memory' = [memory EXCEPT ![m] = IF shuttingDown THEN "refused" ELSE "inflight"]
    /\ UNCHANGED <<shuttingDown, closer, exporters>>

\* Memorize returns, at the latest by its five-second deadline; an error is
\* only logged.
Memorized(m) ==
    /\ memory[m] = "inflight"
    /\ \E end \in {"stored", "failed"} : memory' = [memory EXCEPT ![m] = end]
    /\ UNCHANGED <<shuttingDown, closer, exporters>>

\* The critical section of Shutdown: later calls return nil at once.
Shutdown(s) ==
    /\ closer[s] = "new"
    /\ shuttingDown' = TRUE
    /\ closer' = [closer EXCEPT ![s] = IF shuttingDown THEN "nil" ELSE "waiting"]
    /\ UNCHANGED <<memory, exporters>>

\* The wait group is empty, done is closed; shutdownFunc runs and its result,
\* nil or an error, is returned.
Drained(s) ==
    /\ closer[s] = "waiting"
    /\ InFlight = {}
    /\ closer' = [closer EXCEPT ![s] = "drained"]
    /\ exporters' = exporters + 1
    /\ UNCHANGED <<shuttingDown, memory>>

\* The caller's context ends first: its error is returned, nothing is stopped.
ContextEnds(s) ==
    /\ closer[s] = "waiting"
    /\ closer' = [closer EXCEPT ![s] = "expired"]
    /\ UNCHANGED <<shuttingDown, memory, exporters>>

ShutdownNext ==
    \/ \E m \in Results : asyncMemorize(m) \/ Memorized(m)
    \/ \E s \in Closers : Shutdown(s) \/ Drained(s) \/ ContextEnds(s)

ShutdownSpec == ShutdownInit /\ [][ShutdownNext]_shutdownVars

\* Every Memorize ends (its context has a deadline), and a waiting Shutdown
\* wakes up.  No context has to expire and nobody has to call.
ShutdownFairness ==
    /\ \A m \in Results : WF_shutdownVars(Memorized(m))
    /\ \A s \in Closers : WF_shutdownVars(Drained(s))

ShutdownFairSpec == ShutdownSpec /\ ShutdownFairness
-----------------------------------------------------------------------------
ShutdownTypeOK ==
    /\ shuttingDown \in BOOLEAN
    /\ memory \in [Results -> {"new", "refused", "inflight", "stored", "failed"}]
    /\ closer \in [Closers -> {"new", "nil", "waiting", "drained", "expired"}]
    /\ exporters \in Nat

\* The exporters are stopped at most once, and when they are no memorization
\* is in flight nor will one start: a late execution is refused.
StopsOnceDrained == exporters <= 1 /\ (exporters = 1 => InFlight = {})

=============================================================================
