---------------------------- MODULE MCResilience ----------------------------
(***************************************************************************)
(* The circuit breaker, the shutdown of a client, supervised streams and   *)
(* the rate limits: the parts of a client where goroutines meet.  They     *)
(* share no state: each behaviour exercises the one chosen at the start.   *)
(***************************************************************************)
EXTENDS CircuitBreaker, ClientShutdown, StreamingAction, RateLimits

CONSTANTS c1, c2, c3, Focuses

VARIABLE focus

\* Three callers, so that two late ordinary calls can meet one probe.
MCCallers == {c1, c2, c3}

\* A key with its own limit, and one whose limit is the default.
MCRateKeys == {<<"a", 1>>, <<"b", -1>>}

AllInit == focus \in Focuses /\ Init /\ ShutdownInit /\ StreamInit /\ RateInit
AllNext ==
    \/ focus = "breaker" /\ Next /\ UNCHANGED <<focus, shutdownVars, streamVars, rateVars>>
    \/ focus = "shutdown" /\ ShutdownNext /\ UNCHANGED <<focus, vars, streamVars, rateVars>>
    \/ focus = "streams" /\ StreamNext /\ UNCHANGED <<focus, vars, shutdownVars, rateVars>>
    \/ focus = "rates" /\ RateNext /\ UNCHANGED <<focus, vars, shutdownVars, streamVars>>

\* No fair action is enabled in a component that has not begun.
AllSpec == AllInit /\ [][AllNext]_<<focus, vars, shutdownVars, streamVars, rateVars>>
FairAllSpec == AllSpec /\ Fairness /\ ShutdownFairness /\ StreamFairness
=============================================================================
