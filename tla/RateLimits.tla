----------------------------- MODULE RateLimits -----------------------------
(***************************************************************************)
(* The external predicates a policy may call (providers/predicates) and    *)
(* the way the runtime calls them (internal/engine/runtime.go).            *)
(*                                                                         *)
(* rate_limit_exceeded keeps one fixed-window limiter for each key and     *)
(* limit in a map, which is swept of expired limiters now and then.  A     *)
(* call finds or makes its limiter under the map's lock and counts under   *)
(* the limiter's: other calls, and sweeps, come in between.  A limiter     *)
(* that left the map is still used by the calls that hold it.              *)
(*                                                                         *)
(* One tick of the clock stands for evictInterval; the hours and minutes   *)
(* of within_time_window are minutes of a day of DayLength minutes.        *)
(***************************************************************************)
EXTENDS Integers, Sequences, FiniteSets

CONSTANTS
    RateCallers,    \* evaluations that run at the same time
    RateKeys,       \* pairs of a key and a limit, -1 for one that is no number
    DefaultLimit,   \* the limit of a call whose limit is no number
    RateWindow,     \* the length of a limiter's window
    EvictInterval,  \* time after which a new limiter sweeps the map
    EvictEvery,     \* number of new limiters after which one sweeps the map
    DayLength,      \* minutes in a day
    MaxRateCalls,   \* bound on the calls
    MaxRateTime     \* bound on the time

\* limiters: every limiter made; rateLimiters: those in the map; made: the
\* requests counted so far, with their times and their answers.
VARIABLES registered, limiters, rateLimiters, rateCallCount, lastEvict, rateNow, calls, made

rateVars == <<registered, limiters, rateLimiters, rateCallCount, lastEvict, rateNow, calls, made>>

NoCall == [at |-> "idle"]
Larger(a, b) == IF a > b THEN a ELSE b
-----------------------------------------------------------------------------
NewRateLimiter(k) == [k |-> k, count |-> 0, end |-> 0]

\* A limiter after it counted one more request.
CountedAnyway(l) == [l EXCEPT !.count = @ + 1, !.end = IF l.count = 0 THEN rateNow + RateWindow ELSE @]
Counted(l) ==
    IF l.count = 0 \/ rateNow > l.end THEN [l EXCEPT !.count = 1, !.end = rateNow + RateWindow]
    ELSE [l EXCEPT !.count = @ + 1]

\* The answer that goes with it: the first request of a window always passes.
Exceeded(l) == Counted(l).count > 1 /\ Counted(l).count > l.k[2]

\* The limiters a sweep removes: those without an entry, or with an old one.
LimiterExpired(l) == l.count = 0 \/ rateNow >= l.end
evictExpiredLimiters(map) == {i \in map : ~LimiterExpired(limiters'[i])}
-----------------------------------------------------------------------------
RateInit ==
    /\ registered = {} /\ limiters = <<>> /\ rateLimiters = {} /\ rateCallCount = 0
    /\ lastEvict = -EvictInterval /\ rateNow = 0
    /\ calls = [c \in RateCallers |-> NoCall] /\ made = <<>>

\* RegisterExternalPredicate, for both predicates.
RegisterAll ==
    /\ registered = {} /\ registered' = {"within_time_window", "rate_limit_exceeded"}
    /\ UNCHANGED <<limiters, rateLimiters, rateCallCount, lastEvict, rateNow, calls, made>>

\* An evaluation starts with the predicates registered by then.
buildEvalOptionsFor(c) ==
    /\ calls[c].at = "idle" /\ Len(made) < MaxRateCalls
    /\ calls' = [calls EXCEPT ![c] = [at |-> "evaluating", callbacks |-> registered]]
    /\ UNCHANGED <<registered, limiters, rateLimiters, rateCallCount, lastEvict, rateNow, made>>

\* The key and the limit as rateLimitExceeded reads its arguments.
RateArguments(k) == IF k[2] = -1 THEN <<k[1], DefaultLimit>> ELSE k

\* getOrCreateLimiter, with the sweep that a new limiter may begin.
getOrCreateLimiter(k, i) ==
    LET known == {j \in rateLimiters : limiters[j].k = k}
    IN  \/ /\ i \in known
           /\ UNCHANGED <<limiters, rateLimiters, rateCallCount, lastEvict>>
        \/ /\ known = {} /\ i = Len(limiters) + 1
           /\ limiters' = Append(limiters, NewRateLimiter(k))
           /\ rateCallCount' = (rateCallCount + 1) % EvictEvery
           /\ IF rateCallCount' = 0 \/ rateNow - lastEvict >= EvictInterval
              THEN /\ rateLimiters' = evictExpiredLimiters(rateLimiters \union {i})
                   /\ lastEvict' = rateNow
              ELSE /\ rateLimiters' = rateLimiters \union {i}
                   /\ UNCHANGED lastEvict

\* ExecuteQuery calls rate_limit_exceeded, which takes its limiter.
TakeLimiter(c, arguments) ==
    /\ calls[c].at = "evaluating" /\ "rate_limit_exceeded" \in calls[c].callbacks
    /\ \E i \in 1 .. Len(limiters) + 1 :
          /\ getOrCreateLimiter(RateArguments(arguments), i)
          /\ calls' = [calls EXCEPT ![c] = [at |-> "limiter", limiter |-> i]]
    /\ UNCHANGED <<registered, rateNow, made>>

\* IsExceeded, and the answer of the predicate.
IsExceeded(c) ==
    /\ calls[c].at = "limiter" /\ Len(made) < MaxRateCalls
    /\ LET i == calls[c].limiter
       IN  /\ limiters' = [limiters EXCEPT ![i] = Counted(@)]
           /\ made' = Append(made, [k |-> limiters[i].k, time |-> rateNow, limiter |-> i,
                                    refused |-> Exceeded(limiters[i])])
    /\ calls' = [calls EXCEPT ![c] = NoCall]
    /\ UNCHANGED <<registered, rateLimiters, rateCallCount, lastEvict, rateNow>>

\* A predicate that was not registered in time has no facts.
PredicateUnknown(c) ==
    /\ calls[c].at = "evaluating" /\ "rate_limit_exceeded" \notin calls[c].callbacks
    /\ calls' = [calls EXCEPT ![c] = NoCall]
    /\ UNCHANGED <<registered, limiters, rateLimiters, rateCallCount, lastEvict, rateNow, made>>

TickRate ==
    /\ rateNow < MaxRateTime /\ rateNow' = rateNow + 1
    /\ UNCHANGED <<registered, limiters, rateLimiters, rateCallCount, lastEvict, calls, made>>

RateNext ==
    \/ RegisterAll
    \/ \E c \in RateCallers :
          \/ buildEvalOptionsFor(c) \/ IsExceeded(c) \/ PredicateUnknown(c)
          \/ \E k \in RateKeys : TakeLimiter(c, k)
    \/ TickRate
-----------------------------------------------------------------------------
\* within_time_window, at the minute now.
inWindow(now, start, end) ==
    IF start <= end THEN now >= start /\ now <= end ELSE now >= start \/ now <= end
-----------------------------------------------------------------------------
Requests(k, from, to) == {n \in DOMAIN made : made[n].k = k /\ made[n].time \in from .. to}

\* A request is refused only if its key made more requests than the limit in
\* the last window's length, this one included, whatever callers and sweeps
\* came between the lookup of a limiter and its count.
RefusalsEarned ==
    \A n \in DOMAIN made : made[n].refused =>
        Cardinality({m \in Requests(made[n].k, made[n].time - RateWindow, made[n].time) : m <= n})
            > made[n].k[2]

\* A burst passes the limit only by what a sweep takes away: of the requests
\* that callers make at one moment, each limiter they counted on lets no more
\* pass than the limit, or one where the limit is zero.
BurstsHeld ==
    \A n \in DOMAIN made :
        Cardinality({m \in Requests(made[n].k, made[n].time, made[n].time) :
                        made[m].limiter = made[n].limiter /\ ~made[m].refused})
            <= Larger(made[n].k[2], 1)

\* within_time_window is a window on a circular day: it holds for as many
\* minutes from start as end is after start, midnight in between or not.
TimeWindowsWrap ==
    LET now == rateNow % DayLength
    IN  \A start, end \in 0 .. DayLength - 1 :
            inWindow(now, start, end) <=> (now - start) % DayLength <= (end - start) % DayLength

\* "true if user-123 made >100 requests": the requests of one moment beyond the
\* limit are refused.
LimitEnforced ==
    \A n \in DOMAIN made :
        Cardinality({m \in Requests(made[n].k, made[n].time, made[n].time) : m <= n}) > Larger(made[n].k[2], 1)
            => made[n].refused

\* What the predicates answer, under any schedule of callers and sweeps.
PredicatesExact == RefusalsEarned /\ BurstsHeld /\ TimeWindowsWrap
=============================================================================
