--------------------------- MODULE TemporalFacts ----------------------------
(***************************************************************************)
(* The temporal facts of the runtime (internal/engine/runtime.go): facts   *)
(* with intervals, and an evaluation time that stands for "now".           *)
(*                                                                         *)
(* Times are small numbers and 0 is Go's zero time, which stands for the   *)
(* clock.  A query takes the store under the runtime's lock and uses it    *)
(* without: other calls come in between, and EnableTemporal may replace    *)
(* the store meanwhile.  Parsing of fact strings is left out; the store    *)
(* itself is the Mangle library's.                                         *)
(***************************************************************************)
EXTENDS Integers, Sequences, FiniteSets

CONSTANTS
    TimedFacts,   \* facts
    MaxTime,      \* bound on the times used
    MaxTimed,     \* bound on the facts in a store
    MaxStores     \* bound on the calls of EnableTemporal

\* stores: every store EnableTemporal made, the runtime's is the last; evalTime:
\* the evaluation time; asking: the query in flight.
VARIABLES stores, evalTime, clock, asking

temporalVars == <<stores, evalTime, clock, asking>>

Times == 1 .. MaxTime
Durations == 0 .. 1
Windows == {w \in Times \X Times : w[1] <= w[2]}
Eternity == <<0, MaxTime + 2>>
NotAsking == [at |-> "idle"]
-----------------------------------------------------------------------------
IsTemporalEnabled == stores # <<>>
GetTemporalStore == Len(stores)

\* "Now": the evaluation time if it is set, the clock otherwise.
Now == IF evalTime = 0 THEN clock ELSE evalTime

\* The intervals a store holds for a fact.
IntervalsOf(store, f) == {i[2] : i \in {j \in store : j[1] = f}}
Overlap(i, w) == i[1] <= w[2] /\ w[1] <= i[2]

TemporalInit ==
    /\ stores = <<>> /\ evalTime = 0
    /\ clock \in Times
    /\ asking = NotAsking

\* What was so while the query in flight ran: every "now", and the intervals of
\* its fact that were at some time, and at all times, in the runtime's store.
Watched ==
    asking' = IF asking.at = "idle" THEN asking
              ELSE [asking EXCEPT
                     !.nows = @ \union {Now'},
                     !.seen = @ \union IntervalsOf(stores'[Len(stores')], asking.fact),
                     !.kept = @ \intersect IntervalsOf(stores'[Len(stores')], asking.fact)]

\* A new, empty store.
EnableTemporal ==
    /\ Len(stores) < MaxStores
    /\ stores' = Append(stores, {})
    /\ UNCHANGED <<evalTime, clock>> /\ Watched

\* Add to the runtime's store.
Add(f, start, end) ==
    /\ IsTemporalEnabled
    /\ Cardinality(stores[GetTemporalStore]) < MaxTimed
    /\ stores' = [stores EXCEPT ![GetTemporalStore] = @ \union {<<f, <<start, end>>>>}]
    /\ UNCHANGED <<evalTime, clock>> /\ Watched

AddTemporalFact(f, start, end) == start <= end /\ Add(f, start, end)
AddTemporalFactAt(f, at) == Add(f, at, at)
AddTemporalFactInPast(f, duration) == Add(f, Now - duration, Now)
AddTemporalFactInFuture(f, duration) == Add(f, Now, Now + duration)

\* Not guarded in the code: before EnableTemporal the nil store is dereferenced.
AddEternalFact(f) == Add(f, Eternity[1], Eternity[2])

SetEvaluationTime(t) == evalTime' = t /\ UNCHANGED <<stores, clock>> /\ Watched

TickClock == clock < MaxTime /\ clock' = clock + 1 /\ UNCHANGED <<stores, evalTime>> /\ Watched
-----------------------------------------------------------------------------
\* A query takes the store; its window is known but for ContainsTemporalFact.
TakeStore(f, kind, window) ==
    /\ asking = NotAsking /\ IsTemporalEnabled
    /\ asking' = [at |-> IF kind = "now" THEN "store" ELSE "window", kind |-> kind, fact |-> f,
                  store |-> GetTemporalStore, window |-> window, yes |-> FALSE, nows |-> {Now},
                  seen |-> IntervalsOf(stores[GetTemporalStore], f),
                  kept |-> IntervalsOf(stores[GetTemporalStore], f)]
    /\ UNCHANGED <<stores, evalTime, clock>>

QueryTemporalFactsAt(f, at) == TakeStore(f, "given", <<at, at>>)
QueryTemporalFactsDuring(f, start, end) == start <= end /\ TakeStore(f, "given", <<start, end>>)
ContainsTemporalFact(f) == TakeStore(f, "now", <<0, 0>>)

\* As ReadEvaluationTime, but with the clock whatever time is set.
ReadClock ==
    /\ asking.at = "store"
    /\ asking' = [asking EXCEPT !.at = "window", !.window = <<clock, clock>>]
    /\ UNCHANGED <<stores, evalTime, clock>>

\* ContainsTemporalFact looks at the evaluation time and the clock.
ReadEvaluationTime ==
    /\ asking.at = "store"
    /\ asking' = [asking EXCEPT !.at = "window", !.window = <<Now, Now>>]
    /\ UNCHANGED <<stores, evalTime, clock>>

\* The store taken is asked (ContainsAt, GetFactsAt, GetFactsDuring).
AskStore ==
    /\ asking.at = "window"
    /\ asking' = [asking EXCEPT !.at = "answer",
                    !.yes = \E i \in IntervalsOf(stores[asking.store], asking.fact) : Overlap(i, asking.window)]
    /\ UNCHANGED <<stores, evalTime, clock>>

TemporalAnswered == asking.at = "answer" /\ asking' = NotAsking /\ UNCHANGED <<stores, evalTime, clock>>

TemporalNext ==
    \/ EnableTemporal \/ TickClock
    \/ \E f \in TimedFacts :
          \/ \E w \in Windows : AddTemporalFact(f, w[1], w[2]) \/ QueryTemporalFactsDuring(f, w[1], w[2])
          \/ \E t \in Times : AddTemporalFactAt(f, t) \/ QueryTemporalFactsAt(f, t)
          \/ \E d \in Durations : AddTemporalFactInPast(f, d) \/ AddTemporalFactInFuture(f, d)
          \/ AddEternalFact(f) \/ ContainsTemporalFact(f)
    \/ \E t \in Times \union {0} : SetEvaluationTime(t)
    \/ ReadEvaluationTime \/ AskStore \/ TemporalAnswered
-----------------------------------------------------------------------------
\* A query of temporal facts takes the store, the time and the answer in
\* separate steps, and its answer still describes the call: yes only if the
\* fact was stored, at some time of the call, for a moment that the query asks
\* about; and yes whenever it was stored all along for every such moment.
AnswersExplained ==
    asking.at = "answer" =>
        LET windows == IF asking.kind = "given" THEN {asking.window} ELSE {<<t, t>> : t \in asking.nows}
            covered(by, w) == \E i \in by : Overlap(i, w)
        IN  /\ asking.yes => \E w \in windows : covered(asking.seen, w)
            /\ (\A w \in windows : covered(asking.kept, w)) => asking.yes
=============================================================================
