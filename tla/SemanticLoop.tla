---------------------------- MODULE SemanticLoop ----------------------------
(***************************************************************************)
(* sdk/loop.go: the Semantic State Machine that ExecuteByName runs, with   *)
(* its durable state (internal/statemanager).  Several executions of one   *)
(* session share the chat history of the memory provider and the           *)
(* checkpoint of the state provider; the process may crash between any two *)
(* writes.                                                                 *)
(*                                                                         *)
(* Each successful execution of an action is an exchange, numbered in the  *)
(* order of execution; a payload is the number of the exchange that        *)
(* produced it and 0 is the caller's input.  An empty SessionID is the     *)
(* case of no durable state and memory mode "none" or "transient".         *)
(***************************************************************************)
EXTENDS Naturals, Sequences, FiniteSets, SequencesExt

CONSTANTS
    Runs,             \* concurrent executions of ExecuteByName in the session
    Names,            \* action names a caller or a route may give
    Registered,       \* those in the registry
    Hints,            \* feedback texts, the empty one included
    NoHint,           \* the empty text
    Similar(_, _),    \* isSemanticallySimilar
    Modes,            \* memory modes in use
    OwnDecisions,     \* the decisions actions put on their results
    Durable,          \* is a state provider configured?
    Steering,         \* steeringEnabled
    StoreErrors,      \* may reads and writes of the providers fail?
    MaxSteps,         \* max loop iterations
    MaxRetries,       \* DefaultMaxRetries
    MaxExchanges,     \* bound: no new run after so many exchanges
    MaxCrashes        \* bound on crashes

ASSUME LoopAssumption ==
    /\ Registered \subseteq Names
    /\ NoHint \in Hints
    /\ \A g, h \in Hints : Similar(g, g) /\ (Similar(g, h) => Similar(h, g))
    /\ Modes \subseteq {"none", "transient", "persist"}
    /\ OwnDecisions \subseteq {"absent", "", "PROCEED", "RETRY", "ROUTE", "HALT", "ALLOW"}
    /\ {Durable, Steering, StoreErrors} \subseteq BOOLEAN
    /\ MaxSteps \in Nat \ {0}
    /\ {MaxRetries, MaxExchanges, MaxCrashes} \subseteq Nat

VARIABLES
    saved,        \* the checkpoint at the state provider
    chat,         \* the session's history at the memory provider
    memorized,    \* exchanges handed to asyncMemorize and returned
    exchanges,    \* how many there have been
    proceeded,    \* history: those decided PROCEED (or empty)
    crashes,
    run           \* locals of each execution

vars == <<saved, chat, memorized, exchanges, proceeded, crashes, run>>

\* The values a result's KeyDecision may have; "absent" is a missing key, and
\* "ALLOW" stands for any other text.
Decisions == {"absent", "", "PROCEED", "RETRY", "ROUTE", "HALT", "ALLOW"}
Proceeds == {"", "PROCEED"}

NoState == [has |-> FALSE, payload |-> 0, retry |-> 0, feedback |-> <<>>,
            history |-> <<>>, audit |-> <<>>]
IdleRun == [pc |-> "idle", mode |-> "none", action |-> "", payload |-> 0, step |-> 0,
            retry |-> 0, last |-> NoHint, feedback |-> <<>>, history |-> <<>>,
            audit |-> <<>>, decision |-> "absent", hint |-> NoHint, result |-> 0,
            attempts |-> 0]

Init ==
    /\ saved = NoState
    /\ chat = <<>>
    /\ memorized = {}
    /\ exchanges = 0
    /\ proceeded = {}
    /\ crashes = 0
    /\ run = [r \in Runs |-> IdleRun]

providers == <<saved, chat, memorized>>
numbering == <<exchanges, proceeded>>

\* An error ends the run; a result is what the caller gets.
Fail(r) == run' = [run EXCEPT ![r] = [IdleRun EXCEPT !.pc = "error"]]
-----------------------------------------------------------------------------
\* Store strategy: a persistent run starts from the provider's history.
Begin(r, mode, action) ==
    /\ run[r].pc = "idle"
    /\ exchanges < MaxExchanges
    /\ \E h \in {IF mode = "persist" THEN chat ELSE <<>>}
                   \union (IF StoreErrors THEN {<<>>} ELSE {}) :
          run' = [run EXCEPT ![r] = [IdleRun EXCEPT !.pc = "hydrate", !.mode = mode,
                                                    !.action = action, !.history = h]]
    /\ UNCHANGED <<providers, numbering, crashes>>

\* Hydration restores history, feedback, retry count and payload of the last
\* checkpoint, not the action and not the audit records; an error is logged.
Hydrate(r) ==
    /\ run[r].pc = "hydrate"
    /\ \/ /\ Durable /\ saved.has
          /\ run' = [run EXCEPT ![r] = [@ EXCEPT !.pc = "step", !.payload = saved.payload,
                        !.history = saved.history, !.feedback = saved.feedback,
                        !.retry = saved.retry]]
       \/ /\ ~Durable \/ ~saved.has \/ StoreErrors
          /\ run' = [run EXCEPT ![r].pc = "step"]
    /\ UNCHANGED <<providers, numbering, crashes>>

\* The head of an iteration and the action itself, when they end the run: a
\* cancelled context, no steps left, an unknown action, an error of the action
\* that is not an AlignmentError.
StepError(r) ==
    /\ run[r].pc = "step"
    /\ Fail(r)
    /\ UNCHANGED <<providers, numbering, crashes>>

CanExecute(r) ==
    /\ run[r].pc = "step"
    /\ run[r].step < MaxSteps
    /\ run[r].action \in Registered

\* Mutant: an AlignmentError does not use up a retry.
AlignmentRetryUncounted(r, msg) ==
    /\ CanExecute(r)
    /\ run' = [run EXCEPT ![r] = [@ EXCEPT !.last = msg, !.decision = "RETRY", !.hint = msg,
                  !.step = @ + 1, !.audit = Append(@, "RETRY"), !.attempts = @ + 1]]
    /\ UNCHANGED <<providers, numbering, crashes>>

\* handleExecutionError on an AlignmentError: a retry while any is left.  The
\* message does not enter the feedback history.
AlignmentRetry(r, msg) ==
    /\ CanExecute(r)
    /\ run[r].retry < MaxRetries
    /\ run' = [run EXCEPT ![r] = [@ EXCEPT !.retry = @ + 1, !.last = msg,
                  !.decision = "RETRY", !.hint = msg, !.step = @ + 1,
                  !.audit = Append(@, "RETRY"), !.attempts = @ + 1]]
    /\ UNCHANGED <<providers, numbering, crashes>>

\* What steering makes of the action's own decision: it fills in a missing
\* one; an error leaves it missing.
Steered(d) ==
    IF Steering /\ d \in {"absent", ""} THEN {d, "PROCEED", "RETRY", "ROUTE"} ELSE {d}

\* Mutant: the feedback of an earlier attempt stays.
ExecuteKeepsFeedback(r, d, hint) ==
    /\ CanExecute(r)
    /\ exchanges' = exchanges + 1
    /\ proceeded' = IF d \in Proceeds THEN proceeded \union {exchanges'} ELSE proceeded
    /\ run' = [run EXCEPT ![r] = [@ EXCEPT !.pc = "history", !.decision = d, !.hint = hint,
                                          !.result = exchanges']]
    /\ UNCHANGED <<providers, crashes>>

\* The action succeeds and, after steering, its decision is d.
Execute(r, d, hint) ==
    /\ CanExecute(r)
    /\ exchanges' = exchanges + 1
    /\ proceeded' = IF d \in Proceeds THEN proceeded \union {exchanges'} ELSE proceeded
    /\ run' = [run EXCEPT ![r] = [@ EXCEPT !.pc = "history", !.last = NoHint,
                  !.decision = d, !.hint = hint, !.result = exchanges']]
    /\ UNCHANGED <<providers, crashes>>

\* updateHistory: the provider is given the WHOLE current history to append.
UpdateHistory(r) ==
    LET h == IF run[r].mode = "none" THEN run[r].history
             ELSE Append(run[r].history, run[r].result)
    IN  /\ run[r].pc = "history"
        /\ run' = [run EXCEPT ![r].pc = "checkpoint", ![r].history = h]
        /\ \/ run[r].mode = "persist" /\ chat' = chat \o h
           \/ (run[r].mode # "persist" \/ StoreErrors) /\ UNCHANGED chat
        /\ UNCHANGED <<saved, memorized, numbering, crashes>>

\* Mutant: whatever was decided is saved.
SnapshotAlways(r) ==
    IF Durable
    THEN {[has |-> TRUE, payload |-> run[r].result, retry |-> run[r].retry,
           feedback |-> run[r].feedback, history |-> run[r].history, audit |-> run[r].audit]}
    ELSE {}

\* Mutant: the envelope saved is the one the step began with.
SnapshotInput(r) ==
    IF Durable /\ run[r].decision \in Proceeds
    THEN {[has |-> TRUE, payload |-> run[r].payload, retry |-> run[r].retry,
           feedback |-> run[r].feedback, history |-> run[r].history, audit |-> run[r].audit]}
    ELSE {}

\* The SessionState to save, if any: only a PROCEED (or empty) decision is
\* checkpointed.  The audit record of this step is not in it yet.
Snapshot(r) ==
    IF Durable /\ run[r].decision \in Proceeds
    THEN {[has |-> TRUE, payload |-> run[r].result, retry |-> run[r].retry,
           feedback |-> run[r].feedback, history |-> run[r].history, audit |-> run[r].audit]}
    ELSE {}

Checkpoint(r) ==
    /\ run[r].pc = "checkpoint"
    /\ \/ \E s \in Snapshot(r) : saved' = s
       \/ (Snapshot(r) = {} \/ StoreErrors) /\ UNCHANGED saved
    /\ run' = [run EXCEPT ![r].pc = "decide"]
    /\ UNCHANGED <<chat, memorized, numbering, crashes>>
-----------------------------------------------------------------------------

\* Semantic thrashing: the hint is similar to one already given.
Thrashing(f, hint) == \E i \in DOMAIN f : Similar(f[i], hint)

\* handleRetryDecision, and the loop goes on with the same action and payload.
\* Without retries left, on thrashing, or cancelled in the backoff: an error.
DecideRetry(r) ==
    /\ run[r].decision = "RETRY"
    /\ \/ /\ run[r].retry < MaxRetries
          /\ ~Thrashing(run[r].feedback, run[r].hint)
          /\ run' = [run EXCEPT ![r] = [@ EXCEPT !.pc = "step", !.step = @ + 1,
                        !.result = 0, !.retry = @ + 1, !.last = run[r].hint,
                        !.feedback = Append(@, run[r].hint),
                        !.audit = Append(@, "RETRY"), !.attempts = @ + 1]]
       \/ Fail(r)
    /\ UNCHANGED memorized

\* A route starts the next action, with the result, a fresh retry count and no
\* feedback; a missing next_step is an error.
DecideRoute(r) ==
    /\ run[r].decision = "ROUTE"
    /\ \/ \E next \in Names :
            run' = [run EXCEPT ![r] = [@ EXCEPT !.pc = "step", !.step = @ + 1,
                        !.result = 0, !.retry = 0,
                        !.feedback = <<>>, !.action = next, !.payload = run[r].result,
                        !.audit = Append(@, "ROUTE"), !.attempts = 0]]
       \/ Fail(r)
    /\ UNCHANGED memorized

DecideHalt(r) ==
    /\ run[r].decision = "HALT"
    /\ Fail(r)
    /\ UNCHANGED memorized

\* Anything else: the result goes to the caller, memorized if it proceeds.
DecideReturn(r) ==
    /\ run[r].decision \notin {"RETRY", "ROUTE", "HALT"}
    /\ memorized' = IF run[r].decision \in Proceeds THEN memorized \union {run[r].result}
                    ELSE memorized
    /\ run' = [run EXCEPT ![r].pc = "done"]

HandleDecision(r) ==
    /\ run[r].pc = "decide"
    /\ DecideRetry(r) \/ DecideRoute(r) \/ DecideHalt(r) \/ DecideReturn(r)
    /\ UNCHANGED <<saved, chat, numbering, crashes>>

Return(r) ==
    /\ run[r].pc \in {"done", "error"}
    /\ run' = [run EXCEPT ![r] = IdleRun]
    /\ UNCHANGED <<providers, numbering, crashes>>

\* The process dies: all executions and the in-memory history are lost.
Crash ==
    /\ crashes < MaxCrashes
    /\ crashes' = crashes + 1
    /\ chat' = <<>>
    /\ run' = [r \in Runs |-> IdleRun]
    /\ UNCHANGED <<saved, memorized, numbering>>

Next ==
    \/ \E r \in Runs :
        \/ \E mode \in Modes, action \in Names : Begin(r, mode, action)
        \/ Hydrate(r)
        \/ StepError(r)
        \/ \E msg \in Hints \ {NoHint} : AlignmentRetry(r, msg)
        \/ \E own \in OwnDecisions : \E d \in Steered(own) :
              \E hint \in IF d = "RETRY" THEN Hints ELSE {NoHint} : Execute(r, d, hint)
        \/ UpdateHistory(r)
        \/ Checkpoint(r)
        \/ HandleDecision(r)
        \/ Return(r)
    \/ Crash

Spec == Init /\ [][Next]_vars
-----------------------------------------------------------------------------
Points == {"idle", "hydrate", "step", "history", "checkpoint", "decide", "done", "error"}

TypeOK ==
    /\ saved \in [has : BOOLEAN, payload : 0 .. exchanges, retry : 0 .. MaxRetries,
                  feedback : Seq(Hints), history : Seq(1 .. exchanges),
                  audit : Seq({"RETRY", "ROUTE"})]
    /\ chat \in Seq(1 .. exchanges)
    /\ memorized \subseteq 1 .. exchanges
    /\ exchanges \in Nat
    /\ proceeded \subseteq 1 .. exchanges
    /\ crashes \in 0 .. MaxCrashes
    /\ run \in [Runs -> [pc : Points, mode : {"none", "transient", "persist"},
                         action : Names \union {""}, payload : 0 .. exchanges,
                         step : 0 .. MaxSteps, retry : 0 .. MaxRetries, last : Hints,
                         feedback : Seq(Hints), history : Seq(1 .. exchanges),
                         audit : Seq({"RETRY", "ROUTE"}), decision : Decisions,
                         hint : Hints, result : 0 .. exchanges, attempts : Nat]]

\* An action is re-run at most MaxRetries times before a route or the end,
\* by AlignmentErrors and RETRY decisions together, also when the retry count
\* comes from a checkpoint that another execution wrote.
RetryBudget == \A r \in Runs : run[r].attempts <= MaxRetries


\* An attempt is given feedback exactly when the step before it asked for a
\* retry, and it is the feedback of that step.
FeedbackIsFresh ==
    \A r \in Runs : run[r].pc = "step" =>
        run[r].last = IF run[r].decision = "RETRY" THEN run[r].hint ELSE NoHint

\* Nothing "poisoned" is kept: a checkpointed envelope or a memorized exchange
\* was decided PROCEED, whatever the interleaving of the session's executions.
OnlyProceedsKept ==
    memorized \union (IF saved.has THEN {saved.payload} ELSE {}) \subseteq proceeded

\* A checkpoint is one moment of one execution: its history holds no exchange
\* later than its envelope.
CheckpointCoherent ==
    saved.has => \A i \in DOMAIN saved.history : saved.history[i] <= saved.payload

\* A result handed to the caller with PROCEED is not lost by a crash: the next
\* execution resumes from it or a later one.  For one execution at a time and
\* a state provider that does not fail.
AckedSurvives ==
    Durable /\ ~StoreErrors =>
        \A e \in memorized : saved.has /\ saved.payload >= e

\* "Checkpoint persists the current session state after a successful
\* execution": when a run returns a result, the checkpoint holds it or a later
\* one.
SuccessIsCheckpointed ==
    Durable /\ ~StoreErrors =>
        \A r \in Runs : run[r].pc = "done" => saved.has /\ saved.payload >= run[r].result

\* What is kept for the next execution is what a PROCEED result left behind, and
\* of one moment.
KeptIsCoherent == OnlyProceedsKept /\ CheckpointCoherent
=============================================================================
