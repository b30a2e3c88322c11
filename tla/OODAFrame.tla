----------------------------- MODULE OODAFrame -----------------------------
(***************************************************************************)
(* Cognitive frames driven through the OODA phases, cycle after cycle:     *)
(*                                                                         *)
(*   "Run"      x/ooda/frame.go Run, as the ArchitectAgent calls it;       *)
(*   "RunOODA"  x/ooda/oooda.go RunOODA, as an OODAFlow calls it;          *)
(*   "EAST"     x/east/run.go RunOODAEAST;                                 *)
(*   "Loop"     x/ooda/loop.go Loop.Run.                                   *)
(*                                                                         *)
(* A reused frame (ArchitectAgent) keeps its decision, result and status   *)
(* from one cycle to the next; a flow builds a new frame for every input.  *)
(* Brain, Executor, Memory and the stores are external: every call may     *)
(* succeed or fail, which includes the frame's timeout.  Tools come and go *)
(* in the registry and others write to and clear the session while a cycle *)
(* runs.  A decision is "nil", "bare" (no Action), or the action's tool.   *)
(***************************************************************************)
EXTENDS OODAVerify, FiniteSets

CONSTANTS
  Setups,     \* the frames: [mode, reused, brain, executor, dispatcher,
              \*   memory, session, retries]
  Tools,      \* action names
  Trails,     \* the audit trails Brain.Verify may return
  Scans,      \* what orientWithEAST may measure: <<conflicts, rules, kept>>
  MaxCycles   \* bound on the number of cycles

VARIABLES
  setup,      \* the configuration of the frame
  frame,      \* the CognitiveFrame and the place in its cycle
  registry,   \* the names in the tool registry
  session,    \* the frame's facts in the TransientStore
  seen        \* history, for the properties only

frameVars == <<setup, frame, registry, session, seen>>

NoResult == [id |-> 0, bad |-> FALSE]

\* The session's facts; an all-empty session does not exist in the store.
NoSession == [result |-> 0, verify |-> "", needsRetry |-> FALSE, note |-> FALSE]

Decisions == {"nil", "bare"} \cup Tools
Modes == {"Run", "RunOODA", "EAST", "Loop"}

\* NewCognitiveFrame and NewBuilder: a fresh epoch.
NewFrame == [decision |-> "nil", result |-> NoResult, status |-> "PENDING",
             retry |-> 0, entropy |-> <<0, 1>>, rules |-> 0,
             at |-> "idle", outcome |-> "none"]

FrameInit ==
  /\ setup \in Setups
  /\ frame = NewFrame
  /\ registry \in SUBSET Tools
  /\ session = NoSession
  /\ seen = [cycle |-> 0, acts |-> 0, done |-> 0, bornIn |-> <<>>,
             checked |-> FALSE, halted |-> FALSE, noted |-> FALSE,
             audit |-> NoBrainAudit, rolled |-> {}, committed |-> {}]

\* The cycle returns to its caller.
Return(f, outcome) == [f EXCEPT !.at = "idle", !.outcome = outcome]

Goto(f, place) == [f EXCEPT !.at = place]

-----------------------------------------------------------------------------
(* Observe and Orient *)

\* The frame a cycle starts with: the ArchitectAgent keeps one and only sets
\* its input, an OODAFlow makes a new one.
NextFrame == IF setup.reused THEN [frame EXCEPT !.outcome = "none"] ELSE NewFrame

Begin(frames) ==
  /\ frame.at = "idle" /\ frame.outcome # "panic" /\ seen.cycle < MaxCycles
  /\ frame' \in frames
  /\ seen' = [seen EXCEPT !.cycle = @ + 1, !.acts = 0, !.checked = FALSE,
                          !.halted = FALSE, !.audit = NoBrainAudit]
  /\ UNCHANGED <<setup, registry, session>>

Observed == [NextFrame EXCEPT !.at = "orient", !.retry = 0]

\* observe: any input is captured.  (Loop: the Observer may fail.)
observe ==
  \/ setup.mode = "Run" /\ Begin({Observed})
  \/ setup.mode = "Loop" /\ Begin({Observed, Return(NextFrame, "error")})

\* observeWithValidation: an empty input is rejected.
observeWithValidation ==
  setup.mode = "RunOODA" /\ Begin({Observed, Return(NextFrame, "error")})

\* observeWithSaliency: an empty input is rejected.
observeWithSaliency ==
  setup.mode = "EAST" /\ Begin({Observed, Return(NextFrame, "error")})

\* Orient: recall from the knowledge store, from the session, from memory;
\* any error ends the cycle, and a session without facts is an error of
\* ToAtoms.  (Loop: the Orienter.)
Orient ==
  /\ setup.mode \in {"Run", "Loop"}
  /\ frame.at = "orient"
  /\ \/ /\ setup.mode = "Run" /\ setup.session => session # NoSession
        /\ frame' = Goto(frame, "decide")
     \/ frame' = Return(frame, "error")
  /\ UNCHANGED <<setup, registry, session, seen>>

\* orientForTool: errors of the two stores are ignored.
orientForTool ==
  /\ setup.mode = "RunOODA" /\ frame.at = "orient"
  /\ frame' = Goto(frame, "decide")
  /\ UNCHANGED <<setup, registry, session, seen>>

\* orientWithEAST: Orient, then the entropy of the context; pruning leaves
\* fewer rules than the entropy was measured on.
orientWithEAST ==
  /\ setup.mode = "EAST" /\ frame.at = "orient"
  /\ \/ /\ setup.session => session # NoSession
        /\ \E s \in Scans :
             frame' = [frame EXCEPT !.at = "plan", !.rules = s[3],
                                    !.entropy = CalculateEntropy(s[1], s[2])]
     \/ frame' = Return(frame, "error")
  /\ UNCHANGED <<setup, registry, session, seen>>

\* planWithEAST: a Brain that plans may fail.
planWithEAST ==
  /\ frame.at = "plan"
  /\ \/ frame' = Goto(frame, "decide")
     \/ setup.brain /\ frame' = Return(frame, "error")
  /\ UNCHANGED <<setup, registry, session, seen>>

-----------------------------------------------------------------------------
(* Decide *)

\* The Brain's answer replaces the decision, also by nil; an error ends the
\* cycle; without a Brain the decision stays what it was.
Evaluate(next) ==
  /\ \/ ~setup.brain /\ frame' = Goto(frame, next)
     \/ /\ setup.brain
        /\ \E d \in Decisions : frame' = [Goto(frame, next) EXCEPT !.decision = d]
     \/ setup.brain /\ frame' = Return(frame, "error")
  /\ UNCHANGED <<setup, registry, session, seen>>

\* decide of Run and RunOODA.
decide ==
  setup.mode \in {"Run", "RunOODA"} /\ frame.at = "decide" /\ Evaluate("act")

\* decideWithEAST, before the first Act and again after a rejected one.
decideWithEAST ==
  /\ setup.mode = "EAST"
  /\ \/ frame.at = "decide" /\ Evaluate("act")
     \/ frame.at = "redecide" /\ Evaluate("react")

\* Loop.Run's Decider; LoopDecideThenAct skips to the phase after Verify.
LoopDecideThenAct ==
  setup.mode = "Loop" /\ frame.at = "decide" /\ Evaluate("loopact")

LoopDecide ==
  setup.mode = "Loop" /\ frame.at = "decide" /\ Evaluate("verify")

-----------------------------------------------------------------------------
(* Act *)

Failed == [err |-> TRUE, result |-> NoResult]
Fresh(bad) == [err |-> FALSE, result |-> [id |-> seen.done + 1, bad |-> bad]]

Nothing == [err |-> FALSE, result |-> NoResult]

\* Dispatcher.Dispatch: an unknown tool runs SafeStop and is an error; the
\* dispatcher's fallback is never consulted.
Dispatch(name) ==
  IF name \in registry THEN {Failed, Fresh(TRUE), Fresh(FALSE)} ELSE {Failed}

\* executeWithDispatcher: SafeStop's answer is dropped with the error.
executeWithDispatcher == Dispatch(frame.decision)

\* executeAction: the dispatcher for a decision with an action, else the legacy
\* Executor, which may also return nil, else nothing.
executeAction ==
  CASE setup.dispatcher /\ frame.decision \in Tools -> executeWithDispatcher
    [] setup.executor /\ ~(setup.dispatcher /\ frame.decision \in Tools) ->
         {Failed, Fresh(TRUE), Fresh(FALSE), Nothing}
    [] OTHER -> IF frame.decision \in Tools THEN {Failed} ELSE {Nothing}

\* The history after one execution.
Executed(run) ==
  [seen EXCEPT !.acts = @ + 1,
               !.checked = FALSE,
               !.done = IF run.result = NoResult THEN @ ELSE @ + 1,
               !.bornIn = IF run.result = NoResult THEN @ ELSE Append(@, seen.cycle)]

\* Act: nothing without a decision; a result goes to the frame and, under the
\* action's name, to the session (Put of both stores always succeeds).  Naming
\* the key dereferences the Action, which a bare decision does not have.
Act(after) ==
  IF frame.decision = "nil"
  THEN frame' = Goto(frame, after) /\ UNCHANGED <<session, seen>>
  ELSE \E run \in {r \in executeAction : ~r.err} :
         /\ seen' = Executed(run)
         /\ LET stored == setup.session /\ run.result # NoResult
                f == [frame EXCEPT !.result = run.result]
            IN  /\ frame' = IF stored /\ frame.decision = "bare" THEN Return(f, "panic")
                            ELSE Goto(f, after)
                /\ session' = IF stored /\ frame.decision # "bare"
                              THEN [session EXCEPT !.result = run.result.id] ELSE session

\* An attempt that fails: the Executor rolls back the frame's ActionResult, if
\* there is one.
ActFails(f) ==
  /\ frame.decision # "nil" /\ Failed \in executeAction
  /\ frame' = f
  /\ seen' = [Executed(Failed) EXCEPT
                !.rolled = IF setup.executor /\ frame.result # NoResult
                           THEN @ \cup {<<frame.result.id, seen.cycle>>} ELSE @]
  /\ UNCHANGED session

\* The attempts 0 .. max of a retry loop.
Attempts(max) ==
  /\ frame.at = "act" /\ frame.retry <= max
  /\ \/ Act("verify")
     \/ ActFails(IF frame.retry < max THEN Goto(frame, "backoff")
                 ELSE Return(frame, "error"))
  /\ UNCHANGED <<setup, registry>>

\* actWithRetry: a negative MaxRetries skips the action and succeeds.
actWithRetry ==
  /\ setup.mode = "Run"
  /\ \/ Attempts(setup.retries)
     \/ /\ frame.at = "act" /\ frame.retry > setup.retries
        /\ frame' = Goto(frame, "verify")
        /\ UNCHANGED <<setup, registry, session, seen>>

\* actWithSimpleRetry: no MaxRetries means three.
actWithSimpleRetry ==
  setup.mode = "RunOODA" /\ Attempts(IF setup.retries <= 0 THEN 3 ELSE setup.retries)

\* A backoff whose timer only exists from the second retry on.
BackoffWithoutTimer ==
  /\ frame.at = "backoff" /\ frame.retry > 0
  /\ frame' \in {[Goto(frame, "act") EXCEPT !.retry = @ + 1], Return(frame, "error")}
  /\ UNCHANGED <<setup, registry, session, seen>>

\* The wait before the next attempt, or the context ends first.
Backoff ==
  /\ frame.at = "backoff"
  /\ \/ frame' = [Goto(frame, "act") EXCEPT !.retry = @ + 1]
     \/ frame' = Return(frame, "error")
  /\ UNCHANGED <<setup, registry, session, seen>>

\* RunOODAEAST's single Act, and the one that follows a refinement; a failure
\* ends the cycle and nothing is rolled back.
actEAST ==
  /\ setup.mode = "EAST" /\ frame.at \in {"act", "react"}
  /\ \/ Act("postact")
     \/ /\ frame.decision # "nil" /\ Failed \in executeAction
        /\ frame' = Return(frame, "error") /\ seen' = Executed(Failed)
        /\ UNCHANGED session
  /\ UNCHANGED <<setup, registry>>

-----------------------------------------------------------------------------
(* Verify and Commit *)

StatusOf(result) == IF result.bad THEN "failed" ELSE "success"

\* verify: the outcome of an action is noted in the session (and a retry flag
\* that nothing takes back), then the Brain verifies.
verify ==
  /\ setup.mode = "Run" /\ frame.at = "verify"
  /\ LET noted == setup.session /\ frame.result # NoResult /\ frame.decision \in Tools
     IN  session' = IF noted
                    THEN [session EXCEPT !.verify = StatusOf(frame.result),
                                         !.needsRetry = @ \/ frame.result.bad]
                    ELSE session
  /\ \/ frame' = Goto(frame, "commit") /\ seen' = [seen EXCEPT !.checked = setup.brain]
     \/ setup.brain /\ frame' = Return(frame, "error") /\ UNCHANGED seen
  /\ UNCHANGED <<setup, registry>>

\* VerifySchema: only an action with a result is verified; the Brain first,
\* then the words of the result.
VerifySchema ==
  /\ setup.mode = "RunOODA" /\ frame.at = "verify"
  /\ IF frame.decision \in Tools /\ frame.result # NoResult
     THEN \/ /\ ~frame.result.bad
             /\ frame' = Goto(frame, "commit")
             /\ seen' = [seen EXCEPT !.checked = setup.brain]
          \/ /\ setup.brain \/ frame.result.bad
             /\ frame' = Return(frame, "error") /\ UNCHANGED seen
     ELSE frame' = Goto(frame, "commit") /\ UNCHANGED seen
  /\ UNCHANGED <<setup, registry, session>>

Committed == [seen EXCEPT !.committed =
                IF setup.memory THEN @ \cup {frame.result.id} ELSE @]

\* The end of Run: Memory.Commit.
RunCommit ==
  /\ setup.mode = "Run" /\ frame.at = "commit"
  /\ \/ frame' = Return(frame, "ok") /\ seen' = Committed
     \/ setup.memory /\ frame' = Return(frame, "error") /\ UNCHANGED seen
  /\ UNCHANGED <<setup, registry, session>>

\* The end of RunOODA: Memory.Commit, then the frame is marked as passed;
\* CommitMarksFirst does it in the other order.
CommitMarksFirst ==
  /\ setup.mode = "RunOODA" /\ frame.at = "commit"
  /\ LET f == [frame EXCEPT !.status = "PASSED"]
     IN  \/ frame' = Return(f, "ok") /\ seen' = Committed
         \/ setup.memory /\ frame' = Return(f, "error") /\ UNCHANGED seen
  /\ UNCHANGED <<setup, registry, session>>

RunOODACommit ==
  /\ setup.mode = "RunOODA" /\ frame.at = "commit"
  /\ \/ frame' = [Return(frame, "ok") EXCEPT !.status = "PASSED"] /\ seen' = Committed
     \/ setup.memory /\ frame' = Return(frame, "error") /\ UNCHANGED seen
  /\ UNCHANGED <<setup, registry, session>>

\* eastPostAct, one round of its loop, given the audit of this round: stop,
\* accept (with a warning if only user rules object), or refine.
PostActRound(audit) ==
  LET count == frame.retry + 1
      entropy == UpdateEntropy(frame.entropy, IF audit.Pass THEN 0 ELSE 1, frame.rules)
      max == IF setup.retries <= 0 THEN 3 ELSE setup.retries
      reason == ShouldTerminate(audit, count, max, entropy)
      f == [frame EXCEPT !.retry = count, !.entropy = entropy]
      accept == audit.Pass \/ (Below(entropy, 7) /\ audit.ViolationTier = "T3")
  IN  CASE reason # "" ->
             /\ frame' = [Return(f, reason) EXCEPT !.status = "FAILED"]
             /\ seen' = [seen EXCEPT !.halted = reason = "t0_violation", !.audit = audit]
        [] reason = "" /\ accept ->
             /\ frame' = [Return(f, "ok") EXCEPT
                            !.status = IF audit.Pass THEN "PASSED" ELSE "WARNING"]
             /\ \/ seen' = [Committed EXCEPT !.checked = setup.brain, !.audit = audit]
                \/ /\ setup.memory
                   /\ seen' = [seen EXCEPT !.checked = setup.brain, !.audit = audit]
        [] OTHER ->
             /\ frame' = Goto(f, "redecide")
             /\ seen' = [seen EXCEPT !.audit = audit]

eastPostAct ==
  /\ frame.at = "postact"
  /\ \/ \E trail \in Trails : setup.brain /\ PostActRound(ValidateAgainstRules(trail))
     \/ ~setup.brain /\ PostActRound(NoBrainAudit)
     \/ setup.brain /\ frame' = Return(frame, "error") /\ UNCHANGED seen
  /\ UNCHANGED <<setup, registry, session>>

\* Loop.Run: Verifier, then Actor; a missing capability is skipped.
LoopVerify ==
  /\ setup.mode = "Loop" /\ frame.at = "verify"
  /\ \/ frame' = Goto(frame, "loopact") /\ seen' = [seen EXCEPT !.checked = setup.brain]
     \/ setup.brain /\ frame' = Return(frame, "error") /\ UNCHANGED seen
  /\ UNCHANGED <<setup, registry, session>>

LoopAct ==
  /\ frame.at = "loopact"
  /\ IF setup.executor
     THEN /\ frame' \in {Return(frame, "ok"), Return(frame, "error")}
          /\ seen' = [seen EXCEPT !.acts = @ + 1]
     ELSE frame' = Return(frame, "ok") /\ UNCHANGED seen
  /\ UNCHANGED <<setup, registry, session>>

-----------------------------------------------------------------------------
(* The surroundings *)

Register(t) ==
  /\ t \notin registry /\ registry' = registry \cup {t}
  /\ UNCHANGED <<setup, frame, session, seen>>

Unregister(t) ==
  /\ t \in registry /\ registry' = registry \ {t}
  /\ UNCHANGED <<setup, frame, session, seen>>

\* Another component of the workflow puts a fact into the session.
OthersPut ==
  /\ setup.session /\ ~session.note
  /\ session' = [session EXCEPT !.note = TRUE]
  /\ seen' = [seen EXCEPT !.noted = TRUE]
  /\ UNCHANGED <<setup, frame, registry>>

\* ClearSession, or the cleanup of a session that expired.
SessionCleared ==
  /\ session # NoSession /\ session' = NoSession
  /\ UNCHANGED <<setup, frame, registry, seen>>

\* The four loops, phase by phase.
Run == Orient \/ decide \/ actWithRetry \/ Backoff \/ verify \/ RunCommit

RunOODA ==
  orientForTool \/ decide \/ actWithSimpleRetry \/ Backoff \/ VerifySchema \/ RunOODACommit

RunOODAEAST ==
  orientWithEAST \/ planWithEAST \/ decideWithEAST \/ actEAST \/ eastPostAct

LoopRun == Orient \/ LoopDecide \/ LoopVerify \/ LoopAct

FrameStep ==
  \/ setup.mode = "Run" /\ Run
  \/ setup.mode = "RunOODA" /\ RunOODA
  \/ setup.mode = "EAST" /\ RunOODAEAST
  \/ setup.mode = "Loop" /\ LoopRun

FrameNext ==
  \/ observe \/ observeWithValidation \/ observeWithSaliency
  \/ FrameStep
  \/ \E t \in Tools : Register(t) \/ Unregister(t)
  \/ OthersPut
  \/ SessionCleared

\* Every call a phase makes comes back: they all carry the frame's timeout.
FrameFairness == WF_frameVars(FrameStep)

\* What OODAFlow.Run tells its caller of the frame it ran.
FlowOutput == [Error |-> frame.outcome # "ok", Status |-> frame.status]

-----------------------------------------------------------------------------
(* Properties *)

\* A cycle executes its decision at most MaxRetries + 1 times in Run and
\* RunOODA (whose default is 3), and at most MaxRetries times in the
\* refinement loop of EAST, whoever of the two loops counts.
ActsWithinBudget ==
  LET max == IF setup.retries <= 0 THEN 3 ELSE setup.retries
  IN  seen.acts <= CASE setup.mode = "Run" -> setup.retries + 1
                     [] setup.mode = "RunOODA" -> max + 1
                     [] setup.mode = "EAST" -> max
                     [] OTHER -> 1

\* A result that is in memory has been verified: a commit adds a result only
\* when the Brain has verified it in the same cycle and nothing was executed
\* since, or when there was no action whose result could be verified.  (EAST
\* and Run always verify; RunOODA skips decisions without an action.)
CommitFollowsVerify ==
  [][seen'.committed # seen.committed /\ setup.brain =>
       \/ seen'.checked
       \/ setup.mode = "RunOODA"
          /\ (frame.decision \notin Tools \/ frame.result = NoResult)]_frameVars

\* A failed attempt leaves no result of its own, so what actWithRetry rolls
\* back is always the result of an earlier cycle of a reused frame, and a
\* frame that is used once never rolls back.
RollbackHitsEarlierCycle ==
  \A r \in seen.rolled :
    /\ r[1] \in DOMAIN seen.bornIn /\ seen.bornIn[r[1]] < r[2]
    /\ setup.reused

\* A frame with a session runs an action only if some other component has put
\* a fact into that session: Orient treats the absent session as an error, and
\* the frame itself writes to it only after it has acted.
SessionNeedsOthers ==
  setup.mode \in {"Run", "EAST"} /\ setup.session /\ ~seen.noted => seen.done = 0

\* When a cycle is about to commit, what its session says of the action is
\* about the result it commits, not about an earlier cycle's, and a failed
\* action is flagged for a retry; a session cleared meanwhile says nothing.
StatusDescribesResult ==
  /\ frame.at = "commit" /\ setup.mode = "Run" /\ seen.acts > 0
  /\ frame.decision \in Tools /\ frame.result # NoResult
  /\ session.verify # ""
  => /\ session.verify = StatusOf(frame.result)
     /\ frame.result.bad => session.needsRetry

\* A frame that is not reused says PASSED or WARNING exactly when its cycle
\* succeeded (OODAFlow.Run reports this status next to the error).
StatusIsEarned ==
  /\ ~setup.reused /\ frame.at = "idle" /\ seen.cycle > 0 /\ setup.mode \in {"RunOODA", "EAST"}
  => (FlowOutput.Error <=> FlowOutput.Status \notin {"PASSED", "WARNING"})

\* EAST: after a T0 violation the cycle executes nothing more, and a cycle
\* that is accepted has no T0 or T1 violation.
KernelViolationHalts ==
  /\ seen.halted => frame.at = "idle" /\ frame.status = "FAILED"
  /\ setup.mode = "EAST" /\ frame.at = "idle" /\ frame.outcome = "ok" =>
       seen.audit.ViolationTier \notin {"T0", "T1"}

\* "ErrMaxRefinementIterations is returned when refinement exceeds max
\* iterations" (x/east/run.go:15): a result that passes its audit is accepted.
ExhaustedMeansRejected ==
  frame.at = "idle" /\ frame.outcome = "max_iterations" => ~seen.audit.Pass

\* Loop.Run acts only after its Verifier has accepted the plan of the same
\* cycle.
LoopVerifiesFirst ==
  [][setup.mode = "Loop" /\ seen'.acts > seen.acts /\ setup.brain => seen.checked]_frameVars

\* Every cycle that begins comes back to its caller.
CyclesReturn == frame.at # "idle" ~> frame.at = "idle"

\* How a cycle ended is what happened in it: within its budget, on its own
\* result, and stopped by a violation of the kernel.
OutcomesAreEarned ==
    /\ ActsWithinBudget /\ RollbackHitsEarlierCycle /\ SessionNeedsOthers
    /\ StatusDescribesResult /\ StatusIsEarned /\ KernelViolationHalts

\* Every driver verifies before it keeps.
CommitsAreVerified == CommitFollowsVerify /\ LoopVerifiesFirst
=============================================================================
