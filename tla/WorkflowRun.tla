---------------------------- MODULE WorkflowRun -----------------------------
(***************************************************************************)
(* The sequential workflow executors: multiagent/hydrated_executor.go      *)
(* (Execute, and ExecuteWithSession over the in-memory or the transient    *)
(* store) and ExecuteWorkflow of multiagent/workflow_executor.go.  The     *)
(* three loops are one loop; they differ in where they start, in how they  *)
(* find an agent and in the session they keep.                             *)
(*                                                                         *)
(* Runs of one session may be cancelled (their timeout included), resumed, *)
(* follow one another or overlap, while the session is deleted or expires. *)
(* An input is the node whose output it is, InitialInput, or Nil.  The     *)
(* store is read and written under its lock; between two accesses a run    *)
(* works on its instance alone.  Two runs holding the same instance object *)
(* of the in-memory store would race and are left out.                     *)
(***************************************************************************)
EXTENDS Integers, WorkflowGraph, SessionStores

CONSTANTS
    Runs, Cancellable,   \* the executions, and those whose context may end
    WorkflowDefs,    \* the definitions that may be executed
    Kinds,           \* subset of {"plain", "agent", "memory", "transient"}
    MaxRetries,      \* maxRetries: of a node, and visits of a node
    SessionTTL       \* time to live of the transient store, in ticks

VARIABLES
    def, kind,       \* the definition and the executor in use
    home,            \* the session store
    run,             \* locals of each run
    overlapped,      \* history: two runs were active at once
    tried            \* history: nodes some run has executed successfully

runVars == <<def, kind, home, run, overlapped, tried>>

S == <<"s">>
W == <<"w">>
Key == SessionKey(S, W)
InitialInput == 0
Nil == -1

Inst(cur, status, obj) ==
    [cur |-> cur, done |-> {}, failed |-> {}, status |-> status, input |-> Nil, obj |-> obj]
NoInst == Inst(NoNode, "pending", None)
IdleRun == [pc |-> "idle", inst |-> NoInst, input |-> InitialInput, visits |-> <<>>,
            erred |-> FALSE, attempt |-> 0, status |-> "running", output |-> Nil,
            cancelled |-> FALSE]

RunInit ==
    /\ def \in WorkflowDefs
    /\ kind \in Kinds
    /\ home = IF kind = "memory" THEN EmptyMem ELSE <<>>
    /\ run = [r \in Runs |-> IdleRun]
    /\ overlapped = FALSE
    /\ tried = {}

Sessional == kind \in {"memory", "transient"}
Active(r) == run[r].pc \notin {"idle", "done"}
Stored ==
    CASE kind = "memory" -> MemGet(home, Key)
      [] kind = "transient" -> AdapterGet(home, Key)
      [] OTHER -> None
Updated(inst) ==
    CASE kind = "memory" -> MemUpdate(home, S, W, inst)
      [] kind = "transient" -> AdapterPut(home, S, W, inst, SessionTTL)
      [] OTHER -> home
fixed == <<def, kind>>
-----------------------------------------------------------------------------
\* A variant that forgets all nodes before it.
SetCurrentNodeAnew(inst, n) ==
    [inst EXCEPT !.cur = n, !.done = IF inst.cur = NoNode THEN @ ELSE {inst.cur}]

\* WorkflowInstance: entering a node marks the one before as completed.
SetCurrentNode(inst, n) ==
    [inst EXCEPT !.cur = n, !.done = IF inst.cur = NoNode THEN @ ELSE @ \union {inst.cur}]
MarkNodeCompleted(inst, n) == [inst EXCEPT !.done = @ \union {n}]
MarkNodeFailed(inst, n) == [inst EXCEPT !.failed = @ \union {n}]

\* Nodes an instance lists as completed start with one visit.
Visits(inst) == [n \in NodeSet(def) |-> IF n \in inst.done THEN 1 ELSE 0]

Enter(r, inst, input) ==
    [run[r] EXCEPT !.pc = "top", !.inst = inst, !.input = input, !.visits = Visits(inst)]

\* A definition without a start node fails the run; nothing is saved.
StartAt(r, n, inst) ==
    IF n = NoNode THEN [run[r] EXCEPT !.pc = "done", !.status = "failed", !.inst = inst]
    ELSE Enter(r, SetCurrentNode(inst, n), InitialInput)

\* A stored instance goes on at its node with the input saved there; the
\* caller's input is dropped.  If the node is gone the caller's input is kept.
Resume(r, inst) ==
    IF inst.cur = NoNode THEN StartAt(r, FindStartNode(def, def.root), inst)
    ELSE Enter(r, inst, IF GetNode(def, inst.cur) # NoNode THEN inst.input ELSE InitialInput)

\* Runs without a session share nothing: one of them is enough.
Begin(r) ==
    /\ run[r].pc = "idle"
    /\ Sessional \/ \A q \in Runs : run[q].pc = "idle"
    /\ overlapped' = (overlapped \/ \E q \in Runs : Active(q))
    /\ UNCHANGED <<fixed, tried>>

Execute(r) ==
    /\ kind = "plain"
    /\ Begin(r)
    /\ run' = [run EXCEPT ![r] = StartAt(r, FindStartNode(def, def.root), NoInst)]
    /\ UNCHANGED home

ExecuteWorkflow(r) ==
    /\ kind = "agent"
    /\ Begin(r)
    /\ run' = [run EXCEPT ![r] = StartAt(r, executorStartNode(def), NoInst)]
    /\ UNCHANGED home

\* The in-memory store hands out the object it holds, or an error.
ExecuteWithSession(r) ==
    /\ kind = "memory"
    /\ Begin(r)
    /\ \/ /\ Stored = None
          /\ run' = [run EXCEPT ![r].pc = "create"]
       \/ /\ Stored # None
          /\ \A q \in Runs : Active(q) => run[q].inst.obj # Stored.obj
          /\ run' = [run EXCEPT ![r] = Resume(r, Stored)]
    /\ UNCHANGED home

\* The adapter hands out a copy, or a new instance that is not yet stored.
ExecuteWithSessionCopy(r) ==
    /\ kind = "transient"
    /\ Begin(r)
    /\ run' = [run EXCEPT ![r] = Resume(r, IF Stored = None THEN NoInst ELSE Stored)]
    /\ UNCHANGED home

\* Two first runs of a session: the second Create fails and with it the run.
CreateSession(r) ==
    /\ run[r].pc = "create"
    /\ \/ /\ Stored # None
          /\ run' = [run EXCEPT ![r].pc = "done", ![r].status = "failed"]
          /\ UNCHANGED home
       \/ /\ Stored = None
          /\ LET begun == Resume(r, Inst(NoNode, "running", r))
             IN  /\ run' = [run EXCEPT ![r] = begun]
                 /\ home' = MemCreate(home, S, W, begun.inst)
    /\ UNCHANGED <<fixed, overlapped, tried>>
-----------------------------------------------------------------------------
\* The end of a run: its status, the instance's and the last Update.
InstStatus(status) == IF status = "cancelled" THEN "paused" ELSE status
FinishUnsaved(r, inst, status) ==
    LET last == [inst EXCEPT !.status = InstStatus(status)]
    IN  /\ run' = [run EXCEPT ![r] = [@ EXCEPT !.pc = "done", !.inst = last, !.status = status,
                                        !.output = IF status = "completed" THEN run[r].input ELSE Nil]]
        /\ UNCHANGED home
Finish(r, inst, status) ==
    LET last == [inst EXCEPT !.status = InstStatus(status)]
    IN  /\ run' = [run EXCEPT ![r] = [@ EXCEPT !.pc = "done", !.inst = last, !.status = status,
                                        !.output = IF status = "completed" THEN run[r].input ELSE Nil]]
        /\ home' = Updated(last)

\* The loop was left without a verdict.
FinishRunning(r, inst) == Finish(r, inst, IF run[r].erred THEN "failed" ELSE "completed")

\* The head of the loop: cancellation, a node that does not exist, the visit
\* limit; otherwise the input is saved and the node is executed.
LoopTop(r) ==
    LET cur == run[r].inst.cur
        inst == [run[r].inst EXCEPT !.input = run[r].input]
    IN  /\ run[r].pc = "top"
        /\ \/ /\ run[r].cancelled /\ (Sessional \/ cur \in NodeSet(def))
              /\ Finish(r, run[r].inst, "cancelled")
           \/ /\ cur \notin NodeSet(def) /\ ~(run[r].cancelled /\ Sessional)
              /\ FinishRunning(r, run[r].inst)
           \/ /\ ~run[r].cancelled /\ cur \in NodeSet(def)
              /\ run[r].visits[cur] >= MaxRetries
              /\ Finish(r, run[r].inst, "failed")
           \/ /\ ~run[r].cancelled /\ cur \in NodeSet(def)
              /\ run[r].visits[cur] < MaxRetries
              /\ run' = [run EXCEPT ![r] = [@ EXCEPT !.pc = "node", !.inst = inst,
                                              !.visits[cur] = @ + 1, !.attempt = 0]]
              /\ home' = Updated(inst)
        /\ UNCHANGED <<fixed, overlapped, tried>>

\* A node whose attempts are used up, or cancelled while waiting for the next.
NodeFailed(r) ==
    LET cur == run[r].inst.cur
        edge == findErrorEdge(def, cur)
        inst == MarkNodeFailed(run[r].inst, cur)
    IN  IF edge = NoEdge THEN Finish(r, inst, "failed")
        ELSE /\ run' = [run EXCEPT ![r] = [@ EXCEPT !.pc = "top", !.erred = TRUE,
                                             !.inst = SetCurrentNode(inst, edge.to)]]
             /\ home' = Updated(SetCurrentNode(inst, edge.to))

NodeSucceeds(r, verdict) ==
    LET cur == run[r].inst.cur
        inst == MarkNodeCompleted(run[r].inst, cur)
        next == findNextNode(def, cur, verdict)
    IN  /\ run[r].pc = "node"
        /\ tried' = tried \union {cur}
        /\ \/ next.err /\ Finish(r, inst, "failed")
           \/ /\ ~next.err /\ next.node = NoNode
              /\ LET last == [inst EXCEPT !.status = IF run[r].erred THEN "failed" ELSE "completed"]
                 IN  /\ run' = [run EXCEPT ![r] = [@ EXCEPT !.pc = "done", !.inst = last,
                                  !.status = last.status, !.input = cur,
                                  !.output = IF run[r].erred THEN Nil ELSE cur]]
                     /\ home' = Updated(last)
           \/ /\ ~next.err /\ next.node # NoNode
              /\ run' = [run EXCEPT ![r] = [@ EXCEPT !.pc = "top", !.input = cur,
                                              !.inst = SetCurrentNode(inst, next.node)]]
              /\ home' = Updated(SetCurrentNode(inst, next.node))
        /\ UNCHANGED <<fixed, overlapped>>

\* An attempt fails; the next one waits for its timer.
executeNode(r) ==
    /\ run[r].pc = "node"
    /\ \/ run[r].attempt < MaxRetries /\ run' = [run EXCEPT ![r].pc = "backoff"] /\ UNCHANGED home
       \/ run[r].attempt = MaxRetries /\ NodeFailed(r)
    /\ UNCHANGED <<fixed, overlapped, tried>>

BackoffWithoutTimer(r) ==
    /\ run[r].pc = "backoff" /\ run[r].cancelled
    /\ NodeFailed(r)
    /\ UNCHANGED <<fixed, overlapped, tried>>

Backoff(r) ==
    /\ run[r].pc = "backoff"
    /\ \/ run' = [run EXCEPT ![r] = [@ EXCEPT !.pc = "node", !.attempt = @ + 1]] /\ UNCHANGED home
       \/ run[r].cancelled /\ NodeFailed(r)
    /\ UNCHANGED <<fixed, overlapped, tried>>

\* The Datalog executor fails a node at once when no agent can do its task.
NoAgents(r) ==
    /\ run[r].pc = "node" /\ run[r].attempt = 0
    /\ NodeFailed(r)
    /\ UNCHANGED <<fixed, overlapped, tried>>
-----------------------------------------------------------------------------
\* The environment: cancellation or timeout, deletion, time.
Cancel(r) ==
    /\ Active(r) /\ ~run[r].cancelled /\ r \in Cancellable
    /\ run' = [run EXCEPT ![r].cancelled = TRUE]
    /\ UNCHANGED <<fixed, home, overlapped, tried>>

DeleteSession ==
    /\ Sessional /\ Stored # None
    /\ home' = IF kind = "memory" THEN MemDelete(home, S, W) ELSE AdapterDelete(home, Key)
    /\ UNCHANGED <<fixed, run, overlapped, tried>>

\* Ages within the time to live are not told apart.
Age ==
    /\ kind = "transient" /\ Stored # None
    /\ home' = [home EXCEPT ![S][Key].age = SessionTTL + 1]
    /\ UNCHANGED <<fixed, run, overlapped, tried>>

\* A node of the session executor, of which the plain one has a copy, and of
\* the Datalog executor, which needs an agent first.
HydratedNode(r) == kind # "agent" /\ (executeNode(r) \/ Backoff(r))
AgentNode(r) == kind = "agent" /\ (executeNode(r) \/ Backoff(r) \/ NoAgents(r))

Succeeds(r) == \E verdict \in Verdicts(def, run[r].inst.cur) : NodeSucceeds(r, verdict)

\* The loops of Execute, ExecuteWorkflow and ExecuteWithSession.
ExecuteLoop(r) == kind = "plain" /\ (LoopTop(r) \/ HydratedNode(r) \/ Succeeds(r))
ExecuteWorkflowLoop(r) == kind = "agent" /\ (LoopTop(r) \/ AgentNode(r) \/ Succeeds(r))
ExecuteWithSessionLoop(r) ==
    Sessional /\ (CreateSession(r) \/ LoopTop(r) \/ HydratedNode(r) \/ Succeeds(r))

RunStep(r) == ExecuteLoop(r) \/ ExecuteWorkflowLoop(r) \/ ExecuteWithSessionLoop(r)

RunNext ==
    \/ \E r \in Runs :
          \/ Execute(r) \/ ExecuteWorkflow(r) \/ ExecuteWithSession(r) \/ ExecuteWithSessionCopy(r)
          \/ RunStep(r)
          \/ Cancel(r)
    \/ DeleteSession
    \/ Age

\* A node's executor returns, a timer fires and nothing else blocks a run.
RunFairness == \A r \in Runs : WF_runVars(RunStep(r))
-----------------------------------------------------------------------------
RunTypeOK ==
    /\ kind \in Kinds
    /\ \A r \in Runs :
          /\ run[r].pc \in {"idle", "create", "top", "node", "backoff", "done"}
          /\ run[r].status \in {"running", "completed", "failed", "cancelled"}
          /\ run[r].status = "running" <=> run[r].pc # "done"
          /\ run[r].attempt \in 0..MaxRetries
          /\ \A n \in DOMAIN run[r].visits : run[r].visits[n] \in 0..MaxRetries

\* A session stands at the start node or at the end of an edge from a node it
\* lists as completed, and a node listed as completed was executed or failed:
\* pausing, error edges, resuming and overlapping runs never make it jump.
InstancesOf == {run[r].inst : r \in {q \in Runs : Active(q)}} \union ({Stored} \ {None})
ReachedByEdges ==
    Sessional => \A i \in InstancesOf :
        /\ i.cur \in {NoNode, FindStartNode(def, def.root)}
                        \union {e.to : e \in {f \in ToSet(def.edges) : f.from \in i.done}}
        /\ i.done \subseteq tried \union i.failed

\* A run that reports success had no failing node, even one whose error edge
\* was followed (an instance that is resumed keeps the failures of runs before);
\* for definitions that Validate accepts it ended at a node it executed itself
\* and returns that node's output.
CleanCompletion ==
    \A r \in Runs : run[r].status = "completed" =>
        /\ ~run[r].erred /\ (Sessional \/ run[r].inst.failed = {})
        /\ Validate(def) => /\ run[r].output = run[r].inst.cur /\ run[r].output \in tried
                            /\ run[r].visits[run[r].output] >= 1

\* When runs follow one another, the stored session says how the last one
\* ended: a crash of the caller between two nodes is the only way to leave it
\* running.
SessionTracksResult ==
    /\ Sessional /\ ~overlapped /\ Stored # None /\ def.nodes # <<>>
    /\ \A r \in Runs : ~Active(r)
    => \E r \in Runs : run[r].pc = "done" /\ Stored = run[r].inst
                         /\ Stored.status = InstStatus(run[r].status)

\* A session deleted from the in-memory store comes back only by Create: the
\* Updates of a run that is still going are refused.
DeletedStaysDeleted ==
    [][kind = "memory" /\ Stored = None /\ Stored' # None
         => \E r \in Runs : run[r].pc = "create" /\ run'[r].pc # "create"]_runVars

\* Runs that follow one another never take a node off the list of completed
\* nodes of a live session, whatever the store.
ProgressKept ==
    [][Sessional /\ ~overlapped' /\ Stored # None /\ Stored' # None
         => Stored.done \subseteq Stored'.done]_runVars

\* Every run returns: the visit limit cuts cycles of edges and of error edges,
\* attempts are bounded, and no wait is endless.
RunsReturn == \A r \in Runs : run[r].pc # "idle" ~> run[r].pc = "done"

\* The stored session tells what the run did: the way it took is a walk of the
\* workflow, a clean end is clean, and both agree on how it ended.
SessionTellsTheRun == ReachedByEdges /\ CleanCompletion /\ SessionTracksResult

\* A session only goes forward: runs that follow one another undo no progress,
\* and none brings back a session deleted from the in-memory store.
SessionsOnlyAdvance == ProgressKept /\ DeletedStaysDeleted
=============================================================================
