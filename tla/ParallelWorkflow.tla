-------------------------- MODULE ParallelWorkflow --------------------------
(***************************************************************************)
(* ParallelWorkflowExecutor of multiagent/workflow_executor.go: the groups *)
(* of a workflow one after the other, the nodes of a group in goroutines   *)
(* that share a semaphore, their results collected from a channel that is  *)
(* closed when the last goroutine is done.                                 *)
(*                                                                         *)
(* executeNode is one arbitrary result, after any delay (its attempts are  *)
(* in WorkflowRun).  An output is its node, and a string or something      *)
(* else.                                                                   *)
(***************************************************************************)
EXTENDS WorkflowGraph

CONSTANTS
    ParallelWorkflows,
    MaxParallel        \* size of the semaphore, 1 or more

VARIABLES
    plan,         \* workflow and its groups, fixed at the start
    group,        \* index of the group being executed, 0 before the first
    task,         \* goroutines of the group
    slots,        \* used slots of the semaphore
    channel,      \* results sent and not yet collected
    outputs,      \* results collected in the group: node -> type
    failures,     \* nodes of the group whose result was an error
    input,        \* what the group's nodes are given
    verdict,      \* result status of ExecuteParallel
    finished,     \* history: nodes that returned without error
    starts        \* history: how often each node was started

parallelVars == <<plan, group, task, slots, channel, outputs, failures, input, verdict,
                  finished, starts>>

Types == {"string", "other"}
Groups == plan.groups

ParallelInit ==
    /\ \E w \in ParallelWorkflows : plan = [w |-> w, groups |-> identifyParallelGroups(w)]
    /\ group = 0
    /\ task = <<>>
    /\ slots = 0
    /\ channel = {}
    /\ outputs = <<>>
    /\ failures = {}
    /\ input = {}
    /\ verdict = "running"
    /\ finished = {}
    /\ starts = [n \in Vertices(plan.w) |-> 0]

\* Without groups the workflow goes to the sequential executor.
Sequential ==
    /\ verdict = "running" /\ Groups = <<>>
    /\ verdict' = "sequential"
    /\ UNCHANGED <<plan, group, task, slots, channel, outputs, failures, input, finished, starts>>

\* The strings among the outputs, in the order of a map, or else the map.
mergeOutputs(out) ==
    LET strings == {n \in DOMAIN out : out[n] = "string"}
    IN  IF strings # {} THEN strings ELSE DOMAIN out

\* The next group starts although a node failed.
ExecuteDespiteErrors ==
    /\ verdict = "running" /\ group < Len(Groups)
    /\ DOMAIN task = {} \/ \A n \in DOMAIN task : task[n] = "gone"
    /\ channel = {}
    /\ group' = group + 1
    /\ input' = IF group = 0 THEN {} ELSE mergeOutputs(outputs)
    /\ task' = [n \in Groups[group'] |-> "waiting"]
    /\ outputs' = <<>>
    /\ UNCHANGED <<plan, slots, channel, failures, verdict, finished, starts>>

\* Every goroutine of the group is launched at once; the group before has
\* been collected, and had no error.
ExecuteParallel ==
    /\ verdict = "running" /\ group < Len(Groups)
    /\ DOMAIN task = {} \/ \A n \in DOMAIN task : task[n] = "gone"
    /\ channel = {} /\ failures = {}
    /\ group' = group + 1
    /\ input' = IF group = 0 THEN {} ELSE mergeOutputs(outputs)
    /\ task' = [n \in Groups[group'] |-> "waiting"]
    /\ outputs' = <<>>
    /\ UNCHANGED <<plan, slots, channel, failures, verdict, finished, starts>>

\* A goroutine blocks on the semaphore before anything else.
Acquire(n) ==
    /\ n \in DOMAIN task /\ task[n] = "waiting"
    /\ slots < MaxParallel
    /\ slots' = slots + 1
    /\ task' = [task EXCEPT ![n] = "running"]
    /\ starts' = [starts EXCEPT ![n] = @ + 1]
    /\ UNCHANGED <<plan, group, channel, outputs, failures, input, verdict, finished>>

\* A target that is no node is an error.  The result is sent before the
\* deferred release; the channel has room for all results.
Return(n, ok, type) ==
    /\ n \in DOMAIN task /\ task[n] = "running"
    /\ ok => n \in NodeSet(plan.w)
    /\ channel' = channel \union {[node |-> n, ok |-> ok, type |-> type]}
    /\ task' = [task EXCEPT ![n] = "sent"]
    /\ finished' = IF ok THEN finished \union {n} ELSE finished
    /\ UNCHANGED <<plan, group, slots, outputs, failures, input, verdict, starts>>

\* No release on the error path.
ReleaseOnSuccess(n) ==
    /\ n \in DOMAIN task /\ task[n] = "sent" /\ n \in finished
    /\ slots' = slots - 1
    /\ task' = [task EXCEPT ![n] = "gone"]
    /\ UNCHANGED <<plan, group, channel, outputs, failures, input, verdict, finished, starts>>

Release(n) ==
    /\ n \in DOMAIN task /\ task[n] = "sent"
    /\ slots' = slots - 1
    /\ task' = [task EXCEPT ![n] = "gone"]
    /\ UNCHANGED <<plan, group, channel, outputs, failures, input, verdict, finished, starts>>

\* The output of a failed node, nil, is kept as well.
Collect ==
    \E res \in channel :
        /\ channel' = channel \ {res}
        /\ outputs' = [n \in DOMAIN outputs \union {res.node} |->
                          IF n = res.node THEN res.type ELSE outputs[n]]
        /\ failures' = IF res.ok THEN failures ELSE failures \union {res.node}
        /\ UNCHANGED <<plan, group, task, slots, input, verdict, finished, starts>>

\* The closed channel ends the group; an error in it, or the last group, the
\* execution.
Conclude ==
    /\ verdict = "running" /\ group > 0
    /\ \A n \in DOMAIN task : task[n] = "gone"
    /\ channel = {}
    /\ failures # {} \/ group = Len(Groups)
    /\ verdict' = IF failures # {} THEN "failed" ELSE "completed"
    /\ input' = IF failures # {} THEN input ELSE mergeOutputs(outputs)
    /\ UNCHANGED <<plan, group, task, slots, channel, outputs, failures, finished, starts>>

ParallelStep ==
    \/ Sequential \/ ExecuteParallel \/ Collect \/ Conclude
    \/ \E n \in DOMAIN task :
          Acquire(n) \/ Release(n) \/ \E ok \in BOOLEAN, type \in Types : Return(n, ok, type)

ParallelFairness == WF_parallelVars(ParallelStep)
-----------------------------------------------------------------------------
\* No more nodes run at once than the semaphore has slots, and a slot is held
\* by a node that runs or has just sent its result: none is leaked.
SlotsMatchTasks ==
    /\ slots = Cardinality({n \in DOMAIN task : task[n] \in {"running", "sent"}})
    /\ slots <= MaxParallel

\* A node starts only when every node of a group that it depends on, over any
\* number of edges, has returned without error.
DependenciesFirst ==
    \A n \in DOMAIN task : task[n] # "waiting" =>
        \A m \in UNION Range(Groups) : Reaches(plan.w, m, n) => m \in finished

\* Completed means each node of each group ran exactly once and succeeded,
\* failed that some node of the current group did not and no later group
\* started.
VerdictExact ==
    /\ verdict = "completed" => \A n \in UNION Range(Groups) : n \in finished /\ starts[n] = 1
    /\ verdict = "failed" =>
          /\ Groups[group] \ finished # {}
          /\ \A i \in DOMAIN Groups : i > group => \A n \in Groups[i] : starts[n] = 0

\* ExecuteParallel returns when every node does.
ParallelReturns == <>(verdict # "running")

\* A parallel execution runs each task of a group in a slot of its own, after
\* what it depends on, and reports what happened.
ParallelExact == SlotsMatchTasks /\ DependenciesFirst /\ VerdictExact
=============================================================================
