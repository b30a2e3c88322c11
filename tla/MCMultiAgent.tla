---------------------------- MODULE MCMultiAgent ----------------------------
(***************************************************************************)
(* The parallel executor, the agent registry and the session stores, which *)
(* share no state: each behaviour exercises the one chosen at the start.   *)
(***************************************************************************)
EXTENDS ParallelWorkflow, AgentRegistry, SessionClients

CONSTANTS a1, c1, c2, v1, Focuses

VARIABLE focus

\* A diamond with a tail; a cycle beside three free nodes, with a conditional
\* edge; an edge to a missing node; a chain, which has no group.
Diamond == [nodes |-> <<1, 2, 3, 4, 5>>,
            edges |-> <<Edge(1, 2, ""), Edge(1, 3, ""), Edge(2, 4, ""), Edge(3, 5, "")>>]
Cyclic == [nodes |-> <<1, 2, 3, 4, 5>>,
           edges |-> <<Edge(1, 3, ""), Edge(3, 4, ""), Edge(4, 3, ""), Edge(2, 1, "query")>>]
Dangling == [nodes |-> <<1, 2>>, edges |-> <<Edge(1, 9, ""), Edge(2, 8, "")>>]
Line == [nodes |-> <<1, 2>>, edges |-> <<Edge(1, 2, "")>>]
MCParallelWorkflows == {Diamond, Cyclic, Dangling, Line}

\* An agent whose role and tasks change together, and who may be taken out of
\* the facts.
Facts(role, caps) == [a \in Agents |-> [role |-> role, caps |-> caps, status |-> "available"]]
MCFactBases == {Facts("planner", {"plan"}), Facts("executor", {"run", "review"}), Facts("", {})}

MCSessions == {<<"a">>, <<"a", "b">>}
MCWorkflows == {<<"b">>, <<"c">>}
MCNotes == {<<<<"a">>, <<"note">>>>}

Init ==
    /\ focus \in Focuses
    /\ ParallelInit /\ RegistryInit /\ StoreInit
    /\ focus # "parallel" => plan.w = Line
    /\ focus # "stores" => backend = "memory" /\ ttl = 0
    /\ focus # "agents" => base = Facts("", {})
Next ==
    \/ focus = "parallel" /\ ParallelStep /\ UNCHANGED <<focus, registryVars, storeVars>>
    \/ focus = "agents" /\ RegistryNext /\ UNCHANGED <<focus, parallelVars, storeVars>>
    \/ focus = "stores" /\ StoreNext /\ UNCHANGED <<focus, parallelVars, registryVars>>

vars == <<focus, parallelVars, registryVars, storeVars>>
Spec == Init /\ [][Next]_vars
FairSpec == Spec /\ WF_vars(focus = "parallel" /\ ParallelStep /\ UNCHANGED <<focus, registryVars, storeVars>>)

\* ExecuteParallel comes back: the semaphore, the wait group and the channel of a
\* group never leave it waiting, whichever branches fail or are cancelled.
ParallelWorkReturns == focus = "parallel" => ParallelReturns
=============================================================================
