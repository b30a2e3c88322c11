----------------------------- MODULE MCWorkflow -----------------------------
(***************************************************************************)
(* Two executions of one workflow ("runs"), and the graph functions on all *)
(* small workflows ("graphs").                                             *)
(***************************************************************************)
EXTENDS WorkflowRun

CONSTANTS r1, r2, Focuses, MaxEdges

VARIABLES focus, graph

\* A chain whose first node retries over its error edge and whose second has
\* one that leads nowhere; a loop over a condition; no nodes at all.
Chain == [nodes |-> <<1, 2>>,
          edges |-> <<Edge(1, 2, ""), Edge(1, 1, "error"), Edge(2, 9, "error")>>]
Review == [nodes |-> <<2, 1>>, edges |-> <<Edge(2, 1, "query"), Edge(1, 2, "")>>, root |-> NoNode]
Empty == [nodes |-> <<>>, edges |-> <<>>]
MCDefs == {convertToWorkflowDef(Chain), Review, convertToWorkflowDef(Empty)}

\* Three nodes, in two load orders, or two; edges may leave or reach node 3
\* where there is none.
Orders == {<<1, 2, 3>>, <<3, 1, 2>>, <<2, 1>>}
Edges == {Edge(a, b, c) : a \in 1..3, b \in 1..3, c \in {"", "query"}}
EdgeSets == UNION {kSubset(k, Edges) : k \in 0..MaxEdges}
FactsOf(order, es) ==
    [nodes |-> order, plain |-> SelectSeq(SetToSeq(es), LAMBDA e : e.cond = ""),
     conditional |-> SelectSeq(SetToSeq(es), LAMBDA e : e.cond # "")]
Graphs == {FactsOf(order, es) : order \in Orders, es \in EdgeSets}
Asked == {{"nodes", "plain", "conditional"}, {"nodes", "plain"}, {"nodes", "conditional"},
          {"plain", "conditional"}}

Init ==
    /\ focus \in Focuses
    /\ RunInit
    /\ graph \in IF focus = "graphs" THEN Graphs ELSE {FactsOf(<<>>, {})}
    /\ focus = "graphs" => kind = "plain" /\ def = Review
RunsNext == focus = "runs" /\ RunNext /\ UNCHANGED <<focus, graph>>
Next == RunsNext

vars == <<focus, graph, runVars>>
FairSpec ==
    /\ Init /\ [][Next]_vars
    /\ \A r \in Runs : WF_vars(focus = "runs" /\ RunStep(r) /\ UNCHANGED <<focus, graph>>)

\* GroupsKeepOrder, StartsAgree and EdgesAgree for every workflow of the
\* instance, however many of the queries that load it fail.
GroupsOrdered == focus = "graphs" => \A ok \in Asked : GroupsKeepOrder(GetWorkflow(graph, ok))
StartNodesAgree == focus = "graphs" => \A ok \in Asked : StartsAgree(GetWorkflow(graph, ok))
LoadedEdgesAgree == focus = "graphs" => \A ok \in Asked : EdgesAgree(graph, ok)

\* The ways to look at a workflow's graph agree.
GraphViewsAgree == GroupsOrdered /\ StartNodesAgree /\ LoadedEdgesAgree
=============================================================================
