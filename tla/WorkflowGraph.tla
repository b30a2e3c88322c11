--------------------------- MODULE WorkflowGraph ----------------------------
(***************************************************************************)
(* Workflow definitions and the graph functions of the executors:          *)
(* core/workflow.go, multiagent/loader.go and the graph part of            *)
(* multiagent/workflow_executor.go.                                        *)
(*                                                                         *)
(* A workflow is a sequence of node identifiers and a sequence of edges.   *)
(* Identifiers are numbers, ordered as the code orders the strings.  The   *)
(* condition of an edge is "" (none), "error" (any text with that prefix)  *)
(* or "query" (any other text).  Configuration, roles and task types are   *)
(* carried through unchanged and left out.                                 *)
(***************************************************************************)
EXTENDS Naturals, Sequences, FiniteSets, SequencesExt, FiniteSetsExt

Conditions == {"", "error", "query"}
NoNode == 0

Edge(from, to, cond) == [from |-> from, to |-> to, cond |-> cond]
NodeSet(w) == ToSet(w.nodes)

GetNode(w, n) == IF n \in NodeSet(w) THEN n ELSE NoNode

GetOutgoingEdges(w, n) == SelectSeq(w.edges, LAMBDA e : e.from = n)

FirstOf(seq, P(_)) ==
    LET hits == {i \in DOMAIN seq : P(seq[i])}
    IN  IF hits = {} THEN NoNode ELSE seq[Min(hits)]

Entered(w, conds) == {e.to : e \in {f \in ToSet(w.edges) : f.cond \in conds}}

\* core's FindStartNode: the root if it is a node, else the least node nothing
\* enters, else the least node.
FindStartNode(w, root) ==
    LET free == NodeSet(w) \ Entered(w, Conditions)
    IN  CASE GetNode(w, root) # NoNode -> root
          [] GetNode(w, root) = NoNode /\ free # {} -> Min(free)
          [] OTHER -> IF w.nodes = <<>> THEN NoNode ELSE Min(NodeSet(w))

\* The loader's start node is the first in load order that nothing enters.
loaderStartNode(w) ==
    LET first == FirstOf(w.nodes, LAMBDA n : n \notin Entered(w, Conditions))
    IN  IF first = NoNode /\ w.nodes # <<>> THEN w.nodes[1] ELSE first

\* The definition the session executor runs: the workflow and its root.
convertToWorkflowDef(w) == [nodes |-> w.nodes, edges |-> w.edges, root |-> loaderStartNode(w)]

\* A workflow in the facts: its nodes in the order of the answers, its plain
\* and its conditional edges.  A query that fails (not in ok) adds nothing and
\* is not reported.
GetWorkflow(facts, ok) ==
    [nodes |-> IF "nodes" \in ok THEN facts.nodes ELSE <<>>,
     edges |-> (IF "plain" \in ok THEN facts.plain ELSE <<>>)
                 \o (IF "conditional" \in ok THEN facts.conditional ELSE <<>>)]

\* The edges of one node, asked for directly.
GetWorkflowEdges(facts, n, ok) ==
    LET from(seq) == SelectSeq(seq, LAMBDA e : e.from = n)
    IN  from(facts.plain) \o (IF "conditional" \in ok THEN from(facts.conditional) ELSE <<>>)

\* For the Datalog executor a conditional edge does not make its target a
\* successor.
isStartNode(w, n) == n \notin Entered(w, {""})
executorStartNode(w) ==
    LET first == FirstOf(w.nodes, LAMBDA n : isStartNode(w, n))
    IN  IF first = NoNode /\ w.nodes # <<>> THEN w.nodes[1] ELSE first

\* Validate accepts a definition without nodes, whatever its edges.
Validate(w) ==
    w.nodes # <<>> => \A e \in ToSet(w.edges) : {e.from, e.to} \subseteq NodeSet(w)

\* Verdicts of the conditions of the edges that leave n.
Verdicts(w, n) ==
    [{i \in DOMAIN w.edges : w.edges[i].from = n /\ w.edges[i].cond # ""} -> {"yes", "no", "err"}]

\* The first edge that is unconditional or approved; an evaluation error on the
\* way ends the search.  An executor without an evaluator answers "no".
findNextNode(w, n, verdict) ==
    LET stops == {i \in DOMAIN w.edges :
                    w.edges[i].from = n /\ (w.edges[i].cond = "" \/ verdict[i] # "no")}
        i == Min(stops)
    IN  IF stops = {} THEN [node |-> NoNode, err |-> FALSE]
        ELSE IF w.edges[i].cond # "" /\ verdict[i] = "err" THEN [node |-> NoNode, err |-> TRUE]
        ELSE [node |-> GetNode(w, w.edges[i].to), err |-> FALSE]

\* Where the first error edge of n leads; the target need not be a node.
NoEdge == [from |-> NoNode, to |-> NoNode, cond |-> ""]
findErrorEdge(w, n) ==
    LET hits == {i \in DOMAIN w.edges : w.edges[i].from = n /\ w.edges[i].cond = "error"}
    IN  IF hits = {} THEN NoEdge ELSE w.edges[Min(hits)]
-----------------------------------------------------------------------------
\* identifyParallelGroups peels off the nodes of in-degree 0, layer by layer.
\* Only unconditional edges count; a target that is no node takes part; a node
\* of a cycle is never peeled; a layer of one node is not a group.
Plain(w) == SelectSeq(w.edges, LAMBDA e : e.cond = "")
Vertices(w) == NodeSet(w) \union Entered(w, {""})
\* A self-loop does not count.
InDegreeFromOthers(w, n, removed) ==
    Cardinality({i \in DOMAIN Plain(w) : Plain(w)[i].to = n /\ Plain(w)[i].from \notin removed \union {n}})

InDegree(w, n, removed) ==
    Cardinality({i \in DOMAIN Plain(w) : Plain(w)[i].to = n /\ Plain(w)[i].from \notin removed})

Peel(w) ==
    LET peeled[k \in 0..Cardinality(Vertices(w))] ==
          IF k = 0 THEN {}
          ELSE LET before == peeled[k - 1]
               IN  before \union {n \in Vertices(w) : InDegree(w, n, before) = 0}
    IN  [k \in 1..Cardinality(Vertices(w)) |-> peeled[k] \ peeled[k - 1]]

identifyParallelGroups(w) == SelectSeq(Peel(w), LAMBDA layer : Cardinality(layer) > 1)
-----------------------------------------------------------------------------
\* The groups of the parallel executor keep dependencies: a node depends on no
\* node of its own or a later group, over any number of unconditional edges
\* (through nodes of no group too), no node is in two groups, and only nodes
\* on or behind a cycle or an unknown node are left out of the layers.
Reaches(w, a, b) ==
    LET step[k \in 0..Cardinality(Vertices(w))] ==
          IF k = 0 THEN {e.to : e \in {f \in ToSet(Plain(w)) : f.from = a}}
          ELSE LET before == step[k - 1]
               IN  before \union {e.to : e \in {f \in ToSet(Plain(w)) : f.from \in before}}
    IN  b \in step[Cardinality(Vertices(w))]
GroupsKeepOrder(w) ==
    LET groups == identifyParallelGroups(w)
    IN  /\ \A i, j \in DOMAIN groups : \A a \in groups[i], b \in groups[j] :
              /\ Reaches(w, a, b) => i < j
              /\ i # j => a # b
        /\ \A n \in Vertices(w) \ UNION Range(Peel(w)) :
              \E m \in Vertices(w) \union {e.from : e \in ToSet(w.edges)} :
                  (m = n \/ Reaches(w, m, n)) /\ (Reaches(w, m, m) \/ m \notin Vertices(w))

\* The three ways to find a start node agree on a workflow with a single node
\* that nothing enters and whose conditional edges lead to nodes that are
\* entered unconditionally as well.
StartsAgree(w) ==
    /\ Cardinality(NodeSet(w) \ Entered(w, Conditions)) = 1
    /\ Entered(w, Conditions) = Entered(w, {""})
    => /\ FindStartNode(w, NoNode) = loaderStartNode(w)
       /\ executorStartNode(w) = loaderStartNode(w)

\* The edges of a node are the same in the loaded workflow and asked for one
\* by one, in the same order; and because conditions come last there, a node
\* with an unconditional edge never waits for a condition.
EdgesAgree(facts, ok) ==
    LET w == GetWorkflow(facts, ok)
    IN  \A n \in NodeSet(w) :
          /\ "plain" \in ok => GetWorkflowEdges(facts, n, ok) = GetOutgoingEdges(w, n)
          /\ (\E e \in ToSet(w.edges) : e.from = n /\ e.cond = "") =>
                \A v1, v2 \in Verdicts(w, n) : findNextNode(w, n, v1) = findNextNode(w, n, v2)
=============================================================================
