----------------------------- MODULE MCPlatform -----------------------------
(***************************************************************************)
(* The stores and the conversions of the platform: the quad store, the     *)
(* string dictionary, the gene pool, the agent's memory, the knowledge     *)
(* graph, temporal facts, the engine's queries and explanations, fixed     *)
(* choices, the facts made of Go values, policy texts and generation       *)
(* options.  They share no state: each behaviour exercises the one chosen  *)
(* at the start.                                                           *)
(***************************************************************************)
EXTENDS GraphStore, ShardedDict, GenePool, AgentMemory, KnowledgeGraph, TemporalFacts,
        EngineQueries, ExplainProof, FixedChoice, FactTrees, PolicySource, Generation

CONSTANT Focuses

VARIABLE focus
-----------------------------------------------------------------------------
MCStored == {<<1, 2, 1, 1>>, <<2, 1, 1, 2>>}

\* One string alone in its shard; the saved ids are not in order.
MCShard == [s \in Strings |-> IF s = "a" THEN 1 ELSE 2]
MCPersisted == {<<"a", 101>>, <<"b", 100>>}

MCIntents == {<<>>, <<<<"a">>>>}
MCRules == {<<"">>, <<"T2", "T1">>, <<"T2">>}

MCDocIDs == {<<"sha256", 1>>, <<"sha256", 2>>, <<"name", 1>>}
MCSimilarity(q, c) == (q * c) % 3

\* A query word as subject and as predicate, and a second graph.
MCKnown == {<<"a", "r", "b", "default">>, <<"a", "a", "c", "default">>, <<"b", "a", "a", "default">>,
            <<"a", "a", "b", "g2">>}
URI == <<"<", "x", ">">>
Literals == {<<"q">> \o t \o <<"q">> :
               t \in {<<>>, <<"x">>, <<"s">>, <<"x", "s", ".">>, <<"b", "q">>, <<"b", "q", "s", "b", "q">>,
                      <<"b", "b">>, <<"s", "b", "b">>}}
MCLines == {<<URI, URI, l>> : l \in Literals \union {URI}}
             \union {<<URI, URI, l, URI>> : l \in Literals \union {URI}}
             \union {<<<<"x">>, URI, l>> : l \in Literals}
PredicateObjects == {[p |-> p, os |-> o] : p \in {"p1", "p2"}, o \in {<<"o1">>, <<"o1", "o2">>}}
Statements == {[s |-> s, pos |-> q] : s \in {"s1", "s2"}, q \in UNION {[1 .. k -> PredicateObjects] : k \in 1 .. 2}}
MCDocs == UNION {[1 .. k -> Statements] : k \in 1 .. 2}

\* What the two programs answer: they differ in every predicate.
MCEnginePrograms ==
    {[config |-> {<<"k", "v1", "">>, <<"k", "v2", "f2">>},
      action_args |-> {}, suggested_action |-> {<<"a", "1", "">>},
      allow |-> {<<"x", "1", "f1">>}, requires |-> {}],
     [config |-> {<<"k", "v3", "meta">>, <<"j", "v1", "f2">>},
      action_args |-> {<<"a", "2", "">>, <<"b", "1", "">>}, suggested_action |-> {<<"c", "1", "">>},
      allow |-> {<<"x", "1", "">>, <<"y", "1", "f1">>}, requires |-> {<<"memory", "", "">>}]}
MCEngineEnvelopes == {<<>>, <<"f1", "f2">>, <<"f1", "bad", "f2">>}
-----------------------------------------------------------------------------
\* Programs to explain: recursion through tainted/1, an inequality, a negation,
\* a rule with an open variable twice, a cycle in the facts.
A(p, args) == [pred |-> p, args |-> args]
P(k, p, args) == [kind |-> k, pred |-> p, args |-> args]
Rule(h, ps) == [head |-> h, premises |-> ps]
X == Var("X")
Y == Var("Y")
a == Const("a")
b == Const("b")
Taint == Rule(A("tainted", <<Y>>),
              <<P("atom", "flow", <<X, Y>>), P("ineq", "!=", <<X, Y>>), P("atom", "tainted", <<X>>)>>)
Source == Rule(A("tainted", <<X>>), <<P("atom", "source", <<X>>)>>)
Deny == Rule(A("deny", <<X, Var("Tier")>>),
             <<P("atom", "tainted", <<X>>), P("neg", "trusted", <<X>>), P("atom", "tier", <<X, Var("Tier")>>)>>)
Mesh == Rule(A("deny", <<X, Const("T1")>>), <<P("atom", "tainted", <<X>>), P("atom", "flow", <<Y, Y>>)>>)
Loop == Rule(A("deny", <<X, Const("T1")>>), <<P("atom", "flow", <<X, X>>)>>)
Base == {A("flow", <<a, b>>), A("flow", <<b, a>>), A("source", <<a>>),
         A("tier", <<a, Const("T2")>>), A("tier", <<b, Const("T1")>>)}
MCRulePrograms ==
    {[strata |-> <<<<Source, Taint>>, <<Loop, Deny>>>>, base |-> Base],
     [strata |-> <<<<Taint, Source>>, <<Mesh, Deny>>>>, base |-> Base \union {A("flow", <<b, b>>)}],
     [strata |-> <<<<Loop>>>>, base |-> Base \union {A("flow", <<b, b>>)}]}
MCExplainQueries == {A("deny", <<X, Y>>), A("tainted", <<b>>)}
MCRequestFacts == {{}, {A("trusted", <<b>>)}, {A("source", <<b>>), A("flow", <<a, a>>)}}

MCBars == {[auto |-> {60}, margin |-> {20}, review |-> {40}],
           [auto |-> {30}, margin |-> {50, 60}, review |-> {20}]}
MCLabelLists == {<<1, 2, 3>>, <<1, 3, 1>>}
MCWeights == {<<4, 1, 5>>, <<9, -1, 1>>, <<0, 0, 0>>}
Token(space, label, logprob) == [space |-> space, label |-> label, logprob |-> logprob]
MCAnswers == {<<Token(TRUE, 1, -1), Token(FALSE, 0, -1), Token(FALSE, 1, -3), Token(FALSE, 2, -5), Token(TRUE, 3, -5)>>,
              <<Token(FALSE, 3, -1), Token(TRUE, 1, -2)>>}
MCTokens(space, l) == IF space /\ l = 3 THEN <<13, 14>> ELSE IF space THEN <<10 + l>> ELSE <<l>>
MCSupplied == {<<>>, <<5, 6>>}
-----------------------------------------------------------------------------
\* Heaps of four nodes: shared parts, cycles through a map or a slice, nils.
Node(k, es, t) == [kind |-> k, entries |-> es, text |-> t]
One(D) == {<<[key |-> "a", to |-> n]>> : n \in D}
Keyed(D) == {<<>>} \union One(D) \union {<<[key |-> "a", to |-> n], [key |-> "b", to |-> m]>> : n \in D, m \in D}
Containers(ks, es) == {Node(k, e, "") : k \in ks, e \in es}
Node1 == Containers({"map", "struct", "slice"}, Keyed(1 .. 3)) \union Containers({"ptr"}, One(1 .. 3))
Node2 == Containers({"map", "ptr"}, One(1 .. 3)) \union Containers({"struct"}, One({3}))
           \union Containers({"slice"}, Keyed({1, 3})) \union {Node("prim", <<>>, "u")}
Node3 == {Node("prim", <<>>, "t"), Node("nil", <<>>, "")}
           \union Containers({"map"}, One({1, 3})) \union Containers({"ptr"}, One({1, 2, 4}))
MCGoValues == {h \in {<<x, y, z, Node("nil", <<>>, "")>> : x \in Node1, y \in Node2, z \in Node3} :
                 ~CycleWithin(h, {"struct"}) /\ ~CycleWithin(h, {"ptr"})}
Characters == {"q", "b", "n", "c", "s", "x", "ctl"}
MCTexts == {<<t>> : t \in UNION {[1 .. k -> Characters] : k \in 0 .. 3}}
             \union {<<s, t>> : s \in [1 .. 2 -> Characters], t \in {<<>>, <<"c">>, <<"s">>}}
MCFactLists == UNION {[1 .. k -> {"u", "v"}] : k \in 0 .. 2}
-----------------------------------------------------------------------------
\* std.dl and planner.dl in small: a predicate with a rule, the alias of deny.
L(k, sym, uses) == [kind |-> k, sym |-> sym, uses |-> uses, ends |-> TRUE]
Open(ln) == [ln EXCEPT !.ends = FALSE]
MCStdLib == <<L("Decl", <<"quad", 4>>, <<>>), L("Decl", <<"triple", 3>>, <<>>),
              L("clause", <<"triple", 3>>, <<<<"quad", <<"-", "-", "-", "-">>>>>>),
              L("Decl", <<"deny", 1>>, <<>>), L("Decl", <<"halt", 1>>, <<>>),
              L("clause", <<"halt", 1>>, <<<<"deny", <<"-">>>>>>)>>
MCPlannerRules == <<L("Decl", <<"goal", 1>>, <<>>)>>
\* Texts that use, declare over two lines, or define what std.dl and callbacks do.
MCPolicyTexts ==
    {<<L("clause", <<"deny", 1>>, <<<<"triple", <<"-", "+", "-">>>>, <<"lookup", <<"-", "+">>>>>>)>>,
     <<Open(L("Decl", <<"halt", 1>>, <<>>)), L("rest", <<"descr", 0>>, <<>>),
       Open(L("clause", <<"halt", 1>>, <<<<"quad", <<"-", "+", "-", "-">>>>>>)), L("rest", <<"quad", 4>>, <<>>)>>,
     <<Open(L("Decl", <<"quad", 4>>, <<>>)), L("rest", <<"descr", 0>>, <<>>)>>,
     <<L("clause", <<"triple", 3>>, <<<<"goal", <<"-">>>>>>)>>,
     <<L("Decl", <<"allow", 1>>, <<>>), L("clause", <<"allow", 1>>, <<<<"lookup", <<"-">>>>>>)>>}
MCRawLines == UNION {[1 .. k -> {"q", "b", "%", "/", "s", "x"}] : k \in 0 .. 4}
                \union {<<"x", "q">> \o t \o <<"q", "%">> : t \in [1 .. 3 -> {"q", "b", "/", "x"}]}

Option(op, arg) == [op |-> op, arg |-> arg]
MCGenOptions == {Option("config", 0), Option("approval", 1), Option("custom", "v1")}
MCGenRequests ==
    {[via |-> "build", opts |-> o] :
        o \in {<<Option("approval", 1), Option("retry", 1), Option("approval", 2)>>,
               <<Option("custom", "v1"), Option("config", 0), Option("custom", "log"), Option("custom", "v2")>>}
                \union UNION {[1 .. k -> MCGenOptions] : k \in 1 .. 2}}
      \union {[via |-> "direct", opts |-> o] : o \in [1 .. 2 -> {Option("retry", 1), Option("custom", "v1")}]}
-----------------------------------------------------------------------------
\* A component that is not in focus begins in one state and stays in it.
Init ==
    /\ focus \in Focuses
    /\ GraphInit /\ DictInit /\ MemoryInit /\ KnowledgeInit /\ TreeInit
    /\ GeneInit
    /\ focus # "genes" => draft = [name |-> 1, tier |-> "", intents |-> <<>>, rules |-> <<"">>, sig |-> Unsigned]
    /\ TemporalInit /\ (focus # "temporal" => clock = 1)
    /\ EngineInit /\ (focus # "queries" => loaded = CHOOSE p \in EnginePrograms : TRUE)
    /\ ExplainInit /\ (focus # "explain" => rules = CHOOSE p \in RulePrograms : TRUE)
    /\ ChoiceInit
    /\ focus # "choices" => bars = CHOOSE x \in Bars : TRUE
    /\ focus # "choices" => server = [supplied |-> <<>>, space |-> FALSE, cache |-> <<>>]
    /\ SourceInit /\ (focus # "sources" => raw = <<>>)
    /\ GenInit /\ (focus # "generation" => ~callerMeta.exists)

Next ==
    \/ /\ focus = "graph" /\ GraphNext
       /\ UNCHANGED <<focus, dictVars, geneVars, memoryVars, knowledgeVars, temporalVars,
                      engineVars, explainVars, choiceVars, treeVars, sourceVars, genVars>>
    \/ /\ focus = "dictionary" /\ DictNext
       /\ UNCHANGED <<focus, graphVars, geneVars, memoryVars, knowledgeVars, temporalVars,
                      engineVars, explainVars, choiceVars, treeVars, sourceVars, genVars>>
    \/ /\ focus = "genes" /\ GeneNext
       /\ UNCHANGED <<focus, graphVars, dictVars, memoryVars, knowledgeVars, temporalVars,
                      engineVars, explainVars, choiceVars, treeVars, sourceVars, genVars>>
    \/ /\ focus = "memory" /\ MemoryNext
       /\ UNCHANGED <<focus, graphVars, dictVars, geneVars, knowledgeVars, temporalVars,
                      engineVars, explainVars, choiceVars, treeVars, sourceVars, genVars>>
    \/ /\ focus = "knowledge" /\ KnowledgeNext
       /\ UNCHANGED <<focus, graphVars, dictVars, geneVars, memoryVars, temporalVars,
                      engineVars, explainVars, choiceVars, treeVars, sourceVars, genVars>>
    \/ /\ focus = "temporal" /\ TemporalNext
       /\ UNCHANGED <<focus, graphVars, dictVars, geneVars, memoryVars, knowledgeVars,
                      engineVars, explainVars, choiceVars, treeVars, sourceVars, genVars>>
    \/ /\ focus = "queries" /\ EngineNext
       /\ UNCHANGED <<focus, graphVars, dictVars, geneVars, memoryVars, knowledgeVars,
                      temporalVars, explainVars, choiceVars, treeVars, sourceVars, genVars>>
    \/ /\ focus = "explain" /\ ExplainNext
       /\ UNCHANGED <<focus, graphVars, dictVars, geneVars, memoryVars, knowledgeVars,
                      temporalVars, engineVars, choiceVars, treeVars, sourceVars, genVars>>
    \/ /\ focus = "choices" /\ ChoiceNext
       /\ UNCHANGED <<focus, graphVars, dictVars, geneVars, memoryVars, knowledgeVars,
                      temporalVars, engineVars, explainVars, treeVars, sourceVars, genVars>>
    \/ /\ focus = "trees" /\ TreeNext
       /\ UNCHANGED <<focus, graphVars, dictVars, geneVars, memoryVars, knowledgeVars,
                      temporalVars, engineVars, explainVars, choiceVars, sourceVars, genVars>>
    \/ /\ focus = "sources" /\ raw = <<>> /\ SourceNext
       /\ UNCHANGED <<focus, graphVars, dictVars, geneVars, memoryVars, knowledgeVars,
                      temporalVars, engineVars, explainVars, choiceVars, treeVars, genVars>>
    \/ /\ focus = "generation" /\ GenNext
       /\ UNCHANGED <<focus, graphVars, dictVars, geneVars, memoryVars, knowledgeVars,
                      temporalVars, engineVars, explainVars, choiceVars, treeVars, sourceVars>>

Spec == Init /\ [][Next]_<<focus, graphVars, dictVars, geneVars, memoryVars, knowledgeVars,
                          temporalVars, engineVars, explainVars, choiceVars, treeVars, sourceVars, genVars>>


=============================================================================
