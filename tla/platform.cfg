SPECIFICATION Spec
CONSTANTS
    Focuses = {"graph", "dictionary", "genes", "memory", "knowledge", "temporal", "queries", "explain", "choices", "trees",
               "sources", "generation"}
    Quads <- MCStored
    Writers = {"w1", "w2"}
    MaxOps = 3
    Strings = {"a", "b", "c", "d"}
    Shard <- MCShard
    Persisted <- MCPersisted
    Threads = {"t1", "t2", "t3"}
    GeneNames = {1, 2}
    GeneTiers = {"T1", "T2", ""}
    GeneIntents <- MCIntents
    GeneRules <- MCRules
    MaxEntries = 2
    MaxSigns = 1
    MaxApplied = 1
    MaxEdits = 1
    DocIDs <- MCDocIDs
    Contents = {1, 2}
    Similarity <- MCSimilarity
    Queries = {1, 2}
    TopK = 2
    Clients = {"c1", "c2"}
    KnownQuads <- MCKnown
    KnowledgeQueries = {"a"}
    RecallTopK = {0, 2, 3}
    KnowledgeGraphs = {"", "g2"}
    MaxKnown = 4
    QuadLines <- MCLines
    TurtleDocs <- MCDocs
    TimedFacts = {"f"}
    MaxTime = 2
    MaxTimed = 1
    MaxStores = 2
    EnginePrograms <- MCEnginePrograms
    EngineEnvelopes <- MCEngineEnvelopes
    EngineCallers = {"q1", "q2"}
    MaxFactParseCache = 1
    RulePrograms <- MCRulePrograms
    ExplainQueries <- MCExplainQueries
    RequestFacts <- MCRequestFacts
    MaxExplainDepth = 3
    MaxExplainSteps = 40
    Bars <- MCBars
    LabelLists <- MCLabelLists
    Weights <- MCWeights
    Answers <- MCAnswers
    Tokens <- MCTokens
    Supplied <- MCSupplied
    GoValues <- MCGoValues
    Texts <- MCTexts
    FactLists <- MCFactLists
    StdLib <- MCStdLib
    PlannerRules <- MCPlannerRules
    PolicyTexts <- MCPolicyTexts
    ExternalNames = {"triple", "quad", "lookup"}
    MaxUnits = 3
    RawLines <- MCRawLines
    GenCallers = {"g1", "g2"}
    GenRequests <- MCGenRequests
    GenValidators = {"v1", "v2"}
    ConfigsWithMeta = {TRUE, FALSE}
    MaxGenerations = 2
INVARIANTS     
    AnswersExplained    
CHECK_DEADLOCK FALSE
