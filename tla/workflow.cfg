SPECIFICATION FairSpec
CONSTANTS
    None = None
    r1 = r1
    r2 = r2
    Runs = {r1, r2}
    Cancellable = {r1}
    WorkflowDefs <- MCDefs
    Kinds = {"plain", "agent", "memory", "transient"}
    MaxRetries = 2
    SessionTTL = 1
    Focuses = {"runs", "graphs"}
    MaxEdges = 3
INVARIANTS SessionTellsTheRun GraphViewsAgree
PROPERTIES SessionsOnlyAdvance RunsReturn
CHECK_DEADLOCK FALSE
