SPECIFICATION FairSpec
CONSTANTS
    None = None
    a1 = a1
    c1 = c1
    c2 = c2
    v1 = v1
    Focuses = {"parallel", "agents", "stores"}
    ParallelWorkflows <- MCParallelWorkflows
    MaxParallel = 2
    Agents = {a1}
    Callers = {c1, c2}
    FactBases <- MCFactBases
    Statuses = {"busy"}
    MaxReloads = 1
    Sessions <- MCSessions
    Workflows <- MCWorkflows
    Values = {v1}
    Notes <- MCNotes
    TTLs = {0, 1}
INVARIANTS ParallelExact PartialNeverCached
PROPERTIES StoresAreMaps ParallelWorkReturns
CHECK_DEADLOCK FALSE
