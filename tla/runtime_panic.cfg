SPECIFICATION Spec
CONSTANTS
    Units <- MCUnits
    Facts <- MCFacts
    Eval <- MCEval
    Idb <- MCIdb
    Queriers <- OneQuerier
    Reloaders <- OneReloader
    RequestFacts <- MCRequests
    FactBatches <- MCBatches
    LoadPaths <- NoLoadPaths
    MalformedBatches = FALSE
    MaxCacheEntries = 2
    MaxVersion = 3
    q1 = q1
    q2 = q2
    r1 = r1
    r2 = r2
INVARIANT NoPanic
CHECK_DEADLOCK FALSE
