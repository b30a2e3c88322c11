SPECIFICATION Spec
CONSTANTS
    Units <- MCUnits
    Facts <- MCFacts
    Eval <- MCEval
    Idb <- MCIdb
    Queriers <- NoProc
    Reloaders <- TwoReloaders
    RequestFacts <- MCRequests
    FactBatches <- MCBatches
    LoadPaths <- MCLoadPaths
    MalformedBatches = TRUE
    MaxCacheEntries = 1
    MaxVersion = 3
    q1 = q1
    q2 = q2
    r1 = r1
    r2 = r2
INVARIANTS BaseSound
CHECK_DEADLOCK FALSE
