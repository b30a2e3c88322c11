SPECIFICATION Spec
CONSTANTS
    Units <- MCUnits
    Facts <- MCFacts
    Eval <- MCEval
    Idb <- MCIdb
    Queriers <- TwoQueriers
    Reloaders <- OneReloader
    RequestFacts <- MCRequests
    FactBatches <- MCBatches
    LoadPaths <- MCLoadPaths
    MalformedBatches = FALSE
    MaxCacheEntries = 1
    MaxVersion = 2
    q1 = q1
    q2 = q2
    r1 = r1
    r2 = r2
SYMMETRY QuerierSymmetry
INVARIANTS QueryExact
CHECK_DEADLOCK FALSE
