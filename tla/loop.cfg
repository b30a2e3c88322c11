SPECIFICATION Spec
CONSTANTS
    r1 = r1
    r2 = r2
    short = short
    long = long
    other = other
    NoHint = NoHint
    Runs = {r1, r2}
    Names = {"act"}
    Registered = {"act"}
    Hints = {NoHint, short}
    Similar <- MCSimilar
    Modes = {"persist"}
    OwnDecisions = {"PROCEED", "RETRY"}
    Durable = TRUE
    Steering = TRUE
    StoreErrors = TRUE
    MaxSteps = 2
    MaxRetries = 1
    MaxExchanges = 2
    MaxCrashes = 0
SYMMETRY RunSymmetry
INVARIANTS RetryBudget KeptIsCoherent
CHECK_DEADLOCK FALSE
