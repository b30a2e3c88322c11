SPECIFICATION Spec
CONSTANTS
    r1 = r1
    r2 = r2
    short = short
    long = long
    other = other
    NoHint = NoHint
    Runs = {r1}
    Names = {"act", "ghost"}
    Registered = {"act"}
    Hints = {NoHint, short, long, other}
    Similar <- MCSimilar
    Modes = {"none", "transient", "persist"}
    OwnDecisions = {"absent", "", "PROCEED", "RETRY", "ROUTE", "HALT", "ALLOW"}
    Durable = TRUE
    Steering = TRUE
    StoreErrors = FALSE
    MaxSteps = 4
    MaxRetries = 3
    MaxExchanges = 2
    MaxCrashes = 1
INVARIANTS  FeedbackIsFresh AckedSurvives
CHECK_DEADLOCK FALSE
