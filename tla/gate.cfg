SPECIFICATION Spec
CONSTANTS
    c1 = c1
    c2 = c2
    Calls <- BothCalls
    Unnamed <- UnnamedCall
    Policies <- MCPolicies
    QueryErrors = TRUE
    MaxReloads = 2
INVARIANTS HardTiersBlock LegacyHaltsBlock BlocksAreEarned
CHECK_DEADLOCK FALSE
