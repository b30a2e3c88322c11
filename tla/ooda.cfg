SPECIFICATION FairSpec
CONSTANTS
  Setups <- MCSetups
  Tools = {"t1"}
  Trails <- MCTrails
  Scans <- MCScans
  MaxCycles = 2
  Atoms <- MCAtoms
  Axioms <- MCAxioms
  MaxContext = 4
  Budgets = {2, 4}
  Focuses = {"frame", "context", "trail"}
INVARIANTS OutcomesAreEarned TiersAndBudgetsExact
PROPERTIES CommitsAreVerified CyclesReturn
CHECK_DEADLOCK FALSE
