SPECIFICATION Spec
CONSTANTS
  MaxRevisions = 2
  MaxAdmitted = 2
  Funds = 2
  Scope <- MCScope
  Needs <- MCChain
  MaxUserRevises = 0
  Obstacles = {}
  MayCrash = FALSE
INVARIANTS
  DependentsBuildOnPredecessors
CHECK_DEADLOCK FALSE
