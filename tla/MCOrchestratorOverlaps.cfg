SPECIFICATION Spec
CONSTANTS
  MaxRevisions = 3
  MaxAdmitted = 2
  Funds = 3
  Scope <- MCScope
  Needs <- MCNeeds
  MaxUserRevises = 2
  Obstacles = {}
  MayCrash = FALSE
INVARIANTS
  OverlapsRunSerially
CHECK_DEADLOCK FALSE
