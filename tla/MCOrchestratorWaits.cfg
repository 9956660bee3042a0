SPECIFICATION FairSpec
CONSTANTS
  MaxRevisions = 2
  MaxAdmitted = 2
  Funds = 2
  Scope <- MCScope
  Needs <- MCChain
  MaxUserRevises = 0
  Obstacles = {}
  MayCrash = FALSE
PROPERTIES
  AcceptedWaitEnds
CHECK_DEADLOCK FALSE
