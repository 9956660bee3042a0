SPECIFICATION Spec
CONSTANTS
  MaxRevisions = 2
  MaxAdmitted = 2
  Funds = 2
  Scope <- MCScope
  Needs <- MCNeeds
  MaxUserRevises = 0
  Obstacles = {}
  MayCrash = FALSE
PROPERTIES
  SiblingsContinue
CHECK_DEADLOCK FALSE
