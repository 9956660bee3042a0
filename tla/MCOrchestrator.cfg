SPECIFICATION Spec
CONSTANTS
  MaxRevisions = 3
  MaxAdmitted = 2
  Funds = 2
  Scope <- MCScope
  Needs <- MCNeeds
  MaxUserRevises = 1
  Obstacles = {"worktree", "profile"}
  MayCrash = TRUE
INVARIANTS
  NoWaitIsForgotten
  DependentsRunAfterIntegration
  DelegatedRunSerially
  
PROPERTIES
  WaitDeliversSettled
  FencedStaysDown
  StartedOnce
VIEW MCView
