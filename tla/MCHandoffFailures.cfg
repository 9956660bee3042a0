SPECIFICATION GitWorkSpec
CONSTANTS
  Requests = {r1, r2}
  Settings = {"chat", "coding", "coordinated"}
  ModeOf <- MCModes
  MaxStartedTasks = 3
  GitTasks = {"solo", "root", "child"}
  TreeOf <- MCTrees
  MaxTurns = 2
  Results = {c1}
  MaxIntegrations = 2
  MaxLine = 2
  MaxJobs = 2
  Paths = {p}
  MaxHandoffs = 2
INVARIANT FailedHadNoEffect
CHECK_DEADLOCK FALSE
