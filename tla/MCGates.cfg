SPECIFICATION GatesSpec
CONSTANTS
  caller1 = caller1
  caller2 = caller2
  caller3 = caller3
  caller4 = caller4
  profile = profile
  Callers = {caller1, caller2, caller3, caller4}
  Keys = {profile}
  NoKey = NoKey
  KeyOf <- MCKeyOf
  Limit = 2
  KeyLimit = 1
  MaxCalls = 2
  t1 = t1
  edit = edit
  command = command
  mcp = mcp
  Proposals = {edit, command, mcp}
  Tasks = {t1}
  TaskOf <- MCTaskOf
  Edits = {edit}
  Externals = {mcp}
  MaxChecks = 2
  Calls = {first, second}
  Root = root
  Children = {c1, c2}
  Requests = {q1, q2}
  Cap <- MCCap
  Allocations <- MCAllocations
  Amounts <- MCAmounts
  Usages <- MCUsages
INVARIANTS
  TypesOK
  SlotsWithinLimits
  NobodySleepsBesideAFreeSlot
  EffectIsGrantedAndRecorded
  UnknownBlocksTheTask
  CommandsAreToldRight
  PromisedFundsSpendable
PROPERTIES
  EveryCallEnds
  ExecutedOnce
  ApprovedIsConcluded
  NoneRunsForNobody
  ReleasedIsClosed
  ChargedOnce
  ImplementsTaskBudget
CHECK_DEADLOCK FALSE
