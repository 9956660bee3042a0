SPECIFICATION ServicesSpec
CONSTANTS
  Root = root
  Children = {child1, child2}
  Cap <- MCCap
  Protected <- MCProtected
  Amounts <- MCAmounts
  Usages <- MCUsages
  CallIds = {k1, k2}
  Reservation = 2
  RequestUsages = {1, 3}
  TokenBudget = 7
  MaxRounds = 2
  MaxMessages = 2
  MaxRequests = 3
  Rule = rule
  MaxRevisions = 2
  MaxEvents = 2
  MaxGrants = 2
  DailyRuns = 1
  LastInstant = 11
  DayLength = 4
  WeekLength = 2
  ZoneOffset <- MCZone
  WallTimes = {1}
  StartInstants = {0, 4}
  StartDates <- MCStartDates
  MaxScheduleRevisions = 2
  Protocols = {"responses", "chat", "anthropic"}
  Indexes = {1}
  MaxFrames = 5
  McpCallers = {a}
  MaxSessions = 3
  BrowserTasks = {t1}
  Origins = {o1, o2}
  NoTask = NoTask
  MaxPrepared = 1
  MaxGenerations = 3
  MaxActions = 1
  DraftIds = {d1, d2}
  MaxReviews = 2
  KeepRecents = {1, 2, 3}
  MaxTalk = 6
  MaxReplyRounds = 2
INVARIANTS
  TypesOK
  SharesAreKept
  UsedIsRecorded
  ConversationOnce
  EachEventDraftsOnce
  EachDueDayDraftsOnce
  DraftsAnswerForReviews
  CallsOnlyFromCompletedStreams
  ToldTheTruth
  NotDoneAsReported
  ConversationIsTold
PROPERTIES
  ScriptsLaunchOnce
CHECK_DEADLOCK FALSE
VIEW MCView
