SPECIFICATION AutomationsSpec
CONSTANTS
  Rule = rule
  MaxRevisions = 2
  MaxEvents = 2
  MaxGrants = 2
  DailyRuns = 1
PROPERTIES
  CancelledIsNotLaunched
CHECK_DEADLOCK FALSE
