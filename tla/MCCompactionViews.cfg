SPECIFICATION CompactionsSpec
CONSTANTS
  KeepRecents = {2}
  MaxTalk = 6
  MaxReplyRounds = 2
PROPERTIES
  BothViewsAgree
CHECK_DEADLOCK FALSE
