SPECIFICATION FairSpec
CONSTANTS
  Assistants = {ceo, executive, sales, finance}
  Ceo = ceo
  Orchestrators = {ceo, executive}
  Budget = 3
  TopLimit = 2
  ChildLimit = 2
  PathLimit = 3
  MaxFaults = 1
INVARIANTS
  TypeOK
  LimitsKept
  HelpersFirst
  ReplyIsTrue
  RowsSettle
PROPERTIES
  EverythingEnds
CHECK_DEADLOCK FALSE
