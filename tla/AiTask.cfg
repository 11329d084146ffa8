SPECIFICATION FairSpec
CONSTANTS
  Users = {ann, bob}
  Reviewers = {ann, bob}
  Agent = agent
  Nobody = nobody
  MaxCalls = 3
  MaxFaults = 1
  MaxActions = 1
  TotalActions = 1
  Tasks = {task}
INVARIANTS
  TypeOK
  ExecutedIsAudited
  InvoiceIsWhole
  DecisionIsAudited
  RunningIsExecuted
  OutputIsFinal
PROPERTIES
  DecisionStands
  CompletionStands
  EveryTaskSettles
CHECK_DEADLOCK FALSE
