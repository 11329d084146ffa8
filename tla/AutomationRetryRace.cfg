SPECIFICATION Spec
CONSTANTS
  Automations = {a1}
  MaxRuns = 1
  Keys = {k1}
  Clients = {c1, c2}
  Calls = {"run", "retry"}
  NewAutomations <- OneAction
  Edits <- NoEdits
  TickBatch = 2
  MaxTime = 0
  MaxRequests = 3
  MaxCrashes = 0
  MaxFaults = 0
PROPERTY OnlyFailedRetried
