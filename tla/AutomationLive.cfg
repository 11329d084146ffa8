SPECIFICATION FairSpec
CONSTANTS
  Automations = {a1}
  MaxRuns = 2
  Keys = {}
  Clients = {c1}
  Calls = {"update"}
  NewAutomations <- Scheduled
  Edits <- SomeEdits
  TickBatch = 1
  MaxTime = 1
  MaxRequests = 1
  MaxCrashes = 1
  MaxFaults = 1
INVARIANTS
  RunningIsWorked
  AttemptBound
PROPERTIES
  EveryRunSettles
  EveryOccurrenceFires
