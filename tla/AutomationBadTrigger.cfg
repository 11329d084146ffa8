SPECIFICATION FairSpec
CONSTANTS
  Automations = {a1, a2}
  MaxRuns = 2
  Keys = {k1}
  Clients = {c1}
  Calls = {"run"}
  NewAutomations <- WithBadTrigger
  Edits <- NoEdits
  TickBatch = 2
  MaxTime = 0
  MaxRequests = 1
  MaxCrashes = 0
  MaxFaults = 0
PROPERTY EveryRunSettles
