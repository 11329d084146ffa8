SPECIFICATION Spec
CONSTANTS
  Automations = {a1, a2}
  MaxRuns = 4
  Keys = {}
  Clients = {c1}
  Calls = {"remove"}
  NewAutomations <- ScheduledEmpty
  Edits <- NoEdits
  TickBatch = 1
  MaxTime = 1
  MaxRequests = 1
  MaxCrashes = 1
  MaxFaults = 1
INVARIANTS
  TypeOK
  NoOccurrenceSkipped
PROPERTIES
  ImplementsSchedule
