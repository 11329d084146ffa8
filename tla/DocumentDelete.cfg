SPECIFICATION Spec
CONSTANTS
  Files = {f1}
  Clients = {c1}
  RecoverLimit = 1
  MaxRequests = 2
  MaxCrashes = 0
  MaxFaults = 0
INVARIANT DeletedLeavesNoChunks
CHECK_DEADLOCK FALSE
