SPECIFICATION FairSpec
CONSTANTS
  Files = {f1, f2}
  Clients = {c1}
  RecoverLimit = 1
  MaxRequests = 2
  MaxCrashes = 1
  MaxFaults = 0
PROPERTY EveryFileSettles
CHECK_DEADLOCK FALSE
