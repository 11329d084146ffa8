SPECIFICATION FairSpec
CONSTANTS
  Files = {f1, f2}
  Clients = {c1, c2}
  RecoverLimit = 2
  MaxRequests = 4
  MaxCrashes = 1
  MaxFaults = 1
INVARIANTS
  TypeOK
  ReadyIsSearchable
  DeletedIsClean
  PendingIsQueued
PROPERTY EveryFileSettles
CHECK_DEADLOCK FALSE
