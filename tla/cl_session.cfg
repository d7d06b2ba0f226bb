SPECIFICATION Spec
CONSTANTS
  MaxSub = 1
  MaxSeq = 2
  Wanted = 2
  MaxParked = 1
  MaxFaults = 2
  SendMayFail = FALSE
INVARIANTS
  ClientTypeOK
  CallsAccounted
  NothingForgotten
PROPERTIES
  Reactivates
  ChangesReachClient
