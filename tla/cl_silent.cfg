SPECIFICATION Spec
CONSTANTS
  MaxSub = 1
  MaxSeq = 2
  Wanted = 1
  MaxParked = 1
  MaxFaults = 1
  SendMayFail = TRUE
PROPERTIES
  ChangesReachClient
