SPECIFICATION FairSpec
CONSTANTS
  Key = {k1}
  Value = {1}
  Updates = TRUE
  ConnectMayFail = TRUE
  MayTimeOut = TRUE
  MaxEvents = 0
  MaxRequests = 1
PROPERTIES
  DestroyEnds
  WritesArrive
CHECK_DEADLOCK FALSE
