SPECIFICATION Spec
CONSTANTS
  Key = {k1}
  Value = {1, 2}
  Updates = FALSE
  ConnectMayFail = FALSE
  MayTimeOut = TRUE
  MaxEvents = 1
  MaxRequests = 2
INVARIANTS
  ClientExclusive
  ClientUsable
  ChangesDelivered
  WritesKept
CHECK_DEADLOCK FALSE
