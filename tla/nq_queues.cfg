SPECIFICATION Spec
CONSTANTS
  a = a
  b = b
  Mon = {a, b}
  EventMon = {b}
  Links <- EventLink
  Modes <- AllModes
  Settings <- OneOrTwo
  MaxNotifications = 4
INVARIANTS
  NotificationTypeOK
  EarlierNotReported
  ReportingComplete
  LossIsTold
PROPERTIES
  DeliveryKept
  KeepsPlace
CHECK_DEADLOCK FALSE
