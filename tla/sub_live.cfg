SPECIFICATION FairSpec
CONSTANTS
  Session = {s1}
  NoSession = NoSession
  Request = {r1, r2}
  MaxSubId = 1
  MaxSeqNo = 3
  MaxSubCount = 3
  SubRetransLimit = 3
  SessionRetransLimit = 2
  EnableRetransmission = TRUE
  MaxPublishReq = 1
  MaxSubscriptions = 0
  MaxSubsPerSession = 0
  MaxNotifPerPublish = 2
  KeepAliveLimits <- CountLimits
  LifeTimeLimits <- LifeLimits
  AllowTransfer = FALSE
  Settings <- TwoSettings
  PublishingModes = {TRUE, FALSE}
  MaxNotifications = 3
  MaxTime = 1
INVARIANTS
  RetransmissionOrder
PROPERTIES
  RequestsCompleted
  DetachedReaped
  RequestsKept
