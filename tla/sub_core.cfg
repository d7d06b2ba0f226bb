SPECIFICATION Spec
CONSTANTS
  Session = {s1, s2}
  NoSession = NoSession
  Request = {r1}
  MaxSubId = 2
  MaxSeqNo = 1
  MaxSubCount = 0
  SubRetransLimit = 2
  SessionRetransLimit = 1
  EnableRetransmission = TRUE
  MaxPublishReq = 1
  MaxSubscriptions = 0
  MaxSubsPerSession = 0
  MaxNotifPerPublish = 2
  KeepAliveLimits <- ShortLimits
  LifeTimeLimits <- LifeLimits
  AllowTransfer = TRUE
  Settings <- OneSetting
  PublishingModes = {TRUE}
  MaxNotifications = 2
  MaxTime = 0
INVARIANTS
  SessionListsCoherent
  NoStrandedRequest
  RequestsConserved
  RetransmissionAccounting
SYMMETRY Symmetry
