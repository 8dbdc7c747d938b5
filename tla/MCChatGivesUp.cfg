CONSTANTS
  MaxMsgs = 1
  MaxLoss = 0
  maxPendingRetries = 1
  maxReceiveBuffer = 1
  Kinds = {"text"}
  Callers = {"web"}
SPECIFICATION FairSpec
PROPERTY GivesUp
CHECK_DEADLOCK FALSE
