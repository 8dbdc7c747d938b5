CONSTANTS
  MaxMsgs = 2
  MaxLoss = 1
  maxPendingRetries = 2
  maxReceiveBuffer = 0
  Kinds = {"text", "blank"}
  Callers = {"cli"}
SPECIFICATION FairSpec
INVARIANT WriteBound
PROPERTIES
  EveryPendingEnds
  DeliveredOrKnown
CHECK_DEADLOCK FALSE
