CONSTANTS
  MaxMsgs = 3
  MaxLoss = 0
  maxPendingRetries = 1
  maxReceiveBuffer = 1
  Kinds = {"text", "big"}
  Callers = {"cli", "web"}
SPECIFICATION Spec
INVARIANTS
  ExactlyOnceInOrder
  AckMeansKept
  NoSilentDrop
  OneOutcome
PROPERTY ImplementsService
CHECK_DEADLOCK FALSE
