CONSTANTS
  MaxStreams = 2
  MaxMsgs = 1
  MaxEvents = 2
  maxPendingRetries = 2
  Dialers = {"a"}
  Callers = {"web"}
SPECIFICATION Spec
INVARIANT ShownOnce
CHECK_DEADLOCK FALSE
