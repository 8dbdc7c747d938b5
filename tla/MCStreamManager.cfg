CONSTANTS
  MaxStreams = 2
  MaxMsgs = 2
  MaxEvents = 2
  maxPendingRetries = 1
  Dialers = {"a"}
  Callers = {"cli"}
SPECIFICATION FairSpec
INVARIANTS
  RegisteredIsRead
  InOrderPerReset
PROPERTIES
  DeadStreamForgotten
  HalfOpenHeals
CHECK_DEADLOCK FALSE
