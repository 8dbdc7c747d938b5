CONSTANTS
  Peers = {"p", "q"}
  MaxRequests = 2
  MaxAnswers = 3
  Tabs = {"tab"}
SPECIFICATION FairSpec
INVARIANTS
  NumbersDistinct
  OnlyRequestReachable
  CleanAtRest
  StartedAfterYes
PROPERTY EveryWaitEnds
CHECK_DEADLOCK FALSE
