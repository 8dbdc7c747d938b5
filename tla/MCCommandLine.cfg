CONSTANTS
  Searches = {"s"}
  Boots = {"b"}
  MaxFound = 2
  Peers = {"p", "q"}
  MaxConnects = 2
  None = "none"
SPECIFICATION FairSpec
PROPERTIES
  StaleActiveHeals
  LineEnds
  SearchStops
CHECK_DEADLOCK FALSE
