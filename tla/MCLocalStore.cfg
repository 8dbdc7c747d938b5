CONSTANTS
  NumIds = 3
  Nicks = {"x", "y"}
  Tabs = {"tab"}
  MaxCalls = 4
  MaxFaults = 2
SPECIFICATION Spec
INVARIANTS
  OneEntryPerPeer
  NoLostEntry
CHECK_DEADLOCK FALSE
