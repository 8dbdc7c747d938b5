CONSTANTS
  W = 3
  MaxCtr = 5
SPECIFICATION Spec
INVARIANTS
  AtMostOnce
  OpenedWasSealed
  WindowExact
PROPERTY ImplementsFilter
