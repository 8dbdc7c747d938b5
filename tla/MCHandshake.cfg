CONSTANTS
  Keys = {1, 2, 3}
  MaxDamage = 2
SPECIFICATION FairSpec
INVARIANTS
  Agreement
  OppositeKeys
PROPERTIES
  EveryHandshakeEnds
  UndisturbedWorks
CHECK_DEADLOCK FALSE
