CONSTANTS
  Msgs = {m1, m2, m3, m4}
  MaxFaults = 2
SPECIFICATION Spec
INVARIANTS
  WholeFile
  NoLostUpdate
  ClearIsFinal
PROPERTY DamageKept
CHECK_DEADLOCK FALSE
