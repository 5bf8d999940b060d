CONSTANTS
  Minor = {m1, m2}
  File = {f1, f2}
  NoMinor = NoMinor
  OpenMod = 4
  MaxOpens = 3
  MaxSessions = 2
  MaxQueued = 2
  MayUnregister = FALSE

SPECIFICATION Spec
SYMMETRY TableSymmetry
CHECK_DEADLOCK FALSE
INVARIANTS
  EveryReadyScanned
