CONSTANTS
  Minor = {m1, m2}
  File = {f1, f2, f3}
  NoMinor = NoMinor
  OpenMod = 4
  MaxOpens = 3
  MaxSessions = 3
  MaxQueued = 2
  MayUnregister = TRUE

SPECIFICATION Spec
SYMMETRY TableSymmetry
CHECK_DEADLOCK FALSE
INVARIANTS
  TypeOK
  FilesLive
  OnePerMinor
  UnloadComplete
  LastReadyScanned
