CONSTANTS
  Luns = {0, 1}
  MaxLun = 2
  SizeInMb = 1
  PerMb = 2
  Lba6 = 8
  IntMod = 8
  Val = {v1, v2}
  MaxLen = 2
  Zero = Zero

SPECIFICATION EngineSpec
INVARIANTS
  AnnouncedIsServed
  NeverGrows
  DriveTypeOK
  TrackWithinDisc
PROPERTIES
  DisksSpec
