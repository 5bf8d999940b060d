CONSTANTS
  Hosts = 2
  Cmds = 3
  Slot = {k1, k2}
  NoSlot = NoSlot

SPECIFICATION FairSpec
INVARIANTS
  SlotsApart
  NeverDoneTwice
  DoneUnlessAborted
PROPERTIES
  CommandReturns
