CONSTANTS
  Cmd = {c1, c2}
  Target = {t1, t2}
  NoCmd = NoCmd
  CmdMod = 8
  OpenMod = 4
  MaxOpens = 3
  MaxTasks = 3

SPECIFICATION FairSpec
INVARIANTS
  TypeOK
  PtrExact
  Outstanding
  CountExact
  HandleExact
  ReadyWhileOpen
  NoLockLeak
PROPERTIES
  PortSpec
  CommandReturns
