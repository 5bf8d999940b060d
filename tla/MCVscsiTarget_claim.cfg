CONSTANTS
  Cmd = {c1, c2}
  Target = {t1, t2}
  NoCmd = NoCmd
  CmdMod = 8
  OpenMod = 4
  MaxOpens = 2
  MaxTasks = 2
  OutCmds = {c1}
  Steady = {}

SPECIFICATION TargetSpec
INVARIANTS
  ExclusiveClaim
