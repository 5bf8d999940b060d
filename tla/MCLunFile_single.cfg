CONSTANTS
  Target = {t1}
  Blocks = 4
  Page = 2
  Val = {v1, v2}

SPECIFICATION Spec
INVARIANTS
  BehindByTail
  OnlyLastAtRisk
PROPERTIES
  DiskSpec
