CONSTANTS
  Target = {t1, t2}
  Blocks = 4
  Page = 2
  Val = {v1, v2}

SPECIFICATION Spec
SYMMETRY FileSymmetry
INVARIANTS
  ReadsCurrent
