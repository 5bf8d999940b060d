CONSTANTS
  Target = {t1, t2}
  File = {f1, f2}
  PerMb = 2
  MaxSize = 4
  MaxLuns = 2

SPECIFICATION Spec
SYMMETRY ConfigSymmetry
INVARIANTS
  SizesAgree
