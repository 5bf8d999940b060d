CONSTANTS
  Target = {t1, t2}
  Cmds = 2
  AnswerHeader = 1
  UHeader = 2
  SenseLen = 2
  Room = 4
  Scatter <- MCScatter

SPECIFICATION Spec
SYMMETRY Symmetry
INVARIANTS
  WritesHostData
  ReadsReply
  SenseOfAnswer
PROPERTIES
  NotAfterReturn
