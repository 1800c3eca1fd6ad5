SPECIFICATION FairSpec
CONSTANTS
  Char = {a}
  NUL = nul
  LF = lf
  Limit = 1
  BufSize = 2
  Depth = 3
  NBytes = {1, 3}
INVARIANTS TypeOK LineFits RecalledLineExists DeliversLine RecallsLine
PROPERTY EnterHeard
