SPECIFICATION Spec
CONSTANTS
  Char = {a}
  NUL = nul
  LF = lf
  Limit = 2
  BufSize = 3
  Depth = 2
  NBytes = {1}
INVARIANT ReadWithinBuffer
