SPECIFICATION Spec
CONSTANTS
  Width = 2
  Height = 2
  Typeable = {"a", "nul"}
  Blank = " "
  LF = "nl"
  S = "S"
  Pointer = "#"
  Unset = "nul"
  Title <- SmallTitle
  Output <- SmallOutput
  History <- SmallHistory
  Limit = 2
  Scrolls = 1
INVARIANTS LineShown PointerHarmless
PROPERTY ShowsPaper
CONSTRAINTS Followed OnFirstRow
