SPECIFICATION Spec
CONSTANTS
  NTerm = 2
  MaxOut = 1
INVARIANTS ScreensFaithful CursorShown OwnScreenMapped
