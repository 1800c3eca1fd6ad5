SPECIFICATION Spec
CONSTANTS
  Process = {p1, p2}
  Frequency = {1, 3, 32}
INVARIANT NextInterruptWakes
