SPECIFICATION Spec
CONSTANTS
  NTerm = 2
  MaxOut = 1
PROPERTY SwitchRemaps
