SPECIFICATION FairSpec
CONSTANTS
  NTerm = 2
  NPid = 3
  Program = {shell, plain}
  Shell = shell
  Quiet = {}
  Status = {1}
INVARIANTS TypeOK EmptyTerminalHasPid ParentNamed
PROPERTIES BaseShellsStay HaltGivesBackPid
