SPECIFICATION Spec
CONSTANTS
  NTerm = 2
  NPid = 3
  Program = {shell, plain}
  Shell = shell
  Quiet = {}
  Status = {1}
INVARIANT ParentPagingRestored
