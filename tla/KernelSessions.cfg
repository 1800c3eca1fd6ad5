SPECIFICATION HazardFreeSpec
CONSTANTS
  NTerm = 3
  NPid = 5
  Program = {shell, pong}
  Shell = shell
  Quiet = {pong}
  Status = {1, 2}
INVARIANTS NeverCrashes MappingFollowsRunner OwnTerminal CallerHears SlotsAccounted 
PROPERTIES NoTerminalStarves ImplementsSessions
