SPECIFICATION SpecSession
CONSTANTS
  NProcess = 3
  Directory <- SmallDirectory
  Images <- AllImages
  Disk <- CharAt
  Magic = "ELF"
  Space = " "
  ShellName <- Shell0
  NameLen = 3
  BlockSize = 2
  InodeBlocks = 3
  DataBlocks = 17
  Width = 32
  FdTop = 5
  ChunkSize = 3
  Typed <- SmallTyped
  Answers <- SmallAnswers
  Newline = "nl"
  Dot = "."
  One = "1"
  ExitWord <- Exit
  RtcName <- Rtc
  Frame <- Frames
  Mark <- MarkPlace
  BufSize = 3
  CountTo <- Limits
  Choice <- TestChoice
  Foreign <- Wrong
  TryCalls = 3
  TryNames <- Tries
  TrySizes <- Sizes
  TryCommands <- TryRuns
INVARIANTS TypeOK LoadsProgram CommandParsed ShellReports PrintsFaithfully LinesExact SysErrPasses
PROPERTY ImplementsStreams
