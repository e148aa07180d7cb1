SPECIFICATION MCSpec
CONSTANTS
  Parts = {"signals", "handles", "logging", "trace", "cycle"}
  Word = 4
  Widths = {0, 1, 2, 3, 4, 5, 8, 9, 17}
  Ints = {0, 1, 2, 5, 10, 31, 256, 65535, 33025, 69905}
  Levels = {0, 1, 5}
  Files = {"f"}
  MaxCalls = 2
  MaxLines = 2
  MaxTests = 2
  TracePaths = {"a", "b"}
  MaxTime = 2
  MaxSettles = 2
  Targets = {0, 1, 3}
  ResetCycles = 4
  InjectAt = 2
  MaxCycles = 9
  MaxU64 = 4095
  Periods <- MCPeriods
  Precisions <- MCPrecisions
INVARIANTS
  ValuesAreExact
  MessagesAreRouted
  CapturesAreTrue
  CyclesAgree
CHECK_DEADLOCK FALSE
