SPECIFICATION MCSpec
CONSTANTS
  Parts = {"phase"}
  Cbs = {c1, c2, c3}
  MaxDepth = 3
  MaxCalls = 2
  Tasks = {t1, t2}
  Signals = {"clk", "data"}
  Kinds = {"rw", "ro", "nt", "timer", "clk"}
  MaxOps = 5
INVARIANTS
  LastWriteWins
CHECK_DEADLOCK FALSE
