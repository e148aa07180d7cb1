SPECIFICATION MCSpec
CONSTANTS
  Parts = {"handshake", "alu", "first", "tester", "sequence", "order"}
  Seqs = {s1, s2}
  Drivers = {d}
  MaxItems = 3
  MaxDropped = 1
  HoldEdges = 5
  Rounds = 2
  MaxTests = 2
INVARIANTS
  ItemsAreSound
  GrantsAreKept
  StreamsAreOwn
  NothingIsCutOff
  AnswersAreOwn
PROPERTIES
  StimulusEnds
CHECK_DEADLOCK FALSE
