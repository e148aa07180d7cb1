SPECIFICATION MCFairSpec
CONSTANTS
  Parts = {"lock", "event", "queue", "channel"}
  Clients = {a, b}
  Users = {a, b}
  Bounded = TRUE
  Cap = 1
  MaxItems = 2
  SendTasks = {s1, s2}
  RecvTasks = {r1, r2}
  Capacity = 0
PROPERTIES
  WaitersAreServed
CHECK_DEADLOCK FALSE
