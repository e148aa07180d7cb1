SPECIFICATION MCSpec
CONSTANTS
  Parts = {"lock", "event", "queue", "fifo", "channel"}
  Clients = {a, b, c}
  Users = {a, b, c}
  Bounded = TRUE
  Cap = 2
  MaxItems = 3
  SendTasks = {s1, s2}
  RecvTasks = {r1, r2}
  Capacity = 0
INVARIANTS
  OwnershipIsSound
  NoSleeperMissesOut
  ItemsKeepOrder
PROPERTIES
  RefinesFairLock
  DisconnectIsHonest
CHECK_DEADLOCK FALSE
