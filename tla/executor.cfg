SPECIFICATION FairSpec
CONSTANTS
  MaxTasks = 2
  MaxWoken = 2
  MaxJoiners = 2
  MaxPending = 1
  DropsMayPanic = TRUE
INVARIANTS
  OnePollAtATime
  WakesAreKept
  SelfCancelTakesEffect
  RunsToExhaustion
PROPERTIES
  EndIsFinal
  RefinesScheduler
  WakeIsServed
CHECK_DEADLOCK FALSE
