SPECIFICATION FairSpec
CONSTANTS
  MaxTasks = 3
  Quantum = 2
  TickMod = 3
  Durations <- SmallDurations
  MaxTid = 3
  MaxDepth = 3
INVARIANTS
  WaitqLinked
  WakeupReachesWaiter
  ChildExitNotMissed
  NestingHolds
PROPERTIES
  WokenOnTime
  TasksProceed
