SPECIFICATION CallsSpec
CONSTANTS
  MaxFds = 4
  Types = {"DEV_NULL", "DEV_ZERO", "DEV_TTY", "SOCKET"}
  Modes = {"RDONLY", "RDWR"}
  MaxCalls = 3
  TickMod = 5
  TickUs = 2
  UsMax = 3
  NS_PER_US = 2
  US_PER_SEC = 2
  Millis <- Timeouts
  Seconds <- Secs
  Nanos <- Nsecs
  Watched <- WatchedSets
  MaxLag = 1
  Contexts <- Both
INVARIANTS
  OwnResult
  SelfTestHolds
PROPERTIES
  NotEarly
  DirectReturns
