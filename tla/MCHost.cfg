SPECIFICATION MCSpec
CONSTANTS
  Bytes <- Typed
  Size = 4
  HostCores <- TwoCores
  Addrs <- Places
  Handler = 3
  MaxBreaks = 2
  EnvBreaks <- Given
CHECK_DEADLOCK FALSE
INVARIANT
  MemoryIsHeld
PROPERTIES
  BreakpointStops
  ExitFollowsHalt
  ImplementsByteQueue
  InputIsDrained
