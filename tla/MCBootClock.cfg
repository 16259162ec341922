SPECIFICATION DevSpec
CONSTANTS
  Bits = 4
  Start = 2
  Last = 6
  Epoch = 9
  NS_PER_SEC = 7
  NS_PER_US = 2
  MaxSec = 1
  ClockIds <- Ids
  Timespecs <- Specs
  Cores = {0, 1}
  Devices <- Names
  RangeOf <- Ranges
  Screen <- FrameBuffers
  RamSize = 6
  MmioAddrs = {1, 2, 4, 6}
  Values <- Periods
  MinPeriod = 2
  MaxLag = 4
PROPERTY
  BootIsWhole
