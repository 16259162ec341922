SPECIFICATION BiosSpec
CONSTANTS
  Lbas <- AskedLbas
  Image <- FileLbas
  Addrs <- AskedAddrs
  Valid <- GoodAddrs
  Data <- Contents
  Commands <- AnyCommand
  Buf = 1
  ElfHeaders <- Elf
INVARIANTS
  NoMissedSignal
  CommandNotErased
  ReadsItsOwn
PROPERTIES
  DiskEnds
  BootEnds
