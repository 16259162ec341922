SPECIFICATION MCSpec
CONSTANTS
  NCores = 2
  Irqs <- TwoWords
  PerWord = 2
  DeviceIrqs <- Devs
  IpiIrqs <- Sent
  AckIrqs <- Serial
  Code <- Program
  Isrs <- Routines
  Rest <- TwoValues
  Masking = {TRUE, FALSE}
  MaxFrames = 2
INVARIANTS
  NoLostInterrupt
  NoNesting
PROPERTIES
  EntersIsr
  ResumesInterrupted
  LowestIsTaken
