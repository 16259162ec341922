SPECIFICATION Spec
CONSTANTS
  Cap = 4
  Chunk = 2
  Readers = {1, 2}
  Lens <- Lengths
  Uses <- AllUses
  MaxEofs = 4
INVARIANTS
  CountersExact
  TakesWhatItRead
  WakeupPerLine
