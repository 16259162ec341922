SPECIFICATION Spec
CONSTANTS
  MaxFds = 3
  Types <- SpecialTypes
  Modes <- OpenModes
INVARIANT
  RefsExact
PROPERTY
  ImplementsPosixFds
