SPECIFICATION Spec
CONSTANTS
  Half = 2
  Width = 2
  Regs = {0, 1}
  Text = 2
  Cells = 1
  CallSize = 2
  DataSize = 2
  Programs <- EachGroup
INVARIANTS
  CompareDecides
  ResultDecides
  StacksHold
