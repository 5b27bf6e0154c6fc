CONSTANTS
  Regions = {a, b}
  Width = 2
  Height = 3
  Rects <- SmallRects
  Shifts <- SmallShifts
  MaxSince = 4
SYMMETRY Either
SPECIFICATION Spec
INVARIANT TypeOK
INVARIANT Meaning
INVARIANT Traversal
CHECK_DEADLOCK FALSE
