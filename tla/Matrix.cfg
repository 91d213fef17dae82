SPECIFICATION Spec
CONSTANTS
  NaN = NaN
  None = None
  Names <- TwoNames
  Refs <- Two
  Slices <- Heap
  Inputs <- MCInputs
  Elements <- Few
  MaxRows = 2
  MaxCols = 2
  Arguments <- Indexes
  Spans <- RowsOrCols
  Powers <- Powered
INVARIANTS
  LinearAlgebra
  Statistics
PROPERTY IsHeap
CHECK_DEADLOCK FALSE
