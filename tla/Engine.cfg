SPECIFICATION Spec
CONSTANTS
  Buffers = {b1, b2}
  Programs <- TwoPrograms
  Garbage = Garbage
  Providers <- TwoProviders
  Holds <- Served
  Flaky <- Unreliable
  Timeframes = {"1", "5"}
  Requests <- AfterRuns
  SortedTypes <- Sorted
  defaultSymbol = "A"
  defaultValueType = "close"
  Bars = 5
  BudgetStride = 2
  None = None
SYMMETRY Slices
INVARIANT RunsItsBytecode
INVARIANT OneTimeframe
INVARIANT ServedAsOffered
INVARIANT OneMeaning
INVARIANT NoLateFailure
INVARIANT BudgetHeld
