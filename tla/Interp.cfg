SPECIFICATION Spec
CONSTANTS
  x = x
  i = i
  S = S
  NaN = NaN
  True = True
  False = False
  Names <- TwoNames
  Strings <- OneString
  Stmts <- Nested
  MaxLoopIterations = 2
  MaxDepth = 2
  LastBar = 2
INVARIANT TypeOK
INVARIANT CallersKept
INVARIANT NoGaps
INVARIANT HistoryIsCommitted
