SPECIFICATION Spec
CONSTANTS
  x = x
  i = i
  S = S
  NaN = NaN
  True = True
  False = False
  Names <- TwoNames
  Strings <- OneString
  Stmts <- Capture
  MaxLoopIterations = 2
  MaxDepth = 3
  LastBar = 1
PROPERTY AssignsAreLocal
