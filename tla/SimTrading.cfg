SPECIFICATION Spec
CONSTANTS
  Ids <- AllIds
  Calls <- TradingCalls
  Quotes <- Gaps
  MaxCalls = 3
  LastBar = 3
  InitialCapital = 20000
  Pyramiding = 2
  QtyType = "fixed"
  QtyValue = 1
  CommissionType = "percent"
  CommissionValue = 1
  Slippage = 1
  ProcessOrdersOnClose = FALSE
INVARIANT PyramidingCap
INVARIANT Ledger
INVARIANT StopHonoured
PROPERTY FillsInRange
PROPERTY UnarmedExitRests
