SPECIFICATION Spec
CONSTANTS
  Ids <- AllIds
  Calls <- OCACalls
  Quotes <- Gaps
  MaxCalls = 3
  LastBar = 3
  InitialCapital = 10000
  Pyramiding = 2
  QtyType = "fixed"
  QtyValue = 1
  CommissionType = "percent"
  CommissionValue = 0
  Slippage = 0
  ProcessOrdersOnClose = FALSE
INVARIANT OCACancelled
