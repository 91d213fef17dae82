SPECIFICATION Spec
CONSTANTS
  Ids <- AllIds
  Calls <- OrderCalls
  Quotes <- Spikes
  MaxCalls = 3
  LastBar = 3
  InitialCapital = 6010
  Pyramiding = 1
  QtyType = "percent_of_equity"
  QtyValue = 200
  CommissionType = "cash_per_order"
  CommissionValue = 10
  Slippage = 0
  ProcessOrdersOnClose = TRUE
INVARIANT TypeOK
INVARIANT Bankrupt
INVARIANT EquityFloor
INVARIANT MarketOrdersExpire
INVARIANT RestingIdsUnique
PROPERTY NoResurrection
