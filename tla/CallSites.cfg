SPECIFICATION SitesSpec
CONSTANTS
  NaN = NaN
  MaxIndicatorWindowLength = 4
  LastBar = 4
  Sites <- Builtins
  Prices <- ThreePrices
  Length = 2
  Occurrences <- Twice
INVARIANT HistoryUntilExtended
INVARIANT PathsAgree
INVARIANT SinceForward
