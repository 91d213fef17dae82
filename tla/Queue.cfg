SPECIFICATION FilterSpec
CONSTANTS
  NaN = NaN
  Sizes <- SmallSizes
  Values <- SmallValues
  Wanted <- Positive
  Limit = 2
  Reach = 9
INVARIANTS
  TypeOK
  FilterExact
  ViewsAgree
PROPERTY IsAWindow
