CONSTANTS
  a = a
  b = b
  Ids <- MCIds
  Items <- MCItems
  NoId = NoId
  NoItem = NoItem
  Arrivals <- MCArrivals
  MaxFaults = 2
SPECIFICATION Spec
INVARIANTS
  TypeOK
  NoSilentLoss
  OnePlace
