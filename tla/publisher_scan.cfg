CONSTANTS
  Publishers = {p}
  Ids <- MCIds
  Items = {a, b}
  NoId = NoId
  NoItem = NoItem
  Conns = {c1, c2}
  NoConn = NoConn
  MaxEnds = 1
SPECIFICATION Spec
INVARIANTS
  ScanReturnsUnsentRow
