CONSTANTS
  p = p
  q = q
  a = a
  b = b
  c1 = c1
  c2 = c2
  Publishers <- MCTwo
  Ids <- MCSameId
  Items <- MCItems
  NoId = NoId
  NoItem = NoItem
  Conns <- MCConns
  NoConn = NoConn
  Backlog = 1
  Cuts = {}
  MaxEnds = 0
  MaxCrashes = 0
  MaxFaults = 0
SYMMETRY MCSymmetry
SPECIFICATION Spec
INVARIANTS
  NothingVanishes
PROPERTIES
  Delivery
