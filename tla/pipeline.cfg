CONSTANTS
  p = p
  q = q
  a = a
  b = b
  c1 = c1
  c2 = c2
  Publishers <- MCOne
  Ids <- MCSameId
  Items <- MCOneItem
  NoId = NoId
  NoItem = NoItem
  Conns <- MCConns
  NoConn = NoConn
  Backlog = 1
  Cuts <- MCCuts
  MaxEnds = 1
  MaxCrashes = 1
  MaxFaults = 0
SYMMETRY MCSymmetryOne
SPECIFICATION Spec
INVARIANTS
  TypeOK
PROPERTIES
  Delivery
