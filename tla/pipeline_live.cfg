CONSTANTS
  p = p
  q = q
  a = a
  b = b
  c1 = c1
  c2 = c2
  Publishers <- MCOne
  Ids <- MCIds
  Items <- MCItems
  NoId = NoId
  NoItem = NoItem
  Conns <- MCConns
  NoConn = NoConn
  Backlog = 1
  Cuts = {}
  MaxEnds = 0
  MaxCrashes = 0
  MaxFaults = 0
SPECIFICATION FairSpec
PROPERTIES
  EveryNoticeArrives
