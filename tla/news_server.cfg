CONSTANTS
  Ids <- MCIds
  Items = {a}
  NoId = NoId
  NoItem = NoItem
  Conns = {c1, c2}
  NoConn = NoConn
  Backlog = 1
  Cuts <- MCCuts
  MaxCrashes = 1
  MaxQueued = 1
SPECIFICATION FairSpec
INVARIANTS
  TypeOK
  NoConnectionLeaks
PROPERTIES
  WaitingIsServed
