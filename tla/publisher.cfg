CONSTANTS
  Publishers = {p}
  Ids <- MCIds
  Items = {a, b}
  NoId = NoId
  NoItem = NoItem
  Conns = {c1, c2}
  NoConn = NoConn
  MaxEnds = 2
SPECIFICATION Spec
INVARIANTS
  TypeOK
  MarkedWasWritten
  NoResendInOneRun
PROPERTIES
  RowsAreKept
