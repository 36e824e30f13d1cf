CONSTANTS
  n1 = n1
  n2 = n2
  n3 = n3
  g = g
  h = h
  c1 = c1
  c2 = c2
  Ids <- MCIds
  Star = Star
  NoNotice = NoNotice
  Groups <- MCGroups
  GroupOf <- MCGroupOf
  DIM = 2
  Conns <- MCConns
  NoConn = NoConn
  Commands <- MCCommands
  Nothing = Nothing
  Backlog = 1
SPECIFICATION FairSpec
INVARIANTS
  TypeOK
  SurvivesGoodDays
PROPERTIES
  NextWalksListing
  WaitingIsServed
