CONSTANTS
  g = g
  c1 = c1
  c2 = c2
  t1 = t1
  Ids <- MCIds
  Star = Star
  NoNotice = NoNotice
  Groups <- MCGroups
  GroupOf <- MCGroupOf
  DIM = 2
  Conns <- MCConns
  NoConn = NoConn
  Commands <- MCCommands
  Nothing = Nothing
  Terminals <- MCTerminals
  MaxCuts = 1
  Backlog = 1
SPECIFICATION FairSpec
INVARIANTS
  TypeOK
  TakeTurns
  AnswerBelongs
PROPERTIES
  QuitEnds
