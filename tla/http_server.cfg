CONSTANTS
  n1 = n1
  n2 = n2
  n3 = n3
  g = g
  h = h
  t1 = t1
  t2 = t2
  Ids <- MCIds
  Star = Star
  NoNotice = NoNotice
  Groups <- MCGroups
  GroupOf <- MCGroupOf
  DIM = 2
  Threads <- MCThreads
  NoThread = NoThread
  Requests <- MCRequests
  NoRequest = NoRequest
  Odd = {n2, n3}
  MaxRequests = 2
SYMMETRY MCSymmetry
SPECIFICATION Spec
INVARIANTS
  TypeOK
  DamageNeedsOverlap
  PageIsRight
