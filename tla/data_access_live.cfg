CONSTANTS
  a = a
  b = b
  Ids <- MCIds
  Items <- MCItems
  NoId = NoId
  NoItem = NoItem
  Arrivals <- MCRefused
  MaxFaults = 1
SPECIFICATION FairSpec
PROPERTIES
  RefusedNoticeStarvesNobody
