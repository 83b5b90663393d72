SPECIFICATION FairSpec
CONSTANTS
  s1 = s1
  i1 = i1
  i2 = i2
  i3 = i3
  a1 = a1
  a2 = a2
  b1 = b1
  c1 = c1
  c2 = c2
  Sale = {s1}
  Row = {i1, i2, i3}
  SaleOf <- MCSaleOf
  Id <- MCId
  No <- MCNo
  Anticipation = {a1, a2}
  Items <- MCItems
  Chargeback = {b1}
  Cancellation = {c1, c2}
  Of <- MCOf
  Job = {j1}
  Anticipable = {i1, i2}
  Due = {i3}
  BatchSize = 1
  MaxLosses = 1
INVARIANTS
  DeadlockNeedsTwoOrders
  VersionNeverRefuses
PROPERTIES
  ActsAsWhole
  EveryRequestEnds
CHECK_DEADLOCK FALSE
