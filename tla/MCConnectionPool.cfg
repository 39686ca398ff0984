SPECIFICATION PoolFairSpec
CONSTANTS
  o1 = o1
  i1 = i1
  t1 = t1
  f1 = f1
  r1 = r1
  r2 = r2
  r3 = r3
  None = None
  Order = {o1}
  Item = {i1}
  Return = {t1}
  Refund = {f1}
  Request = {r1, r2, r3}
  ItemOrder <- MCItemOrder
  ReturnItem <- MCReturnItem
  RefundReturn <- MCRefundReturn
  StaffMoves <- MCFulfilment
  InitialOrders <- MCShipped
  PoolSize = 2
INVARIANTS
  PoolTypeOK
  HoldersConnected
  NoPoolDeadlock
  SomeoneRuns
  UnblockedRuns
PROPERTY
  Answered
CHECK_DEADLOCK FALSE
