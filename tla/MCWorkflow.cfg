SPECIFICATION Spec
CONSTANTS
  o1 = o1
  o2 = o2
  i1 = i1
  i2 = i2
  i3 = i3
  t1 = t1
  t2 = t2
  t3 = t3
  t4 = t4
  f1 = f1
  f2 = f2
  f3 = f3
  f4 = f4
  f5 = f5
  Order = {o1, o2}
  Item = {i1, i2, i3}
  Return = {t1, t2, t3, t4}
  Refund = {f1, f2, f3, f4, f5}
  ItemOrder <- MCItemOrder
  ReturnItem <- MCReturnItem
  RefundReturn <- MCRefundReturn
  StaffMoves <- MCAnyMove
  InitialOrders <- MCNoOrders
INVARIANTS
  TablesTyped
  Settled
  PaidOnce
  PendingRefundIsDue
PROPERTIES
  TableMoves
  ImplementsSettlement
CHECK_DEADLOCK FALSE
