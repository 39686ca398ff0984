SPECIFICATION Spec
CONSTANTS
  o1 = o1
  o2 = o2
  i1 = i1
  i2 = i2
  i3 = i3
  i4 = i4
  t1 = t1
  t2 = t2
  t3 = t3
  t4 = t4
  t5 = t5
  f1 = f1
  f2 = f2
  f3 = f3
  f4 = f4
  f5 = f5
  r1 = r1
  r2 = r2
  None = None
  Order = {o1, o2}
  Item = {i1, i2, i3, i4}
  Return = {t1, t2, t3, t4, t5}
  Refund = {f1, f2, f3, f4, f5}
  Request = {r1, r2}
  ItemOrder <- MCItemOrder
  ReturnItem <- MCReturnItem
  RefundReturn <- MCRefundReturn
  StaffMoves <- MCStaffMoves
  InitialOrders <- MCFirstOrder
INVARIANT
  OneActiveReturn
CHECK_DEADLOCK FALSE
