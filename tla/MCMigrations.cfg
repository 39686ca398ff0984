SPECIFICATION Spec
CONSTANTS
  m1 = m1
  m2 = m2
  o1 = o1
  f1 = f1
  f2 = f2
  u1 = u1
  u2 = u2
  Runner = {m1, m2}
  Order = {o1}
  Refund = {f1, f2}
  RefundOrder <- MCRefundOrder
  User = {u1, u2}
  KeyName = {"k1"}
INVARIANTS
  SchemaIsPrefix
  OneRunUnderway
PROPERTIES
  RowsGoLast
  ExitTellsSchema
  
CHECK_DEADLOCK FALSE
