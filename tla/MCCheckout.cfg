SPECIFICATION Spec
CONSTANTS
  o1 = o1
  o2 = o2
  p1 = p1
  p2 = p2
  c1 = c1
  c2 = c2
  Staff = Staff
  Order = {o1, o2}
  Product = {p1, p2}
  Customer = {c1, c2}
  CustomerOf <- MCCustomerOf
  CartOf <- MCCartOf
  PriceLists <- MCPriceLists
  r1 = r1
  Reader = {r1}
INVARIANTS
  TypeOK
  QuotedTogether
  ToldTheSale
  ReportAgrees
CHECK_DEADLOCK FALSE
