SPECIFICATION FairSpec
CONSTANTS
  k1 = k1
  k2 = k2
  r1 = r1
  r2 = r2
  r3 = r3
  r4 = r4
  None = None
  Key = {k1}
  Request = {r1, r2, r3}
  KeyOf <- MCOneKey
  Fault = {"crash", "queryError"}
PROPERTY
  KeysSettle
CHECK_DEADLOCK FALSE
