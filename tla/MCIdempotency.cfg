SPECIFICATION Spec
CONSTANTS
  k1 = k1
  k2 = k2
  r1 = r1
  r2 = r2
  r3 = r3
  r4 = r4
  None = None
  Key = {k1, k2}
  Request = {r1, r2, r3, r4}
  KeyOf <- MCKeyOf
  Fault = {"crash", "queryError"}
SYMMETRY Symmetry
INVARIANTS
  TypeOK
  AtMostOnce
  OneOwner
  SameAnswer
PROPERTIES
  ImplementsOnceOnly
  CompletedForGood
CHECK_DEADLOCK FALSE
