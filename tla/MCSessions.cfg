SPECIFICATION Spec
CONSTANTS
  p1 = p1
  p2 = p2
  p3 = p3
  p4 = p4
  Requests = {p1, p2, p3, p4}
  Codes = {"code"}
  Cap = 2
  MaxRefreshes = 1
  MaxFaults = 1
SYMMETRY MCSymmetry
INVARIANTS SessionCap OneSessionPerCode
PROPERTIES RevokedForGood
