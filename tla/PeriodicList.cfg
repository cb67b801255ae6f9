SPECIFICATION Spec
CONSTANTS
  Qh = {q1, q2, q3, q4}
  None = None
  MaxPower = 3
SYMMETRY QhSymmetry
INVARIANTS
  NeverStarved
  VisitedAtInterval
CHECK_DEADLOCK FALSE
