SPECIFICATION Spec
CHECK_DEADLOCK FALSE
CONSTANTS
  Checkouts = {c1, c2}
  Workers = {w1}
  Requests = {r1, r2}
  MaxAgreements = 2
  MaxMishaps = 0
  None = None
SYMMETRY Alike
INVARIANT PaidIsCurrent
PROPERTY CanceledStaysClosed
