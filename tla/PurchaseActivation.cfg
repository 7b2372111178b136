SPECIFICATION Spec
CHECK_DEADLOCK FALSE
CONSTANTS
  Checkouts = {c1}
  Workers = {w1, w2}
  Requests = {}
  MaxAgreements = 1
  MaxMishaps = 1
  None = None
INVARIANT WelcomeMailedOnce
INVARIANT TailFollowsBilling
INVARIANT AckedIsSettled
PROPERTY PaidSettles
