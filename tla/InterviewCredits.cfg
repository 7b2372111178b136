SPECIFICATION CreditSpec
CONSTANTS
    Roles = {ra, rb}
    Interviews = {i1, i2}
    Requests = {q1, q2}
    MaxCredits = 2
    Allowance = 1
    Window = 2
    MaxTime = 3
    None = None
SYMMETRY Symmetry
INVARIANT OneLiveCredit
PROPERTY SettledPayersStay
CHECK_DEADLOCK FALSE
