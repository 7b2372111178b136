SPECIFICATION Spec
CONSTANTS
    Orders = {o1, o2}
    Credits = {c1}
    Sessions = {embedded, hosted}
    MaxPayments = 2
    None = None
SYMMETRY Symmetry
INVARIANTS
    RolesWithinPayments
    SettledAnswerHasRole
    CreditBuysOneRole
CHECK_DEADLOCK FALSE
