SPECIFICATION DealSpec
CONSTANTS
    Requests = {q1, q2}
    Reps = {r1}
    Events = {e1}
    Keys = {k1, k2}
    Previews = {p1}
    Deals = {d1, d2}
    Null = Null
SYMMETRY Symmetry
INVARIANTS
    MailedIsWhole
    FailureLeavesNothing
    AckedIsImported
