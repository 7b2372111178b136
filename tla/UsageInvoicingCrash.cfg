SPECIFICATION Spec
CONSTANTS
    i1 = i1  i2 = i2  r1 = r1  r2 = r2
    Interviews = {i1, i2}
    Roles = {r1, r2}
    Assignments <- OneRoleOrTwo
    Cycles = {c1}
    Runs = {}
    ItemIds = {x1, x2}
    LastMonth = 2
    None = None
INVARIANT NothingIsLost
CHECK_DEADLOCK FALSE
