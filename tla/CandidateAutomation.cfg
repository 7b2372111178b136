SPECIFICATION Spec
CONSTANTS
    Candidates = {c1}
    Requests = {q1, q2}
    Links = {l1}
    Digests = {d1, d2}
    Slots = {s1}
    MaxVersion = 2
    None = None
SYMMETRY Symmetry
INVARIANTS
    OneVerdict
    InvitedOnce
    OneLiveDigest
