SPECIFICATION Spec
CONSTANTS
    Jobs = {j1, j2}
    Kinds <- Announcements
    MaxAttempts = 2
    None = None
SYMMETRY Symmetry
INVARIANTS
    DeliveredIsThere
    MissingIsListed
PROPERTIES
    DeliveredIsFinal
