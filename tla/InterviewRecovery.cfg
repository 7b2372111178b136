SPECIFICATION FairSpec
CONSTANTS
    Requests = {r1, r2, r3, r4}
    Recons = {k1, k2}
    None = None
INVARIANTS
    OneActiveAttempt
    OneReplacementConversation
    BoundIsOwn
    StartCoupling
    StartsCountClaims
PROPERTIES
    SettledIsFinal
    ClaimsSettle
CHECK_DEADLOCK FALSE
