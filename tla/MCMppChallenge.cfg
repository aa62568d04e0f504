CONSTANTS
    Challenges = {c1, c2}
    Requests = {r1, r2, r3}
    NoId = NoId
    TTL = 1
    MaxTime = 2
    DigestYields = FALSE
SPECIFICATION Spec
SYMMETRY Symmetry
INVARIANTS SingleRedemption
PROPERTIES Redeemable
CHECK_DEADLOCK FALSE
