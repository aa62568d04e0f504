CONSTANTS
    Challenges = {c1, c2}
    Requests = {r1, r2}
    NoId = NoId
    TTL = 1
    MaxTime = 3
    DigestYields = TRUE
SPECIFICATION FairSpec
INVARIANTS TypeOK RedeemedRightly LiveIsStored
PROPERTIES ExpiredIsCleaned
CHECK_DEADLOCK FALSE
