CONSTANTS
    r1 = r1
    r2 = r2
    r3 = r3
    Requests = {r1, r2}
    MaxUpdate = 2
    FetchYields = TRUE
    SyncYields = FALSE
SPECIFICATION Spec
SYMMETRY Symmetry
PROPERTIES NeverRollsBack
