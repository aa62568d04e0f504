CONSTANTS
    r1 = r1
    r2 = r2
    r3 = r3
    Requests = {r1, r2}
    MaxUpdate = 1
    FetchYields = FALSE
    SyncYields = FALSE
SPECIFICATION Spec
SYMMETRY Symmetry
INVARIANTS NeverCloses
