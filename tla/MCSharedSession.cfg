CONSTANTS
    r1 = r1
    r2 = r2
    r3 = r3
    Requests = {r1, r2, r3}
    MaxUpdate = 2
    FetchYields = FALSE
    SyncYields = TRUE
SPECIFICATION Spec
SYMMETRY Symmetry
INVARIANTS TypeOK AlwaysRestorable RevealedIsStored AckedIsStored SessionIsCurrent
PROPERTIES NeverRollsBack
