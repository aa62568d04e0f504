SPECIFICATION FairSpec
CONSTANTS
    Channels = {c1}
    MaxUpdate = 3
INVARIANTS TypeOK IInv AlwaysRestorable RevealedIsDurable AckedIsDurable ReportedIsDurable CloseNeedsCut IdleIsCurrent
PROPERTIES NeverRollsBack Implements SessionEnds
