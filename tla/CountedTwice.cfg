SPECIFICATION Spec
CONSTANTS
    p1 = p1
    p2 = p2
    f1 = f1
    f2 = f2
    Syncs <- MCSyncs
    Fetches <- MCFetches
    Kinds <- MCKinds
    Cell <- MCCell
    Volume <- MCVolume
    MinGroup = 3
    Limit = 1
    NoFetch = NoFetch
    Stored <- MCNoStored
    Planned <- MCPlanned
    MaxSyncs = 2
    NoView = NoView
SYMMETRY MCSymmetry
INVARIANT ReleasedGroupsAreLarge
CHECK_DEADLOCK FALSE
