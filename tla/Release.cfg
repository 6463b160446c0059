SPECIFICATION Spec
CONSTANTS
    p1 = p1
    p2 = p2
    f1 = f1
    f2 = f2
    Syncs <- MCSyncs
    Fetches <- MCFetches
    Kinds <- MCKinds
    Cell <- MCCell
    Volume <- MCVolume
    MinGroup = 3
    Limit = 1
    NoFetch = NoFetch
    Stored <- MCStored
    Planned <- MCPlanned
    MaxSyncs = 2
    NoView = NoView
SYMMETRY MCSymmetry
INVARIANTS
    TypeOK
    SnapshotsAreWhole
    RowsAreOfWholeSnapshots
    OfferIsKept
    ApprovedIsCertified
\* a rejected view without further syncs is at its end
CHECK_DEADLOCK FALSE
