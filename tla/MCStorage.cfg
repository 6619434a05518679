SPECIFICATION Spec
CONSTANTS
    p1 = p1
    p2 = p2
    p3 = p3
    u1 = u1
    u2 = u2
    Instance <- ThreeInstances
    Incognito <- OnlyP3
    Uri <- TwoUris
    Existing <- NoFile
    MaxClosed = 2
    Kills <- Anytime
    DiskFails = TRUE
    MaxOps = 4
INVARIANTS
    TypeOK
    ClosedBounded
PROPERTIES
    HistoryOnlyGrows
CHECK_DEADLOCK FALSE
