SPECIFICATION Spec
CONSTANTS
    p1 = p1
    p2 = p2
    p3 = p3
    u1 = u1
    u2 = u2
    Instance <- TwoInstances
    Incognito <- Nobody
    Uri <- TwoUris
    Existing <- AllFiles
    MaxClosed = 1
    Kills <- Never
    DiskFails = FALSE
    MaxOps = 3
PROPERTIES
    QueueIsShared
CHECK_DEADLOCK FALSE
