SPECIFICATION Spec
CONSTANTS
    p1 = p1
    p2 = p2
    p3 = p3
    u1 = u1
    u2 = u2
    Instance <- OneInstance
    Incognito <- Nobody
    Uri <- TwoUris
    Existing <- NoFile
    MaxClosed = 1
    Kills <- NotWriting
    DiskFails = TRUE
    MaxOps = 6
PROPERTIES
    QueueIsReadLater
    BookmarksStay
CHECK_DEADLOCK FALSE
