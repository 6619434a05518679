SPECIFICATION FairSpec
CONSTANTS
    MaxTabs = 3
    MaxRequests = 1
    MaxDownloads = 1
    MaxStack = 2
INVARIANTS
    TypeOK
    PagesAreClients
    InputFollowsPage
    DownloadsKeepTabs
PROPERTIES
    QuitHappens
CHECK_DEADLOCK FALSE
