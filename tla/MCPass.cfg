SPECIFICATION Spec
CONSTANTS
    t1 = t1
    t2 = t2
    h1 = h1
    u1 = u1
    s1 = s1
    s2 = s2
    f1 = f1
    NoUser = NoUser
    Wildcard = Wildcard
    Absent = Absent
    Tab <- TwoTabs
    Host <- OneHost
    User <- OneUser
    Secret <- TwoSecrets
    Field <- OneField
    HasUser <- OneHost
    Existing <- TwoEntries
    PassFails = TRUE
    MaxTasks = 2
    MaxEvents = 3
INVARIANTS
    TypeOK
    CacheIsStore
PROPERTIES
    UserDecides
    PromisesResolve
CHECK_DEADLOCK FALSE
