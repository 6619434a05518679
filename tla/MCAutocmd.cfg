SPECIFICATION FairSpec
CONSTANTS
    load = load
    download = download
    g1 = g1
    g2 = g2
    end = end
    star = star
    both = both
    bad = bad
    http = http
    NoUri = NoUri
    NoWord = NoWord
    Event <- MCEvent
    Name <- MCName
    EndName = end
    EventWord <- MCEventWord
    BitsOf <- MCBitsOf
    Pattern <- MCPattern
    Uri = {http, NoUri}
    WildMatch <- MCWildMatch
    MaxGroups = 2
    MaxCmds = 2
    MaxOps = 6
    MaxStack = 2
INVARIANTS
    TypeOK
    UsedBitsExact
PROPERTIES
    RunsEnd
    RunsDueOnce
CHECK_DEADLOCK FALSE
