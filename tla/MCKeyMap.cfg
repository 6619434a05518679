SPECIFICATION AllMapsFair
CONSTANTS
    a = a
    b = b
    csi = csi
    normal = normal
    insert = insert
    Key <- MCKey
    CSI = csi
    Mode <- MCMode
    NormalMode = normal
    Typed <- MCTyped
    Strings <- MCStrings
    MapSet <- MCMapSet
    MaxEvents = 4
    MaxStack = 3
    MaxQueue = 14
INVARIANTS
    TypeOK
    ResolvedInQueue
    PendingIsTimed
PROPERTIES
    
    SpecialKeysWhole
    NoremapNeverMapped
