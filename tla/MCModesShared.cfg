SPECIFICATION Spec
CONSTANTS
    a = a
    b = b
    Tab <- TwoTabs
    Keys <- FewKeys
    MaxWaits = 2
    MaxAnswers = 1
    MaxClosed = 1
SYMMETRY Swapped
INVARIANTS
    TypeOK
    ScriptsStayAllowed
    SettingsFollowMode
