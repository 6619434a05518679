SPECIFICATION Spec
CONSTANTS
    a = a
    b = b
    Tab <- OneTab
    Keys <- AllKeys
    MaxWaits = 1
    MaxAnswers = 2
    MaxClosed = 0
INVARIANTS
    SettingsFollowMode
