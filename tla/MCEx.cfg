CONSTANTS
    Tab = {t1, t2}
    Freed <- MCFreed
    AnyLine <- MCAnyLine
    Lines <- MCLines
    Files <- MCFiles
    Config <- MCConfig
    FreedOutput <- MCFreedOutput
    MaxRuns = 3
SPECIFICATION Spec
INVARIANTS
    SettingsHold
PROPERTIES
    LinesAreRun
    RunsEnd
CHECK_DEADLOCK FALSE
