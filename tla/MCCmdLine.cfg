CONSTANTS
    Char <- MCChar
    NameList <- MCNameList
    ArgList <- MCArgList
    Lines <- MCLines
    Keys <- MCKeys
    MaxText <- MCMaxText
    MaxLines = 5
    MaxLost = 1
    MaxPending = 2
    MaxPrompts = 2
SPECIFICATION Spec
INVARIANTS
    TypeOK
    SelectionIsShown
    PromptStays
    MatchesAreCurrent
PROPERTIES
    PromptsAreApart
