CONSTANTS
    MaxLen <- MCMaxLen
SPECIFICATION Spec
INVARIANTS
    ReadersAgree
    NamesAgree
    ListsAgree
    HintsAgree
CHECK_DEADLOCK FALSE
