SPECIFICATION TypingSpec
CONSTANTS
    Forms <- MCForms
    CellTypes <- MCCellTypes
    NameTypes <- MCNameTypes
    UrlTypes <- MCUrlTypes
    IntMax = 999
    LongMax = 9999
INVARIANTS NamesAgree UrlsSurvive CellsUntouched CellsTyped
