SPECIFICATION Spec
CONSTANTS
    Grid = 5
    Band = 2
    Mod = 3
    Documents <- RecalcDocuments
    Formulas <- Texts
    Typed <- ValueTyped
    MaxRow = 4
CHECK_DEADLOCK FALSE
INVARIANT TypeOK
INVARIANT ShownIsDenoted
INVARIANT CycleIsShown
PROPERTY ReadsTravel
