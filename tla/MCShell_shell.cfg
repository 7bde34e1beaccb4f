SPECIFICATION Spec
CONSTANTS
    RowHeight = 2
    MaxRow = 4
    MaxText = 2
    MaxEvents = 5
    Heights = {3, 5}
    Scenes <- SmallScenes
    Keys <- TypedKeys
    Foreign <- OtherWords
    Results <- ShownWords
    Scrolls <- WheelDeltas
CHECK_DEADLOCK FALSE
INVARIANT TypeOK
PROPERTY EditLandsInItsCell
PROPERTY CutMoves
PROPERTY ViewHolds
