SPECIFICATION Spec
CONSTANTS
    Numbers = {2}
    Batches <- Requests
    Seeded = 2
    MaxRows = 5
    MaxGrowth = 2
    MaxEdits = 3
    BlastRadius = 1
    MaxSteps = 4
INVARIANT TypeOK
INVARIANT JournalIsUndoStack
PROPERTY UndoRestores
PROPERTY UndoSparesOthers
PROPERTY PreviewForetells
