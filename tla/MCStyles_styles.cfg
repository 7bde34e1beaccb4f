SPECIFICATION Spec
CONSTANTS
    Facets = {"bold"}
    Columns = 2
    Seeded = 2
    MaxRow = 3
    MaxOwn = 3
    MaxForeign = 1
CHECK_DEADLOCK FALSE
INVARIANT TypeOK
INVARIANT PriorInsideTarget
PROPERTY RevertRestores
