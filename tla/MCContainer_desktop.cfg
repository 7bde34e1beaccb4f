\* One author; snapshots unreadable, a compaction that fails.
SPECIFICATION Spec
CONSTANTS
    MaxOps = 5
    Kind <- DesktopKinds
    Author <- OneAuthor
    Retained = 3
    MinVerified = 2
    Damage = {"unreadable"}
    MaxDamage = 2
    MaxFailures = 1
INVARIANT TypeOK
INVARIANT SurvivesOneDamage
INVARIANT Nested
PROPERTY PrunesOnlyProven
