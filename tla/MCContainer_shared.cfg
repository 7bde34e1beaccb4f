\* Two authors whose cell writes arrive late; any damage.
SPECIFICATION Spec
CONSTANTS
    MaxOps = 4
    Kind <- SharedKinds
    Author <- TwoAuthors
    Retained = 3
    MinVerified = 2
    Damage = {"torn", "wrong", "unreadable"}
    MaxDamage = 2
    MaxFailures = 0
INVARIANT NoSilentLoss
