\* One op per replica, any two faults but a relay restart.
SPECIFICATION Spec
CONSTANTS
    a = a
    b = b
    Actor = {a, b}
    MaxOps = 1
    BufferLimit = 2
    Careless = {}
    Invalid <- FirstOps
    Unsupported = {}
    FaultLimit <- MCFaultLimit
    Loss = 1
    Crashes = 1
    Restarts = 0
    Refusals = 1
    Revocations = 1
    Stales = 1
    MaxFaults = 2
SYMMETRY Symmetry
CHECK_DEADLOCK FALSE
INVARIANT TypeOK
INVARIANT NeverDrop
INVARIANT QuietMeansCaughtUp
INVARIANT QuietMeansDrained
