\* The refinement of OpStream across losses, crashes, refusals and relay restarts; a's first op is invalid.
SPECIFICATION Spec
CONSTANTS
    a = a
    b = b
    Actor = {a, b}
    MaxOps = 2
    BufferLimit = 1
    Careless = {a}
    Invalid <- FirstOps
    Unsupported = {}
    FaultLimit <- MCFaultLimit
    Loss = 1
    Crashes = 1
    Restarts = 1
    Refusals = 1
    Revocations = 0
    Stales = 0
    MaxFaults = 1
CHECK_DEADLOCK FALSE
INVARIANT ClockIsLog
PROPERTY DeliversStreams
