\* b speaks a wire version outside the window.
SPECIFICATION Spec
CONSTANTS
    a = a
    b = b
    Actor = {a, b}
    MaxOps = 1
    BufferLimit = 2
    Careless = {}
    Invalid <- FirstOps
    Unsupported = {b}
    FaultLimit <- MCFaultLimit
    Loss = 1
    Crashes = 1
    Restarts = 0
    Refusals = 0
    Revocations = 1
    Stales = 0
    MaxFaults = 2
CHECK_DEADLOCK FALSE
INVARIANT NoOpsBeforeHelloAck
