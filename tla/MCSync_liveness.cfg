\* Everything arrives once faults stop.
SPECIFICATION FairSpec
CONSTANTS
    a = a
    b = b
    Actor = {a, b}
    MaxOps = 1
    BufferLimit = 2
    Careless = {}
    Invalid <- FirstOps
    Unsupported = {}
    FaultLimit <- MCFaultLimit
    Loss = 1
    Crashes = 1
    Restarts = 0
    Refusals = 0
    Revocations = 0
    Stales = 0
    MaxFaults = 1
CHECK_DEADLOCK FALSE
PROPERTY Convergence
