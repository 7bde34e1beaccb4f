SPECIFICATION PacingSpec
CONSTANTS
    Second = 2
    RateOps = 3
    BurstOps = 3
    RateBytes = 4
    BurstBytes = 4
    Sizes = {1, 3}
    MaxLag = 1
    BaseDelay = 4
    CapDelay = 10
    MaxShift = 3
    ResetDelay = 4
    ResetSpread <- TwoSeeds
    MaxTime = 8
CHECK_DEADLOCK FALSE
INVARIANT PacingTypeOK
INVARIANT RateHeld
INVARIANT BytesHeld
PROPERTY HellosSpaced
