SPECIFICATION FairSpec
CONSTANTS
    Checks = {h1}
    InCap = 50
    OutCap = 20
    MaxFrames = 0
    MaxBreaks = 1
    MaxDials = 0
    LongDown = {}
    LongUp = {}
    MaxProbes = 2
CHECK_DEADLOCK FALSE
PROPERTY AlertsHandled
