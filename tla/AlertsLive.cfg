SPECIFICATION FairSpec
CONSTANTS
    Checks = {h1, h2}
    InCap = 6
    OutCap = 1
    MaxFrames = 1
    MaxBreaks = 0
    MaxDials = 1
    LongDown = {h2}
    LongUp = {}
    MaxProbes = 3
CHECK_DEADLOCK FALSE
PROPERTY AlertsHandled
