SPECIFICATION Spec
CONSTANTS
    Checks = {h1, h2}
    InCap = 7
    OutCap = 2
    MaxFrames = 1
    MaxBreaks = 1
    MaxDials = 1
    LongDown = {h2}
    LongUp = {}
    MaxProbes = 3
CHECK_DEADLOCK FALSE
INVARIANTS TypeOK AlertsOnce NewestTellsTruth DownOnTime RoomUntilBreak
PROPERTY ImplementsAlertQueue
