CONSTANTS
    MaxChunks = 3
    Modes <- AnyMode
    Sources = {"tty"}
    Stealth = {}
    MaxFlush = 1
    Failures = {"crash"}
    RotateTargets = {{"child"}}
    MaxRequests = 1
    MaxToggles = 0
    MaxClock = 1
SPECIFICATION FairSpec
INVARIANTS TypeOK PlaysWhatWasRecorded
PROPERTIES CatchesUp
CHECK_DEADLOCK FALSE
