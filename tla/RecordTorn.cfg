CONSTANTS
    MaxChunks = 2
    Modes = {"none"}
    Sources = {"tty"}
    Stealth = {}
    MaxFlush = 1
    Failures = {}
    RotateTargets <- AnyRequest
    MaxRequests = 1
    MaxToggles = 0
    MaxClock = 1
SPECIFICATION RecorderSpec
INVARIANTS RotatedFilesAreWhole
CHECK_DEADLOCK FALSE
