CONSTANTS
    MaxChunks = 3
    Modes <- AnyMode
    Sources = {"tty"}
    Stealth = {}
    MaxFlush = 1
    Failures = {}
    RotateTargets = {{"child"}}
    MaxRequests = 1
    MaxToggles = 0
    MaxClock = 3
SPECIFICATION Spec
INVARIANTS PeeksCompressedFile
CHECK_DEADLOCK FALSE
