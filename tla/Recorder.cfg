CONSTANTS
    MaxChunks = 2
    Modes <- AnyMode
    Sources <- Pipes
    Stealth = {"stderr"}
    MaxFlush = 1
    Failures = {"show", "fopen"}
    RotateTargets <- AnyRequest
    MaxRequests = 2
    MaxToggles = 1
    MaxClock = 3
SPECIFICATION RecorderSpec
INVARIANTS RecorderTypeOK  LockHidesOutput RotatesOnce FlushedInTime
 
CHECK_DEADLOCK FALSE
