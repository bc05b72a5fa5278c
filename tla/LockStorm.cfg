CONSTANTS
    UseTty = TRUE
    TimeoutLock = 0
    TimeoutKill = 0
    WarnBeforeLock = 0
    WarnBeforeKill = 0
    InputKinds = {}
    OperatorTargets <- OneProcess
    OperatorSignals <- Both
    OperatorWaits = FALSE
    MaxCommands = 3
    MaxTime = 1
SPECIFICATION FairSpec
PROPERTIES Settles
CHECK_DEADLOCK FALSE
