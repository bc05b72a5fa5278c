CONSTANTS
    UseTty = TRUE
    TimeoutLock = 0
    TimeoutKill = 0
    WarnBeforeLock = 0
    WarnBeforeKill = 0
    InputKinds = {"lock", "eof"}
    OperatorTargets <- AnyTarget
    OperatorSignals <- Both
    OperatorWaits = TRUE
    MaxCommands = 4
    MaxTime = 1
SPECIFICATION FairSpec
INVARIANTS LastCommandWins
PROPERTIES Settles
CHECK_DEADLOCK FALSE
