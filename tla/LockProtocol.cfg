CONSTANTS
    UseTty = TRUE
    TimeoutLock = 0
    TimeoutKill = 0
    WarnBeforeLock = 0
    WarnBeforeKill = 0
    InputKinds = {"lock", "kill"}
    OperatorTargets <- AnyTarget
    OperatorSignals <- Both
    OperatorWaits = FALSE
    MaxCommands = 2
    MaxTime = 1
SPECIFICATION Spec
INVARIANTS TypeOK Reconciling Agreement ScreenFollowsLock
CHECK_DEADLOCK FALSE
