CONSTANTS
    UseTty = TRUE
    TimeoutLock = 0
    TimeoutKill = 0
    WarnBeforeLock = 0
    WarnBeforeKill = 0
    InputKinds = {"lock"}
    OperatorTargets <- AnyTarget
    OperatorSignals <- Both
    OperatorWaits = FALSE
    MaxCommands = 1
    MaxTime = 1
SPECIFICATION Spec
INVARIANTS ScreenRestoredOnExit
CHECK_DEADLOCK FALSE
