CONSTANTS
    UseTty = FALSE
    TimeoutLock = 0
    TimeoutKill = 3
    WarnBeforeLock = 0
    WarnBeforeKill = 0
    InputKinds = {}
    OperatorTargets <- AnyTarget
    OperatorSignals <- Both
    OperatorWaits = FALSE
    MaxCommands = 1
    MaxTime = 5
SPECIFICATION Spec
INVARIANTS NeverLockedWithoutTty
CHECK_DEADLOCK FALSE
