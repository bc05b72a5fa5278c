CONSTANTS
    UseTty = TRUE
    TimeoutLock = 1
    TimeoutKill = 3
    WarnBeforeLock = 1
    WarnBeforeKill = 1
    InputKinds = {"plain", "lock"}
    OperatorTargets = {{"parent"}}
    OperatorSignals = {"USR2"}
    OperatorWaits = TRUE
    MaxCommands = 1
    MaxTime = 10
SPECIFICATION Spec
INVARIANTS Agreement LockedInTime KilledInTime
  
CHECK_DEADLOCK FALSE
