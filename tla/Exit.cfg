CONSTANTS
    Setups <- AnySetup
    Statuses <- AnyStatus
    Failures = {"exec", "write"}
    Commands <- AnyCommand
    MaxCommands = 1
SPECIFICATION FairSpec
INVARIANTS TypeOK StatusReported TerminalGivenBack DoneOnce
 
CHECK_DEADLOCK FALSE
