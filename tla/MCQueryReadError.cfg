\* No script; a read from the client fails.
SPECIFICATION Spec
CONSTANTS
    Script = "none"
    ResultHook = FALSE
    Commands = {"QUERY"}
    LongCommands = FALSE
    BrokenChangeUser = FALSE
    MaxQueries = 1
    MaxInjections = 0
    MaxPackets = 1
INVARIANT ArmedOrFreed
CHECK_DEADLOCK FALSE
