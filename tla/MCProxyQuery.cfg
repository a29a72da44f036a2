\* A careful script that injects up to two queries per command.
SPECIFICATION Spec
CONSTANTS
    Script = "careful"
    ResultHook = TRUE
    Commands = {"QUERY", "LOAD", "CLOSE", "CHANGE_USER", "QUIT"}
    LongCommands = FALSE
    BrokenChangeUser = FALSE
    MaxQueries = 3
    MaxInjections = 2
    MaxPackets = 2
INVARIANTS InSync NoMutualWait ServerWhereUsed CleanBetweenCommands
PROPERTY ClientIsAnswered
CHECK_DEADLOCK FALSE
