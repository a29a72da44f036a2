\* A script that does whatever the hooks accept, every command, commands of
\* two packets, and a server that refuses COM_CHANGE_USER.
SPECIFICATION Spec
CONSTANTS
    Script = "free"
    ResultHook = TRUE
    Commands = {"QUERY", "LOAD", "CLOSE", "DUMP", "CHANGE_USER", "QUIT"}
    LongCommands = TRUE
    BrokenChangeUser = TRUE
    MaxQueries = 1
    MaxInjections = 2
    MaxPackets = 1
INVARIANTS StreamOnce DumpIsForever
CHECK_DEADLOCK FALSE
