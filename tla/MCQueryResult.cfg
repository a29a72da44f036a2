\* Every command; the server keeps to what the tracker was written for.
SPECIFICATION ResultSpec
CONSTANTS
    Commands = {"QUERY", "PROCESS_INFO", "STMT_EXECUTE", "CHANGE_USER", "REFRESH",
        "STMT_RESET", "PING", "TIME", "REGISTER_SLAVE", "PROCESS_KILL", "DEBUG",
        "SET_OPTION", "SHUTDOWN", "QUIT", "STATISTICS", "INIT_DB", "FIELD_LIST",
        "STMT_FETCH", "STMT_PREPARE"}
    Beyond = {}
    Dbs = {d1, d2}
    MaxResults = 2
    MaxRows = 2
INVARIANTS EndsTogether RowsCounted
