\* Several event threads.
SPECIFICATION ThreadedSpec
CONSTANTS
    Users = {u1, u2}
    Anonymous = anon
    Names = {u1, u2}
    Sockets = {s1, s2}
    Phases = {"command"}
    MinIdles = {}
    Threaded = TRUE
    Talkative = FALSE
SYMMETRY SocketSymmetry
INVARIANT HandledIsIdle
CHECK_DEADLOCK FALSE
