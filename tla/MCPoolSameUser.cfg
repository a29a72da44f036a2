\* Scripts take connections behind the login.
SPECIFICATION Spec
CONSTANTS
    Users = {u1, u2}
    Anonymous = anon
    Names = {u1, u2}
    Sockets = {s1, s2}
    Phases = {"command"}
    MinIdles = {}
    Threaded = FALSE
    Talkative = FALSE
SYMMETRY SocketSymmetry
INVARIANT SameUser
CHECK_DEADLOCK FALSE
