\* One event thread; scripts take connections at any time.
SPECIFICATION FairSpec
CONSTANTS
    Users = {u1, u2}
    Anonymous = anon
    Names = {u1, u2}
    Sockets = {s1, s2}
    Phases = {"login", "command"}
    MinIdles = {1}
    Threaded = FALSE
    Talkative = TRUE

INVARIANT InOneHand
PROPERTIES MinIdleKept QuietCloseIsNoticed
CHECK_DEADLOCK FALSE
