\* Three threads, one of them failing, three connections, a notification pipe of one byte.
CONSTANTS
    Cons = {c1, c2, c3}
    Threads = {main, w1, w2}
    MainThread = main
    Failing = {w2}
    PipeSize = 1
    NoCon = NoCon
SPECIFICATION ThreadsSpec
CHECK_DEADLOCK FALSE
INVARIANTS
    NoLostWakeup
    Exclusive
PROPERTIES
    RequestsAreTaken
    ShutdownCompletes
    ImplementsWaitRequests
