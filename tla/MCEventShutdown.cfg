\* Two threads, two connections, a notification pipe of one byte.
CONSTANTS
    Cons = {c1, c2}
    Threads = {main, w1}
    MainThread = main
    Failing = {}
    PipeSize = 1
    NoCon = NoCon
SPECIFICATION ThreadsSpec
CHECK_DEADLOCK FALSE
INVARIANT
    HandlersOwnLiveCons
