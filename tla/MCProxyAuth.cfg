\* A careful script with a pool, or no script and authentication_windows_client.
SPECIFICATION Spec
CONSTANTS
    Setups = {"script", "win"}
    PoolChangeUser = {TRUE, FALSE}
    Backends = 2
    MaxId = 7
INVARIANTS InSequence NoMutualWait LetInByServer HandsOver
PROPERTY LoginEnds
CHECK_DEADLOCK FALSE
