\* A careful script; one backend is read-only.
SPECIFICATION FairSpec
CONSTANTS
    Cons = {c1, c2}
    NBackends = 2
    ReadOnly = {2}
    Script = "careful"
    ScriptStates = {"UP"}
    MaxSets = 1
    ConnectTimeout = 1
    WakeAfter = 2
    G_MAXUINT = 7
INVARIANT ClientsCounted
PROPERTIES WokenLate ConnectEnds
CHECK_DEADLOCK FALSE
