SPECIFICATION Spec
CONSTANTS
    Signals = {"TERM", "INT", "HUP"}
    Texts = {"lost"}
    MaxMessages = 3
    MaxMoves = 1
    MaxRepeats = 0
    OpenFails = TRUE
    MaxSignals = 2
    MaxCrashes = 1
INVARIANTS AllTold RotationDone
PROPERTIES KeptAlive TermEnds
