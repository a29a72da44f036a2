SPECIFICATION Spec
CONSTANTS
    Numbers <- MCNumbers
    Statuses <- MCStatuses
    Texts <- MCTexts
    Versions <- MCVersions
    CapSets <- MCCapSets
    Params <- MCParams
    Answers <- MCAnswers
    Oids <- MCOids
    States = {0, 1}
    Files <- MCFiles
INVARIANT RoundTrip
INVARIANT CutShort
INVARIANT DumpTellsAll
