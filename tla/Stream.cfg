SPECIFICATION FairSpec
CONSTANTS
    Token = {x, y}
    MaxItem = 2
    MaxText = 2
    MaxSubmit = 1
    MaxNet = 1
    NoId = NoId
    NoSnap = NoSnap
INVARIANTS
    TypeOK
    OneEntryPerMessage
    FinalIsSaid
    ShownIsPrefix
CHECK_DEADLOCK FALSE
PROPERTIES
    NothingTakenBack
    WaitEnds
