SPECIFICATION Spec
CONSTANTS
    Token = {x, y}
    MaxItem = 2
    MaxText = 2
    MaxSubmit = 1
    MaxNet = 1
    NoId = NoId
    NoSnap = NoSnap
INVARIANTS
    NeverUnderTwoIds
CHECK_DEADLOCK FALSE
