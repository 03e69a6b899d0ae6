SPECIFICATION FairScanSpec
CONSTANTS
    Thread = {1, 2, 3, 4}
    Matching = {1, 3}
    MaxLimit = 2
    MaxChanges = 1
INVARIANTS ScanSkipsNothing ScanListsOnce
PROPERTIES ScanEnds
CHECK_DEADLOCK FALSE
