SPECIFICATION Spec
CONSTANTS Server = {s1, s2}
INVARIANTS
    ExitSays
    RefusalsTouchNothing
CHECK_DEADLOCK FALSE
