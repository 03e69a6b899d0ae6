SPECIFICATION Spec
CONSTANTS Server = {s1, s2}
INVARIANTS CreatedIsReported
CHECK_DEADLOCK FALSE
