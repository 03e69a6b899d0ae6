SPECIFICATION Spec
CONSTANTS Server = {s1, s2}
INVARIANTS TwoIsLocal
CHECK_DEADLOCK FALSE
