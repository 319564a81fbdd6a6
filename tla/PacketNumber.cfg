CONSTANTS
    Halves = {0, 1, 2}
    Bodies = {m1, none}
    NoText = none
    OtherJSON = other
    MaxItems = 1
SPECIFICATION Spec
INVARIANTS
    RefusesUnnatural
CHECK_DEADLOCK FALSE
