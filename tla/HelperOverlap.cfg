CONSTANTS
    Calls = {c1, c2, c3}
    Undefined = Undefined
    MaxQueued = 1
SPECIFICATION Spec
INVARIANTS
    OneHelperRunning
