CONSTANTS
    Peers = {chain}
    Targets = {chain}
    Procs = {q1, q2}
    MaxOut = 2
    MaxIn = 1
    MaxEpoch = 2
    MaxCmd = 1
SPECIFICATION SoloSpec
CHECK_DEADLOCK FALSE
INVARIANTS
    SendsWhatItSaved
