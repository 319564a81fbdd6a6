CONSTANTS
    NoHelper = NoHelper
    MaxMsg = 2
    MaxFaults = 1
    MaxRestarts = 1
SPECIFICATION ExchangeSpec
CHECK_DEADLOCK FALSE
INVARIANTS
    ChainSkipsNothing
