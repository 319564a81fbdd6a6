CONSTANTS
    Calls = {c1, c2, c3, c4}
    Undefined = Undefined
    MaxQueued = 1
    NoHelper = NoHelper
    MaxMsg = 2
    MaxFaults = 1
    MaxRestarts = 1
SPECIFICATION DeliverySpec
CHECK_DEADLOCK FALSE
INVARIANTS
    QueueInv
    OnlyCurrentAnswers
    NoSharedSequence
PROPERTIES
    EveryCallSettles
    DeliverIsSerial
    BothWaysAreChannels
    AllArrives
