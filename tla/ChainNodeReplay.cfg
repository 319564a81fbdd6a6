CONSTANTS
    a = a
    b = b
    Peers <- MCPeers
    Fwd <- MCFwd
    MaxIn = 1
    MaxTx = 3
    MaxCrash = 1
    MaxFail = 0
    Missing = Missing
    Torn = Torn
SPECIFICATION ChainSpec
CHECK_DEADLOCK FALSE
INVARIANTS
    MailboxMatchesKernel
