SPECIFICATION NodesSpec
CONSTANTS
  Tabs = {tab1, tab2}
  MaxCommands = 2
  MaxServed = 2
  MaxCloses = 1
  MaxCrashes = 1
  MaxSockets = 3
  MaxCTPCalls = 2
  MaxCTPCrashes = 1
  Keys = {key1, key2, key3}
  MaxRetries = 2
  MaxChains = 2
  MaxFaults = 2
  OtherGCIs = {10}
  Bases = {b1, b2}
  Rpcs = {x1, x2}
  MaxTrouble = 2
  Accounts = {alice, bob}
  Assays = {pixel, dust}
  Deposits = {p1, p2, p3}
  MaxTaken = 2
  Pixels = {px1, px2}
  Colors = {red, blue}
  MaxPublished = 3
  MaxRuns = 2
  a = a
  b = b
  Peers <- MCPeers
  Fwd <- MCFwd
  MaxIn = 2
  MaxTx = 3
  MaxCrash = 1
  MaxFail = 1
  Missing = Missing
  Torn = Torn
SYMMETRY Symmetry
INVARIANTS
  AnsweredStays
  TabsAgree
  SessionsKeptApart
  RunningIsProvisioned
  AddsAllInTurn
  StartsWhole
  ShowsWhatIsPaid
  ShowsLastPublished
  StoreShowsMailbox
  MailboxMatchesUntilCrash
PROPERTIES
  CommittedAckMonotone
CHECK_DEADLOCK FALSE
