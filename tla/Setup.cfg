SPECIFICATION MCSpec
CONSTANTS
  Nodes <- MCNodes
  First <- MCFirst
  MaxVersion = 1
  MaxGenesis = 4
  MaxFails = 1
  MaxDestroys = 1
  TheChain = "chain"
  TheController = "controller"
  Clients = {"client1", "client2"}
  Informed = {"controller", "client1"}
  MaxPosts = 2
INVARIANTS
  StampsTrue
  AnsweredIsProvisioned
PROPERTIES
  BootstrapFinishes
  ClientLoads
CHECK_DEADLOCK FALSE
