SPECIFICATION Spec
CONSTANTS
  Nodes = {"node0", "node1"}
  First = "node0"
  MaxVersion = 1
  MaxGenesis = 2
  MaxFails = 1
  MaxDestroys = 0
INVARIANTS
  StopsAll
CHECK_DEADLOCK FALSE
