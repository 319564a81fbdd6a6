SPECIFICATION Spec
CONSTANTS
  Keys = {key1, key2}
  MaxRetries = 2
  MaxChains = 2
  MaxFaults = 1
INVARIANTS
  AddsAll
CHECK_DEADLOCK FALSE
