SPECIFICATION FairSpec
CONSTANTS
  Calls = 3
  Retries = 3
  RingWords = 12
  MaxFaults = 1
  MagicLike = {2}
INVARIANTS BusInv NotGivenUp
PROPERTIES ImplementsCalls KeyIsTyped
CHECK_DEADLOCK FALSE
