SPECIFICATION FairSpec
CONSTANTS
  Transports = {"tcp", "ws"}
  FifoCap = 2
  SockCap = 2
  MaxOut = 3
  MaxGiven = 2
  MaxPings = 1
INVARIANT BridgeInv
PROPERTIES BridgeMoves Leaves
CHECK_DEADLOCK FALSE
