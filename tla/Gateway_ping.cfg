SPECIFICATION FairSpec
CONSTANTS
  Transports = {"ws"}
  FifoCap = 1
  SockCap = 2
  MaxOut = 1
  MaxGiven = 1
  MaxPings = 1
PROPERTY OutFlows
CHECK_DEADLOCK FALSE
