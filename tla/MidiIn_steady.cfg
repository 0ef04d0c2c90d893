SPECIFICATION SteadyFairSpec
CONSTANTS
  InCap = 2
  AckMod = 2
  MaxRx = 5
  MaxChunk = 3
  MaxDrops = 0
INVARIANTS TypeOK HandOver NoPhantomByte
PROPERTIES ImplementsChannel AcceptedIsDelivered
