SPECIFICATION FairSpec
CONSTANTS
  InCap = 2
  AckMod = 2
  MaxRx = 4
  MaxChunk = 2
  MaxDrops = 2
INVARIANT AtMostOnceInOrder
PROPERTIES BconinReturns
