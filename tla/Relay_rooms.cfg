SPECIFICATION FairSpec
CONSTANTS
  Conns = {p1, p2}
  RoomKeys = {maze}
  DefaultRoom = default
  Carriers = {"tcp", "ws"}
  Cap = 2
  NRegs = 3
  MaxSent = 1
  MaxRestarts = 1
  NoConn = NoConn
  NoReg = NoReg
INVARIANT RoomsInv
PROPERTIES RoomsSurvive ReapOnlyQuiet RingNotFrozen GhostLeaves
