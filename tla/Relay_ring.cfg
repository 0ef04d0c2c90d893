SPECIFICATION Spec
CONSTANTS
  Conns = {p1, p2, p3, p4}
  RoomKeys = {}
  DefaultRoom = default
  Carriers = {"tcp"}
  Cap = 3
  NRegs = 1
  MaxSent = 2
  MaxRestarts = 0
  NoConn = NoConn
  NoReg = NoReg
INVARIANTS TypeOK OneCycle OnceInOrder
SYMMETRY ConnSymmetry
