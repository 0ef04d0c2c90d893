SPECIFICATION Spec
CONSTANTS
  Short = 2
  Base = 2
  Ext = 2
  Wide = 3
  MaskLen = 2
  DataLengths = {0, 1, 3, 5}
  PingLengths = {0, 2}
  MaxFrames = 3
  ReadMax = 9
  HeadLen = 2
  HsMax = 8
INVARIANTS FrameInv SameStream PingsAnswered
CHECK_DEADLOCK FALSE
