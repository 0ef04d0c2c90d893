SPECIFICATION FairSpec
CONSTANTS
  Keys = {"launch", "field", "enter", "esc", "plain"}
  WordBits = {"none", "adv", "out"}
  MaxBoots = 2
  MaxFrames = 3
  RingCap = 1
INVARIANTS BootInv GateUpInGem
PROPERTIES AutoLaunch AckComes NoLeftoverGate
