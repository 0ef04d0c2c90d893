SPECIFICATION FairSpec
CONSTANTS
  NEntries = 10
  EntryBytes = 127
  KeyBytes = 31
  PageBytes = 256
  MaxAttempts = 3
  Mode = 2
  Edited = {3, 9}
  MaxEdits = 2
  MaxBoots = 3
INVARIANTS DeviceInv PowerSaveOff IpMeansLink
PROPERTY BootEnds
CHECK_DEADLOCK FALSE
