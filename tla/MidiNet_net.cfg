SPECIFICATION FairSpec
CONSTANTS
  NumericHosts = {h1}
  NamedHosts = {h2}
  Transports = {"tcp", "ws"}
  NPcb = 3
  QueueCap = 2
  MaxLookups = 2
  MaxReloads = 2
  MaxVanish = 1
  PatientUser = TRUE
INVARIANTS LinkInv NoOrphanPcb NoReplayOut NoReplayIn
PROPERTY Recovers
