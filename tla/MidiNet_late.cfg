SPECIFICATION Spec
CONSTANTS
  NumericHosts = {h1}
  NamedHosts = {h2}
  Transports = {"tcp"}
  NPcb = 2
  QueueCap = 1
  MaxLookups = 1
  MaxReloads = 1
  MaxVanish = 0
  PatientUser = FALSE
INVARIANT ConnectedToConfigured
