SPECIFICATION FairSpec
CONSTANTS
  a = a
  b = b
  N = 3
  Servers <- TwoServers
  ServerOf <- Repeated
INVARIANTS
  TypeOK
  ExitLeavesNoneMigrating
  OrphanToldToStop
  RecordedFailureReported
  WaitersReleased
PROPERTIES
  Terminates
  ImplementsBatchRun
