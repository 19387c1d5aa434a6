SPECIFICATION Spec
CONSTANTS
  a = a
  b = b
  N = 2
  Servers <- TwoServers
  ServerOf <- TwoJobs
INVARIANTS
  SuccessMeansMoved
