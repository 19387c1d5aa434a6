SPECIFICATION Spec
CONSTANTS
  h1 = h1
  h2 = h2
  Workers <- TwoWorkers
  HostOf <- TwoHosts
  PollLimit = 1
  MaxIPs = 1
INVARIANTS
  FailureReported
