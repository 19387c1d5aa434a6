SPECIFICATION FairSpec
CONSTANTS
  h1 = h1
  h2 = h2
  Workers <- TwoWorkers
  HostOf <- TwoHosts
  PollLimit = 2
  MaxIPs = 2
INVARIANTS
  TypeOK
  WaitIsExact
  RecordedFailureReported
  SuccessMeansConverged
  PrivateHostGetsGateway
  
PROPERTIES
  CreatedWithOurKey
  BoundedWork
  Terminates
  ImplementsBatchRun
