SPECIFICATION Spec
CONSTANTS
  x = x
  y = y
  i1 = i1
  i2 = i2
  i3 = i3
  NoId = NoId
  Ids <- ThreeIds
  NameOf <- SharedName
  Nodes <- Repeated
  MaxRounds = 2
INVARIANTS
  TypeOK
  CleanExitDeleted
  CleanExitCleaned
  HalfCleanedReported
PROPERTIES
  DeletesUnambiguous
  ImplementsBatchRun
