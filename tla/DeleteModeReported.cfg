SPECIFICATION Spec
CONSTANTS
  x = x
  y = y
  i1 = i1
  i2 = i2
  i3 = i3
  NoId = NoId
  Ids <- ThreeIds
  NameOf <- SharedName
  Nodes <- TwoNodes
  MaxRounds = 2
INVARIANTS
  ReportedGone
