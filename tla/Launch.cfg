SPECIFICATION Spec
CONSTANTS
  Strings <- TwoStrings
  Counts <- FiveCounts
  MaxNames = 3
INVARIANTS
  TypeOK
  ModeReady
  AsManyAsAsked
  TwinsOnlyRedrawn
