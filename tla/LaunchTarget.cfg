SPECIFICATION Spec
CONSTANTS
  Strings <- TwoStrings
  Counts <- FiveCounts
  MaxNames = 3
INVARIANTS
  TargetGiven
