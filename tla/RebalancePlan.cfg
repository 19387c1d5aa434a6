SPECIFICATION Spec
CONSTANTS
  h1 = h1
  h2 = h2
  h3 = h3
  h4 = h4
  N = 8
  Hypervisors <- Four
  Placements <- Blocks
  Namings <- OneDoubled
INVARIANTS
  TypeOK
  Balanced
PROPERTIES
  MovesHelp
