SPECIFICATION Spec
CONSTANTS
  h1 = h1
  unplaced = unplaced
  s1 = s1
  s2 = s2
  r1 = r1
  r2 = r2
  None = None
  Hosts <- TwoHosts
  Ids <- TwoIds
  Handlers <- TwoHandlers
  NameTTL = 2
  ListTTL = 1
  Flight = 1
  MaxTime = 6
INVARIANTS
  TypeOK
  FreshAnswers
  AnsweredWasSole
PROPERTIES
  MissJustified
  ImplementsCachedRead
SYMMETRY Symmetry
