SPECIFICATION Spec
CONSTANTS
  ChefRequests <- Three
  StartRequests <- TwoStarts
  StopRequests <- OneStop
INVARIANTS
  TypeOK
  InProgressIsTrue
  OverwrittenForCause
PROPERTIES
  RefusedForCause
