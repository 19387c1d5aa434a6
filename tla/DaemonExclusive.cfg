SPECIFICATION Spec
CONSTANTS
  ChefRequests <- Two
  StartRequests <- TwoStarts
  StopRequests <- OneStop
INVARIANTS
  ChefRunExclusive
