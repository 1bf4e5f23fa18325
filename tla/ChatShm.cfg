SPECIFICATION Spec
CONSTANTS
  c1 = c1  c2 = c2
  Clients <- MCClients
  SIZE_CLIENTS = 2
  MaxLines = 2
  MaxBelow = 1
SYMMETRY Symmetry
INVARIANTS TokensConserved OneByOne ServerCanGather
PROPERTIES NeverBackwards ReadBeforeOverwritten
CHECK_DEADLOCK FALSE
