SPECIFICATION Spec
CONSTANTS
  c1 = c1  c2 = c2  c3 = c3
  Clients <- MCClients
  SIZE_CLIENTS = 2
  QueueCap = 2
  MaxLines = 2
SYMMETRY Symmetry
INVARIANTS ChatIsStore RosterAgrees
PROPERTIES ImplementsRoom
CHECK_DEADLOCK FALSE
