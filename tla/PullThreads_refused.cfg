SPECIFICATION Spec
CONSTANTS
  c1 = c1  c2 = c2  c3 = c3  c4 = c4  f1 = f1  f2 = f2  f3 = f3
  None = None
  Clients <- MCClients
  Fds <- MCFds
  Threads = 2
  MaxBelow = 3
  MaxSpurious = 0
SYMMETRY Symmetry
INVARIANTS RefusedOnlyWhenBusy
CHECK_DEADLOCK FALSE
