SPECIFICATION TablesSpec
CONSTANTS
  e1 = e1  e2 = e2  e3 = e3
  c1 = c1  c2 = c2  c3 = c3  f1 = f1  f2 = f2  f3 = f3
  s1 = s1  s2 = s2  k1 = k1  k2 = k2  w = w
  EchoClients <- MCEchoClients
  PortOf <- MCPortOf
  MaxLines = 3
  MaxRestarts = 1
  QueueCap = 2
  None = None
  Clients <- MCClients
  Fds <- MCFds
  Threads = 2
  MaxBelow = 3
  MaxSpurious = 1
  Worlds <- MCWorlds
  Capacity = 6
  MaxEnters = 2
  First = 2
  MaxEntries = 5
  Stores <- MCStores
  Customers <- MCCustomers
  Supplier = w
  Stocks <- MCStocks
  Desires <- MCDesires
  Load = 1
  MaxLoads = 3
  Nobody = Nobody
  Width = 3
  Arrays <- MCArrays
  Headers <- MCHeaders
  Strings <- MCStrings
  Sizes <- MCSizes
SYMMETRY Symmetry
INVARIANTS AnswersInOrder CountedAreMarked RestIsClean
INVARIANTS PanelsSound SlotsAreGood Conserved ComputedRight
PROPERTIES ImplementsCounters
CHECK_DEADLOCK FALSE
