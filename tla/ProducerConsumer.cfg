SPECIFICATION FairSpec
CONSTANTS
  w1 = w1  w2 = w2  main = main
  c1 = c1  c2 = c2  c3 = c3
  f1 = f1  f2 = f2  f3 = f3
  None = None
  Main = main
  Workers <- MCWorkers
  Clients <- MCClients
  Fds <- MCFds
  MaxQueue = 2
  MaxSpurious = 1
INVARIANTS CheckedHolds RingSound HeldOnce NoLostWakeup
PROPERTIES AnsweredOnce ImplementsService EveryoneAnswered
CHECK_DEADLOCK FALSE
