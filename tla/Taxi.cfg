SPECIFICATION FairSpec
CONSTANTS
  d1 = d1  d2 = d2  m1 = m1  m2 = m2
  Pids <- MCPids
  Mains <- MCMains
  Times <- MCTimes
  QueueCap = 3
INVARIANTS OneTask OneReport ShownTimer QueueBounded
PROPERTIES ImplementsDispatch TaskCompletes
CHECK_DEADLOCK FALSE
