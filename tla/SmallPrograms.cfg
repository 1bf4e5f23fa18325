SPECIFICATION AllSpec
CONSTANTS
  c1 = c1  c2 = c2  c3 = c3  t1 = t1  t2 = t2  f1 = f1  f2 = f2
  d1 = d1  d2 = d2  u1 = u1  u2 = u2
  a = a  b = b  r1 = r1  r2 = r2
  Lines <- MCLines
  PipeSize = 1
  Output = 3
  Clients <- MCClients
  Threads <- MCThreads
  Fds <- MCFds
  ThreadBacklog = 3
  Bad = Bad
  TcpClients <- MCTcp
  UdpClients <- MCUdp
  SelectBacklog = 2
  Buffer = 2
  MaxRuns = 2
  MaxKills = 1
  MaxMsg = 2
  Askers <- MCAskers
  MaxLost = 1
  Receivers <- MCReceivers
  Times = 2
  Room = 2
  MaxForks = 5
INVARIANTS LineAnswered ServersHold TurnsTaken ChildrenReaped
PROPERTIES ClosedAnswered WaitsEnd
CHECK_DEADLOCK FALSE
