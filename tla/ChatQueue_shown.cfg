SPECIFICATION StaySpec
CONSTANTS
  c1 = c1  c2 = c2  c3 = c3
  Clients <- MCClients
  SIZE_CLIENTS = 3
  QueueCap = 1
  MaxLines = 2
PROPERTIES EverythingShown
CHECK_DEADLOCK FALSE
