SPECIFICATION Spec
CONSTANTS
  s1 = s1
  s2 = s2
  c1 = c1
  c2 = c2
  Servers = {s1, s2}
  Clients = {c1}
  ClientId <- OneClient
  Ids = {1, 2, 3}
  Collide = FALSE
  Loopback = TRUE
  Directional = FALSE
  RecvCap = 2
  InCap = 1
  NewCap = 1
  MaxPings = 2
  MaxHops = 2
INVARIANT UsedIsLive OnlyClients NoEchoOfEcho
CHECK_DEADLOCK FALSE
