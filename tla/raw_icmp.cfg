SPECIFICATION Spec
CONSTANTS
  s1 = s1
  s2 = s2
  c1 = c1
  c2 = c2
  Servers = {s1}
  Clients = {c1, c2}
  ClientId <- TwoClients
  Ids = {1, 2, 3, 4}
  Collide = FALSE
  Loopback = TRUE
  Directional = TRUE
  RecvCap = 2
  InCap = 1
  NewCap = 1
  MaxPings = 1
  MaxHops = 2
INVARIANT AnsweredOnce
CHECK_DEADLOCK FALSE
