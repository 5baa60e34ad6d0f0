SPECIFICATION Spec
CONSTANTS
  Clients = {c1, c2}
  Honest = c1
  Protocols = {"naive", "https", "wss"}
  Cap = 1
PROPERTY DialBounded
CHECK_DEADLOCK FALSE
