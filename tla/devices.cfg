SPECIFICATION Spec
CONSTANTS
  Clients = {c1, c2}
  MaxPings = 2
INVARIANT  OneDynamicPeer
PROPERTY NewestServed
CHECK_DEADLOCK FALSE
