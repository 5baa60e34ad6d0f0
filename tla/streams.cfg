SPECIFICATION Spec
CONSTANTS
  Clients = {c1, c2}
  Honest = c1
  Protocols <- MCProtocols
  Cap = 1
INVARIANT NoIntruder UpMeansAccepted
PROPERTY HonestServed HandshakesEnd DialReturns GhostsEnd
CHECK_DEADLOCK FALSE
