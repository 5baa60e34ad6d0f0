SPECIFICATION FairSpec
CONSTANTS
  Peers = {p1, p2}
  Kinds <- EchoKinds
  InCap = 1
  NewCap = 1
  Forward = FALSE
  Strict = TRUE
  MaxDgrams = 3
INVARIANT TypeOK OwnEntry TableServed
PROPERTY ServesPeers IdleReaped ShutdownUnwinds
CHECK_DEADLOCK FALSE
