SPECIFICATION FairSpec
CONSTANTS
  Peers = {p1}
  Kinds <- RelayKinds
  InCap = 1
  NewCap = 1
  Forward = TRUE
  Strict = TRUE
  MaxDgrams = 3
PROPERTY RelayUnwinds
CHECK_DEADLOCK FALSE
