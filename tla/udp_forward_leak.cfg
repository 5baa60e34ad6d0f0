SPECIFICATION FairSpec
CONSTANTS
  Peers = {p1}
  Kinds <- StrayKinds
  InCap = 1
  NewCap = 1
  Forward = TRUE
  Strict = TRUE
  MaxDgrams = 3
PROPERTY IdleReaped
CHECK_DEADLOCK FALSE
