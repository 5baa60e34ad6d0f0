SPECIFICATION Spec
CONSTANTS
  MaxUp = 3
  MaxDown = 3
  MaxGrams = 2
  MaxSess = 2
  Window = 1
INVARIANT InOrder TargetBytes
PROPERTY DownloadComplete AppCloseUnwinds TargetCloseUnwinds
CHECK_DEADLOCK FALSE
