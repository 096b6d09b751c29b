CONSTANTS
  Jobs <- PartedFooters
  InitialBufsize = 1
  MaxVector = 4
  UintMax = 6
  SizeMax = 8
  Modes = {TRUE, FALSE}
  NewSizes = {}
  ReadsBufsize = FALSE
SPECIFICATION FairSpec
INVARIANTS
  NoSilentLoss
CHECK_DEADLOCK FALSE
