CONSTANTS
  Jobs <- AloneJobs
  InitialBufsize = 1
  MaxVector = 4
  UintMax = 6
  SizeMax = 8
  Modes = {TRUE, FALSE}
  NewSizes = {}
  ReadsBufsize = FALSE
SPECIFICATION FairSpec
PROPERTIES
  CountedDown
CHECK_DEADLOCK FALSE
