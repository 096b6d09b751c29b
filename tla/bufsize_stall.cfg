CONSTANTS
  Jobs <- DecodeJobs
  InitialBufsize = 1
  MaxVector = 4
  UintMax = 6
  SizeMax = 8
  Modes = {FALSE}
  NewSizes = {}
  ReadsBufsize = TRUE
SPECIFICATION FairSpec
PROPERTIES
  EndsAlways
CHECK_DEADLOCK FALSE
