CONSTANTS
  Jobs <- OneShotJobs
  InitialBufsize = 1
  MaxVector = 4
  UintMax = 6
  SizeMax = 8
  Modes = {TRUE, FALSE}
  NewSizes = {}
  ReadsBufsize = FALSE
SPECIFICATION FairOneShot
PROPERTIES
  ImplementsOneAnswer
  Answered
  AnsweredIsReleased
CHECK_DEADLOCK FALSE
