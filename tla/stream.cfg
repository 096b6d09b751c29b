CONSTANTS
  Jobs <- StreamJobs
  InitialBufsize = 1
  MaxVector = 4
  UintMax = 6
  SizeMax = 8
  Modes = {TRUE, FALSE}
  NewSizes = {1, 2}
  ReadsBufsize = TRUE
SPECIFICATION FairSpec
INVARIANTS
  TypeOK
  ChunkConservation
  OneChunkOutstanding
  HandlersUndisturbed
  NothingAfterEof
  ReleasedAtCleanup
  AsyncCountExact
  CoderAtHand
  GoodInputAccepted
PROPERTIES
  WorkRunsOut
  NobodyWaitsInVain
  ImplementsBytePipe
  EndsEventually
CHECK_DEADLOCK FALSE
