CONSTANTS
  Jobs <- DirectJobs
  InitialBufsize = 1
  MaxVector = 4
  UintMax = 6
  SizeMax = 8
  MaxWorkers = 3
SPECIFICATION FairSpec
INVARIANTS
  ChunksAddUp
  OutputInOrder
  EndIsLast
  NoChunkStranded
PROPERTIES
  ChunksReported
CHECK_DEADLOCK FALSE
