CONSTANTS
  Files <- AllFiles
  Memlimits = {0, 5, 60, 90, 200}
  BufSize = 16
  InternalSize = 10
  IndexBase = 10
  StreamMem = 20
  GroupMem = 30
  GroupSize = 2
  SizeMax = 100000
  ShortAsync = FALSE
SPECIFICATION FairSpec
INVARIANTS
  TypeOK
  ReadsInBounds
  FreshBytes
  FileCovered
  AnswersTrue
  GoodFilesParsed
  CombinedFitsMemlimit
  NothingLeaks
  AnsweredOnce
PROPERTIES
  ReadsAdvance
  LimitSuffices
  Answered
