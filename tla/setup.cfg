CONSTANTS
  Streams = {s1, s2}
  Calls <- AllCalls
  Limits <- AllLimits
  CpuThreads = 4
SPECIFICATION Spec
INVARIANTS
  TypeOK
  CountExact
  CoderAsAsked
  DocumentedAccepted
CHECK_DEADLOCK FALSE
