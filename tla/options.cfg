CONSTANTS
  Streams = {s1}
  Calls <- DivergentCalls
  Limits = {}
  CpuThreads = 4
SPECIFICATION Spec
INVARIANTS
  CoderAsAsked
CHECK_DEADLOCK FALSE
