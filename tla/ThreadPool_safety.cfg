SPECIFICATION Spec
CONSTANTS
  t1 = t1
  t2 = t2
  main = main
  other = other
  j1 = j1
  j2 = j2
  j3 = j3
  Threads <- MCThreads
  Callers <- TwoCallers
  Main = main
  Jobs <- MCJobs3
  MaxJobs = 3
  Spurious = TRUE
  NULL = NULL
SYMMETRY Symmetry
INVARIANTS
  TypeOK
  Fifo
  NoStrandedJob
  Counters
  DestroyWaits
PROPERTIES
  WaitSound
CHECK_DEADLOCK FALSE
