SPECIFICATION FairPauseSpec
CONSTANTS
  t1 = t1
  t2 = t2
  main = main
  j1 = j1
  j2 = j2
  Threads <- TwoThreads
  Callers <- OneCaller
  Main = main
  Jobs <- TwoJobs
  MaxJobs = 2
  Spurious = FALSE
  NULL = NULL
  MaxPauses = 2
  Patient = TRUE
PROPERTIES
  EveryJobStarts
  WaitReturns
  DestroyReturns
  ImplementsWorkQueue
  ResumeReleases
  PauseHolds
CHECK_DEADLOCK FALSE
