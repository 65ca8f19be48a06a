CONSTANTS
  t1 = t1
  t2 = t2
  t3 = t3
  Threads <- ThreeThreads
  MaxGuards = 2
  MaxActions = 1
SPECIFICATION FairSpec
INVARIANTS
  CaptureExcludes
  NoLostWakeup
PROPERTIES
  CaptureStarts
  DeferredRuns
