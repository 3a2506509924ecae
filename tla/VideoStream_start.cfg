\* One acquisition whose start may fail halfway.
CONSTANTS
  MaxFrames = 1
  Window = 2
  QueueFrames = 1
  MaxRuns = 1
  Faults <- StartFault
  MaxMishaps = 1
  MishapRuns = 1
SPECIFICATION FairSpec
PROPERTY StopReturns
CHECK_DEADLOCK FALSE
