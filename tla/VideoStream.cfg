\* Two acquisitions in which anything may go wrong.
CONSTANTS
  MaxFrames = 2
  Window = 2
  QueueFrames = 2
  MaxRuns = 2
  Faults <- AllFaults
  MaxMishaps = 1
  MishapRuns = 1
SPECIFICATION FairSpec
INVARIANT TypeOK
INVARIANT StoredInOrder
INVARIANT EveryFrameIsStored
INVARIANT AveragesAreWhole
INVARIANT StopSignalsAreKept
INVARIANT OneWriterOfSink
PROPERTY StopReturnsUnlessDeserted
CHECK_DEADLOCK FALSE
