\* A client that unmaps before it stops; storage may fail.
CONSTANTS
  sink = sink
  monitor = monitor
  controller = controller
  Readers <- BothReaders
  Controller = controller
  Sink = sink
  Monitor = monitor
  Capacity = 3
  Sizes <- OneSize
  Amounts <- WholeFrames
  MaxWritten = 6
  SizeModulus = 16
  MayStopHolding = FALSE
SPECIFICATION MonitorSpec
INVARIANT QueueIsEmptyBetweenRuns
CHECK_DEADLOCK FALSE
