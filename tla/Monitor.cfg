\* A queue of four cells, frames of two, through several acquisitions; the client may
\* have a region mapped when it stops.
CONSTANTS
  sink = sink
  monitor = monitor
  controller = controller
  Readers <- BothReaders
  Controller = controller
  Sink = sink
  Monitor = monitor
  Capacity = 4
  Sizes <- OneSize
  Amounts <- WholeFrames
  MaxWritten = 6
  SizeModulus = 16
  MayStopHolding = TRUE
SPECIFICATION FairMonitorSpec
INVARIANT MonitorTypeOK
INVARIANT FlushEmptiesMonitor
INVARIANT ClientSeesOnlyThisRun
INVARIANT ClientSliceStaysValid
INVARIANT FlushIsShort
PROPERTY StopReturnsUnlessWriterSleeps
CHECK_DEADLOCK FALSE
