\* Two acquisitions of up to three frames, windows of two or three, any number of
\* changes of the shape.
CONSTANTS
  MaxFrames = 3
  Windows <- TwoWindows
  Regions = 2
  Shapes <- TwoShapes
  SampleTypes <- TwoTypes
  Supported <- Integral
  WriteDelay = 1
  Pixel <- Powers
  MaxTicks = 1
  MaxGrabbed = 5
  MaxRuns = 2
SPECIFICATION Spec
INVARIANT TypeOK
INVARIANT MeansAreRight
INVARIANT OnlyTheLastIsASum
INVARIANT OneShapePerAverage
INVARIANT WriteDelayIsKept
CHECK_DEADLOCK FALSE
