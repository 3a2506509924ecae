\* One acquisition that goes round the ring of regions, nothing changed meanwhile.
CONSTANTS
  MaxFrames = 6
  Windows <- OneWindow
  Regions = 2
  Shapes <- OneShape
  SampleTypes <- Integral
  Supported <- Integral
  WriteDelay = 0
  Pixel <- Powers
  MaxTicks = 0
  MaxGrabbed = 6
  MaxRuns = 1
SPECIFICATION Spec
INVARIANT AveragesAreMeans
CHECK_DEADLOCK FALSE
