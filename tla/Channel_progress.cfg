\* Two readers that poll for ever, three cells; a frame of three does not fit.
CONSTANTS
  r1 = r1
  r2 = r2
  controller = controller
  Controller <- controller
  Readers <- TwoReaders
  Capacity = 3
  Sizes <- Mixed
  MaxWritten = 6
  SizeModulus = 16
SPECIFICATION FairSpec
PROPERTIES WriterProceedsUnlessAtLapEnd EveryByteIsPassed
