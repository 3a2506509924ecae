\* One reader, one frame length.
CONSTANTS
  r1 = r1
  r2 = r2
  controller = controller
  Controller <- controller
  Readers <- OneReader
  Capacity = 5
  Sizes <- Small
  MaxWritten = 8
  SizeModulus = 16
SPECIFICATION Spec
PROPERTY LosslessSpec
