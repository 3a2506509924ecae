\* Two interchangeable readers, frames of two lengths, five cells.
CONSTANTS
  r1 = r1
  r2 = r2
  controller = controller
  Controller <- controller
  Readers <- TwoReaders
  Capacity = 5
  Sizes <- Mixed
  MaxWritten = 8
  SizeModulus = 16
SPECIFICATION Spec
SYMMETRY AnyReader
INVARIANTS TypeOK CursorInv RegionIsFree SliceIntegrity BytesWaitingIsUnread
PROPERTIES StreamSpec SkipsOnlyAtLapEnd UnmapConsumesAsTold
