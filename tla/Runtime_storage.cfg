\* One stream that is configured for one storage device and then for another.
CONSTANTS
  c1 = c1
  c2 = c2
  c3 = c3
  s1 = s1
  s2 = s2
  NumStreams = 1
  Cameras <- TwoCameras
  Storages <- TwoStorages
  Requests <- AnyRequest
  MaxEvents = 3
SPECIFICATION Spec
INVARIANT StorageIsTheOneNamed
CHECK_DEADLOCK FALSE
