\* Two streams, configured and started twice, one with another camera.
CONSTANTS
  c1 = c1
  c2 = c2
  c3 = c3
  s1 = s1
  s2 = s2
  NumStreams = 2
  Cameras <- AllCameras
  Storages <- OneStorage
  Requests <- FirstChangesCamera
  MaxEvents = 4
SYMMETRY SameCameras
SPECIFICATION Spec
INVARIANT TypeOK
INVARIANT ArmedMeansReady
INVARIANT DevicesOutliveThreads
INVARIANT LoopsAreExclusive
INVARIANT EveryThreadIsTold
CHECK_DEADLOCK FALSE
