\* Every second of six projections, up to six slices, up to six passes, an
\* engine that writes its volume in two pieces.
CONSTANTS
  FileProjections = 6
  ProjectionStride = 2
  Threads = 2
  AtRisk = 1
  Silent = TRUE
  Slices = {1, 5, 6}
  SliceMemory = 2
  Memories = {1, 3, 6, 12}
SPECIFICATION Spec
INVARIANT AnglesAreRight
