\* The single-threaded engine with three projections and every kind of job;
\* two images and a double buffer in three blocks of memory; three workers
\* that filter; all calls.
CONSTANTS
  NumberOfProjections = 3
  Jobs <- AllowedJobs
  Plain = {x, y}
  Buffers = {d}
  Blocks = {b1, b2, b3}
  NULL = NULL
  Dims = {1, 2}
  Places <- TwoPlaces
  Workers = {w1, w2, w3}
  NoWorker = NoWorker
  Widths = {2, 3}
SPECIFICATION ComponentsSpec
CHECK_DEADLOCK FALSE
PROPERTY KeepsPromise
INVARIANT EveryBlockHasOneOwner
INVARIANT ConstructedIsUsable
INVARIANT PlannerExcludes
INVARIANT FilteringIsRight
INVARIANT PlansComeBack
INVARIANT FiltersAreRight
INVARIANT ReadsNearbyPixels
INVARIANT WeightsAreUniform
INVARIANT BadPixelsAreReplaced
INVARIANT DecayIsUndone
 
INVARIANT ImagesAreRead
INVARIANT HeadersAreUnderstood
INVARIANT ConfFilesAreRead
INVARIANT ReportCanBePasted
 
INVARIANT GeometryFollowsHeader
