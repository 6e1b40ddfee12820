\* More workers than projections, one failure: the engine ends, and which failures stay silent.
\* An ended engine stops; that it always ends is the stronger Terminates.
CONSTANTS
  NumberOfThreads = 3
  NumberOfProjections = 2
  MaxFailures = 1
  Jobs <- SomeJobs
SPECIFICATION FairSpec
INVARIANT SilentFailures
PROPERTY Terminates
CHECK_DEADLOCK FALSE
