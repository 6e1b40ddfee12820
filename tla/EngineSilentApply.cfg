\* A worker that has no projection of its own fails in back-projection.
CONSTANTS
  NumberOfThreads = 2
  NumberOfProjections = 3
  MaxFailures = 1
  Jobs <- FullJobs
SPECIFICATION Spec
INVARIANT ApplyFailuresAreReported
