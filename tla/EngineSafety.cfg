\* Two workers, five projections, every kind of job, one failure.
CONSTANTS
  NumberOfThreads = 2
  NumberOfProjections = 5
  MaxFailures = 1
  Jobs <- SomeJobs
SPECIFICATION Spec
INVARIANT TypeOK
INVARIANT NoClobber
INVARIANT VolumeIsRight
INVARIANT SilentFailures
INVARIANT ContractsAreKept
PROPERTY KeepsPromise
