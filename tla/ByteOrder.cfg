\* Images written on one machine and read on another, with elements of one byte too.
SPECIFICATION ComponentsSpec
CHECK_DEADLOCK FALSE
INVARIANT AnyByteOrderIsRead
CONSTANTS
  NumberOfProjections = 3
  Jobs <- AllowedJobs
  Plain = {x, y}
  Buffers = {d}
  Blocks = {b1, b2, b3}
  NULL = NULL
  Dims = {1, 2}
  Places <- TwoPlaces
  Workers = {w1, w2, w3}
  NoWorker = NoWorker
  Widths = {2, 3}
