\* WaitForCompletion returns while the last request is only popped; the destructor drops it.
CONSTANTS
  Waiters = {w1}
  Images = {a}
  NULL = NULL
  MaxRequests = 1
SPECIFICATION Spec
INVARIANT DrainedWritesAreCarriedOut
