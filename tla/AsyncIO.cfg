\* The I/O processor under fair scheduling: two waiters, two buffers, three
\* requests.
CONSTANTS
  Waiters = {w1, w2}
  Images = {a, b}
  NULL = NULL
  MaxRequests = 3
SPECIFICATION FairSpec
INVARIANT TypeOK
INVARIANT BufferExclusion
INVARIANT OnlyLastAtRisk
PROPERTY KeepsPromise
PROPERTY CallsReturn
PROPERTY DestructorReturnsUnlessParking
