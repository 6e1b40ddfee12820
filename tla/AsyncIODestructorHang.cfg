\* The destructor's notification falls between the I/O thread's test and its wait.
CONSTANTS
  Waiters = {w1}
  Images = {a}
  NULL = NULL
  MaxRequests = 1
SPECIFICATION FairSpec
PROPERTY DestructorReturns
