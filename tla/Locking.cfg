\* Three goroutines of any kind, panics, and one restart after a panic.
SPECIFICATION FairSpec
CONSTANTS
  Goroutines = {1, 2, 3}
  JobsOf <- MCJobsOf
  None = None
  MaxSteps = 2
  MaxRestarts = 1
\* A goroutine may wait for ever, and then the others for it.
CHECK_DEADLOCK FALSE
INVARIANTS
  ChainsAreExclusive
  LockOrderUnlessSpoiled
PROPERTIES
  EveryoneReturns
