SPECIFICATION Spec
CONSTANTS
  j1 = j1
  j2 = j2
  j3 = j3
  w1 = w1
  w2 = w2
  w3 = w3
  JobIds <- ThreeJobs
  Workers <- ThreeWorkers
  QueueOf <- ThreeQueueOf
  Serves <- ThreeServes
  PriorityOf <- ThreePriority
  MaxRetries <- ThreeMaxRetries
  Handles <- ThreeHandles
  Unreliable <- OnlyFirst
  MaxRevivals = 1
INVARIANT SingleHolder
INVARIANT RunningIsHeld
INVARIANT RetryAccounting
INVARIANT NoRerunAfterSuccess
PROPERTY ImplementsLifecycle
CHECK_DEADLOCK FALSE
