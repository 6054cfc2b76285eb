SPECIFICATION LivenessSpec
CONSTANTS
  j1 = j1
  j2 = j2
  j3 = j3
  w1 = w1
  w2 = w2
  w3 = w3
  JobIds <- TwoJobs
  Workers <- TwoWorkers
  QueueOf <- TwoQueueOf
  Serves <- TwoServes
  PriorityOf <- TwoPriority
  MaxRetries <- TwoMaxRetries
  Handles <- TwoHandles
  Unreliable <- Nobody
  MaxRevivals = 1
  Probes = {a, b, c}
  HasPool = TRUE
  CacheDuration = 2
  MaxDelay = 1
  NoStatus = NoStatus
INVARIANT FoundLately
PROPERTY EventuallySettles
PROPERTY FollowsDatabase
