SPECIFICATION NFairSpec
CONSTANTS
  n1 = n1
  n2 = n2
  w1 = w1
  c1 = c1
  c2 = c2
  m1 = m1
  anna = anna
  ben = ben
  cleo = cleo
  None = None
  Project = "demo"
  JobIds <- MCJobIds
  Ids <- MCIds
  Workers <- MCWorkers
  QueueOf <- MCQueueOf
  Serves <- MCServes
  PriorityOf <- MCPriority
  MaxRetries <- MCMaxRetries
  Handles <- MCHandles
  Unreliable <- Nobody
  MaxRevivals = 0
  Users <- MCUsers
  Settings <- MCSettings
  Callers <- MCCallers
  Events <- MCEvents
  Droppable <- MCDroppable
  Unlucky <- MCUnlucky
  Markers <- MCMarkers
INVARIANT MailMatchesResults
PROPERTY ReadAndDeletedStay
PROPERTY EveryoneTold
