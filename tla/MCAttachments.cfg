SPECIFICATION Spec
CONSTANTS
  c1 = c1
  c2 = c2
  c3 = c3
  a1 = a1
  a2 = a2
  f1 = f1
  f2 = f2
  None = None
  Calls <- ThreeCalls
  Unreliable <- OneDropped
  Ids <- TwoIds
  Keys <- TwoKeys
  Containers = {"epic"}
INVARIANT RecordHasFile
INVARIANT FileHasRecord
INVARIANT NoSharedFile
PROPERTY DeletedStaysDeleted
SYMMETRY Symmetric
CHECK_DEADLOCK FALSE
