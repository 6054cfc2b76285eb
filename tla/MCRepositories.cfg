SPECIFICATION Spec
CONSTANTS
  r1 = r1
  r2 = r2
  n1 = n1
  n2 = n2
  l1 = l1
  l2 = l2
  Requests <- MCRequests
  Names <- MCNames
  Links <- MCLinks
  None = None
  MaxId = 2
  LinkSets <- MCLinkSets
  Lows = {0, 2}
  Highs = {0, 1}
  MaxDownloads = 2
  Referable = {1}
  MaxBreaks = 1
SYMMETRY MCSymmetry
INVARIANT OneDefault
INVARIANT DatesOrdered
INVARIANT MemberHasRole
PROPERTY NothingReverted
PROPERTY TwiceOnlyByOverlap
PROPERTY AllOrNothing
