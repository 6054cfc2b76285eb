CONSTANTS
  Requests = {r1, r2}
  Ids = {1, 2}
  LetIn = {0, 1, 2}
  Admins = {2}
  Served <- AllServed
  None = None
SPECIFICATION Spec
SYMMETRY Alike
CHECK_DEADLOCK FALSE
INVARIANT RefusalHasNoEffect
INVARIANT NotFoundIsTrue
 
PROPERTY ByRight
