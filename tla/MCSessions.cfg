SPECIFICATION Spec
CONSTANTS
  s1 = s1
  s2 = s2
  r1 = r1
  r2 = r2
  anna = anna
  ben = ben
  None = None
  Users <- MCUsers
  SessionIds <- MCSessionIds
  Requests <- MCRequests
  Strategies <- MCStrategies
  HasJwt = TRUE
  HasStore = TRUE
  AllowAnonymous = TRUE
  Tokens <- MCTokens
  Headers <- MCHeaders
  ApiUser = anna
  Lifetimes <- MCLifetimes
  Leeway = 0
  MaxTime = 2
INVARIANT TakenForInTime
PROPERTY GoneForGood
SYMMETRY Symmetry
