SPECIFICATION Spec
CHECK_DEADLOCK FALSE
CONSTANTS
  w1 = w1
  w2 = w2
  p1 = p1
  p2 = p2
  Workstreams = {w1, w2}
  Points = {p1}
  None = None
  MaxParallel = 1
  MaxEpisodes = 4
  MaxGen = 2
  MaxClaims = 2
  MaxExtras = 2
  MaxLoad = 5
SYMMETRY StreamSymmetry
INVARIANT AdviceAccepted
INVARIANT RoutingSeesAllWork
INVARIANT ClosedIsProven
INVARIANT CountersAgree
INVARIANT ActiveReviewsUseCurrentFlags
PROPERTY ClaimDecidesItself
