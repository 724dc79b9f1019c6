SPECIFICATION Spec
CONSTANTS
  root0 = root0
  s1 = s1
  s2 = s2
  s3 = s3
  e1 = e1
  Session = {root0, s1, s2, s3}
  Root = root0
  None = None
  Emitter = {e1}
  Respawner = {}
  Crashable = {}
  Blockers = {}
  MaxGeneration = 4
  Place = {"A", "B"}
  Home = "A"
  MaxMoves = 1
SYMMETRY Symmetry
INVARIANT ReplacementCanAcquire
CHECK_DEADLOCK FALSE
