SPECIFICATION Spec
CONSTANTS
  root0 = root0
  s1 = s1
  s2 = s2
  s3 = s3
  e1 = e1
  Session = {root0, s1, s2}
  Root = root0
  None = None
  Emitter = {e1}
  Respawner = {}
  Crashable = {}
  Blockers = {"breaker"}
  MaxGeneration = 3
  Place = {"A", "B"}
  Home = "A"
  MaxMoves = 3
SYMMETRY Symmetry
INVARIANT ReservationStaysWhole
PROPERTY WorkstreamFollows
PROPERTY SpentCommandsAreRefused
PROPERTY OwnershipAcrossMoves
CHECK_DEADLOCK FALSE
