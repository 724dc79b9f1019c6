SPECIFICATION FairSpec
CONSTANTS
  root = root
  s1 = s1
  s2 = s2
  s3 = s3
  e1 = e1
  e2 = e2
  r1 = r1
  r2 = r2
  Session = {root, s1}
  Root = root
  None = None
  Emitter = {e1, e2}
  Respawner = {r1}
  Crashable = {}
  Blockers = {"policy"}
  MaxGeneration = 2
CHECK_DEADLOCK FALSE
PROPERTY VisibleSpawnSettles
PROPERTY ReservationResolves
