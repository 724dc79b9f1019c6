SPECIFICATION Spec
CONSTANTS
  root = root
  s1 = s1
  s2 = s2
  s3 = s3
  e1 = e1
  e2 = e2
  r1 = r1
  r2 = r2
  Session = {root, s1, s2}
  Root = root
  None = None
  Emitter = {e1}
  Respawner = {r1, r2}
  Crashable = {e1, r1, r2}
  Blockers = {"budget"}
  MaxGeneration = 2
SYMMETRY Symmetry
INVARIANT HandoffCommitted
INVARIANT PreservedChildCanAcquire
INVARIANT LaunchedOnce
INVARIANT LinksAgree
PROPERTY OwnershipSpec
PROPERTY TerminalIsFinal
CHECK_DEADLOCK FALSE
