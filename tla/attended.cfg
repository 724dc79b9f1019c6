SPECIFICATION Spec
CONSTANTS
  root = root
  s1 = s1
  s2 = s2
  s3 = s3
  e1 = e1
  e2 = e2
  r1 = r1
  r2 = r2
  Session = {root, s1, s2, s3}
  Root = root
  None = None
  Emitter = {e1}
  Respawner = {}
  Crashable = {e1}
  Blockers = {"wallclock", "breaker"}
  MaxGeneration = 3
SYMMETRY Symmetry
INVARIANT KernelTypeOK
INVARIANT OneOpenScope
INVARIANT PreservedHandoffIsRecoverable
PROPERTY RecoveryStands
CHECK_DEADLOCK FALSE
