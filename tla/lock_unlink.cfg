SPECIFICATION Spec
CONSTANTS
  c1 = c1
  c2 = c2
  c3 = c3
  c4 = c4
  None = None
  Call = {c1, c2, c3, c4}
  Crashable = {c1}
  MaxTries = 2
SYMMETRY Symmetry
PROPERTY NeverDeletesALiveOwner
CHECK_DEADLOCK FALSE
