SPECIFICATION Spec
CONSTANTS
  root0 = root0
  c1 = c1
  c2 = c2
  host0 = host0
  Session = {root0, c1, c2}
  Root = root0
  None = None
  Emitter = {}
  Respawner = {host0}
  Host = host0
  Crashable = {}
  Blockers = {}
  MaxGeneration = 2
  MaxAttempts = 1
  MaxExtras = 1
  MaxStarts = 2
SYMMETRY Symmetry
INVARIANT BooksAgree
INVARIANT NoTurnLostOrDoubled
INVARIANT NothingBlocksTheDrain
INVARIANT EndedBooksClose
PROPERTY CleanUpIsSafe
CHECK_DEADLOCK FALSE
