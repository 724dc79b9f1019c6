SPECIFICATION FairSpec
CONSTANTS
  w = w
  q = q
  p = p
  r = r
  e = e
  old = old
  same = same
  new = new
  added = added
  Plain = {w}
  Silent = {q}
  Publication = {p}
  Restore = {r}
  Emit = {e}
  Targets = 3
  Bytes <- MCBytes
  Initial <- MCInitial
  NoBytes = NoBytes
  None = None
  MaxCrashes = 2
INVARIANT CrashesAreRepairable
INVARIANT CleanReadIsWhole
INVARIANT OneProtocolPending
PROPERTY CommitsAtomically
PROPERTY RollsForward
