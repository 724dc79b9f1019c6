SPECIFICATION FairSpec
CHECK_DEADLOCK FALSE
CONSTANTS
  e1 = e1
  e2 = e2
  Evidence = {e1, e2}
  Keep = 2
  None = None
  MaxState = 3
  MaxCrashes = 2
INVARIANT IntentCompletable
INVARIANT RestoredOnce
INVARIANT RestoresItsState
INVARIANT OfferIsRestorable
PROPERTY PruneSpares
PROPERTY IntentResolves
