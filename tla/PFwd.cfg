CONSTANTS
  h1 = h1
  h2 = h2
  Handlers = {h1, h2}
  PoolSize = 2
  MaxMessages <- TwoAndOne
  Foreign <- OfAnother
  MaxConns = 6
  MaxCrashes = 1
SPECIFICATION FairSpec
INVARIANTS TypeOK StoredOnce InOrder SavedIsFlushed
CHECK_DEADLOCK FALSE
PROPERTIES NothingElseLost AllDelivered
