SPECIFICATION Spec
CONSTANTS
  Conns = {1, 2}
  Fds = {f1, f2}
  None = None
  CachedOrder <- MCCachedOrder
  Uncached = {"pong"}
  v1 = v1
  v2 = v2
  Says <- MCSays
  Buffer = 2
  MaxLog = 2
INVARIANTS TypeOK FeedContiguous
PROPERTIES BroadcastCompletes
CHECK_DEADLOCK FALSE
