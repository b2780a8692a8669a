SPECIFICATION DurableSpec
CONSTANTS
  MaxPage = 2
  INVALID_PAGE = 99
  Bodies = {b1}
  EmptyBody = EmptyBody
  PoolSize = 2
  GuardId = {g1, g2}
  Links = {99}
  Usage = {"flushPage", "flushUncached", "flushAll", "closePinned", "noFrame",
           "destroy", "readOnly", "deleteUncached", "foreignFile",
           "crash", "crashFlushing"}
  g1 = g1
  g2 = g2
SYMMETRY Symmetry
INVARIANTS DurableTypeOK PoolConsistent PinsMatchGuards CleanMatchesFile LiveReachable SyncedSurvive
PROPERTY ImplementsDurableStore
