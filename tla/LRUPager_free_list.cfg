SPECIFICATION DurableSpec
CONSTANTS
  MaxPage = 3
  INVALID_PAGE = 99
  Bodies = {EmptyBody}
  EmptyBody = EmptyBody
  PoolSize = 2
  GuardId = {g1}
  Links = {99}
  Usage = {"delete", "flushAll", "crash"}
INVARIANTS FreeListNotLive SyncedNotFree SyncedSurvive
PROPERTY ImplementsDurableStore
