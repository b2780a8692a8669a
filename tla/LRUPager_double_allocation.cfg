SPECIFICATION Spec
CONSTANTS
  MaxPage = 2
  INVALID_PAGE = 99
  Bodies = {b1}
  EmptyBody = EmptyBody
  PoolSize = 2
  GuardId = {g1}
  Links = {0, 1, 2, 99}
  Usage = {"delete", "flushPage"}
INVARIANT FreeListNotLive
