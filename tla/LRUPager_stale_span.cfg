SPECIFICATION Spec
CONSTANTS
  MaxPage = 1
  INVALID_PAGE = 99
  Bodies = {b1}
  EmptyBody = EmptyBody
  PoolSize = 2
  GuardId = {g1}
  Links = {99}
  Usage = {"flushPage", "flushAll", "staleSpan"}
INVARIANT CleanMatchesFile
