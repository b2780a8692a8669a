SPECIFICATION FairSpec
CONSTANTS
  MaxPage = 1
  INVALID_PAGE = 99
  Bodies = {b1}
  EmptyBody = EmptyBody
  PoolSize = 1
  GuardId = {g1, g2}
  Links = {99}
  Usage = {"flushPage", "flushUncached", "flushAll", "delete",
           "deleteUncached", "noFrame", "anyPage", "headerOnly", "staleSpan",
           "closePinned", "writeReadOnly", "destroy", "readOnly",
           "foreignFile", "crash", "crashFlushing", "ioError"}
INVARIANTS TypeOK PoolConsistent PinsMatchGuards
PROPERTIES FlushEnds CloseLeavesOpenable
CHECK_DEADLOCK FALSE
