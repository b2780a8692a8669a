SPECIFICATION Spec
CONSTANTS
  MaxPage = 3
  INVALID_PAGE = 99
  Bodies = {b1}
  EmptyBody = EmptyBody
  PoolSize = 2
  GuardId = {g1, g2}
  Links = {99}
  Usage = {"noFrame"}
PROPERTY CloseSucceeds
