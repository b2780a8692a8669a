SPECIFICATION PoolSpec
CONSTANTS
  Keys = {1, 2, 3, 4, 5}
  CellSize <- UniformCells
  SepSize = 1
  Usable = 5
  ZeroUsable = 5
  MaxPage = 5
  INVALID_PAGE = 99
  Usage = {"innerEdge", "pagerFails"}
INVARIANTS PoolTypeOK UnmarkedIsOnFile PrevLeadsLeft
PROPERTY ImplementsPooledMap
CHECK_DEADLOCK FALSE
