SPECIFICATION Spec
CONSTANTS
  Keys = {1, 2, 3, 4, 5}
  CellSize <- OneBigCell
  SepSize = 1
  Usable = 6
  ZeroUsable = 5
  MaxPage = 4
  INVALID_PAGE = 99
  Usage = {"absent", "separator", "emptyLeaf", "seekEnd", "pagerFails"}
INVARIANTS  ChainLinked
PROPERTIES OneEntryAtATime WalksInOrder
CHECK_DEADLOCK FALSE
