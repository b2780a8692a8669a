SPECIFICATION TreeSpec
CONSTANTS
  Keys = {1, 2, 3, 4}
  CellSize <- UniformCells
  SepSize = 1
  Usable = 9
  ZeroUsable = 7
  MaxPage = 4
  INVALID_PAGE = 99
  Usage = {}
INVARIANT SeekFindsPresentKey
CHECK_DEADLOCK FALSE
