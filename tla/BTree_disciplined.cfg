SPECIFICATION Spec
CONSTANTS
  Keys = {1, 2, 3, 4, 5, 6, 7}
  CellSize <- MixedCells
  SepSize = 1
  Usable = 8
  ZeroUsable = 7
  MaxPage = 8
  INVALID_PAGE = 99
  Usage = {}
INVARIANTS TypeOK SeparatorsSeparate ChainIsTree ScanAscending
PROPERTIES ImplementsMap CursorMovesAsInMap
CHECK_DEADLOCK FALSE
