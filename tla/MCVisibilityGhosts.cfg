\* Two players on a row of three cells, together or apart.
SPECIFICATION Spec
CONSTANTS
  MaxGUID = 2
  MaxLost = 1
  MinX <- MinusOne
  MinY <- MinusOne
  GridSize = 2
  CountX = 3
  CountY = 1
  Positions <- RowPositions
INVARIANTS
  NoGhosts
