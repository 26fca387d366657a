\* Two players in one cell, seven apart.
SPECIFICATION ChatSpec
CONSTANTS
  MaxGUID = 2
  MaxLost = 1
  MinX <- MinusTwenty
  MinY <- MinusTen
  GridSize = 10
  CountX = 4
  CountY = 3
  Positions <- ShoutPositions
  SayDistance = 2
  ShoutDistance = 8
INVARIANTS
  ShoutReachesNearby
