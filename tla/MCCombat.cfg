\* Two players, one of them attacking, who move in and out of range.
SPECIFICATION CombatSpec
CONSTANTS
  MaxGUID = 2
  MaxLost = 1
  MinX <- MinusTen
  MinY <- MinusOne
  GridSize = 10
  CountX = 3
  CountY = 1
  Positions <- CombatPositions
  Attackers = {2}
  Yaws <- EastWest
  Range = 1
  Diff = 2
  AttackDelay = 3
INVARIANTS
  CombatTypeOK
PROPERTIES
  SwingsApart
  StrikeIsSeen
  StrikesAgain
