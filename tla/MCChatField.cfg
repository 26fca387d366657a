\* Two players anywhere on a field of four by three cells, and beyond it: what
\* they see, show, and hear of each other.
SPECIFICATION ChatSpec
CONSTANTS
  MaxGUID = 2
  MaxLost = 1
  MinX <- MinusTwenty
  MinY <- MinusTen
  GridSize = 10
  CountX = 4
  CountY = 3
  Positions <- ChatPositions
  SayDistance = 2
  ShoutDistance = 8
INVARIANTS
  VisibleIffNear
  SpeakerIsShown
  SayReachesNearby
PROPERTIES
  NearIsSpawned
  FarIsDespawned
