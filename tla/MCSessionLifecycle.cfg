\* Safety: two connections, two packets and one outstanding write on each.
SPECIFICATION Spec
CONSTANTS
  MaxGUID = 2
  MaxFrames = 2
  MaxWrites = 1
  Int32Max = 7
INVARIANTS
  TypeOK
  ClosedIsBeingRemoved
  OpenIsRegistered
  DestructorFindsClosed
  OpenIsReading
  PacketsInOrder
PROPERTIES
  FreedForever
