\* Liveness and refinement: two connections, one packet and one write on each.
SPECIFICATION Spec
CONSTANTS
  MaxGUID = 2
  MaxFrames = 1
  MaxWrites = 1
  Int32Max = 7
PROPERTIES
  HungUpLeaves
  ClosedIsFreed
  EnqueuedIsHandled
  RefinesRegistry
