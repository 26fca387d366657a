\* Three jobs of any kind from two threads.
SPECIFICATION Spec
CONSTANTS
  Jobs = {j1, j2, j3}
  Clients = {world, caller}
  World = world
  NoJob = noJob
  j1 = j1
  j2 = j2
  j3 = j3
  world = world
  caller = caller
  noJob = noJob
INVARIANTS
  TypeOK
  WorkerIsConnected
  OneUserOfConnection
  WakeupPending
PROPERTIES
  RefinesService
  SubmittedIsPerformed
  PerformedIsAnswered
  StopReturns
\* The process ends when ForceQuery crashes: deadlock is not checked.
CHECK_DEADLOCK FALSE
