\* A job with a callback whose flag was never set.
SPECIFICATION Spec
CONSTANTS
  Jobs = {j1, j2}
  Clients = {world, caller}
  World = world
  NoJob = noJob
  j1 = j1
  j2 = j2
  world = world
  caller = caller
  noJob = noJob
INVARIANTS
  CallbackIsDelivered
\* The process ends when ForceQuery crashes: deadlock is not checked.
CHECK_DEADLOCK FALSE
