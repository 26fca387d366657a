\* Three timers, scheduled and cancelled from outside and from callbacks.
SPECIFICATION Spec
CONSTANTS
  MaxTimers = 3
  MaxTime = 3
  Delays <- MCDelays
INVARIANTS
  TypeOK
  NoneLostNoneLeft
PROPERTIES
  DueIsCalled
\* The process may end: an erasure past the end of an empty vector.
CHECK_DEADLOCK FALSE
