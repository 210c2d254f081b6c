SPECIFICATION FairSpec
CONSTANT Gates <- MCGates
INVARIANTS
  MutexHeld
  NobodyLeftWaiting
PROPERTIES
  GateMovesInOrder
  GateOpensInFire
  UserIsServed
\* A lost mutex, or a main that waits for ever, is a stop of this code.
CHECK_DEADLOCK FALSE
