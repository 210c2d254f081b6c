CONSTANTS
  c1 = c1
  c2 = c2
  c3 = c3
  c4 = c4
  e1 = e1
  e2 = e2
  x1 = x1
  NoCar = NoCar
  LevelThreads = LevelThreads
  Cars <- MCTwoCars
  Allowed <- MCTwoCars
  Entrances <- MCTwoEntrances
  Exits <- MCOneExit
  LEVELS = 1
  LEVEL_CAPACITY = 2

SPECIFICATION Spec

INVARIANTS
  ListKnowsInside

\* The manager may end on a bad pointer.
CHECK_DEADLOCK FALSE
