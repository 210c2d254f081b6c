CONSTANTS
  c1 = c1
  c2 = c2
  c3 = c3
  c4 = c4
  e1 = e1
  e2 = e2
  x1 = x1
  NoCar = NoCar
  LevelThreads = LevelThreads
  Cars <- MCCars
  Allowed <- MCThreeCars
  Entrances <- MCTwoEntrances
  Exits <- MCOneExit
  LEVELS = 1
  LEVEL_CAPACITY = 1

SPECIFICATION Spec

SYMMETRY MCSymmetry

INVARIANTS
  CarsInStep
  CountIsExact
  PlacesAreKept
  ListIsKept

PROPERTIES
  ImplementsParkingLot
  ImplementsAdmission

\* The manager may end on a bad pointer.
CHECK_DEADLOCK FALSE
