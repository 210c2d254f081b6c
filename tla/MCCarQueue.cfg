CONSTANTS
  e1 = e1
  e2 = e2
  x1 = x1
  c1 = c1
  c2 = c2
  c3 = c3
  NoCar = NoCar
  NoLane = NoLane
  Entrances <- MCEntrances
  Exits <- MCExits
  Cars <- MCCars
  MaxNodes <- MCMaxNodes

SPECIFICATION FairSpec

INVARIANTS
  EveryCarOnce
  SleepsOnlyIfRobbed

PROPERTIES
  ImplementsFifo
  CarsAreServed

\* All stops when the lists have reached their bounds.
CHECK_DEADLOCK FALSE
