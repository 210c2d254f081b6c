CONSTANTS
  c1 = c1
  c2 = c2
  c3 = c3
  NoCar = NoCar
  Cars <- MCCars

SPECIFICATION FairSpec

INVARIANTS
  Handshake
  BillsTheDeparted
  GateOpenOverCar

PROPERTIES
  ImplementsDeparture
  EveryCarLeaves
  ServiceGetsOn

\* A lost wake-up stops the lane for good, a spurious one may end the manager.
CHECK_DEADLOCK FALSE
