CONSTANTS
  c1 = c1
  c2 = c2
  c3 = c3
  NoCar = NoCar
  Cars <- MCCars
  Allowed <- MCAllowed
  LEVELS = 2
  ENTRANCES = 3

SPECIFICATION FairSpec

INVARIANTS
  OnlyAdmittedCarPasses
  GateOpenOverCar
  Handshake

PROPERTIES
  ImplementsAdmission
  EveryCarServed
  ServiceGetsOn

\* A lost wake-up stops the lane for good.
CHECK_DEADLOCK FALSE
