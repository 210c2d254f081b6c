CONSTANTS
  c1 = c1
  c2 = c2
  x1 = x1
  x2 = x2
  NoCar = NoCar
  Cars <- MCCars
  Exits <- MCExits
  Times <- MCTimes
  LeaveTimes <- MCLeaveTimes
  MaxVisits = 3

SPECIFICATION Spec

INVARIANTS
  BillsAreRight
  BillsRecorded

PROPERTIES
  LeavesOnTime

\* The visits have a bound.
CHECK_DEADLOCK FALSE
