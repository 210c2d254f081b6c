CONSTANTS
  s1 = s1
  s2 = s2
  Screens <- MCScreens
  LEVELS = 2

SPECIFICATION Spec

INVARIANTS
  EmergencyOnlyInFire

CHECK_DEADLOCK FALSE
