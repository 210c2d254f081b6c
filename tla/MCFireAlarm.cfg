CONSTANTS
  s1 = s1
  s2 = s2
  Screens <- MCOneScreen
  LEVELS = 2

SPECIFICATION FairSpec

INVARIANTS
  NoFalseEmergency
  FireIsNotSlept
  MutexServes

PROPERTIES
  FireIsAnswered
  EndIsNoticed

\* The program ends.
CHECK_DEADLOCK FALSE
