CONSTANTS
  Temps <- MCTemps
  Garbage <- MCGarbage
  TEMPCHANGE_WINDOW = 10
  MaxChanges = 2

SPECIFICATION FairSpec

INVARIANTS
  TypeOK
  MediansWithinReadings
  NoFalseAlarm
  FiresAreCalled

PROPERTIES
  HeatIsNoticed

\* The monitor's loop ends with the alarm.
CHECK_DEADLOCK FALSE
