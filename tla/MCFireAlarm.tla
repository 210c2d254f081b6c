---------------------------- MODULE MCFireAlarm ----------------------------
(* Instances of FireAlarm for TLC.                                         *)
EXTENDS FireAlarm

CONSTANTS s1, s2

MCScreens == {s1, s2}

MCOneScreen == {s1}
=============================================================================
