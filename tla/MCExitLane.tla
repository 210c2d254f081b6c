---------------------------- MODULE MCExitLane ----------------------------
(* Instances of ExitLane for TLC.                                          *)
EXTENDS ExitLane

CONSTANTS c1, c2, c3

MCCars == {c1, c2, c3}
=============================================================================
