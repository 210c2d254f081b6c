-------------------------- MODULE MCEntranceLane --------------------------
(* Instances of EntranceLane for TLC.                                      *)
EXTENDS EntranceLane

CONSTANTS c1, c2, c3

MCCars == {c1, c2, c3}
MCAllowed == {c1, c2}
=============================================================================
