--------------------------- MODULE MCTempMonitor ---------------------------
(* Instances of TempMonitor for TLC.                                       *)
EXTENDS TempMonitor

\* 7 and 8 degrees apart, just below and at 58 degrees and above.
MCTemps == {51, 58, 59}

\* Less than, between and more than the temperatures.
MCGarbage == {-1000, 55, 1000}
=============================================================================
