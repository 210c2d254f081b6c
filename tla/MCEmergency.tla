---------------------------- MODULE MCEmergency ----------------------------
(* One gate: gates share nothing but main's loops over them.               *)
EXTENDS Emergency

MCGates == {"entrance"}
=============================================================================
