----------------------------- MODULE MCCarQueue -----------------------------
(* Two entrances, an exit and three cars; at the first entrance all three   *)
(* can wait, at the second one.                                             *)
EXTENDS CarQueue, TLC

CONSTANTS e1, e2, x1, c1, c2, c3

MCEntrances == {e1, e2}
MCExits == {x1}
MCCars == {c1, c2, c3}
MCMaxNodes == (e1 :> 4) @@ (e2 :> 2) @@ (x1 :> 2)
=============================================================================
