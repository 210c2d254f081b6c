----------------------------- MODULE MCCarPark -----------------------------
(* Instances of CarPark for TLC.                                           *)
EXTENDS CarPark, TLC

CONSTANTS c1, c2, c3, c4, e1, e2, x1

MCCars         == {c1, c2, c3, c4}
MCThreeCars    == {c1, c2, c3}
MCTwoCars      == {c1, c2}
MCOneEntrance  == {e1}
MCTwoEntrances == {e1, e2}
MCOneExit      == {x1}

\* The allowed cars are alike, and so are the entrances.
MCSymmetry == Permutations(Allowed) \cup Permutations(Entrances)
=============================================================================
