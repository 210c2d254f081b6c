----------------------------- MODULE MCBilling -----------------------------
(* Two cars, two exits, and readings of the clocks on both sides of a wrap. *)
EXTENDS Billing

CONSTANTS c1, c2, x1, x2

MCCars == {c1, c2}
MCExits == {x1, x2}
MCTimes == {0, 60000, 70000}
MCLeaveTimes == {100, 9999}
=============================================================================
