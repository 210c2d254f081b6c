----------------------------- MODULE ParkingLot -----------------------------
(***************************************************************************)
(* What the manager promises about the whole car park, whatever its        *)
(* threads do: it counts a car in only while there is room and only if its *)
(* plate is on the list, it counts a car in at most once before it counts  *)
(* it out, and it counts out only cars it counted in.                      *)
(***************************************************************************)
EXTENDS Naturals, FiniteSets

CONSTANTS Allowed,   \* the cars whose plates are in plates.txt
          Capacity   \* how many cars the car park takes

VARIABLE counted     \* the cars that count as being in the car park

Init == counted = {}

CountIn(c) ==
  /\ c \in Allowed \ counted
  /\ Cardinality(counted) < Capacity
  /\ counted' = counted \cup {c}

CountOut(c) ==
  /\ c \in counted
  /\ counted' = counted \ {c}

Next == \E c \in Allowed : CountIn(c) \/ CountOut(c)

Spec == Init /\ [][Next]_counted
=============================================================================
