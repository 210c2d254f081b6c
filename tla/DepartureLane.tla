--------------------------- MODULE DepartureLane ---------------------------
(***************************************************************************)
(* What one exit of the car park promises: a car that leaves is billed,    *)
(* once, before the exit lets the next one out, and the manager knows      *)
(* every car that is inside.  ExitLane is shown to implement it.           *)
(***************************************************************************)
EXTENDS Integers

CONSTANT Cars       \* the cars of the simulation

VARIABLES inside,   \* the cars in the car park
          known,    \* the cars the manager keeps a vehicle for
          unpaid    \* the cars that left and have not been billed

vars == <<inside, known, unpaid>>

Init ==
  /\ inside = {}
  /\ known = {}
  /\ unpaid = {}

Enter(c) ==
  /\ c \notin known
  /\ inside' = inside \cup {c}
  /\ known' = known \cup {c}
  /\ UNCHANGED unpaid

Depart(c) ==
  /\ unpaid = {}
  /\ c \in inside
  /\ inside' = inside \ {c}
  /\ unpaid' = {c}
  /\ UNCHANGED known

Bill(c) ==
  /\ c \in unpaid
  /\ unpaid' = {}
  /\ UNCHANGED <<inside, known>>

Forget(c) ==
  /\ c \notin inside \cup unpaid
  /\ known' = known \ {c}
  /\ UNCHANGED <<inside, unpaid>>

Next == \E c \in Cars : Enter(c) \/ Depart(c) \/ Bill(c) \/ Forget(c)

Spec == Init /\ [][Next]_vars
=============================================================================
