--------------------------- MODULE AdmissionLane ---------------------------
(***************************************************************************)
(* What the entrances of the car park promise, with no threads, locks or   *)
(* signals: a car asks to come in at one of them, the manager may admit it *)
(* to a level if its plate is on the list, an admitted car is never turned *)
(* away, and it parks on the level it was admitted to.  EntranceLane is    *)
(* shown to implement it with one lane, CarPark with all of them.          *)
(***************************************************************************)
EXTENDS Integers

CONSTANTS Cars,     \* the cars of the simulation
          Allowed,  \* the cars whose plates are in plates.txt
          Levels,   \* the level numbers
          Lanes,    \* the entrances
          NoCar     \* stands for "no car"

VARIABLES asking,   \* per entrance: the car at it
          verdict,  \* per entrance: the level that car was admitted to, Pending until then
          parked    \* the pairs <<car, level>> of the cars inside

vars == <<asking, verdict, parked>>

Pending == -1

Init ==
  /\ asking = [e \in Lanes |-> NoCar]
  /\ verdict = [e \in Lanes |-> Pending]
  /\ parked = {}

Ask(e, c) ==
  /\ asking[e] = NoCar
  /\ \A f \in Lanes : asking[f] # c
  /\ \A l \in Levels : <<c, l>> \notin parked
  /\ asking' = [asking EXCEPT ![e] = c]
  /\ UNCHANGED <<verdict, parked>>

Admit(e, l) ==
  /\ asking[e] \in Allowed
  /\ verdict[e] = Pending
  /\ verdict' = [verdict EXCEPT ![e] = l]
  /\ UNCHANGED <<asking, parked>>

TurnAway(e) ==
  /\ asking[e] # NoCar
  /\ verdict[e] = Pending
  /\ asking' = [asking EXCEPT ![e] = NoCar]
  /\ UNCHANGED <<verdict, parked>>

Enter(e) ==
  /\ asking[e] # NoCar
  /\ verdict[e] # Pending
  /\ parked' = parked \cup {<<asking[e], verdict[e]>>}
  /\ asking' = [asking EXCEPT ![e] = NoCar]
  /\ verdict' = [verdict EXCEPT ![e] = Pending]

Leave(p) ==
  /\ p \in parked
  /\ parked' = parked \ {p}
  /\ UNCHANGED <<asking, verdict>>

LaneNext(e) ==
  \/ \E c \in Cars : Ask(e, c)
  \/ \E l \in Levels : Admit(e, l)
  \/ TurnAway(e)
  \/ Enter(e)

Next ==
  \/ \E e \in Lanes : LaneNext(e)
  \/ \E p \in parked : Leave(p)

Spec == Init /\ [][Next]_vars
=============================================================================
