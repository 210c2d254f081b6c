------------------------------ MODULE ExitLane ------------------------------
(***************************************************************************)
(* One exit: the simulator's thread for it (thf_exit, simulator.c) and the *)
(* manager's (exit_lpr, manager.c).  As in EntranceLane the LPR's wait has *)
(* no predicate, and the gate's waits loop over the status and are guards. *)
(*                                                                         *)
(* exit_lpr keeps the LPR's mutex from its wake-up to the end of its loop, *)
(* across the gate, the bill and the removal from the car list, which read *)
(* the plate in the LPR twice.                                             *)
(***************************************************************************)
EXTENDS Integers

CONSTANTS Cars,  \* the cars the creator thread can produce
          NoCar  \* no car yet: an empty plate, an unset variable

ASSUME ExitAssumption == NoCar \notin Cars

VARIABLES simPc,   \* where thf_exit is
          car,     \* thf_exit: popped_car
          inside,  \* the cars in the car park, the one at the exit included
          mgrPc,   \* where exit_lpr is
          found,   \* exit_lpr: the plate of find->vehicle
          listed,  \* the plates in car_list
          plate,   \* shared: LPR.plate
          gate,    \* shared: gate.status
          unpaid,  \* history: the cars that left and are not billed yet
          lapses   \* history: which of Lapses the wake-ups have had

simVars == <<simPc, car>>
mgrVars == <<mgrPc, found>>
vars == <<simVars, inside, mgrVars, listed, plate, gate, unpaid, lapses>>

\* A broadcast that nobody was waiting for; a wait that returned by itself.
Lapses == {"lost", "spurious"}

SimPoints == {"pop", "plate", "ring", "raise", "drive", "lower"}
MgrPoints == {"arm", "atLPR", "woken", "raise", "lower", "close", "bill",
              "delete", "release", "crashed"}
GateStates == {"C", "R", "O", "L"}

Init ==
  /\ simPc = "pop" /\ car = NoCar /\ inside = {}
  /\ mgrPc = "arm" /\ found = NoCar /\ listed = {}
  /\ plate = NoCar /\ gate = "C" /\ unpaid = {} /\ lapses = {}

-----------------------------------------------------------------------------
(* The rest of the car park.                                               *)

\* A car comes in through an entrance, which turns away a plate that is in
\* the car list.  The creator makes no plate that is in the simulation.
CarEnters(c) ==
  /\ c \notin inside \cup listed
  /\ inside' = inside \cup {c}
  /\ listed' = listed \cup {c}
  /\ UNCHANGED <<simVars, mgrVars, plate, gate, unpaid, lapses>>

-----------------------------------------------------------------------------
(* The simulator's thread.                                                 *)

\* thf_inside has put the car in this exit's queue.
SimPop(c) ==
  /\ simPc = "pop"
  /\ car' = c
  /\ simPc' = "plate"
  /\ UNCHANGED <<inside, mgrVars, listed, plate, gate, unpaid, lapses>>

\* Mutant: exit_lpr unlocks the LPR before the gate moves.
HoldsLPRBriefly(pc) == pc = "raise"

\* Mutant: exit_lpr has it while it waits for a car, too.
HoldsLPRWaiting(pc) == pc # "arm"

\* The points of exit_lpr at which it holds the LPR's mutex.
HoldsLPR(pc) == pc \in {"raise", "lower", "close", "bill", "delete", "release"}

SimWritePlate ==
  /\ simPc = "plate"
  /\ ~HoldsLPR(mgrPc)
  /\ plate' = car
  /\ simPc' = "ring"
  /\ UNCHANGED <<car, inside, mgrVars, listed, gate, unpaid, lapses>>

SimRingLPR ==
  /\ simPc = "ring"
  /\ mgrPc' = IF mgrPc = "atLPR" THEN "woken" ELSE mgrPc
  /\ lapses' = IF mgrPc = "atLPR" THEN lapses ELSE lapses \cup {"lost"}
  /\ simPc' = "raise"
  /\ UNCHANGED <<car, inside, found, listed, plate, gate, unpaid>>

\* sim_gates, called until the gate has the status the caller wants.
SimGates(at, wanted, then) ==
  /\ simPc = at
  /\ gate \in {"R", "L"}
  /\ gate' = IF gate = "L" THEN "C" ELSE "O"
  /\ simPc' = IF gate' = wanted THEN then ELSE at
  /\ UNCHANGED <<car, inside, mgrVars, listed, plate, unpaid, lapses>>

SimRaise == SimGates("raise", "O", "drive")

\* destroy_car.
SimDestroyCar ==
  /\ simPc = "drive"
  /\ inside' = inside \ {car}
  /\ unpaid' = unpaid \cup {car}
  /\ simPc' = "lower"
  /\ UNCHANGED <<car, mgrVars, listed, plate, gate, lapses>>

SimLower == SimGates("lower", "C", "pop")

-----------------------------------------------------------------------------
(* The manager's thread.                                                   *)

MgrArm ==
  /\ mgrPc = "arm"
  /\ mgrPc' = "atLPR"
  /\ UNCHANGED <<simVars, inside, found, listed, plate, gate, unpaid, lapses>>

\* Under car_park_lock: count the car out and find its vehicle (the count
\* and the level are in CarPark).  The vehicle of a plate that is not in the
\* list is read through a null pointer, which ends the manager.
MgrCountOut ==
  /\ mgrPc = "woken"
  /\ found' = IF plate \in listed THEN plate ELSE found
  /\ mgrPc' = IF plate \in listed THEN "raise" ELSE "crashed"
  /\ UNCHANGED <<simVars, inside, listed, plate, gate, unpaid, lapses>>

\* Mutant: the bill is written before the car is through.
MgrRaiseAndBill ==
  /\ mgrPc = "raise"
  /\ gate' = IF gate = "C" THEN "R" ELSE gate
  /\ mgrPc' = "bill"
  /\ UNCHANGED <<simVars, inside, found, listed, plate, unpaid, lapses>>

\* m_sim_gates: raise a closed gate, leave any other alone.
MgrRaise ==
  /\ mgrPc = "raise"
  /\ gate' = IF gate = "C" THEN "R" ELSE gate
  /\ mgrPc' = IF gate = "C" THEN "lower" ELSE "bill"
  /\ UNCHANGED <<simVars, inside, found, listed, plate, unpaid, lapses>>

\* Mutant: the manager closes the gate itself.
MgrSlam ==
  /\ mgrPc = "lower"
  /\ gate = "O"
  /\ gate' = "C"
  /\ mgrPc' = "close"
  /\ UNCHANGED <<simVars, inside, found, listed, plate, unpaid, lapses>>

MgrLower ==
  /\ mgrPc = "lower"
  /\ gate = "O"
  /\ gate' = "L"
  /\ mgrPc' = "close"
  /\ UNCHANGED <<simVars, inside, found, listed, plate, unpaid, lapses>>

\* Mutant: money is not called.
MgrSeeClosedUnpaid ==
  /\ mgrPc = "close"
  /\ gate = "C"
  /\ mgrPc' = "delete"
  /\ UNCHANGED <<simVars, inside, found, listed, plate, gate, unpaid, lapses>>

MgrSeeClosed ==
  /\ mgrPc = "close"
  /\ gate = "C"
  /\ mgrPc' = "bill"
  /\ UNCHANGED <<simVars, inside, found, listed, plate, gate, unpaid, lapses>>

\* money: a line in the revenue file for the vehicle that was found.
MgrBill ==
  /\ mgrPc = "bill"
  /\ unpaid' = unpaid \ {found}
  /\ mgrPc' = "delete"
  /\ UNCHANGED <<simVars, inside, found, listed, plate, gate, lapses>>

\* node_delete, by the plate that is in the LPR now.
MgrDelete ==
  /\ mgrPc = "delete"
  /\ listed' = listed \ {plate}
  /\ mgrPc' = "release"
  /\ UNCHANGED <<simVars, inside, found, plate, gate, unpaid, lapses>>

\* Mutant: the LPR's mutex is not unlocked at the end of the loop.
MgrKeepLPR ==
  /\ mgrPc = "release"
  /\ UNCHANGED vars

MgrRelease ==
  /\ mgrPc = "release"
  /\ mgrPc' = "arm"
  /\ UNCHANGED <<simVars, inside, found, listed, plate, gate, unpaid, lapses>>

MgrWakes ==
  /\ mgrPc = "atLPR"
  /\ mgrPc' = "woken"
  /\ lapses' = lapses \cup {"spurious"}
  /\ UNCHANGED <<simVars, inside, found, listed, plate, gate, unpaid>>

-----------------------------------------------------------------------------

SimStep ==
  \/ SimWritePlate \/ SimRingLPR \/ SimRaise \/ SimDestroyCar \/ SimLower

MgrStep ==
  \/ MgrArm \/ MgrCountOut \/ MgrRaise \/ MgrLower \/ MgrSeeClosed
  \/ MgrBill \/ MgrDelete \/ MgrRelease

Next ==
  \/ \E c \in Cars : CarEnters(c)
  \/ \E c \in inside : SimPop(c)
  \/ SimStep
  \/ MgrStep
  \/ MgrWakes

Spec == Init /\ [][Next]_vars

FairSpec == Spec /\ WF_vars(SimStep) /\ WF_vars(MgrStep)

-----------------------------------------------------------------------------

TypeOK ==
  /\ simPc \in SimPoints
  /\ car \in Cars \cup {NoCar}
  /\ simPc # "pop" => car \in Cars
  /\ inside \subseteq Cars
  /\ mgrPc \in MgrPoints
  /\ found \in Cars \cup {NoCar}
  /\ listed \subseteq Cars
  /\ plate \in Cars \cup {NoCar}
  /\ gate \in GateStates
  /\ unpaid \subseteq Cars
  /\ lapses \subseteq Lapses

\* No thread has been woken by nobody.
Sound == "spurious" \notin lapses

\* Which points the two threads can be at together, and whose car each of
\* them is busy with (exit_lpr, thf_exit, sim_gates).
Out == \/ simPc = "lower" \/ mgrPc = "bill"
       \/ mgrPc = "close" /\ gate = "C"

InStep ==
  /\ simPc \in {"plate", "ring", "raise", "drive"} => car \in inside
  /\ simPc = "ring" => plate = car /\ ~HoldsLPR(mgrPc)
  /\ simPc \in {"drive", "lower"} <=> gate \in {"O", "L"}
  /\ mgrPc = "woken" => plate = car /\ simPc = "raise" /\ gate = "C"
  /\ mgrPc = "raise" => gate = "C" /\ simPc = "raise"
  /\ mgrPc = "lower" => gate \in {"R", "O"}
  /\ gate = "R" => mgrPc = "lower" /\ simPc = "raise"
  /\ gate = "O" => mgrPc = "lower"
  /\ mgrPc = "close" => gate \in {"L", "C"}
  /\ mgrPc = "close" /\ gate = "C" => simPc \in {"pop", "plate"}
  /\ mgrPc \in {"bill", "delete", "release"} => simPc \in {"pop", "plate"}
  /\ gate = "L" => mgrPc = "close"
  /\ mgrPc \in {"raise", "lower"} \/ gate # "C" => found = car
  /\ HoldsLPR(mgrPc) => plate = found
  /\ HoldsLPR(mgrPc) /\ mgrPc # "release" => found \in listed
  /\ unpaid = IF Out THEN {found} ELSE {}
  /\ Out \/ mgrPc = "delete" => found \notin inside

Handshake == Sound => InStep

\* Every car in the car park is in the manager's car list until it is out and
\* billed, so exit_lpr never looks for a vehicle that is not there.  That is
\* what one exit keeps of a list nobody else damages; CarPark has the rest.
InsideIsListed == Sound => inside \subseteq listed /\ mgrPc # "crashed"

\* exit_lpr finds the car's vehicle, the plate in the LPR stays that car's while
\* it works on it, however soon the simulator brings the next one, and when the
\* bill is written the car it is for has left, has not been billed, and the gate
\* is shut again: the car it bills is the car it deletes (exit_lpr, trig_LPR, money).
BillsTheDeparted ==
  /\ InsideIsListed
  /\ Sound /\ HoldsLPR(mgrPc) => plate = found
  /\ Sound /\ mgrPc = "bill" => unpaid = {found} /\ gate = "C"

\* The gate is never shut on a car that is driving out, whatever wakes the
\* threads.
GateOpenOverCar == simPc \in {"drive", "lower"} => gate \in {"O", "L"}

\* A car at the exit's LPR gets out, unless a wake-up is lost or spurious; and
\* once a car is out its bill follows, whether or not wake-ups get lost.
EveryCarLeaves ==
  /\ simPc = "plate" ~> simPc = "pop" \/ lapses # {}
  /\ unpaid # {} ~> unpaid = {} \/ ~Sound

\* Where a thread is not waiting for the other one.
SimCanMove == \/ simPc = "plate" /\ ~HoldsLPR(mgrPc)
              \/ simPc \in {"ring", "drive"}
              \/ simPc \in {"raise", "lower"} /\ gate \in {"R", "L"}
MgrCanMove == \/ mgrPc \in {"arm", "woken", "raise", "bill", "delete", "release"}
              \/ mgrPc = "lower" /\ gate = "O"
              \/ mgrPc = "close" /\ gate = "C"

\* How far the two are from the end of the car's service.
SimWay == [pop |-> 0, lower |-> 1, drive |-> 2, raise |-> 3, ring |-> 4, plate |-> 5]
MgrWay == [atLPR |-> 0, crashed |-> 0, arm |-> 1, release |-> 2, delete |-> 3, bill |-> 4,
           close |-> 5, lower |-> 6, raise |-> 7, woken |-> 8]
Way == 9 * SimWay[simPc] + MgrWay[mgrPc]

\* The threads' waits for each other (exit_lpr with the LPR's mutex, m_sim_gates,
\* thf_exit, sim_gates) never close to a circle, and no loop of theirs goes round
\* without getting on: until a wake-up is lost or spurious, one of them can move
\* unless the lane is at rest, and each of their steps brings a car's service
\* nearer its end.
ServiceGetsOn ==
  /\ [](lapses = {} => \/ simPc = "pop" /\ mgrPc = "atLPR"
                       \/ SimCanMove \/ MgrCanMove)
  /\ [][Sound' => \/ Way' < Way \/ UNCHANGED <<simPc, mgrPc>>
                  \/ simPc = "pop" /\ simPc' = "plate"]_vars

-----------------------------------------------------------------------------

Departure == INSTANCE DepartureLane WITH known <- listed

\* The two threads together do what DepartureLane promises, for as long as no
\* thread is woken by nobody.
ImplementsDeparture ==
  /\ Departure!Init
  /\ [][Sound' => [Departure!Next]_(Departure!vars)]_vars
=============================================================================
