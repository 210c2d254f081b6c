---------------------------- MODULE EntranceLane ----------------------------
(***************************************************************************)
(* One entrance: the simulator's thread for it (thf_entr, simulator.c) and *)
(* the manager's (entrance_lpr, manager.c), which meet only in the shared  *)
(* memory of the entrance: the plate in the LPR, the sign's character and  *)
(* the gate's status, each with a mutex and a condition variable.          *)
(*                                                                         *)
(* The two waits on the LPR and on the sign are pthread_cond_wait calls    *)
(* with no predicate: a broadcast that finds nobody waiting is lost (only  *)
(* short sleeps make that unlikely), and a wait may return by itself.  So  *)
(* "is waiting" is a program point of its own, a broadcast moves the       *)
(* waiter, if there is one, to the next point, and lapses records whether  *)
(* a wake-up was lost or came from nowhere.  The gate's waits do loop over *)
(* the status, which changes under the gate's mutex and is always followed *)
(* by a broadcast; they are guards here.                                   *)
(*                                                                         *)
(* A critical section without a wait inside is one step.  A broadcast      *)
(* after the unlock is a step of its own.                                  *)
(***************************************************************************)
EXTENDS Integers

CONSTANTS Cars,      \* the cars the creator thread can produce
          Allowed,   \* those whose plates are in plates.txt
          LEVELS,    \* number of levels (PARKING.h)
          ENTRANCES, \* number of entrances (PARKING.h)
          NoCar      \* no car yet: an empty plate, an unset variable

(***************************************************************************)
(* The sign shows a character: '1' for level 0 and so on, 'F' or 'X'.  The *)
(* simulator takes a digit in 1..ENTRANCES for a level, so the levels must *)
(* not outnumber the entrances, and 'F' must not be such a digit.          *)
(***************************************************************************)
Digit0 == 48
CharF  == 70
CharX  == 88

ASSUME LaneAssumption ==
  /\ Allowed \subseteq Cars
  /\ NoCar \notin Cars
  /\ LEVELS \in Nat /\ ENTRANCES \in Nat
  /\ 1 <= LEVELS /\ LEVELS <= ENTRANCES
  /\ ENTRANCES <= CharF - Digit0 - 1

Levels == 0 .. LEVELS - 1

VARIABLES simPc,    \* where thf_entr is
          car,      \* thf_entr: popped_car
          lvl,      \* thf_entr: assigned_lvl
          inside,   \* inside_list, as pairs <<car, car->lvl>>
          mgrPc,    \* where entrance_lpr is
          holder,   \* entrance_lpr: the plate it copied
          assigned, \* entrance_lpr: assign_level, as a number
          plate,    \* shared: LPR.plate
          display,  \* shared: screen.display, a character code
          gate,     \* shared: gate.status
          lapses    \* history: which of Lapses the wake-ups have had

simVars == <<simPc, car, lvl, inside>>
mgrVars == <<mgrPc, holder, assigned>>
vars == <<simVars, mgrVars, plate, display, gate, lapses>>

\* A broadcast that nobody was waiting for; a wait that returned by itself.
Lapses == {"lost", "spurious"}

SimPoints == {"pop", "plate", "ring", "toScreen", "atScreen", "woken",
              "raise", "drive", "lower"}
MgrPoints == {"arm", "atLPR", "woken", "judge", "showLevel", "tellLevel",
              "showFull", "showBanned", "tellNo", "raise", "lower", "close"}
GateStates == {"C", "R", "O", "L"}

Init ==
  /\ simPc = "pop" /\ car = NoCar /\ lvl = 0 /\ inside = {}
  /\ mgrPc = "arm" /\ holder = NoCar /\ assigned = 0
  /\ plate = NoCar /\ display = 0 /\ gate = "C" /\ lapses = {}

-----------------------------------------------------------------------------
(* The simulator's thread.                                                 *)

\* The creator never produces a plate that is already in the simulation.
InsideCars == {p[1] : p \in inside}

SimPop(c) ==
  /\ simPc = "pop"
  /\ c \notin InsideCars
  /\ car' = c
  /\ simPc' = "plate"
  /\ UNCHANGED <<lvl, inside, mgrVars, plate, display, gate, lapses>>

SimWritePlate ==
  /\ simPc = "plate"
  /\ plate' = car
  /\ simPc' = "ring"
  /\ UNCHANGED <<car, lvl, inside, mgrVars, display, gate, lapses>>

\* trig_LPR broadcasts after the unlock.  The 2 ms sleep before it is all
\* that makes the manager's thread likely to wait by then.
SimRingLPR ==
  /\ simPc = "ring"
  /\ mgrPc' = IF mgrPc = "atLPR" THEN "woken" ELSE mgrPc
  /\ lapses' = IF mgrPc = "atLPR" THEN lapses ELSE lapses \cup {"lost"}
  /\ simPc' = "toScreen"
  /\ UNCHANGED <<car, lvl, inside, holder, assigned, plate, display, gate>>

SimWatchScreen ==
  /\ simPc = "toScreen"
  /\ simPc' = "atScreen"
  /\ UNCHANGED <<car, lvl, inside, mgrVars, plate, display, gate, lapses>>

ShownLevel(ch) == ch - Digit0 - 1

\* A character that is no level sends the car out of the simulation
\* (destroy_car).
SimReadScreen ==
  /\ simPc = "woken"
  /\ lvl' = ShownLevel(display)
  /\ simPc' = IF lvl' \in 0 .. ENTRANCES - 1 THEN "raise" ELSE "pop"
  /\ UNCHANGED <<car, inside, mgrVars, plate, display, gate, lapses>>

\* sim_gates, called until the gate has the status the caller wants.
SimGates(at, wanted, then) ==
  /\ simPc = at
  /\ gate \in {"R", "L"}
  /\ gate' = IF gate = "L" THEN "C" ELSE "O"
  /\ simPc' = IF gate' = wanted THEN then ELSE at
  /\ UNCHANGED <<car, lvl, inside, mgrVars, plate, display, lapses>>

SimRaise == SimGates("raise", "O", "drive")

\* Mutant: the car parks and nobody waits for the gate to close.
SimParkAndGo ==
  /\ simPc = "drive"
  /\ inside' = inside \cup {<<car, lvl>>}
  /\ simPc' = "pop"
  /\ UNCHANGED <<car, lvl, mgrVars, plate, display, gate, lapses>>

\* The car drives to its level, whose LPR it sets off (see CarPark), and
\* joins inside_list.
SimPark ==
  /\ simPc = "drive"
  /\ inside' = inside \cup {<<car, lvl>>}
  /\ simPc' = "lower"
  /\ UNCHANGED <<car, lvl, mgrVars, plate, display, gate, lapses>>

SimLower == SimGates("lower", "C", "pop")

\* thf_inside and thf_exit take a car away again.
SimLeave(p) ==
  /\ inside' = inside \ {p}
  /\ UNCHANGED <<simPc, car, lvl, mgrVars, plate, display, gate, lapses>>

-----------------------------------------------------------------------------
(* The manager's thread.                                                   *)

\* Lock the LPR and wait for a car.
MgrArm ==
  /\ mgrPc = "arm"
  /\ mgrPc' = "atLPR"
  /\ UNCHANGED <<simVars, holder, assigned, plate, display, gate, lapses>>

MgrReadPlate ==
  /\ mgrPc = "woken"
  /\ holder' = plate
  /\ mgrPc' = "judge"
  /\ UNCHANGED <<simVars, assigned, plate, display, gate, lapses>>

\* Mutant: the plate is not looked up in plates.txt.
MgrAdmitAnyone(l) ==
  /\ mgrPc = "judge"
  /\ assigned' = l
  /\ mgrPc' = "showLevel"
  /\ UNCHANGED <<simVars, holder, plate, display, gate, lapses>>

\* search_plate, node_find_lp and the count of cars decide.  The car list
\* and the count belong to all entrances (module CarPark); from here an
\* allowed car may be admitted to any level, or find the car park full, or
\* its plate already in the list.
MgrAdmit(l) ==
  /\ mgrPc = "judge"
  /\ holder \in Allowed
  /\ assigned' = l
  /\ mgrPc' = "showLevel"
  /\ UNCHANGED <<simVars, holder, plate, display, gate, lapses>>

MgrFull ==
  /\ mgrPc = "judge"
  /\ holder \in Allowed
  /\ mgrPc' = "showFull"
  /\ UNCHANGED <<simVars, holder, assigned, plate, display, gate, lapses>>

MgrBan ==
  /\ mgrPc = "judge"
  /\ mgrPc' = "showBanned"
  /\ UNCHANGED <<simVars, holder, assigned, plate, display, gate, lapses>>

\* Mutant: the level's digit without the + 1.
LevelCharFromZero(l) == l + Digit0

LevelChar(l) == l + Digit0 + 1

MgrShow(from, ch, then) ==
  /\ mgrPc = from
  /\ display' = ch
  /\ mgrPc' = then
  /\ UNCHANGED <<simVars, holder, assigned, plate, gate, lapses>>

MgrShowLevel  == MgrShow("showLevel", LevelChar(assigned), "tellLevel")
MgrShowFull   == MgrShow("showFull", CharF, "tellNo")
MgrShowBanned == MgrShow("showBanned", CharX, "tellNo")

\* Mutant: the broadcast on the sign is missing.
MgrTellNobody(from, then) ==
  /\ mgrPc = from
  /\ mgrPc' = then
  /\ UNCHANGED <<simVars, holder, assigned, plate, display, gate, lapses>>

\* The broadcast (or signal: one thread at most waits) on the sign.
MgrTell(from, then) ==
  /\ mgrPc = from
  /\ simPc' = IF simPc = "atScreen" THEN "woken" ELSE simPc
  /\ lapses' = IF simPc = "atScreen" THEN lapses ELSE lapses \cup {"lost"}
  /\ mgrPc' = then
  /\ UNCHANGED <<car, lvl, inside, holder, assigned, plate, display, gate>>

\* Between the two, node_add puts the vehicle in the car list (CarPark).
MgrTellLevel == MgrTell("tellLevel", "raise")

MgrTellNo    == MgrTell("tellNo", "arm")

\* m_sim_gates: raise a closed gate, leave any other alone.
MgrRaise ==
  /\ mgrPc = "raise"
  /\ gate' = IF gate = "C" THEN "R" ELSE gate
  /\ mgrPc' = IF gate = "C" THEN "lower" ELSE "arm"
  /\ UNCHANGED <<simVars, holder, assigned, plate, display, lapses>>

\* Mutant: the manager closes the gate itself.
MgrSlam ==
  /\ mgrPc = "lower"
  /\ gate = "O"
  /\ gate' = "C"
  /\ mgrPc' = "close"
  /\ UNCHANGED <<simVars, holder, assigned, plate, display, lapses>>

MgrLower ==
  /\ mgrPc = "lower"
  /\ gate = "O"
  /\ gate' = "L"
  /\ mgrPc' = "close"
  /\ UNCHANGED <<simVars, holder, assigned, plate, display, lapses>>

MgrSeeClosed ==
  /\ mgrPc = "close"
  /\ gate = "C"
  /\ mgrPc' = "arm"
  /\ UNCHANGED <<simVars, holder, assigned, plate, display, gate, lapses>>

-----------------------------------------------------------------------------

MgrWakes ==
  /\ mgrPc = "atLPR"
  /\ mgrPc' = "woken"
  /\ lapses' = lapses \cup {"spurious"}
  /\ UNCHANGED <<simVars, holder, assigned, plate, display, gate>>

SimWakes ==
  /\ simPc = "atScreen"
  /\ simPc' = "woken"
  /\ lapses' = lapses \cup {"spurious"}
  /\ UNCHANGED <<car, lvl, inside, mgrVars, plate, display, gate>>

SimStep ==
  \/ SimWritePlate \/ SimRingLPR \/ SimWatchScreen \/ SimReadScreen
  \/ SimRaise \/ SimPark \/ SimLower

MgrStep ==
  \/ MgrArm \/ MgrReadPlate
  \/ \E l \in Levels : MgrAdmit(l)
  \/ MgrFull \/ MgrBan
  \/ MgrShowLevel \/ MgrShowFull \/ MgrShowBanned
  \/ MgrTellLevel \/ MgrTellNo
  \/ MgrRaise \/ MgrLower \/ MgrSeeClosed

Next ==
  \/ \E c \in Cars : SimPop(c)
  \/ SimStep
  \/ \E p \in inside : SimLeave(p)
  \/ MgrStep
  \/ MgrWakes
  \/ SimWakes

Spec == Init /\ [][Next]_vars

\* Both threads run on; nothing makes cars arrive or leave.
FairSpec == Spec /\ WF_vars(SimStep) /\ WF_vars(MgrStep)

-----------------------------------------------------------------------------

TypeOK ==
  /\ simPc \in SimPoints
  /\ car \in Cars \cup {NoCar}
  /\ simPc # "pop" => car \in Cars
  /\ lvl \in Int
  /\ inside \subseteq Cars \X Int
  /\ mgrPc \in MgrPoints
  /\ holder \in Cars \cup {NoCar}
  /\ assigned \in Levels
  /\ plate \in Cars \cup {NoCar}
  /\ display \in Int
  /\ gate \in GateStates
  /\ lapses \subseteq Lapses

\* No thread has been woken by nobody.
Sound == "spurious" \notin lapses

\* Between the gate's opening and the car's parking the gate is up or on its
\* way down, never shut: only the thread that drives the car shuts it, and
\* only after the car has parked (thf_entr, m_sim_gates).  That survives lost
\* and spurious wake-ups.
GateOpenOverCar == simPc \in {"drive", "lower"} => gate \in {"O", "L"}

\* Which points the two threads can be at together, and what passes between
\* them: the plate while the manager reads it, the sign while the simulator
\* does, the gate while both move it (entrance_lpr, thf_entr, sim_gates).  A
\* lost wake-up does not bring them out of step, only a spurious one does.
OnSign == simPc \in {"toScreen", "atScreen"}
Deciding == mgrPc \in {"woken", "judge", "showLevel", "tellLevel", "showFull",
                      "showBanned", "tellNo"}

InStep ==
  /\ simPc \in {"pop", "plate", "ring"} =>
        gate = "C" /\ mgrPc \in {"arm", "atLPR", "close"}
  /\ simPc = "ring" \/ mgrPc = "woken" => plate = car
  /\ simPc = "woken" => \/ mgrPc \in {"raise", "lower"}
                        \/ mgrPc \in {"arm", "atLPR"} /\ display \in {CharF, CharX}
  /\ simPc = "raise" => mgrPc \in {"raise", "lower"} /\ lvl = assigned
  /\ simPc \in {"drive", "lower"} =>
        gate \in {"O", "L"} /\ lvl = assigned
  /\ Deciding => OnSign /\ gate = "C"
  /\ mgrPc \in {"judge", "showLevel", "tellLevel", "raise", "lower"} => holder = car
  /\ mgrPc \in {"showLevel", "tellLevel", "raise", "lower"} => holder \in Allowed
  /\ mgrPc \in {"tellLevel", "raise", "lower"} => display = LevelChar(assigned)
  /\ mgrPc = "tellNo" => display \in {CharF, CharX}
  /\ mgrPc = "raise" => gate = "C" /\ (OnSign \/ simPc \in {"woken", "raise"})
  /\ mgrPc = "lower" => \/ gate = "R" /\ (OnSign \/ simPc \in {"woken", "raise"})
                        \/ gate = "O" /\ simPc \in {"drive", "lower"}
  /\ gate = "L" => /\ mgrPc = "close" /\ simPc \in {"drive", "lower"}
                   /\ holder = car /\ car \in Allowed
  /\ gate # "C" => mgrPc \in {"lower", "close"}
  /\ mgrPc = "close" => gate \in {"L", "C"}

Handshake == Sound => InStep

\* A car that has been told to come in is the one the manager looked up and
\* admitted, its plate is on the list, and it heads for the level the manager
\* assigned to it; and while the gate is not shut, the manager is in m_sim_gates
\* for the car the simulator is bringing in.  The sign, the plate and the gate
\* cannot belong to the car before it (entrance_lpr, thf_entr).
OnlyAdmittedCarPasses ==
  Sound =>
    /\ simPc \in {"raise", "drive", "lower"} =>
         car = holder /\ car \in Allowed /\ lvl = assigned
    /\ gate # "C" =>
         /\ mgrPc \in {"lower", "close"} /\ holder = car
         /\ simPc \notin {"pop", "plate", "ring"}

\* A car put at the LPR is dealt with: turned away, or in with the gate shut
\* behind it, and the lane takes the next one; and a gate that was raised comes
\* down again ("the job of automatically closing the boom gates ... is up to the
\* manager", manager.h).  Nothing but a lost or a spurious wake-up can keep them
\* from that.
EveryCarServed ==
  /\ simPc = "plate" ~> simPc = "pop" \/ lapses # {}
  /\ gate # "C" ~> gate = "C" \/ lapses # {}

\* Where a thread is not waiting for the other one.
SimCanMove == \/ simPc \in {"plate", "ring", "toScreen", "woken", "drive"}
              \/ simPc \in {"raise", "lower"} /\ gate \in {"R", "L"}
MgrCanMove == \/ mgrPc \notin {"atLPR", "lower", "close"}
              \/ mgrPc = "lower" /\ gate = "O"
              \/ mgrPc = "close" /\ gate = "C"

\* How far the two are from the end of the car's service.
SimWay == [pop |-> 0, lower |-> 1, drive |-> 2, raise |-> 3, woken |-> 4,
           atScreen |-> 5, toScreen |-> 6, ring |-> 7, plate |-> 8]
MgrWay == [atLPR |-> 0, arm |-> 1, close |-> 2, lower |-> 3, raise |-> 4,
           tellLevel |-> 5, tellNo |-> 5, showLevel |-> 6, showFull |-> 6,
           showBanned |-> 6, judge |-> 7, woken |-> 8]
Way == 9 * SimWay[simPc] + MgrWay[mgrPc]

\* The threads' waits for each other (entrance_lpr, m_sim_gates, thf_entr,
\* sim_gates) never close to a circle, and no loop of theirs goes round without
\* getting on: until a wake-up is lost or spurious, one of them can move unless the
\* lane is at rest, and each of their steps brings a car's service nearer its end.
ServiceGetsOn ==
  /\ [](lapses = {} => \/ simPc = "pop" /\ mgrPc = "atLPR"
                       \/ SimCanMove \/ MgrCanMove)
  /\ [][Sound' => \/ Way' < Way \/ UNCHANGED <<simPc, mgrPc>>
                  \/ simPc = "pop" /\ simPc' = "plate"]_vars

-----------------------------------------------------------------------------
(* The lane as AdmissionLane sees it: a car asks from the moment it is     *)
(* popped until it parks or is sent away, and is admitted from the         *)
(* manager's decision on.                                                  *)

AdmittedNow ==
  \/ mgrPc \in {"showLevel", "tellLevel", "raise", "lower"}
  \/ mgrPc = "close" /\ gate # "C"

askingBar == IF simPc \in {"pop", "lower"} THEN NoCar ELSE car
verdictBar == IF simPc \notin {"pop", "lower"} /\ AdmittedNow THEN assigned ELSE -1

\* AdmissionLane's only lane.
Lane == "lane"

Admission == INSTANCE AdmissionLane
               WITH Lanes <- {Lane}, asking <- [e \in {Lane} |-> askingBar],
                    verdict <- [e \in {Lane} |-> verdictBar], parked <- inside

\* The two threads together do what AdmissionLane promises, for as long as no
\* thread is woken by nobody.
ImplementsAdmission ==
  /\ Admission!Init
  /\ [][Sound' => [Admission!Next]_(Admission!vars)]_vars
=============================================================================
