-------------------------- MODULE ExitLane_proofs --------------------------
(***************************************************************************)
(* Proofs about ExitLane for any cars.  As at an entrance, the gate is     *)
(* never shut on a car whatever wakes the threads, and the rest holds      *)
(* until a pthread_cond_wait returns by itself.                            *)
(***************************************************************************)
EXTENDS ExitLane, TLAPS

LEMMA TypeInit == Init => TypeOK
BY DEF Init, TypeOK, SimPoints, MgrPoints, GateStates, Lapses

LEMMA TypeStep == TypeOK /\ [Next]_vars => TypeOK'
<1> SUFFICES ASSUME TypeOK, [Next]_vars
             PROVE  TypeOK'
  OBVIOUS
<1> USE ExitAssumption
    DEF TypeOK, SimPoints, MgrPoints, GateStates, Lapses, simVars, mgrVars
<1>1. ASSUME NEW c \in Cars, CarEnters(c) PROVE TypeOK'
  BY <1>1 DEF CarEnters
<1>2. ASSUME NEW c \in inside, SimPop(c) PROVE TypeOK'
  BY <1>2 DEF SimPop
<1>3. CASE SimStep
  BY <1>3 DEF SimStep, SimWritePlate, SimRingLPR, SimRaise, SimDestroyCar,
     SimLower, SimGates
<1>4. CASE MgrStep
  BY <1>4 DEF MgrStep, MgrArm, MgrCountOut, MgrRaise, MgrLower, MgrSeeClosed,
     MgrBill, MgrDelete, MgrRelease
<1> QED
  BY <1>1, <1>2, <1>3, <1>4 DEF Next, MgrWakes, vars

\* Every variable keeps its type, whatever wakes the threads.
THEOREM TypeCorrect == Spec => []TypeOK
BY TypeInit, TypeStep, PTL DEF Spec

\* The gate is never shut on a car that drives out, whatever wakes the
\* threads.
THEOREM GateNeverShutOnCar == Spec => []GateOpenOverCar
<1>1. Init => GateOpenOverCar
  BY DEF Init, GateOpenOverCar
<1>2. TypeOK /\ GateOpenOverCar /\ [Next]_vars => GateOpenOverCar'
  BY DEF TypeOK, GateOpenOverCar, Next, vars, simVars, mgrVars, CarEnters,
     SimPop, SimStep, SimWritePlate, SimRingLPR, SimRaise, SimDestroyCar,
     SimLower, SimGates, MgrStep, MgrArm, MgrCountOut, MgrRaise, MgrLower,
     MgrSeeClosed, MgrBill, MgrDelete, MgrRelease, MgrWakes
<1> QED
  BY <1>1, <1>2, TypeInit, TypeStep, PTL DEF Spec

-----------------------------------------------------------------------------
(* As long as no wake-up is spurious.                                      *)

Good == InStep /\ inside \subseteq listed /\ mgrPc # "crashed"

IInv == TypeOK /\ Handshake /\ InsideIsListed

LEMMA InvInit == Init => Handshake /\ InsideIsListed
BY DEF Init, Handshake, InStep, Out, HoldsLPR, InsideIsListed

\* What has gone wrong stays on record.
LEMMA LapsesGrow ==
  ASSUME [Next]_vars
  PROVE  lapses \subseteq lapses'
BY DEF Next, vars, simVars, mgrVars, CarEnters,
     SimPop, SimStep, SimWritePlate, SimRingLPR, SimRaise, SimDestroyCar,
     SimLower, SimGates, MgrStep, MgrArm, MgrCountOut, MgrRaise, MgrLower,
     MgrSeeClosed, MgrBill, MgrDelete, MgrRelease, MgrWakes

LEMMA LapsesStay == [Next]_vars => (Sound' => Sound)
BY LapsesGrow DEF Sound

LEMMA InvStep ==
  ASSUME IInv, [Next]_vars
  PROVE  Handshake' /\ InsideIsListed'
<1> SUFFICES ASSUME Sound' PROVE Good'
  BY DEF Good, Handshake, InsideIsListed
<1>0. TypeOK /\ Good
  BY LapsesStay DEF IInv, Good, Handshake, InsideIsListed
<1> USE <1>0, ExitAssumption DEF TypeOK, SimPoints, MgrPoints, GateStates,
        Good, InStep, Out, HoldsLPR, simVars, mgrVars
<1>1. ASSUME NEW c \in Cars, CarEnters(c) PROVE Good'
  BY <1>1 DEF CarEnters
<1>2. ASSUME NEW c \in inside, SimPop(c) PROVE Good'
  BY <1>2 DEF SimPop
<1>3. CASE SimWritePlate
  BY <1>3 DEF SimWritePlate
<1>4. CASE SimRingLPR
  BY <1>4 DEF SimRingLPR
<1>5. CASE SimRaise
  BY <1>5 DEF SimGates, SimRaise
<1>6. CASE SimDestroyCar
  BY <1>6 DEF SimDestroyCar
<1>7. CASE SimLower
  BY <1>7 DEF SimGates, SimLower
<1>8. CASE MgrArm
  BY <1>8 DEF MgrArm
<1>9. CASE MgrCountOut
  BY <1>9 DEF MgrCountOut
<1>10. CASE MgrRaise
  BY <1>10 DEF MgrRaise
<1>11. CASE MgrLower
  BY <1>11 DEF MgrLower
<1>12. CASE MgrSeeClosed
  BY <1>12 DEF MgrSeeClosed
<1>13. CASE MgrBill
  BY <1>13 DEF MgrBill
<1>14. CASE MgrDelete
  BY <1>14 DEF MgrDelete
<1>15. CASE MgrRelease
  BY <1>15 DEF MgrRelease
<1> QED
  BY <1>1, <1>2, <1>3, <1>4, <1>5, <1>6, <1>7, <1>8, <1>9, <1>10, <1>11, <1>12, <1>13, <1>14, <1>15
  DEF Next, SimStep, MgrStep, MgrWakes, Sound, vars

LEMMA Invariance == Spec => []IInv
<1>1. Init => IInv
  BY TypeInit, InvInit DEF IInv
<1>2. IInv /\ [Next]_vars => IInv'
  BY TypeStep, InvStep DEF IInv
<1> QED
  BY <1>1, <1>2, PTL DEF Spec

\* The two threads keep in step as long as only broadcasts wake them, even if
\* some broadcasts are lost.
THEOREM ThreadsInStep == Spec => []Handshake
<1>1. IInv => Handshake
  BY DEF IInv
<1> QED
  BY <1>1, Invariance, PTL

\* exit_lpr finds the car's vehicle, bills and deletes that car and no other, and
\* bills it once, after it has left and the gate is shut.
THEOREM BillFollowsDeparture == Spec => []BillsTheDeparted
<1>1. IInv => BillsTheDeparted
  BY DEF IInv, TypeOK, GateStates, Handshake, InStep, Out, BillsTheDeparted
<1> QED
  BY <1>1, Invariance, PTL

-----------------------------------------------------------------------------
(* The two threads never wait for each other in a circle.                  *)

\* Before the first lapse, a car at the shut gate has its manager at work on it.
LookedAfter ==
  lapses = {} /\ simPc = "raise" => mgrPc \in {"woken", "raise", "lower"}

LEMMA LookedAfterStep ==
  ASSUME IInv, LookedAfter, [Next]_vars
  PROVE  LookedAfter'
<1> SUFFICES ASSUME lapses' = {}, simPc' = "raise"
             PROVE  mgrPc' \in {"woken", "raise", "lower"}
  BY DEF LookedAfter
<1>0. lapses = {}
  BY LapsesGrow
<1>1. TypeOK /\ Good
  BY <1>0 DEF IInv, Good, Handshake, InsideIsListed, Sound
<1> USE <1>0 DEF simVars, mgrVars
<1>2. CASE SimStep
  BY <1>2 DEF LookedAfter, SimStep, SimWritePlate, SimRingLPR, SimRaise,
     SimDestroyCar, SimLower, SimGates
<1>3. CASE MgrStep
  BY <1>1, <1>3 DEF LookedAfter, Good, InStep, TypeOK, MgrStep, MgrArm, MgrCountOut,
     MgrRaise, MgrLower, MgrSeeClosed, MgrBill, MgrDelete, MgrRelease
<1>4. CASE (\E c \in Cars : CarEnters(c)) \/ (\E c \in inside : SimPop(c))
  BY <1>4 DEF LookedAfter, CarEnters, SimPop
<1>5. CASE UNCHANGED vars
  BY <1>5 DEF LookedAfter, vars
<1> QED
  BY <1>2, <1>3, <1>4, <1>5 DEF Next, MgrWakes

\* One of the threads can move.
LEMMA SomebodyMoves ==
  ASSUME IInv, LookedAfter, lapses = {}
  PROVE  \/ simPc = "pop" /\ mgrPc = "atLPR"
         \/ SimCanMove \/ MgrCanMove
<1>0. TypeOK /\ Good
  BY DEF IInv, Good, Handshake, InsideIsListed, Sound
<1> USE <1>0 DEF TypeOK, Good, InStep, SimPoints, MgrPoints, GateStates
<1>1. CASE simPc \in {"ring", "drive"}
  BY <1>1 DEF SimCanMove
<1>2. CASE simPc = "plate"
  BY <1>2 DEF SimCanMove, MgrCanMove, HoldsLPR
<1>3. CASE simPc = "raise"
  BY <1>3 DEF LookedAfter, SimCanMove, MgrCanMove
<1>4. CASE simPc = "lower"
  BY <1>4 DEF SimCanMove, MgrCanMove
<1>5. CASE simPc = "pop"
  BY <1>5 DEF MgrCanMove
<1> QED
  BY <1>1, <1>2, <1>3, <1>4, <1>5

LEMMA WayDown ==
  ASSUME TypeOK, [Next]_vars, Sound'
  PROVE  \/ Way' < Way \/ UNCHANGED <<simPc, mgrPc>>
         \/ simPc = "pop" /\ simPc' = "plate"
<1> USE DEF TypeOK, simVars, mgrVars, Way, SimWay, MgrWay
<1>1. CASE \E c \in inside : SimPop(c)
  BY <1>1 DEF SimPop
<1>2. CASE SimWritePlate
  BY <1>2 DEF SimWritePlate, MgrPoints
<1>3. CASE SimRingLPR
  BY <1>3 DEF SimRingLPR, MgrPoints
<1>4. CASE SimRaise
  BY <1>4 DEF SimRaise, SimGates, MgrPoints
<1>5. CASE SimDestroyCar
  BY <1>5 DEF SimDestroyCar, MgrPoints
<1>6. CASE SimLower
  BY <1>6 DEF SimLower, SimGates, MgrPoints
<1>7. CASE MgrArm \/ MgrCountOut
  BY <1>7 DEF MgrArm, MgrCountOut, SimPoints
<1>8. CASE MgrRaise
  BY <1>8 DEF MgrRaise, SimPoints
<1>9. CASE MgrLower \/ MgrSeeClosed
  BY <1>9 DEF MgrLower, MgrSeeClosed, SimPoints
<1>10. CASE MgrBill \/ MgrDelete \/ MgrRelease
  BY <1>10 DEF MgrBill, MgrDelete, MgrRelease, SimPoints
<1>11. CASE \E c \in Cars : CarEnters(c)
  BY <1>11 DEF CarEnters
<1>12. CASE UNCHANGED vars
  BY <1>12 DEF vars
<1> QED
  BY <1>1, <1>2, <1>3, <1>4, <1>5, <1>6, <1>7, <1>8, <1>9, <1>10, <1>11, <1>12
  DEF Next, SimStep, MgrStep, MgrWakes, Sound

\* Until a wake-up goes astray, a lane with a car in it can always take a step, and
\* no sequence of its steps comes round: exit_lpr, which keeps the LPR's mutex while
\* it waits for the gate, and thf_exit do not deadlock.
THEOREM ServiceAdvances == Spec => ServiceGetsOn
<1>1. Init => LookedAfter
  BY DEF Init, LookedAfter
<1>2. IInv /\ LookedAfter /\ [Next]_vars => LookedAfter'
  BY LookedAfterStep
<1>3. IInv /\ LookedAfter
        => (lapses = {} => \/ simPc = "pop" /\ mgrPc = "atLPR"
                           \/ SimCanMove \/ MgrCanMove)
  BY SomebodyMoves
<1>4. IInv /\ [Next]_vars
        => [Sound' => \/ Way' < Way \/ UNCHANGED <<simPc, mgrPc>>
                      \/ simPc = "pop" /\ simPc' = "plate"]_vars
  BY WayDown DEF IInv
<1> QED
  BY <1>1, <1>2, <1>3, <1>4, Invariance, PTL DEF Spec, ServiceGetsOn

\* The two threads implement DepartureLane as long as no wake-up is spurious.
THEOREM Refinement == Spec => ImplementsDeparture
<1>1. Init => Departure!Init
  BY DEF Init, Departure!Init
<1>2. IInv /\ [Next]_vars
        => [Sound' => [Departure!Next]_(Departure!vars)]_vars
  <2> SUFFICES ASSUME IInv, [Next]_vars, Sound'
               PROVE  [Departure!Next]_(Departure!vars)
    OBVIOUS
  <2>0. TypeOK /\ Good
    BY LapsesStay DEF IInv, Good, Handshake, InsideIsListed
  <2> USE <2>0 DEF TypeOK, Good, InStep, Out, HoldsLPR, simVars, mgrVars,
          Departure!vars
  <2>1. ASSUME NEW c \in Cars, CarEnters(c) PROVE Departure!Next
    BY <2>1 DEF CarEnters, Departure!Next, Departure!Enter
  <2>2. CASE SimDestroyCar
    BY <2>2 DEF SimDestroyCar, Departure!Next, Departure!Depart
  <2>3. CASE MgrBill
    BY <2>3 DEF MgrBill, Departure!Next, Departure!Bill
  <2>4. CASE MgrDelete
    BY <2>4 DEF MgrDelete, Departure!Next, Departure!Forget
  <2> QED
    BY <2>1, <2>2, <2>3, <2>4 DEF Next, SimPop, SimStep, SimWritePlate,
       SimRingLPR, SimRaise, SimLower, SimGates, MgrStep, MgrArm, MgrCountOut,
       MgrRaise, MgrLower, MgrSeeClosed, MgrRelease, MgrWakes, Sound, vars
<1> QED
  BY <1>1, <1>2, Invariance, PTL DEF Spec, ImplementsDeparture
=============================================================================
