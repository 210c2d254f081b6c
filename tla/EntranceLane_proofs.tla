------------------------ MODULE EntranceLane_proofs ------------------------
(***************************************************************************)
(* Proofs about EntranceLane for any cars, levels and entrances.  That the *)
(* gate is never shut over a car needs nothing but the two threads' own    *)
(* steps.  That a car obeys its own verdict, and no other car's, holds     *)
(* until a pthread_cond_wait returns by itself: a wake-up that comes from  *)
(* nowhere lets a thread read what was left there for another car.         *)
(***************************************************************************)
EXTENDS EntranceLane, TLAPS

LEMMA TypeInit == Init => TypeOK
BY LaneAssumption
DEF Init, TypeOK, SimPoints, MgrPoints, GateStates, Levels, Lapses

LEMMA TypeStep == TypeOK /\ [Next]_vars => TypeOK'
<1> SUFFICES ASSUME TypeOK, [Next]_vars
             PROVE  TypeOK'
  OBVIOUS
<1> USE LaneAssumption
    DEF TypeOK, SimPoints, MgrPoints, GateStates, Lapses, simVars, mgrVars
<1>1. ASSUME NEW c \in Cars, SimPop(c) PROVE TypeOK'
  BY <1>1 DEF SimPop
<1>2. CASE SimStep
  <2>1. CASE SimReadScreen
    <3>1. lvl' \in Int
      BY <2>1 DEF SimReadScreen, ShownLevel, Digit0
    <3> QED
      BY <2>1, <3>1 DEF SimReadScreen
  <2>2. CASE SimRaise \/ SimLower
    BY <2>2 DEF SimRaise, SimLower, SimGates
  <2>3. CASE SimPark
    <3>1. inside' \subseteq Cars \X Int
      BY <2>3 DEF SimPark
    <3> QED
      BY <2>3, <3>1 DEF SimPark
  <2> QED
    BY <1>2, <2>1, <2>2, <2>3 DEF SimStep, SimWritePlate, SimRingLPR,
       SimWatchScreen
<1>3. ASSUME NEW p \in inside, SimLeave(p) PROVE TypeOK'
  BY <1>3 DEF SimLeave
<1>4. CASE MgrStep
  <2>1. ASSUME NEW l \in Levels, MgrAdmit(l) PROVE TypeOK'
    BY <2>1 DEF MgrAdmit
  <2>2. CASE MgrShowLevel \/ MgrShowFull \/ MgrShowBanned
    <3>1. display' \in Int
      BY <2>2 DEF MgrShowLevel, MgrShowFull, MgrShowBanned, MgrShow, LevelChar,
         Levels, Digit0, CharF, CharX
    <3> QED
      BY <2>2, <3>1 DEF MgrShowLevel, MgrShowFull, MgrShowBanned, MgrShow
  <2>3. CASE MgrTellLevel \/ MgrTellNo
    BY <2>3 DEF MgrTellLevel, MgrTellNo, MgrTell
  <2> QED
    BY <1>4, <2>1, <2>2, <2>3 DEF MgrStep, MgrArm, MgrReadPlate, MgrFull, MgrBan,
       MgrRaise, MgrLower, MgrSeeClosed
<1>5. CASE MgrWakes \/ SimWakes
  BY <1>5 DEF MgrWakes, SimWakes
<1>6. CASE UNCHANGED vars
  BY <1>6 DEF vars
<1> QED
  BY <1>1, <1>2, <1>3, <1>4, <1>5, <1>6 DEF Next

\* Every variable keeps its type, whatever wakes the threads.
THEOREM TypeCorrect == Spec => []TypeOK
BY TypeInit, TypeStep, PTL DEF Spec

LEMMA OverCarStep == TypeOK /\ GateOpenOverCar /\ [Next]_vars => GateOpenOverCar'
<1> SUFFICES ASSUME TypeOK, GateOpenOverCar, [Next]_vars
             PROVE  GateOpenOverCar'
  OBVIOUS
<1> USE DEF GateOpenOverCar, simVars, mgrVars
<1>1. CASE SimStep
  BY <1>1 DEF SimStep, SimWritePlate, SimRingLPR, SimWatchScreen, SimReadScreen,
     SimRaise, SimPark, SimLower, SimGates
<1>2. CASE MgrStep
  BY <1>2 DEF MgrStep, MgrArm, MgrReadPlate, MgrAdmit, MgrFull, MgrBan,
     MgrShowLevel, MgrShowFull, MgrShowBanned, MgrShow, MgrTellLevel, MgrTellNo,
     MgrTell, MgrRaise, MgrLower, MgrSeeClosed
<1> QED
  BY <1>1, <1>2 DEF Next, SimPop, SimLeave, MgrWakes, SimWakes, vars

\* The gate is never shut while the car drives through, whatever wakes the
\* threads: thf_entr is the only one to shut it, and m_sim_gates leaves any
\* gate alone that is not shut.
THEOREM GateNeverShutOnCar == Spec => []GateOpenOverCar
<1>1. Init => GateOpenOverCar
  BY DEF Init, GateOpenOverCar
<1> QED
  BY <1>1, TypeInit, TypeStep, OverCarStep, PTL DEF Spec

-----------------------------------------------------------------------------
(* As long as no wake-up is spurious.                                      *)

LEMMA HandshakeInit == Init => Handshake
BY DEF Init, Handshake, InStep, Deciding, OnSign

\* What has gone wrong stays on record.
LEMMA LapsesGrow ==
  ASSUME [Next]_vars
  PROVE  lapses \subseteq lapses'
<1> USE DEF simVars, mgrVars
<1>1. CASE SimStep
  BY <1>1 DEF SimStep, SimWritePlate, SimRingLPR, SimWatchScreen, SimReadScreen,
     SimRaise, SimPark, SimLower, SimGates
<1>2. CASE MgrStep
  BY <1>2 DEF MgrStep, MgrArm, MgrReadPlate, MgrAdmit, MgrFull, MgrBan,
     MgrShowLevel, MgrShowFull, MgrShowBanned, MgrShow, MgrTellLevel, MgrTellNo,
     MgrTell, MgrRaise, MgrLower, MgrSeeClosed
<1> QED
  BY <1>1, <1>2 DEF Next, SimPop, SimLeave, MgrWakes, SimWakes, vars

LEMMA LapsesStay == [Next]_vars => (Sound' => Sound)
BY LapsesGrow DEF Sound

\* The simulator reads back the level that the manager wrote, and takes
\* neither 'F' nor 'X' for a level.
LEMMA ReadBack ==
  /\ \A l \in Levels : /\ ShownLevel(LevelChar(l)) = l
                       /\ l \in 0 .. ENTRANCES - 1
  /\ \A ch \in {CharF, CharX} : ShownLevel(ch) \notin 0 .. ENTRANCES - 1
BY LaneAssumption DEF ShownLevel, LevelChar, Levels, Digit0, CharF, CharX

LEMMA HandshakeStep ==
  ASSUME TypeOK, Handshake, [Next]_vars
  PROVE  Handshake'
<1> SUFFICES ASSUME Sound' PROVE InStep'
  BY DEF Handshake
<1>0. InStep
  BY LapsesStay DEF Handshake
<1> USE <1>0 DEF TypeOK, InStep, Deciding, OnSign, simVars, mgrVars
<1>1. ASSUME NEW c \in Cars, SimPop(c) PROVE InStep'
  BY <1>1 DEF SimPop
<1>2. CASE SimWritePlate
  BY <1>2 DEF SimWritePlate
<1>3. CASE SimRingLPR
  BY <1>3 DEF SimRingLPR
<1>4. CASE SimWatchScreen
  BY <1>4 DEF SimWatchScreen
<1>5. CASE SimReadScreen
  <2>1. CASE mgrPc \in {"raise", "lower"}
    <3>1. lvl' = assigned /\ simPc' = "raise"
      BY <1>5, <2>1, ReadBack DEF SimReadScreen
    <3> QED
      BY <1>5, <2>1, <3>1 DEF SimReadScreen
  <2>2. CASE mgrPc \in {"arm", "atLPR"} /\ display \in {CharF, CharX}
    <3>1. simPc' = "pop"
      BY <1>5, <2>2, ReadBack DEF SimReadScreen
    <3> QED
      BY <1>5, <2>2, <3>1 DEF SimReadScreen
  <2> QED
    BY <1>5, <2>1, <2>2 DEF SimReadScreen
<1>6. CASE SimRaise
  BY <1>6 DEF SimGates, SimRaise
<1>7. CASE SimPark
  BY <1>7 DEF SimPark
<1>8. CASE SimLower
  BY <1>8 DEF SimGates, SimLower
<1>9. ASSUME NEW p \in inside, SimLeave(p) PROVE InStep'
  BY <1>9 DEF SimLeave
<1>10. CASE MgrArm
  BY <1>10 DEF MgrArm
<1>11. CASE MgrReadPlate
  BY <1>11 DEF MgrReadPlate
<1>12. ASSUME NEW l \in Levels, MgrAdmit(l) PROVE InStep'
  BY <1>12 DEF MgrAdmit
<1>13. CASE MgrFull
  BY <1>13 DEF MgrFull
<1>14. CASE MgrBan
  BY <1>14 DEF MgrBan
<1>15. CASE MgrShowLevel
  BY <1>15 DEF MgrShow, MgrShowLevel
<1>16. CASE MgrShowFull
  BY <1>16 DEF MgrShow, MgrShowFull
<1>17. CASE MgrShowBanned
  BY <1>17 DEF MgrShow, MgrShowBanned
<1>18. CASE MgrTellLevel
  BY <1>18 DEF MgrTell, MgrTellLevel
<1>19. CASE MgrTellNo
  BY <1>19 DEF MgrTell, MgrTellNo
<1>20. CASE MgrRaise
  BY <1>20 DEF MgrRaise
<1>21. CASE MgrLower
  BY <1>21 DEF MgrLower
<1>22. CASE MgrSeeClosed
  BY <1>22 DEF MgrSeeClosed
<1> QED
  BY <1>1, <1>2, <1>3, <1>4, <1>5, <1>6, <1>7, <1>8, <1>9, <1>10, <1>11, <1>12, <1>13, <1>14, <1>15, <1>16, <1>17, <1>18, <1>19, <1>20, <1>21, <1>22 DEF Next, SimStep, MgrStep, MgrWakes, SimWakes, Sound, vars

LEMMA HandshakeInvariance == Spec => [](TypeOK /\ Handshake)
<1>1. TypeOK /\ Handshake /\ [Next]_vars => Handshake'
  BY HandshakeStep
<1> QED
  BY <1>1, TypeInit, TypeStep, HandshakeInit, PTL DEF Spec

\* The two threads keep in step as long as only broadcasts wake them, even if
\* some broadcasts are lost.
THEOREM ThreadsInStep == Spec => []Handshake
BY HandshakeInvariance, PTL

\* The car that passes is the car that was admitted, to the level it was
\* admitted to, and the gate is open, or on its way, for that car only.
THEOREM CarObeysItsVerdict == Spec => []OnlyAdmittedCarPasses
<1>1. TypeOK /\ Handshake => OnlyAdmittedCarPasses
  BY DEF TypeOK, GateStates, Handshake, InStep, OnlyAdmittedCarPasses
<1> QED
  BY <1>1, HandshakeInvariance, PTL

-----------------------------------------------------------------------------
(* The two threads never wait for each other in a circle.                  *)

\* Before the first lapse, a car in front of the sign has its manager at work on it.
LookedAfter == lapses = {} /\ OnSign => Deciding

LEMMA LookedAfterStep ==
  ASSUME TypeOK, Handshake, LookedAfter, [Next]_vars
  PROVE  LookedAfter'
<1> SUFFICES ASSUME lapses' = {}, OnSign' PROVE Deciding'
  BY DEF LookedAfter
<1> USE DEF OnSign, Deciding, simVars, mgrVars
<1>0. lapses = {}
  <2>1. lapses \subseteq lapses'
    BY LapsesGrow
  <2> QED
    BY <2>1
<1>1. CASE SimStep
  BY <1>0, <1>1 DEF LookedAfter, SimStep, SimWritePlate, SimRingLPR,
     SimWatchScreen, SimReadScreen, SimRaise, SimPark, SimLower, SimGates
<1>2. CASE MgrStep
  BY <1>0, <1>2 DEF LookedAfter, MgrStep, MgrArm, MgrReadPlate, MgrAdmit, MgrFull,
     MgrBan, MgrShowLevel, MgrShowFull, MgrShowBanned, MgrShow, MgrTellLevel,
     MgrTellNo, MgrTell, MgrRaise, MgrLower, MgrSeeClosed
<1>3. CASE (\E c \in Cars : SimPop(c)) \/ (\E p \in inside : SimLeave(p))
  BY <1>0, <1>3 DEF LookedAfter, SimPop, SimLeave
<1>4. CASE UNCHANGED vars
  BY <1>0, <1>4 DEF LookedAfter, vars
<1> QED
  BY <1>1, <1>2, <1>3, <1>4 DEF Next, MgrWakes, SimWakes

\* One of the threads can move.
LEMMA SomebodyMoves ==
  ASSUME TypeOK, Handshake, LookedAfter, lapses = {}
  PROVE  \/ simPc = "pop" /\ mgrPc = "atLPR"
         \/ SimCanMove \/ MgrCanMove
<1>0. InStep
  BY DEF Handshake, Sound
<1> USE <1>0 DEF TypeOK, InStep, SimPoints, MgrPoints, GateStates, OnSign, Deciding
<1>1. CASE simPc \in {"plate", "ring", "toScreen", "woken", "drive"}
  BY <1>1 DEF SimCanMove
<1>2. CASE simPc = "atScreen"
  BY <1>2 DEF LookedAfter, MgrCanMove
<1>3. CASE simPc = "raise"
  BY <1>3 DEF SimCanMove, MgrCanMove
<1>4. CASE simPc = "lower"
  BY <1>4 DEF SimCanMove, MgrCanMove
<1>5. CASE simPc = "pop"
  BY <1>5 DEF MgrCanMove
<1> QED
  BY <1>1, <1>2, <1>3, <1>4, <1>5

LEMMA WayDown ==
  ASSUME TypeOK, Handshake, [Next]_vars, Sound'
  PROVE  \/ Way' < Way \/ UNCHANGED <<simPc, mgrPc>>
         \/ simPc = "pop" /\ simPc' = "plate"
<1>0. InStep
  BY LapsesStay DEF Handshake
<1> USE DEF TypeOK, simVars, mgrVars, Way, SimWay, MgrWay
<1>1. CASE \E c \in Cars : SimPop(c)
  BY <1>1 DEF SimPop
<1>2. CASE SimWritePlate
  BY <1>2 DEF SimWritePlate, MgrPoints
<1>3. CASE SimRingLPR
  BY <1>3 DEF SimRingLPR, MgrPoints
<1>4. CASE SimWatchScreen
  BY <1>4 DEF SimWatchScreen, MgrPoints
<1>5. CASE SimReadScreen
  BY <1>5 DEF SimReadScreen, MgrPoints
<1>6. CASE SimRaise
  BY <1>6 DEF SimRaise, SimGates, MgrPoints
<1>7. CASE SimPark
  BY <1>7 DEF SimPark, MgrPoints
<1>8. CASE SimLower
  BY <1>8 DEF SimLower, SimGates, MgrPoints
<1>9. CASE MgrArm \/ MgrReadPlate \/ MgrFull \/ MgrBan
  BY <1>9 DEF MgrArm, MgrReadPlate, MgrFull, MgrBan, SimPoints
<1>10. CASE \E l \in Levels : MgrAdmit(l)
  BY <1>10 DEF MgrAdmit, SimPoints
<1>11. CASE MgrShowLevel \/ MgrShowFull \/ MgrShowBanned
  BY <1>11 DEF MgrShowLevel, MgrShowFull, MgrShowBanned, MgrShow, SimPoints
<1>12. CASE MgrTellLevel
  BY <1>12 DEF MgrTellLevel, MgrTell, SimPoints
<1>13. CASE MgrTellNo
  BY <1>13 DEF MgrTellNo, MgrTell, SimPoints
<1>14. CASE MgrRaise
  BY <1>14 DEF MgrRaise, SimPoints
<1>15. CASE MgrLower \/ MgrSeeClosed
  BY <1>15 DEF MgrLower, MgrSeeClosed, SimPoints
<1>16. CASE \E p \in inside : SimLeave(p)
  BY <1>16 DEF SimLeave
<1>17. CASE UNCHANGED vars
  BY <1>17 DEF vars
<1> QED
  BY <1>1, <1>2, <1>3, <1>4, <1>5, <1>6, <1>7, <1>8, <1>9, <1>10, <1>11, <1>12,
     <1>13, <1>14, <1>15, <1>16, <1>17
  DEF Next, SimStep, MgrStep, MgrWakes, SimWakes, Sound

\* Until a wake-up goes astray, a lane with a car in it can always take a step, and
\* no sequence of its steps comes round: entrance_lpr and thf_entr do not deadlock.
THEOREM ServiceAdvances == Spec => ServiceGetsOn
<1>1. Init => LookedAfter
  BY DEF Init, LookedAfter, OnSign
<1>2. TypeOK /\ Handshake /\ LookedAfter /\ [Next]_vars => LookedAfter'
  BY LookedAfterStep
<1>3. TypeOK /\ Handshake /\ LookedAfter
        => (lapses = {} => \/ simPc = "pop" /\ mgrPc = "atLPR"
                           \/ SimCanMove \/ MgrCanMove)
  BY SomebodyMoves
<1>4. TypeOK /\ Handshake /\ [Next]_vars
        => [Sound' => \/ Way' < Way \/ UNCHANGED <<simPc, mgrPc>>
                      \/ simPc = "pop" /\ simPc' = "plate"]_vars
  BY WayDown
<1> QED
  BY <1>1, <1>2, <1>3, <1>4, HandshakeInvariance, PTL DEF Spec, ServiceGetsOn

\* The two threads implement AdmissionLane as long as no wake-up is spurious.
THEOREM Refinement == Spec => ImplementsAdmission
<1>1. Init => Admission!Init
  BY DEF Init, Admission!Init, Admission!Pending, askingBar, verdictBar
<1>2. TypeOK /\ Handshake /\ [Next]_vars
        => [Sound' => [Admission!Next]_(Admission!vars)]_vars
  <2> SUFFICES ASSUME TypeOK, Handshake, [Next]_vars, Sound'
               PROVE  [Admission!Next]_(Admission!vars)
    OBVIOUS
  <2>0. InStep
    BY LapsesStay DEF Handshake
  <2> USE <2>0 DEF TypeOK, InStep, Deciding, OnSign, simVars, mgrVars, Admission!vars,
          Admission!Pending, askingBar, verdictBar, AdmittedNow
  <2>1. ASSUME NEW c \in Cars, SimPop(c) PROVE Admission!Ask(Lane, c)
    BY <2>1, LaneAssumption DEF SimPop, Admission!Ask, InsideCars
  <2>2. CASE SimReadScreen
    <3>1. CASE mgrPc \in {"raise", "lower"}
      <4>1. simPc' = "raise"
        BY <2>2, <3>1, ReadBack DEF SimReadScreen
      <4> QED
        BY <2>2, <3>1, <4>1 DEF SimReadScreen
    <3>2. CASE mgrPc \in {"arm", "atLPR"} /\ display \in {CharF, CharX}
      <4>1. simPc' = "pop"
        BY <2>2, <3>2, ReadBack DEF SimReadScreen
      <4> QED
        BY <2>2, <3>2, <4>1, LaneAssumption
        DEF SimReadScreen, Admission!Next, Admission!LaneNext, Admission!TurnAway
    <3> QED
      BY <2>2, <3>1, <3>2 DEF SimReadScreen
  <2>3. CASE SimPark
    <3>1. askingBar = car /\ car # NoCar /\ askingBar' = NoCar
      BY <2>3, LaneAssumption DEF SimPark
    <3>2. verdictBar = lvl /\ lvl # -1 /\ verdictBar' = -1
      BY <2>3, LaneAssumption DEF SimPark, Levels
    <3>3. inside' = inside \cup {<<askingBar, verdictBar>>}
      BY <2>3, <3>1, <3>2 DEF SimPark
    <3> HIDE DEF askingBar, verdictBar
    <3>4. Admission!Enter(Lane)
      BY <3>1, <3>2, <3>3 DEF Admission!Enter
    <3> QED
      BY <3>4 DEF Admission!Next, Admission!LaneNext
  <2>4. ASSUME NEW p \in inside, SimLeave(p) PROVE Admission!Next
    BY <2>4 DEF SimLeave, Admission!Next, Admission!Leave
  <2>5. ASSUME NEW l \in Levels, MgrAdmit(l) PROVE Admission!Next
    BY <2>5, LaneAssumption
    DEF MgrAdmit, Admission!Next, Admission!LaneNext, Admission!Admit
  <2>6. CASE SimWritePlate \/ SimRingLPR \/ SimWatchScreen \/ SimRaise \/ SimLower
    BY <2>6 DEF SimWritePlate, SimRingLPR, SimWatchScreen, SimRaise, SimLower, SimGates
  <2>7. CASE MgrStep /\ ~\E l \in Levels : MgrAdmit(l)
    BY <2>7 DEF MgrStep, MgrArm, MgrReadPlate, MgrFull, MgrBan,
     MgrShowLevel, MgrShowFull, MgrShowBanned, MgrShow, MgrTellLevel, MgrTellNo,
     MgrTell, MgrRaise, MgrLower, MgrSeeClosed
  <2>8. CASE UNCHANGED vars
    BY <2>8 DEF vars
  <2> QED
    BY <2>1, <2>2, <2>3, <2>4, <2>5, <2>6, <2>7, <2>8
    DEF Next, SimStep, MgrWakes, SimWakes, Sound, Admission!Next, Admission!LaneNext
<1> QED
  BY <1>1, <1>2, HandshakeInvariance, PTL DEF Spec, ImplementsAdmission
=============================================================================
