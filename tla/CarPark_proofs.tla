-------------------------- MODULE CarPark_proofs --------------------------
(***************************************************************************)
(* Proofs about CarPark for any number of entrances, exits, levels and     *)
(* cars.  The count of cars rests on two facts about the threads: a lane's *)
(* two threads keep in step, and a car is in one place.  They also give    *)
(* what the entrances promise (AdmissionLane), and, as long as no two      *)
(* threads meet at car_list, what the list holds.                          *)
(***************************************************************************)
EXTENDS CarPark, FiniteSetTheorems, TLAPS

Steady == TypeOK /\ LanesInStep

LEMMA SteadyInit == Init => Steady
<1> SUFFICES ASSUME Init PROVE Steady
  OBVIOUS
<1>1. 0 \in Levels /\ Unset \notin Levels
  BY CarParkAssumption DEF Levels, Unset
<1>2. TypeOK
  <2>1. level_tracker \in [Levels -> 0 .. LEVEL_CAPACITY]
    BY CarParkAssumption DEF Init
  <2>2. sensing \in BOOLEAN /\ raced \in BOOLEAN /\ crashed \in BOOLEAN
    BY DEF Init
  <2> QED
    BY <1>1, <2>1, <2>2 DEF Init, TypeOK
<1>3. LanesInStep
  BY <1>1 DEF Init, LanesInStep, EntranceInStep, ExitInStep
<1> QED
  BY <1>2, <1>3 DEF Steady

LEMMA Signs == Unset \notin Levels /\ Banned \notin Levels /\ Full \notin Levels
BY CarParkAssumption DEF Levels, Unset, Banned, Full

LEMMA ModLevels ==
  ASSUME NEW n \in Int
  PROVE  n % LEVELS \in Levels
BY CarParkAssumption DEF Levels

LEMMA NextLevel ==
  ASSUME TypeOK
  PROVE  (m_counter + 1) % LEVELS \in Levels
<1>1. m_counter + 1 \in Int
  BY DEF TypeOK
<1> QED
  BY <1>1, ModLevels

LEMMA SteadyStep == Steady /\ [Next]_vars => Steady'
<1> SUFFICES ASSUME Steady, [Next]_vars
             PROVE  Steady'
  OBVIOUS
<1> USE CarParkAssumption DEF Steady, simVars, shmVars, senseVars, laneVars,
        countVars, listVars
<1>1. ASSUME NEW e \in Entrances, NEW c \in Cars, SimArrive(e, c)
      PROVE  Steady'
  <2>1. TypeOK'
    BY <1>1 DEF TypeOK, LanesInStep, EntranceInStep, ExitInStep, SimArrive
  <2>2. ASSUME NEW f \in Entrances
        PROVE  EntranceInStep(f)'
    BY <1>1 DEF TypeOK, LanesInStep, EntranceInStep, SimArrive
  <2>3. ASSUME NEW y \in Exits
        PROVE  ExitInStep(y)'
    BY <1>1 DEF TypeOK, LanesInStep, ExitInStep, SimArrive
  <2> QED
    BY <2>1, <2>2, <2>3 DEF LanesInStep
<1>2. ASSUME NEW e \in Entrances, SimReadSign(e)
      PROVE  Steady'
  <2>1. TypeOK'
    BY <1>2 DEF TypeOK, LanesInStep, EntranceInStep, ExitInStep, SimReadSign
  <2>2. ASSUME NEW f \in Entrances
        PROVE  EntranceInStep(f)'
    <3>1. CASE f = e
      BY <1>2, <3>1, Signs DEF TypeOK, LanesInStep, EntranceInStep,
         SimReadSign
    <3>2. CASE f # e
      BY <1>2, <3>2, Signs DEF TypeOK, LanesInStep, EntranceInStep,
         SimReadSign
    <3> QED
      BY <3>1, <3>2
  <2>3. ASSUME NEW y \in Exits
        PROVE  ExitInStep(y)'
    BY <1>2 DEF TypeOK, LanesInStep, ExitInStep, SimReadSign
  <2> QED
    BY <2>1, <2>2, <2>3 DEF LanesInStep
<1>3. ASSUME NEW e \in Entrances, SimDriveIn(e)
      PROVE  Steady'
  <2>1. TypeOK'
    <3>1. sensing' \in BOOLEAN
      BY <1>3 DEF TypeOK, SimDriveIn, LevelLPR
    <3> QED BY <1>3, <3>1 DEF TypeOK, LanesInStep, EntranceInStep,
       ExitInStep, SimDriveIn, LevelLPR
  <2>2. ASSUME NEW f \in Entrances
        PROVE  EntranceInStep(f)'
    <3>1. CASE f = e
      BY <1>3, <3>1, Signs DEF TypeOK, LanesInStep, EntranceInStep,
         SimDriveIn, LevelLPR
    <3>2. CASE f # e
      BY <1>3, <3>2, Signs DEF TypeOK, LanesInStep, EntranceInStep,
         SimDriveIn, LevelLPR
    <3> QED
      BY <3>1, <3>2
  <2>3. ASSUME NEW y \in Exits
        PROVE  ExitInStep(y)'
    BY <1>3 DEF TypeOK, LanesInStep, ExitInStep, SimDriveIn, LevelLPR
  <2> QED
    BY <2>1, <2>2, <2>3 DEF LanesInStep
<1>4. ASSUME NEW e \in Entrances, MgrLookUp(e)
      PROVE  Steady'
  <2>1. TypeOK'
    <3>1. raced' \in BOOLEAN /\ crashed' \in BOOLEAN
      BY <1>4 DEF MgrLookUp, Search, Strays
    <3> QED BY <1>4, <3>1 DEF TypeOK, LanesInStep, EntranceInStep,
       MgrLookUp, EntranceAt
  <2>2. ASSUME NEW f \in Entrances
        PROVE  EntranceInStep(f)'
    <3>1. CASE f = e
      BY <1>4, <3>1, Signs DEF TypeOK, LanesInStep, EntranceInStep,
         MgrLookUp, EntranceAt
    <3>2. CASE f # e
      BY <1>4, <3>2, Signs DEF TypeOK, LanesInStep, EntranceInStep,
         MgrLookUp, EntranceAt
    <3> QED
      BY <3>1, <3>2
  <2>3. ASSUME NEW y \in Exits
        PROVE  ExitInStep(y)'
    BY <1>4 DEF TypeOK, LanesInStep, ExitInStep, MgrLookUp, EntranceAt
  <2> QED
    BY <2>1, <2>2, <2>3 DEF LanesInStep
<1>5. ASSUME NEW e \in Entrances, MgrCountIn(e)
      PROVE  Steady'
  <2>1. TypeOK'
    BY <1>5, NextLevel DEF TypeOK, LanesInStep, EntranceInStep,
       ExitInStep, MgrCountIn, EntranceAt, CarCount
  <2>2. ASSUME NEW f \in Entrances
        PROVE  EntranceInStep(f)'
    BY <1>5 DEF TypeOK, LanesInStep, EntranceInStep, MgrCountIn, EntranceAt,
       CarCount
  <2>3. ASSUME NEW y \in Exits
        PROVE  ExitInStep(y)'
    BY <1>5 DEF TypeOK, LanesInStep, ExitInStep, MgrCountIn, EntranceAt,
       CarCount
  <2> QED
    BY <2>1, <2>2, <2>3 DEF LanesInStep
<1>6. ASSUME NEW e \in Entrances, MgrNoRoom(e)
      PROVE  Steady'
  <2>1. TypeOK'
    BY <1>6 DEF TypeOK, LanesInStep, EntranceInStep, ExitInStep, MgrNoRoom,
       EntranceAt
  <2>2. ASSUME NEW f \in Entrances
        PROVE  EntranceInStep(f)'
    <3>1. CASE f = e
      BY <1>6, <3>1, Signs DEF TypeOK, LanesInStep, EntranceInStep,
         MgrNoRoom, EntranceAt
    <3>2. CASE f # e
      BY <1>6, <3>2, Signs DEF TypeOK, LanesInStep, EntranceInStep,
         MgrNoRoom, EntranceAt
    <3> QED
      BY <3>1, <3>2
  <2>3. ASSUME NEW y \in Exits
        PROVE  ExitInStep(y)'
    BY <1>6 DEF TypeOK, LanesInStep, ExitInStep, MgrNoRoom, EntranceAt
  <2> QED
    BY <2>1, <2>2, <2>3 DEF LanesInStep
<1>7. ASSUME NEW e \in Entrances, MgrShow(e)
      PROVE  Steady'
  <2>1. TypeOK'
    <3>1. raced' \in BOOLEAN
      BY <1>7 DEF MgrShow, Edit
    <3> QED BY <1>7, <3>1 DEF TypeOK, LanesInStep, EntranceInStep, MgrShow,
       EntranceAt
  <2>2. ASSUME NEW f \in Entrances
        PROVE  EntranceInStep(f)'
    BY <1>7 DEF TypeOK, LanesInStep, EntranceInStep, MgrShow, EntranceAt
  <2>3. ASSUME NEW y \in Exits
        PROVE  ExitInStep(y)'
    BY <1>7 DEF TypeOK, LanesInStep, ExitInStep, MgrShow, EntranceAt
  <2> QED
    BY <2>1, <2>2, <2>3 DEF LanesInStep
<1>8. ASSUME NEW e \in Entrances, MgrLink(e)
      PROVE  Steady'
  <2>1. TypeOK'
    BY <1>8 DEF TypeOK, LanesInStep, EntranceInStep, ExitInStep, MgrLink,
       EntranceAt
  <2>2. ASSUME NEW f \in Entrances
        PROVE  EntranceInStep(f)'
    <3>1. CASE f = e
      BY <1>8, <3>1, Signs DEF TypeOK, LanesInStep, EntranceInStep, MgrLink,
         EntranceAt
    <3>2. CASE f # e
      BY <1>8, <3>2, Signs DEF TypeOK, LanesInStep, EntranceInStep, MgrLink,
         EntranceAt
    <3> QED
      BY <3>1, <3>2
  <2>3. ASSUME NEW y \in Exits
        PROVE  ExitInStep(y)'
    BY <1>8 DEF TypeOK, LanesInStep, ExitInStep, MgrLink, EntranceAt
  <2> QED
    BY <2>1, <2>2, <2>3 DEF LanesInStep
<1>9. ASSUME NEW x \in Exits, NEW c \in leaving, SimAtExit(x, c)
      PROVE  Steady'
  <2>1. TypeOK'
    BY <1>9 DEF TypeOK, LanesInStep, EntranceInStep, ExitInStep, SimAtExit
  <2>2. ASSUME NEW f \in Entrances
        PROVE  EntranceInStep(f)'
    BY <1>9 DEF TypeOK, LanesInStep, EntranceInStep, SimAtExit
  <2>3. ASSUME NEW y \in Exits
        PROVE  ExitInStep(y)'
    BY <1>9 DEF TypeOK, LanesInStep, ExitInStep, SimAtExit
  <2> QED
    BY <2>1, <2>2, <2>3 DEF LanesInStep
<1>10. ASSUME NEW x \in Exits, SimDriveOut(x)
      PROVE  Steady'
  <2>1. TypeOK'
    BY <1>10 DEF TypeOK, LanesInStep, EntranceInStep, ExitInStep, SimDriveOut
  <2>2. ASSUME NEW f \in Entrances
        PROVE  EntranceInStep(f)'
    BY <1>10 DEF TypeOK, LanesInStep, EntranceInStep, SimDriveOut
  <2>3. ASSUME NEW y \in Exits
        PROVE  ExitInStep(y)'
    BY <1>10 DEF TypeOK, LanesInStep, ExitInStep, SimDriveOut
  <2> QED
    BY <2>1, <2>2, <2>3 DEF LanesInStep
<1>11. ASSUME NEW x \in Exits, MgrCountOut(x)
      PROVE  Steady'
  <2>1. TypeOK'
    <3>1. Finds(outCar[x]) => LevelOf(outCar[x]) \in Levels
      BY DEF TypeOK, Finds, LevelOf, Levels
    <3>2. level_tracker' \in [Levels -> 0 .. LEVEL_CAPACITY]
      BY <1>11, <3>1 DEF TypeOK, MgrCountOut
    <3>3. m_counter' \in Int
      BY <1>11 DEF TypeOK, MgrCountOut
    <3>4. raced' \in BOOLEAN /\ crashed' \in BOOLEAN
      BY <1>11 DEF MgrCountOut, Search, Finds
    <3> QED
      BY <1>11, <3>2, <3>3, <3>4 DEF TypeOK, MgrCountOut, ExitAt
  <2>2. ASSUME NEW f \in Entrances
        PROVE  EntranceInStep(f)'
    BY <1>11 DEF TypeOK, LanesInStep, EntranceInStep, MgrCountOut, ExitAt,
       LevelOf, Finds
  <2>3. ASSUME NEW y \in Exits
        PROVE  ExitInStep(y)'
    BY <1>11 DEF TypeOK, LanesInStep, ExitInStep, MgrCountOut, ExitAt,
       LevelOf, Finds
  <2> QED
    BY <2>1, <2>2, <2>3 DEF LanesInStep
<1>12. ASSUME NEW x \in Exits, MgrUnlink(x)
      PROVE  Steady'
  <2>1. TypeOK'
    <3>1. raced' \in BOOLEAN /\ crashed' \in BOOLEAN
      BY <1>12 DEF MgrUnlink, Edit, Strays
    <3>2. next' \in [Cars -> Cars \cup {NoCar}]
      BY <1>12 DEF TypeOK, MgrUnlink, Finds
    <3>3. xHead' \in [Exits -> Cars \cup {NoCar}]
      BY <1>12 DEF TypeOK, MgrUnlink, Finds
    <3> QED BY <1>12, <3>1, <3>2, <3>3 DEF TypeOK, MgrUnlink, ExitAt
  <2>2. ASSUME NEW f \in Entrances
        PROVE  EntranceInStep(f)'
    BY <1>12 DEF TypeOK, LanesInStep, EntranceInStep, MgrUnlink, ExitAt,
       LevelOf, Finds
  <2>3. ASSUME NEW y \in Exits
        PROVE  ExitInStep(y)'
    BY <1>12 DEF TypeOK, LanesInStep, ExitInStep, MgrUnlink, ExitAt, LevelOf,
       Finds
  <2> QED
    BY <2>1, <2>2, <2>3 DEF LanesInStep
<1>13. ASSUME NEW x \in Exits, MgrStore(x)
      PROVE  Steady'
  <2>1. TypeOK'
    BY <1>13 DEF TypeOK, LanesInStep, EntranceInStep, ExitInStep, MgrStore,
       ExitAt
  <2>2. ASSUME NEW f \in Entrances
        PROVE  EntranceInStep(f)'
    BY <1>13 DEF TypeOK, LanesInStep, EntranceInStep, MgrStore, ExitAt
  <2>3. ASSUME NEW y \in Exits
        PROVE  ExitInStep(y)'
    BY <1>13 DEF TypeOK, LanesInStep, ExitInStep, MgrStore, ExitAt
  <2> QED
    BY <2>1, <2>2, <2>3 DEF LanesInStep
<1>14. ASSUME NEW p \in inside, SimLeave(p)
      PROVE  Steady'
  <2>1. TypeOK'
    <3>1. sensing' \in BOOLEAN
      BY <1>14 DEF TypeOK, SimLeave, LevelLPR
    <3> QED BY <1>14, <3>1 DEF TypeOK, LanesInStep, EntranceInStep,
       ExitInStep, SimLeave, LevelLPR
  <2>2. ASSUME NEW f \in Entrances
        PROVE  EntranceInStep(f)'
    BY <1>14 DEF TypeOK, LanesInStep, EntranceInStep, SimLeave, LevelLPR
  <2>3. ASSUME NEW y \in Exits
        PROVE  ExitInStep(y)'
    BY <1>14 DEF TypeOK, LanesInStep, ExitInStep, SimLeave, LevelLPR
  <2> QED
    BY <2>1, <2>2, <2>3 DEF LanesInStep
<1>15. ASSUME MgrSenseLevel
      PROVE  Steady'
  <2>1. TypeOK'
    <3>1. sensing' \in BOOLEAN /\ raced' \in BOOLEAN /\ crashed' \in BOOLEAN
      BY <1>15 DEF MgrSenseLevel, Search, Strays
    <3> QED BY <1>15, <3>1 DEF TypeOK, MgrSenseLevel
  <2>2. ASSUME NEW f \in Entrances
        PROVE  EntranceInStep(f)'
    BY <1>15 DEF TypeOK, LanesInStep, EntranceInStep, MgrSenseLevel
  <2>3. ASSUME NEW y \in Exits
        PROVE  ExitInStep(y)'
    BY <1>15 DEF TypeOK, LanesInStep, ExitInStep, MgrSenseLevel
  <2> QED
    BY <2>1, <2>2, <2>3 DEF LanesInStep
<1>16. ASSUME UNCHANGED vars
      PROVE  Steady'
  <2>1. TypeOK'
    BY <1>16 DEF TypeOK, LanesInStep, EntranceInStep, ExitInStep, vars
  <2>2. ASSUME NEW f \in Entrances
        PROVE  EntranceInStep(f)'
    BY <1>16 DEF TypeOK, LanesInStep, EntranceInStep, vars
  <2>3. ASSUME NEW y \in Exits
        PROVE  ExitInStep(y)'
    BY <1>16 DEF TypeOK, LanesInStep, ExitInStep, vars
  <2> QED
    BY <2>1, <2>2, <2>3 DEF LanesInStep
<1> QED
  BY <1>1, <1>2, <1>3, <1>4, <1>5, <1>6, <1>7, <1>8, <1>9, <1>10, <1>11,
     <1>12, <1>13, <1>14, <1>15, <1>16 DEF Next, EntranceStep, ExitStep

-----------------------------------------------------------------------------

LEMMA OnePlaceInit == Init => OnePlace
BY DEF Init, OnePlace, InsideCars, AtExitGates

LEMMA OnePlaceStep == Steady /\ OnePlace /\ [Next]_vars => OnePlace'
<1> SUFFICES ASSUME Steady, OnePlace, [Next]_vars
             PROVE  OnePlace'
  OBVIOUS
<1> USE CarParkAssumption DEF Steady, InsideCars, AtExitGates
<1>0. \A e \in Entrances : IF simPc[e] = "pop" THEN inCar[e] = NoCar
                                              ELSE inCar[e] \in Cars
  BY DEF LanesInStep, EntranceInStep
<1>1. CASE UNCHANGED simVars
  BY <1>1 DEF OnePlace, simVars
<1>2. ASSUME NEW e \in Entrances, NEW c \in Cars, SimArrive(e, c)
      PROVE  OnePlace'
  BY <1>0, <1>2 DEF OnePlace, TypeOK, SimArrive, SimCars
<1>3. ASSUME NEW e \in Entrances, SimReadSign(e)
      PROVE  OnePlace'
  <2>1. \A f \in Entrances :
          simPc'[f] # "pop" => simPc[f] # "pop" /\ inCar'[f] = inCar[f]
    BY <1>3 DEF TypeOK, SimReadSign
  <2>2. \A f \in Entrances : inCar'[f] \in {inCar[f], NoCar}
    BY <1>3 DEF TypeOK, SimReadSign
  <2> QED
    BY <1>0, <1>3, <2>1, <2>2 DEF OnePlace, SimReadSign
<1>4. ASSUME NEW e \in Entrances, SimDriveIn(e)
      PROVE  OnePlace'
  <2> DEFINE parked == <<inCar[e], sign[e]>>
  <2>1. parked[1] = inCar[e] /\ inside' = inside \cup {parked}
    BY <1>4 DEF SimDriveIn
  <2>2. InsideCars' = InsideCars \cup {inCar[e]}
    BY <2>1
  <2> HIDE DEF parked
  <2>3. \A p, q \in inside' : p[1] = q[1] => p = q
    BY <1>4, <2>1 DEF OnePlace, SimDriveIn
  <2>4. simPc[e] # "pop" /\ AtExitGates' = AtExitGates
    BY <1>4 DEF SimDriveIn
  <2>5. \A f \in Entrances :
          simPc'[f] # "pop" => f # e /\ simPc[f] # "pop" /\ inCar'[f] = inCar[f]
    BY <1>4 DEF TypeOK, SimDriveIn
  <2>6. \A f \in Entrances : inCar'[f] \in {inCar[f], NoCar}
    BY <1>4 DEF TypeOK, SimDriveIn
  <2> HIDE DEF InsideCars, AtExitGates
  <2>7. ASSUME NEW f \in Entrances, simPc'[f] # "pop"
        PROVE  /\ inCar'[f] \notin (InsideCars \cup leaving \cup AtExitGates)'
               /\ \A g \in Entrances \ {f} : inCar'[f] # inCar'[g]
    BY <1>0, <1>4, <2>2, <2>4, <2>5, <2>6, <2>7 DEF OnePlace, SimDriveIn
  <2>8. ASSUME NEW x \in Exits, outPc'[x] = "atGate"
        PROVE  /\ outCar'[x] \notin InsideCars' \cup leaving'
               /\ \A y \in Exits \ {x} :
                     outPc'[y] = "atGate" => outCar'[x] # outCar'[y]
    <3>1. outCar[x] # inCar[e]
      BY <1>4, <2>4, <2>8 DEF OnePlace, AtExitGates, SimDriveIn
    <3> QED
      BY <1>4, <2>2, <2>8, <3>1 DEF OnePlace, SimDriveIn
  <2>9. InsideCars' \cap leaving' = {}
    BY <1>4, <2>2, <2>4 DEF OnePlace, SimDriveIn
  <2> QED
    BY <2>3, <2>7, <2>8, <2>9 DEF OnePlace
<1>5. ASSUME NEW p \in inside, SimLeave(p)
      PROVE  OnePlace'
  BY <1>5 DEF OnePlace, TypeOK, SimLeave
<1>6. ASSUME NEW x \in Exits, NEW c \in leaving, SimAtExit(x, c)
      PROVE  OnePlace'
  BY <1>6 DEF OnePlace, TypeOK, SimAtExit
<1>7. ASSUME NEW x \in Exits, SimDriveOut(x)
      PROVE  OnePlace'
  BY <1>7 DEF OnePlace, TypeOK, SimDriveOut
<1>8. ASSUME NEW x \in Exits, MgrUnlink(x)
      PROVE  OnePlace'
  BY <1>8 DEF OnePlace, TypeOK, LanesInStep, ExitInStep, MgrUnlink, ExitAt
<1> QED
  BY <1>1, <1>2, <1>3, <1>4, <1>5, <1>6, <1>7, <1>8
  DEF Next, EntranceStep, ExitStep, vars, simVars, MgrLookUp, MgrCountIn,
      MgrNoRoom, MgrShow, MgrLink, MgrCountOut, MgrStore, MgrSenseLevel

-----------------------------------------------------------------------------
(* The count.  Only MgrCountIn and MgrCountOut change who is counted.      *)

AtEntrances == {inCar[e] : e \in {f \in Entrances : CountedAt(f)}}
AtExits     == {outCar[x] : x \in {y \in Exits : y \in rung}}

LEMMA CountedFinite ==
  ASSUME Steady
  PROVE  /\ Counted \subseteq Cars
         /\ IsFiniteSet(Counted)
<1>1. AtEntrances \subseteq Cars
  BY CarParkAssumption
  DEF AtEntrances, Steady, CountedAt, LanesInStep, EntranceInStep
<1>2. AtExits \subseteq Cars
  BY DEF AtExits, Steady, LanesInStep, ExitInStep
<1>3. InsideCars \cup leaving \subseteq Cars
  BY DEF Steady, TypeOK, InsideCars
<1>4. Counted \subseteq Cars
  BY <1>1, <1>2, <1>3 DEF Counted, AtEntrances, AtExits
<1> QED
  BY <1>4, FS_Subset, CarParkAssumption

LEMMA CountedSame ==
  ASSUME Steady, OnePlace, [Next]_vars,
         \A e \in Entrances : ~MgrCountIn(e),
         \A x \in Exits : ~MgrCountOut(x)
  PROVE  Counted' = Counted /\ m_counter' = m_counter
<1> USE CarParkAssumption DEF Steady, Counted, InsideCars, simVars, shmVars,
        senseVars, laneVars, countVars, listVars
<1>1. ASSUME NEW e \in Entrances, NEW c \in Cars, SimArrive(e, c)
      PROVE  Counted' = Counted /\ m_counter' = m_counter
  BY <1>1 DEF TypeOK, LanesInStep, EntranceInStep, CountedAt, SimArrive
<1>2. ASSUME NEW e \in Entrances, SimReadSign(e)
      PROVE  Counted' = Counted /\ m_counter' = m_counter
  BY <1>2 DEF TypeOK, LanesInStep, EntranceInStep, CountedAt, SimReadSign
<1>3. ASSUME NEW e \in Entrances, SimDriveIn(e)
      PROVE  Counted' = Counted /\ m_counter' = m_counter
  <2> DEFINE parked == <<inCar[e], sign[e]>>
  <2>1. parked[1] = inCar[e] /\ inside' = inside \cup {parked}
    BY <1>3 DEF SimDriveIn
  <2>2. InsideCars' = InsideCars \cup {inCar[e]}
    BY <2>1
  <2> HIDE DEF InsideCars, parked
  <2>3. CountedAt(e) /\ ~CountedAt(e)'
    BY <1>3 DEF LanesInStep, EntranceInStep, CountedAt, SimDriveIn
  <2>4. \A f \in Entrances \ {e} :
          (CountedAt(f)' <=> CountedAt(f)) /\ inCar'[f] = inCar[f]
    BY <1>3 DEF TypeOK, CountedAt, SimDriveIn
  <2>5. AtEntrances' \cup {inCar[e]} = AtEntrances
    BY <2>3, <2>4 DEF AtEntrances
  <2> QED
    BY <1>3, <2>2, <2>5 DEF AtEntrances, SimDriveIn
<1>4. ASSUME NEW e \in Entrances, MgrLookUp(e)
      PROVE  Counted' = Counted /\ m_counter' = m_counter
  BY <1>4 DEF TypeOK, LanesInStep, EntranceInStep, CountedAt, MgrLookUp, EntranceAt
<1>5. ASSUME NEW e \in Entrances, MgrNoRoom(e)
      PROVE  Counted' = Counted /\ m_counter' = m_counter
  BY <1>5 DEF TypeOK, LanesInStep, EntranceInStep, CountedAt, MgrNoRoom, EntranceAt
<1>6. ASSUME NEW e \in Entrances, MgrShow(e)
      PROVE  Counted' = Counted /\ m_counter' = m_counter
  BY <1>6 DEF TypeOK, LanesInStep, EntranceInStep, CountedAt, MgrShow, EntranceAt
<1>7. ASSUME NEW e \in Entrances, MgrLink(e)
      PROVE  Counted' = Counted /\ m_counter' = m_counter
  BY <1>7 DEF TypeOK, LanesInStep, EntranceInStep, CountedAt, MgrLink, EntranceAt
<1>8. ASSUME NEW p \in inside, SimLeave(p)
      PROVE  Counted' = Counted /\ m_counter' = m_counter
  BY <1>8 DEF CountedAt, SimLeave
<1>9. ASSUME NEW x \in Exits, NEW c \in leaving, SimAtExit(x, c)
      PROVE  Counted' = Counted /\ m_counter' = m_counter
  BY <1>9 DEF TypeOK, LanesInStep, ExitInStep, CountedAt, SimAtExit
<1>10. ASSUME NEW x \in Exits, SimDriveOut(x)
      PROVE  Counted' = Counted /\ m_counter' = m_counter
  BY <1>10 DEF CountedAt, SimDriveOut
<1>11. ASSUME NEW x \in Exits, MgrUnlink(x)
      PROVE  Counted' = Counted /\ m_counter' = m_counter
  BY <1>11 DEF TypeOK, LanesInStep, ExitInStep, CountedAt, MgrUnlink, ExitAt
<1>12. ASSUME NEW x \in Exits, MgrStore(x)
      PROVE  Counted' = Counted /\ m_counter' = m_counter
  BY <1>12 DEF CountedAt, MgrStore
<1>13. ASSUME MgrSenseLevel
      PROVE  Counted' = Counted /\ m_counter' = m_counter
  BY <1>13 DEF CountedAt, MgrSenseLevel
<1>14. ASSUME UNCHANGED vars
      PROVE  Counted' = Counted /\ m_counter' = m_counter
  BY <1>14 DEF CountedAt, vars
<1> QED
  BY <1>1, <1>2, <1>3, <1>4, <1>5, <1>6, <1>7, <1>8, <1>9, <1>10, <1>11,
     <1>12, <1>13, <1>14
  DEF Next, EntranceStep, ExitStep

LEMMA CountedIn ==
  ASSUME Steady, OnePlace, NEW e \in Entrances, MgrCountIn(e)
  PROVE  /\ Counted' = Counted \cup {inCar[e]}
         /\ inCar[e] \in Allowed \ Counted
<1> USE CarParkAssumption DEF Steady, Counted, CountedAt, simVars, shmVars,
        senseVars, laneVars, countVars, listVars, MgrCountIn, EntranceAt
<1>1. Counted' = Counted \cup {inCar[e]}
  BY DEF TypeOK, InsideCars
<1>2. inCar[e] \in Allowed /\ ~CountedAt(e) /\ simPc[e] # "pop"
  BY DEF LanesInStep, EntranceInStep
<1>3. inCar[e] \notin Counted
  BY <1>2 DEF OnePlace, AtExitGates, LanesInStep, ExitInStep
<1> QED
  BY <1>1, <1>2, <1>3

LEMMA CountedOut ==
  ASSUME Steady, OnePlace, NEW x \in Exits, MgrCountOut(x)
  PROVE  /\ Counted' = Counted \ {outCar[x]}
         /\ outCar[x] \in Counted
<1> USE CarParkAssumption DEF Steady, simVars, shmVars,
        senseVars, laneVars, countVars, listVars, MgrCountOut, ExitAt
<1>1. outCar[x] \in AtExits /\ AtExits' = AtExits \ {outCar[x]}
  BY DEF AtExits, LanesInStep, ExitInStep, OnePlace
<1>2. AtEntrances' = AtEntrances
  BY DEF AtEntrances, CountedAt
<1>3. InsideCars' = InsideCars /\ leaving' = leaving
  BY DEF InsideCars
<1>4. outCar[x] \notin AtEntrances \cup InsideCars \cup leaving
  BY DEF AtEntrances, CountedAt, LanesInStep, EntranceInStep, ExitInStep,
         OnePlace, AtExitGates
<1> QED
  BY <1>1, <1>2, <1>3, <1>4 DEF Counted, AtEntrances, AtExits

-----------------------------------------------------------------------------
(* The theorems.                                                           *)

Exact == CountIsExact /\ m_counter <= Capacity /\ Counted \subseteq Allowed

IInv == Steady /\ OnePlace /\ Exact

LEMMA ExactInit == Init => Exact
<1> SUFFICES ASSUME Init PROVE Exact
  OBVIOUS
<1>1. Counted = {}
  BY DEF Init, Counted, CountedAt, InsideCars
<1>2. Capacity \in Nat
  BY CarParkAssumption DEF Capacity
<1> QED
  BY <1>1, <1>2, FS_EmptySet DEF Init, Exact, CountIsExact

LEMMA ExactStep == IInv /\ [Next]_vars => Exact'
<1> SUFFICES ASSUME IInv, [Next]_vars
             PROVE  Exact'
  OBVIOUS
<1> USE DEF IInv
<1>1. IsFiniteSet(Counted) /\ m_counter \in Int /\ Capacity \in Int
  BY CountedFinite, CarParkAssumption DEF Steady, TypeOK, Capacity
<1>2. ASSUME NEW e \in Entrances, MgrCountIn(e)
      PROVE  Exact'
  <2>1. /\ Counted' = Counted \cup {inCar[e]}
        /\ inCar[e] \in Allowed \ Counted
    BY <1>2, CountedIn
  <2>2. m_counter' = m_counter + 1 /\ m_counter < Capacity
    BY <1>2 DEF MgrCountIn, HasRoom
  <2>3. Cardinality(Counted') = Cardinality(Counted) + 1
    BY <1>1, <2>1, FS_AddElement
  <2>4. CountIsExact' /\ m_counter' <= Capacity
    BY <1>1, <2>2, <2>3 DEF Exact, CountIsExact
  <2> QED
    BY <2>1, <2>4 DEF Exact, Capacity
<1>3. ASSUME NEW x \in Exits, MgrCountOut(x)
      PROVE  Exact'
  <2>1. /\ Counted' = Counted \ {outCar[x]}
        /\ outCar[x] \in Counted
    BY <1>3, CountedOut
  <2>2. m_counter' = m_counter - 1
    BY <1>3 DEF MgrCountOut
  <2>3. Cardinality(Counted') = Cardinality(Counted) - 1
    BY <1>1, <2>1, FS_RemoveElement
  <2>4. CountIsExact' /\ m_counter' <= Capacity
    BY <1>1, <2>2, <2>3 DEF Exact, CountIsExact
  <2> QED
    BY <2>1, <2>4 DEF Exact, Capacity
<1>4. CASE /\ \A e \in Entrances : ~MgrCountIn(e)
           /\ \A x \in Exits : ~MgrCountOut(x)
  BY <1>4, CountedSame DEF Exact, CountIsExact, Capacity
<1> QED
  BY <1>2, <1>3, <1>4

\* The inductive invariant holds of every behaviour.
THEOREM Invariance == Spec => []IInv
<1>1. Init => IInv
  BY SteadyInit, OnePlaceInit, ExactInit DEF IInv
<1>2. IInv /\ [Next]_vars => IInv'
  BY SteadyStep, OnePlaceStep, ExactStep DEF IInv
<1> QED
  BY <1>1, <1>2, PTL DEF Spec

\* Every variable keeps its type.
THEOREM TypeCorrect == Spec => []TypeOK
<1>1. IInv => TypeOK
  BY DEF IInv, Steady
<1> QED
  BY <1>1, Invariance, PTL

\* The threads of every lane keep in step (thf_entr with entrance_lpr,
\* thf_exit with exit_lpr), and a car is in one place at a time.
THEOREM CarsKeepInStep == Spec => []CarsInStep
<1>1. IInv => CarsInStep
  BY DEF IInv, Steady, CarsInStep
<1> QED
  BY <1>1, Invariance, PTL

\* m_counter counts every admitted car once, whatever the order in which the
\* entrance and exit threads take car_park_lock.
THEOREM CountCorrect == Spec => []CountIsExact
<1>1. IInv => CountIsExact
  BY DEF IInv, Exact
<1> QED
  BY <1>1, Invariance, PTL

\* The cars that are really in the car park exceed its capacity by at most one
\* per exit, for exit_lpr counts a car out before it is through the gate.
LEMMA CapacityRespected == Spec => []CapacityKept
<1>1. ASSUME IInv
      PROVE  CapacityKept
  <2> USE <1>1 DEF IInv
  <2> DEFINE onLevels == InsideCars \cup leaving
             gates == {y \in Exits : outPc[y] = "atGate"}
             carAt == [y \in gates |-> outCar[y]]
  <2>1. /\ IsFiniteSet(onLevels)
        /\ Cardinality(onLevels) \in Nat
        /\ Cardinality(onLevels) <= Capacity
    <3>1. onLevels \subseteq Counted
      BY DEF Counted
    <3>2. Cardinality(onLevels) <= Cardinality(Counted) /\ IsFiniteSet(onLevels)
      BY <3>1, CountedFinite, FS_Subset
    <3> QED
      BY <3>2, CountedFinite, FS_CardinalityType, CarParkAssumption
      DEF Exact, CountIsExact, Capacity
  <2> HIDE DEF onLevels
  <2>2. /\ IsFiniteSet(AtExitGates)
        /\ Cardinality(AtExitGates) \in Nat
        /\ Cardinality(AtExitGates) <= Cardinality(Exits)
    <3>1. IsFiniteSet(gates) /\ Cardinality(gates) <= Cardinality(Exits)
      BY CarParkAssumption, FS_Subset
    <3>2. carAt \in Surjection(gates, AtExitGates)
      BY DEF Surjection, AtExitGates
    <3>3. IsFiniteSet(AtExitGates) /\ Cardinality(AtExitGates) <= Cardinality(gates)
      BY <3>1, <3>2, FS_Surjection DEF ExistsSurjection
    <3> QED
      BY <3>1, <3>3, FS_CardinalityType, CarParkAssumption
  <2>3. Cardinality(onLevels \cup AtExitGates)
           <= Cardinality(onLevels) + Cardinality(AtExitGates)
    <3>1. IsFiniteSet(onLevels \cap AtExitGates)
      BY <2>1, FS_Subset
    <3>2. Cardinality(onLevels \cap AtExitGates) \in Nat
      BY <3>1, FS_CardinalityType
    <3>3. Cardinality(onLevels \cup AtExitGates) =
            Cardinality(onLevels) + Cardinality(AtExitGates)
              - Cardinality(onLevels \cap AtExitGates)
      BY <2>1, <2>2, FS_Union
    <3> QED
      BY <2>1, <2>2, <3>2, <3>3
  <2>4. /\ Cardinality(Exits) \in Nat /\ Capacity \in Nat
        /\ Cardinality(onLevels \cup AtExitGates) \in Nat
    <3>1. IsFiniteSet(onLevels \cup AtExitGates)
      BY <2>1, <2>2, FS_Union
    <3>2. Capacity \in Nat
      BY CarParkAssumption DEF Capacity
    <3> QED
      BY <3>1, <3>2, FS_CardinalityType, CarParkAssumption
  <2> QED
    BY <2>1, <2>2, <2>3, <2>4 DEF CapacityKept, onLevels
<1> QED
  BY <1>1, Invariance, PTL

\* Only allowed cars get in, for a gate goes up for a car that was looked up, and
\* no more of them than the capacity and one per exit.
THEOREM PlacesCorrect == Spec => []PlacesAreKept
<1>1. IInv => OnlyAllowedInside
  BY DEF IInv, Exact, OnlyAllowedInside, Counted
<1>2. Spec => [](CapacityKept /\ OnlyAllowedInside)
  BY <1>1, Invariance, CapacityRespected, PTL
<1>3. CapacityKept /\ OnlyAllowedInside => PlacesAreKept
  BY DEF PlacesAreKept
<1> QED
  BY <1>2, <1>3, PTL

LEMMA LotCardinality == \A S : Lot!Cardinality(S) = Cardinality(S)
BY Zenon DEF Cardinality, Lot!Cardinality, IsFiniteSet, Lot!IsFiniteSet

\* The manager's and the simulator's threads together implement ParkingLot.
THEOREM Refinement == Spec => ImplementsParkingLot
<1>1. Init => Lot!Init
  BY DEF Init, Lot!Init, Counted, CountedAt, InsideCars
<1>2. IInv /\ [Next]_vars => [Lot!Next]_Counted
  <2> SUFFICES ASSUME IInv, [Next]_vars
               PROVE  [Lot!Next]_Counted
    OBVIOUS
  <2> USE DEF IInv
  <2>1. ASSUME NEW e \in Entrances, MgrCountIn(e)
        PROVE  Lot!Next
    <3>1. /\ Counted' = Counted \cup {inCar[e]}
          /\ inCar[e] \in Allowed \ Counted
      BY <2>1, CountedIn
    <3>2. Cardinality(Counted) < Capacity
      BY <2>1 DEF MgrCountIn, HasRoom, Exact, CountIsExact
    <3> QED
      BY <3>1, <3>2, LotCardinality DEF Lot!Next, Lot!CountIn
  <2>2. ASSUME NEW x \in Exits, MgrCountOut(x)
        PROVE  Lot!Next
    BY <2>2, CountedOut DEF Exact, Lot!Next, Lot!CountOut
  <2>3. CASE /\ \A e \in Entrances : ~MgrCountIn(e)
             /\ \A x \in Exits : ~MgrCountOut(x)
    BY <2>3, CountedSame
  <2> QED
    BY <2>1, <2>2, <2>3
<1> QED
  BY <1>1, <1>2, Invariance, PTL DEF Spec, ImplementsParkingLot, Lot!Spec

-----------------------------------------------------------------------------
(* Linked lists: what a search from h meets when nx are the next pointers  *)
(* and al the allocated nodes.                                             *)

Nodes == Cars \cup {NoCar}

Closed(S, nx, al) == \A n \in S \cap al : nx[n] \in S

Reach(h, nx, al) ==
  {n \in Nodes : \A S \in SUBSET Nodes : h \in S /\ Closed(S, nx, al) => n \in S}

LEMMA ChainReach == \A h : ChainFrom(h) = Reach(h, next, alive)
BY DEF ChainFrom, Reach, Closed, Nodes

LEMMA ReachLeast ==
  ASSUME NEW h, NEW nx, NEW al,
         NEW S \in SUBSET Nodes, h \in S, Closed(S, nx, al)
  PROVE  Reach(h, nx, al) \subseteq S
BY DEF Reach

LEMMA ReachClosed ==
  ASSUME NEW h \in Nodes, NEW nx \in [Cars -> Nodes], NEW al \in SUBSET Cars
  PROVE  /\ h \in Reach(h, nx, al)
         /\ Reach(h, nx, al) \in SUBSET Nodes
         /\ Closed(Reach(h, nx, al), nx, al)
BY DEF Reach, Closed

\* A search meets what it met before if what changed was not in its way.
LEMMA ReachSame ==
  ASSUME NEW h \in Nodes, NEW nx \in [Cars -> Nodes], NEW al \in SUBSET Cars,
         NEW nx2 \in [Cars -> Nodes], NEW al2 \in SUBSET Cars,
         \A n \in Reach(h, nx, al) :
           (n \in al2 <=> n \in al) /\ (n \in al => nx2[n] = nx[n])
  PROVE  Reach(h, nx2, al2) = Reach(h, nx, al)
<1> DEFINE C == Reach(h, nx, al)
           D == Reach(h, nx2, al2)
<1>1. h \in C /\ C \in SUBSET Nodes /\ Closed(C, nx, al)
  BY ReachClosed
<1>2. h \in D /\ D \in SUBSET Nodes /\ Closed(D, nx2, al2)
  BY ReachClosed
<1> HIDE DEF C, D
<1>3. Closed(C, nx2, al2)
  BY <1>1 DEF Closed, C
<1>4. D \subseteq C
  BY <1>1, <1>3, ReachLeast DEF D
<1>5. Closed(D, nx, al)
  BY <1>2, <1>4 DEF Closed, C
<1>6. C \subseteq D
  BY <1>2, <1>5, ReachLeast DEF C
<1> QED
  BY <1>4, <1>6 DEF C, D

\* A search from p meets p and what a search from its next node meets.
LEMMA ReachCons ==
  ASSUME NEW nx \in [Cars -> Nodes], NEW al \in SUBSET Cars, NEW p \in al
  PROVE  Reach(p, nx, al) = {p} \cup Reach(nx[p], nx, al)
<1> DEFINE C == Reach(p, nx, al)
           D == Reach(nx[p], nx, al)
<1>0. p \in Nodes /\ nx[p] \in Nodes
  BY DEF Nodes
<1>1. p \in C /\ C \in SUBSET Nodes /\ Closed(C, nx, al)
  BY <1>0, ReachClosed
<1>2. nx[p] \in D /\ D \in SUBSET Nodes /\ Closed(D, nx, al)
  BY <1>0, ReachClosed
<1> HIDE DEF C, D
<1>3. Closed({p} \cup D, nx, al)
  BY <1>2 DEF Closed
<1>4. C \subseteq {p} \cup D
  BY <1>0, <1>2, <1>3, ReachLeast DEF C
<1>5. D \subseteq C
  <2>1. nx[p] \in C
    BY <1>1 DEF Closed
  <2> QED
    BY <1>1, <2>1, ReachLeast DEF D
<1> QED
  BY <1>1, <1>4, <1>5 DEF C, D

\* From h there is a proper list of the nodes L: no node is met twice.
IsList(h, nx, al, L) ==
  /\ Reach(h, nx, al) \ {NoCar} = L
  /\ L \subseteq al
  /\ h # NoCar => \A n \in L : nx[n] # h
  /\ \A m, n \in L : nx[m] = nx[n] /\ nx[m] # NoCar => m = n

\* node_add makes a node p before the list; the list itself is as it was.
LEMMA ListBesideNode ==
  ASSUME NEW h \in Nodes, NEW nx \in [Cars -> Nodes], NEW al \in SUBSET Cars,
         NEW L, IsList(h, nx, al, L), NEW p \in Cars \ L, NEW v \in Nodes
  PROVE  IsList(h, [nx EXCEPT ![p] = v], al \cup {p}, L)
<1> DEFINE nx2 == [nx EXCEPT ![p] = v]
<1>1. nx2 \in [Cars -> Nodes] /\ \A n \in Cars \ {p} : nx2[n] = nx[n]
  OBVIOUS
<1> HIDE DEF nx2
<1>2. Reach(h, nx2, al \cup {p}) = Reach(h, nx, al)
  <2>1. p \notin Reach(h, nx, al)
    BY CarParkAssumption DEF IsList
  <2> QED
    BY <1>1, <2>1, ReachSame
<1>3. L \subseteq al /\ p \notin L
  BY DEF IsList
<1>4. \A n \in L : nx2[n] = nx[n]
  BY <1>1, <1>3
<1>5. IsList(h, nx2, al \cup {p}, L)
  BY <1>2, <1>3, <1>4 DEF IsList
<1> QED
  BY <1>5 DEF nx2

\* The store of the new head puts p in front.
LEMMA ListPrepended ==
  ASSUME NEW h \in Nodes, NEW nx \in [Cars -> Nodes], NEW al \in SUBSET Cars,
         NEW L, IsList(h, nx, al, L), NEW p \in al \ L, nx[p] = h
  PROVE  IsList(p, nx, al, L \cup {p})
<1>1. p # NoCar /\ L \subseteq al /\ p \notin L /\ p \in al
  BY CarParkAssumption DEF IsList
<1>2. Reach(p, nx, al) = {p} \cup Reach(h, nx, al)
  BY ReachCons
<1>3. Reach(p, nx, al) \ {NoCar} = L \cup {p}
  BY <1>1, <1>2 DEF IsList
<1>4. /\ h \in Reach(h, nx, al)
      /\ \A n \in L : nx[n] \in Reach(h, nx, al)
  BY <1>1, ReachClosed DEF Closed, IsList
<1>5. p \notin Reach(h, nx, al)
  BY <1>1 DEF IsList
<1>6. \A n \in L \cup {p} : nx[n] # p
  BY <1>4, <1>5
<1>7. \A m, n \in L \cup {p} : nx[m] = nx[n] /\ nx[m] # NoCar => m = n
  BY DEF IsList
<1> QED
  BY <1>1, <1>3, <1>6, <1>7 DEF IsList

\* node_delete of the first node returns the second.
LEMMA ListWithoutHead ==
  ASSUME NEW nx \in [Cars -> Nodes], NEW al \in SUBSET Cars,
         NEW L, NEW p \in L, IsList(p, nx, al, L),
         NEW nx2 \in [Cars -> Nodes], \A n \in L \ {p} : nx2[n] = nx[n]
  PROVE  IsList(nx[p], nx2, al \ {p}, L \ {p})
<1> DEFINE C == Reach(p, nx, al)
           D == Reach(nx[p], nx, al)
<1>1. /\ L = C \ {NoCar} /\ L \subseteq al /\ p \in al /\ p # NoCar
      /\ \A n \in L : nx[n] # p
      /\ NoCar \notin al
  BY CarParkAssumption DEF IsList
<1>0. p \in Nodes /\ nx[p] \in Nodes
  BY <1>1 DEF Nodes
<1>2. p \in C /\ C \in SUBSET Nodes /\ Closed(C, nx, al)
  BY <1>0, ReachClosed
<1>3. C = {p} \cup D
  BY <1>1, ReachCons
<1> HIDE DEF C, D
<1>4. D = C \ {p}
  <2>1. Closed(C \ {p}, nx, al)
    BY <1>1, <1>2 DEF Closed
  <2>2. nx[p] \in C \ {p}
    BY <1>1, <1>2 DEF Closed
  <2>3. D \subseteq C \ {p}
    BY <1>2, <2>1, <2>2, ReachLeast DEF D
  <2> QED
    BY <1>3, <2>3
<1>5. Reach(nx[p], nx2, al \ {p}) = D
  <2>1. \A n \in D : n \in al => n \in L \ {p}
    BY <1>1, <1>4
  <2> QED
    BY <1>0, <1>4, <2>1, ReachSame DEF D
<1>6. nx[p] # NoCar => \A n \in L \ {p} : nx2[n] # nx[p]
  BY DEF IsList
<1>7. \A m, n \in L \ {p} : nx2[m] = nx2[n] /\ nx2[m] # NoCar => m = n
  BY DEF IsList
<1> QED
  BY <1>1, <1>4, <1>5, <1>6, <1>7 DEF IsList

\* node_delete of another node p links the one before it to the one after it.
LEMMA ListWithoutInner ==
  ASSUME NEW h \in Nodes, NEW nx \in [Cars -> Nodes], NEW al \in SUBSET Cars,
         NEW L, NEW p \in L, IsList(h, nx, al, L), h # p,
         NEW nx2 \in [Cars -> Nodes],
         \A n \in L \ {p} : nx2[n] = IF nx[n] = p THEN nx[p] ELSE nx[n]
  PROVE  IsList(h, nx2, al \ {p}, L \ {p})
<1> DEFINE C == Reach(h, nx, al)
           N == Reach(h, nx2, al \ {p})
<1>1. /\ L = C \ {NoCar} /\ L \subseteq al /\ p \in al /\ p # NoCar
      /\ NoCar \notin al
      /\ \A m, n \in L : nx[m] = nx[n] /\ nx[m] # NoCar => m = n
  BY CarParkAssumption DEF IsList
<1>2. h \in C /\ C \in SUBSET Nodes /\ Closed(C, nx, al)
  BY ReachClosed
<1>3. h \in N /\ N \in SUBSET Nodes /\ Closed(N, nx2, al \ {p})
  BY ReachClosed
<1> HIDE DEF C, N
<1>4. PICK q \in L \ {p} : nx[q] = p
  <2>1. p \in C
    BY <1>1
  <2>2. ~Closed(C \ {p}, nx, al)
    BY <1>2, <2>1, ReachLeast DEF C
  <2> QED
    BY <1>1, <1>2, <2>2 DEF Closed
<1>5. \A n \in L \ {p, q} : nx2[n] = nx[n] /\ nx[n] # p
  BY <1>1, <1>4
<1>6. nx2[q] = nx[p] /\ nx[p] # p
  BY <1>1, <1>4
<1>7. N \subseteq C \ {p}
  <2>1. Closed(C \ {p}, nx2, al \ {p})
    BY <1>1, <1>2, <1>5, <1>6 DEF Closed
  <2> QED
    BY <1>2, <2>1, ReachLeast DEF N
<1>8. \A n \in N \cap al : n # q => nx[n] \in N
  BY <1>1, <1>3, <1>5, <1>7 DEF Closed
<1>9. q \in N
  <2> SUFFICES ASSUME q \notin N PROVE FALSE
    OBVIOUS
  <2>1. Closed(N, nx, al)
    BY <1>8 DEF Closed
  <2> QED
    BY <1>1, <1>3, <1>4, <2>1, ReachLeast DEF C
<1>10. C \subseteq N \cup {p}
  <2>1. nx[p] \in N
    BY <1>1, <1>3, <1>4, <1>6, <1>9 DEF Closed
  <2>2. Closed(N \cup {p}, nx, al)
    BY <1>4, <1>8, <2>1 DEF Closed
  <2>3. N \cup {p} \in SUBSET Nodes
    BY <1>1, <1>3 DEF Nodes
  <2> QED
    BY <1>3, <2>2, <2>3, ReachLeast DEF C
<1>11. N \ {NoCar} = L \ {p}
  BY <1>1, <1>7, <1>10
<1>12. h # NoCar => \A n \in L \ {p} : nx2[n] # h
  BY <1>5, <1>6 DEF IsList
<1>13. \A m, n \in L \ {p} : nx2[m] = nx2[n] /\ nx2[m] # NoCar => m = n
  BY <1>1, <1>5, <1>6
<1> QED
  BY <1>1, <1>11, <1>12, <1>13 DEF IsList, N

-----------------------------------------------------------------------------
(* The car list, as long as no thread meets another at it.                 *)

\* The exit's car has a vehicle.
HasVehicle(x) == x \in rung \/ xPc[x] = "gate"

IsListed(h) == IsList(h, next, alive, Listed)

OneEditor ==
  /\ \A e, f \in Adding : e = f
  /\ \A x, y \in Deleting : x = y
  /\ Adding = {} \/ Deleting = {}

ListGood ==
  /\ Deleting = {} => IsListed(car_list)
  /\ \A x \in Deleting : IsListed(xHead[x])

\* A node that was made waits to become the head.
NodeReady ==
  \A e \in Adding : next[holder[e]] = car_list /\ holder[e] \in alive

NotListedYet == \A e \in Entrances : ePc[e] # "wait" => inCar[e] \notin Listed

\* The car whose vehicle an exit is about to delete is nowhere else.
GoneAt(x) ==
  /\ outCar[x] \in Cars
  /\ outCar[x] \notin InsideCars \cup leaving
  /\ \A e \in Entrances \cap gateUp : inCar[e] # outCar[x]
  /\ \A y \in Exits \ {x} : HasVehicle(y) => outCar[y] # outCar[x]

\* What holds of the list, its editors and the cars, without the history.
ListState ==
  /\ ~crashed /\ OneEditor /\ ListGood /\ NodeReady /\ NotListedYet
  /\ \A x \in Exits : xPc[x] = "gate" => GoneAt(x)

ListInv == ~raced => ListState

LEMMA ListInvInit == Init => ListInv
<1> SUFFICES ASSUME Init PROVE ListInv
  OBVIOUS
<1>1. Listed = {}
  BY DEF Init, Listed, InsideCars
<1>2. Adding = {} /\ Deleting = {}
  BY DEF Init, Adding, Deleting
<1>3. Reach(NoCar, next, alive) = {NoCar}
  <2>1. /\ NoCar \in Nodes /\ alive = {} /\ next \in [Cars -> Nodes]
    BY DEF Init, Nodes
  <2>2. NoCar \in Reach(NoCar, next, alive)
    BY <2>1, ReachClosed
  <2>3. Closed({NoCar}, next, alive)
    BY <2>1 DEF Closed
  <2>4. {NoCar} \in SUBSET Nodes
    BY DEF Nodes
  <2>5. Reach(NoCar, next, alive) \subseteq {NoCar}
    BY <2>3, <2>4, ReachLeast
  <2> QED
    BY <2>2, <2>5
<1>4. IsListed(car_list)
  BY <1>1, <1>3 DEF Init, IsListed, IsList
<1>5. OneEditor /\ ListGood /\ NodeReady
  BY <1>2, <1>4 DEF OneEditor, ListGood, NodeReady
<1>6. NotListedYet /\ \A x \in Exits : xPc[x] # "gate"
  BY DEF Init, NotListedYet
<1>7. ~crashed
  BY DEF Init
<1> QED
  BY <1>5, <1>6, <1>7 DEF ListInv, ListState

LEMMA Typed ==
  ASSUME Steady
  PROVE  /\ next \in [Cars -> Nodes] /\ alive \in SUBSET Cars
         /\ car_list \in Nodes
         /\ \A x \in Exits : xHead[x] \in Nodes
BY DEF Steady, TypeOK, Nodes

\* A search in a good list finds the cars that are listed, and ends.
LEMMA Searched ==
  ASSUME Steady, IsListed(car_list)
  PROVE  /\ \A p \in Cars : Finds(p) <=> p \in Listed
         /\ \A p \in Cars \cup {NoCar} : ~Strays(p)
         /\ Chain \cap Cars = Listed
<1>1. Chain = Reach(car_list, next, alive)
  BY ChainReach DEF Chain
<1>2. Chain \ {NoCar} = Listed /\ Listed \subseteq alive /\ alive \subseteq Cars
  BY <1>1, Typed DEF IsListed, IsList
<1>3. Chain \subseteq Nodes
  BY <1>1 DEF Reach
<1> QED
  BY <1>2, <1>3, CarParkAssumption DEF Finds, Strays, Nodes

\* Only MgrLink and MgrUnlink change who is listed.
LEMMA ListedSame ==
  ASSUME Steady, OnePlace, [Next]_vars,
         \A e \in Entrances : ~MgrLink(e),
         \A x \in Exits : ~MgrUnlink(x)
  PROVE  Listed' = Listed
<1> USE CarParkAssumption DEF Steady, simVars, shmVars,
        senseVars, laneVars, countVars, listVars
<1> DEFINE up == {inCar[e] : e \in Entrances \cap gateUp}
           out == {outCar[x] : x \in {y \in Exits : y \in rung \/ xPc[y] = "gate"}}
<1>0. Listed = up \cup InsideCars \cup leaving \cup out
  BY DEF Listed
<1>1. ASSUME NEW e \in Entrances, NEW c \in Cars, SimArrive(e, c)
      PROVE  Listed' = Listed
  BY <1>1 DEF TypeOK, LanesInStep, EntranceInStep, InsideCars, Listed, SimArrive
<1>2. ASSUME NEW e \in Entrances, SimReadSign(e)
      PROVE  Listed' = Listed
  <2>1. \A f \in Entrances \cap gateUp : inCar'[f] = inCar[f]
    BY <1>2, Signs DEF TypeOK, LanesInStep, EntranceInStep, SimReadSign
  <2> QED
    BY <1>2, <2>1 DEF SimReadSign, InsideCars, Listed
<1>3. ASSUME NEW e \in Entrances, SimDriveIn(e)
      PROVE  Listed' = Listed
  <2> DEFINE parked == <<inCar[e], sign[e]>>
  <2>1. parked[1] = inCar[e] /\ inside' = inside \cup {parked}
    BY <1>3 DEF SimDriveIn
  <2>2. InsideCars' = InsideCars \cup {inCar[e]}
    BY <2>1 DEF InsideCars
  <2> HIDE DEF parked
  <2>3. up' \cup {inCar[e]} = up
    BY <1>3 DEF TypeOK, SimDriveIn
  <2>4. leaving' = leaving /\ out' = out
    BY <1>3 DEF SimDriveIn
  <2> QED
    BY <1>0, <2>2, <2>3, <2>4 DEF Listed
<1>4. ASSUME NEW e \in Entrances, MgrLookUp(e) \/ MgrCountIn(e) \/ MgrNoRoom(e)
                                  \/ MgrShow(e)
      PROVE  Listed' = Listed
  <2>1. up' = up
    BY <1>4 DEF MgrLookUp, MgrCountIn, MgrNoRoom, MgrShow
  <2>2. InsideCars' = InsideCars /\ leaving' = leaving
    BY <1>4 DEF MgrLookUp, MgrCountIn, MgrNoRoom, MgrShow, InsideCars
  <2>3. out' = out
    BY <1>4 DEF MgrLookUp, MgrCountIn, MgrNoRoom, MgrShow
  <2> QED
    BY <1>0, <2>1, <2>2, <2>3 DEF Listed
<1>5. ASSUME NEW p \in inside, SimLeave(p)
      PROVE  Listed' = Listed
  BY <1>5 DEF InsideCars, Listed, SimLeave
<1>6. ASSUME NEW x \in Exits, NEW c \in leaving, SimAtExit(x, c)
      PROVE  Listed' = Listed
  <2>1. x \notin rung /\ xPc[x] = "wait"
    BY <1>6 DEF LanesInStep, ExitInStep, SimAtExit
  <2>2. out' = out \cup {c}
    BY <1>6, <2>1 DEF TypeOK, SimAtExit
  <2>3. leaving' \cup {c} = leaving /\ InsideCars' = InsideCars /\ up' = up
    BY <1>6 DEF SimAtExit, InsideCars
  <2> QED
    BY <1>0, <2>2, <2>3 DEF Listed
<1>7. ASSUME NEW x \in Exits, SimDriveOut(x)
      PROVE  Listed' = Listed
  <2>1. up' = up
    BY <1>7 DEF SimDriveOut
  <2> QED
    BY <1>0, <1>7, <2>1 DEF SimDriveOut, InsideCars, Listed
<1>8. ASSUME NEW x \in Exits, MgrCountOut(x)
      PROVE  Listed' = Listed
  <2>1. up' = up /\ InsideCars' = InsideCars /\ leaving' = leaving
    BY <1>8 DEF MgrCountOut, InsideCars
  <2>2. out' = out
    BY <1>8 DEF TypeOK, MgrCountOut, ExitAt
  <2> QED
    BY <1>0, <2>1, <2>2 DEF Listed
<1>9. ASSUME NEW x \in Exits, MgrStore(x)
      PROVE  Listed' = Listed
  <2>1. out' = out
    BY <1>9 DEF TypeOK, MgrStore, ExitAt
  <2> QED
    BY <1>0, <1>9, <2>1 DEF MgrStore, InsideCars, Listed
<1>10. ASSUME MgrSenseLevel
      PROVE  Listed' = Listed
  BY <1>10 DEF MgrSenseLevel, InsideCars, Listed
<1>11. ASSUME UNCHANGED vars
      PROVE  Listed' = Listed
  BY <1>11 DEF vars, InsideCars, Listed
<1> QED
  BY <1>1, <1>2, <1>3, <1>4, <1>5, <1>6, <1>7, <1>8, <1>9, <1>10, <1>11
  DEF Next, EntranceStep, ExitStep

LEMMA ListedMore ==
  ASSUME Steady, NEW e \in Entrances, MgrLink(e)
  PROVE  Listed' = Listed \cup {inCar[e]}
<1>1. inCar' = inCar /\ inside' = inside /\ leaving' = leaving
      /\ outCar' = outCar /\ rung' = rung /\ xPc' = xPc
      /\ gateUp' = gateUp \cup {e}
  BY DEF MgrLink, simVars
<1> QED
  BY <1>1 DEF Listed, InsideCars

LEMMA ListedLess ==
  ASSUME Steady, NEW x \in Exits, MgrUnlink(x), GoneAt(x)
  PROVE  Listed' = Listed \ {outCar[x]} /\ outCar[x] \in Listed
<1>1. inCar' = inCar /\ inside' = inside /\ leaving' = leaving
      /\ gateUp' = gateUp /\ rung' = rung
      /\ outCar' = [outCar EXCEPT ![x] = NoCar]
      /\ xPc' = [xPc EXCEPT ![x] = "store"] /\ xPc[x] = "gate"
  BY DEF MgrUnlink, ExitAt, shmVars
<1>2. outCar \in [Exits -> Cars \cup {NoCar}] /\ xPc[x] # "wait" /\ x \notin rung
      /\ xPc \in [Exits -> {"wait", "gate", "store"}]
  BY <1>1 DEF Steady, TypeOK, LanesInStep, ExitInStep
<1> QED
  BY <1>1, <1>2 DEF Listed, InsideCars, GoneAt, HasVehicle

\* A step that leaves the list, its editors and who is listed alone.
LEMMA ListUndisturbed ==
  ASSUME ListState,
         Adding' = Adding, Deleting' = Deleting, Listed' = Listed,
         <<car_list, next, alive>>' = <<car_list, next, alive>>,
         \A e \in Adding : holder'[e] = holder[e],
         \A x \in Deleting : xHead'[x] = xHead[x]
  PROVE  OneEditor' /\ ListGood' /\ NodeReady'
BY DEF ListState, OneEditor, ListGood, NodeReady, IsListed

\* The new head is stored (MgrLink).
LEMMA LinkState ==
  ASSUME Steady, OnePlace, ListState, Steady', NEW e \in Entrances, MgrLink(e)
  PROVE  ListState'
<1> USE DEF ListState
<1>1. e \in Adding /\ Deleting = {} /\ \A f \in Adding : f = e
  BY DEF MgrLink, EntranceAt, Adding, OneEditor
<1>2. Adding' = {} /\ Deleting' = {}
  <2>1. Adding' = Adding \ {e} /\ Deleting' = Deleting
    BY DEF Steady, TypeOK, MgrLink, EntranceAt, Adding, Deleting
  <2> QED
    BY <1>1, <2>1
<1>3. holder[e] = inCar[e] /\ inCar[e] \in Cars /\ inCar[e] \notin Listed
  BY <1>1, CarParkAssumption
  DEF Adding, NotListedYet, Steady, LanesInStep, EntranceInStep
<1>4. Listed' = Listed \cup {inCar[e]}
  BY ListedMore
<1>5. IsListed(car_list)'
  <2>1. IsList(inCar[e], next, alive, Listed \cup {inCar[e]})
    BY <1>1, <1>3, Typed, ListPrepended DEF ListGood, NodeReady, IsListed
  <2>2. car_list' = inCar[e] /\ next' = next /\ alive' = alive
    BY <1>3 DEF MgrLink
  <2> QED
    BY <1>4, <2>1, <2>2 DEF IsListed
<1>6. OneEditor' /\ ListGood' /\ NodeReady'
  BY <1>2, <1>5 DEF OneEditor, ListGood, NodeReady
<1>7. NotListedYet'
  <2> SUFFICES ASSUME NEW f \in Entrances, ePc'[f] # "wait"
               PROVE  inCar'[f] \notin Listed'
    BY DEF NotListedYet
  <2>1. f # e /\ ePc[f] # "wait" /\ inCar' = inCar
    BY DEF MgrLink, EntranceAt, Steady, TypeOK, simVars
  <2>2. inCar[f] \notin Listed
    BY <2>1 DEF NotListedYet
  <2>3. simPc[f] # "pop"
    BY <2>1 DEF Steady, LanesInStep, EntranceInStep
  <2>4. inCar[f] # inCar[e]
    BY <2>1, <2>3 DEF OnePlace
  <2> QED
    BY <1>4, <2>1, <2>2, <2>4
<1>8. ASSUME NEW x \in Exits, xPc'[x] = "gate"
      PROVE  GoneAt(x)'
  <2>1. /\ inCar' = inCar /\ outCar' = outCar /\ InsideCars' = InsideCars
        /\ leaving' = leaving /\ xPc' = xPc /\ rung' = rung
        /\ gateUp' = gateUp \cup {e}
    BY DEF MgrLink, simVars, InsideCars
  <2>2. GoneAt(x)
    BY <1>8, <2>1
  <2>3. outCar[x] \in Listed
    BY <1>8, <2>1 DEF Listed
  <2> QED
    BY <1>3, <2>1, <2>2, <2>3 DEF GoneAt, HasVehicle
<1>9. ~crashed'
  BY DEF MgrLink
<1> QED
  BY <1>6, <1>7, <1>8, <1>9

LEMMA ShowState ==
  ASSUME Steady, OnePlace, ListState, Listed' = Listed, ~raced',
         NEW e \in Entrances, MgrShow(e)
  PROVE  ListState'
<1> USE DEF ListState
<1>1. Adding = {} /\ Deleting = {}
  BY DEF MgrShow, Edit
<1>2. Adding' = {e} /\ Deleting' = {}
  BY <1>1 DEF Steady, TypeOK, MgrShow, EntranceAt, Adding, Deleting
<1>3. holder[e] = inCar[e] /\ inCar[e] \in Cars /\ inCar[e] \notin Listed
  BY CarParkAssumption
  DEF MgrShow, EntranceAt, NotListedYet, Steady, LanesInStep, EntranceInStep
<1>4. IsListed(car_list)'
  <2>1. IsList(car_list, [next EXCEPT ![holder[e]] = car_list],
               alive \cup {holder[e]}, Listed)
    BY <1>1, <1>3, Typed, ListBesideNode DEF ListGood, IsListed
  <2> QED
    BY <2>1 DEF MgrShow, IsListed
<1>5. OneEditor' /\ ListGood' /\ NodeReady'
  <2>1. next'[holder'[e]] = car_list' /\ holder'[e] \in alive'
    BY <1>3, Typed DEF MgrShow
  <2> QED
    BY <1>2, <1>4, <2>1 DEF OneEditor, ListGood, NodeReady
<1>6. NotListedYet'
  <2>1. inCar' = inCar /\ \A f \in Entrances : ePc'[f] # "wait" => ePc[f] # "wait"
    BY DEF MgrShow, EntranceAt, Steady, TypeOK, simVars
  <2> QED
    BY <2>1 DEF NotListedYet
<1>7. ASSUME NEW x \in Exits, xPc'[x] = "gate"
      PROVE  GoneAt(x)'
  BY <1>7 DEF MgrShow, simVars, GoneAt, HasVehicle, InsideCars
<1>8. ~crashed'
  BY DEF MgrShow
<1> QED
  BY <1>5, <1>6, <1>7, <1>8

LEMMA UnlinkState ==
  ASSUME Steady, OnePlace, ListState, ~raced', NEW x \in Exits, MgrUnlink(x)
  PROVE  ListState'
<1> USE DEF ListState
<1> DEFINE p == outCar[x]
<1>1. Adding = {} /\ Deleting = {}
  BY DEF MgrUnlink, Edit
<1>2. Adding' = {} /\ Deleting' = {x}
  BY <1>1 DEF Steady, TypeOK, MgrUnlink, ExitAt, Adding, Deleting
<1>3. IsListed(car_list)
  BY <1>1 DEF ListGood
<1>4. GoneAt(x) /\ p \in Cars
  BY DEF MgrUnlink, ExitAt, GoneAt
<1>5. Listed' = Listed \ {p} /\ p \in Listed
  BY <1>4, ListedLess
<1>6. Finds(p) /\ ~Strays(p) /\ p \in Chain /\ Chain \cap Cars = Listed
  BY <1>3, <1>4, <1>5, Searched
<1> HIDE DEF p
<1>7. /\ next' \in [Cars -> Nodes]
      /\ \A n \in Cars \ {p} :
           next'[n] = IF n \in Listed /\ next[n] = p THEN next[p] ELSE next[n]
  <2>1. next' = [n \in Cars |-> IF n = p THEN NoCar ELSE
                   IF n \in Chain /\ next[n] = p THEN next[p] ELSE next[n]]
    BY <1>6 DEF MgrUnlink, p
  <2> QED
    BY <1>4, <1>6, <2>1, Typed DEF Nodes
<1>8. Listed \subseteq Cars
  BY <1>6
<1>9. alive' = alive \ {p} /\ xHead'[x] = IF car_list = p THEN next[p] ELSE car_list
  BY <1>6, Typed DEF MgrUnlink, p, Steady, TypeOK
<1>10. IsListed(xHead[x])'
  <2>1. CASE car_list = p
    <3>1. \A n \in Listed \ {p} : next'[n] = next[n]
      <4>1. \A n \in Listed : next[n] # p
        BY <1>3, <1>4, <2>1, CarParkAssumption DEF IsListed, IsList
      <4> QED
        BY <1>7, <1>8, <4>1
    <3>2. IsList(next[p], next', alive \ {p}, Listed \ {p})
      BY <1>3, <1>5, <1>7, <2>1, <3>1, Typed, ListWithoutHead DEF IsListed
    <3> QED
      BY <1>5, <1>9, <2>1, <3>2 DEF IsListed
  <2>2. CASE car_list # p
    <3>1. \A n \in Listed \ {p} :
            next'[n] = IF next[n] = p THEN next[p] ELSE next[n]
      BY <1>7, <1>8
    <3>2. IsList(car_list, next', alive \ {p}, Listed \ {p})
      BY <1>3, <1>5, <1>7, <2>2, <3>1, Typed, ListWithoutInner DEF IsListed
    <3> QED
      BY <1>5, <1>9, <2>2, <3>2 DEF IsListed
  <2> QED
    BY <2>1, <2>2
<1>11. OneEditor' /\ ListGood' /\ NodeReady'
  BY <1>2, <1>10 DEF OneEditor, ListGood, NodeReady
<1>12. NotListedYet'
  <2>1. inCar' = inCar /\ ePc' = ePc
    BY DEF MgrUnlink
  <2> QED
    BY <1>5, <2>1 DEF NotListedYet
<1>13. ASSUME NEW y \in Exits, xPc'[y] = "gate"
       PROVE  GoneAt(y)'
  <2>1. /\ inCar' = inCar /\ InsideCars' = InsideCars
        /\ leaving' = leaving /\ rung' = rung /\ gateUp' = gateUp
        /\ outCar' = [outCar EXCEPT ![x] = NoCar]
        /\ xPc' = [xPc EXCEPT ![x] = "store"] /\ xPc[x] = "gate"
    BY DEF MgrUnlink, ExitAt, shmVars, InsideCars
  <2>2. y # x /\ xPc[y] = "gate" /\ outCar'[y] = outCar[y]
    BY <1>13, <2>1 DEF Steady, TypeOK
  <2>3. GoneAt(y)
    BY <2>2
  <2>4. \A z \in Exits \ {y} : HasVehicle(z)' => outCar'[z] # outCar'[y]
    <3> SUFFICES ASSUME NEW z \in Exits \ {y}, HasVehicle(z)'
                 PROVE  outCar'[z] # outCar'[y]
      OBVIOUS
    <3>1. CASE z = x
      BY <2>1, <2>2, <2>3, <3>1, CarParkAssumption DEF Steady, TypeOK, GoneAt
    <3>2. CASE z # x
      BY <2>1, <2>2, <2>3, <3>2 DEF Steady, TypeOK, GoneAt, HasVehicle
    <3> QED
      BY <3>1, <3>2
  <2> QED
    BY <2>1, <2>2, <2>3, <2>4 DEF GoneAt
<1>14. ~crashed'
  BY <1>6 DEF MgrUnlink, p
<1> QED
  BY <1>11, <1>12, <1>13, <1>14

LEMMA StoreState ==
  ASSUME Steady, OnePlace, ListState, Listed' = Listed, NEW x \in Exits, MgrStore(x)
  PROVE  ListState'
<1> USE DEF ListState
<1>1. x \in Deleting /\ Adding = {} /\ \A y \in Deleting : y = x
  BY DEF MgrStore, ExitAt, Deleting, OneEditor
<1>2. Adding' = {} /\ Deleting' = {}
  <2>1. Adding' = Adding /\ Deleting' = Deleting \ {x}
    BY DEF Steady, TypeOK, MgrStore, ExitAt, Adding, Deleting
  <2> QED
    BY <1>1, <2>1
<1>3. IsListed(car_list)'
  BY <1>1 DEF MgrStore, ListGood, IsListed
<1>4. OneEditor' /\ ListGood' /\ NodeReady'
  BY <1>2, <1>3 DEF OneEditor, ListGood, NodeReady
<1>5. NotListedYet' /\ ~crashed'
  BY DEF MgrStore, simVars, NotListedYet
<1>6. ASSUME NEW y \in Exits, xPc'[y] = "gate"
      PROVE  GoneAt(y)'
  <2>1. /\ inCar' = inCar /\ InsideCars' = InsideCars /\ outCar' = outCar
        /\ leaving' = leaving /\ rung' = rung /\ gateUp' = gateUp
        /\ \A z \in Exits : xPc'[z] = "gate" => xPc[z] = "gate"
    BY DEF MgrStore, ExitAt, shmVars, simVars, InsideCars, Steady, TypeOK
  <2> QED
    BY <1>6, <2>1 DEF GoneAt, HasVehicle
<1> QED
  BY <1>4, <1>5, <1>6

\* The steps that do not edit the list.
LEMMA EntranceState ==
  ASSUME Steady, OnePlace, ListState, Listed' = Listed, ~raced',
         NEW e \in Entrances,
         MgrLookUp(e) \/ MgrCountIn(e) \/ MgrNoRoom(e)
  PROVE  ListState'
<1> USE DEF ListState
<1>1. /\ <<car_list, next, alive, xPc, xHead, inCar, outCar, inside, leaving>>'
           = <<car_list, next, alive, xPc, xHead, inCar, outCar, inside, leaving>>
      /\ gateUp' = gateUp
      /\ rung' \in {rung, rung \ {e}}
  BY DEF MgrLookUp, MgrCountIn, MgrNoRoom, simVars, shmVars, listVars
<1>2. Deleting' = Deleting /\ Adding' = Adding
      /\ \A f \in Adding : holder'[f] = holder[f]
  BY DEF MgrLookUp, MgrCountIn, MgrNoRoom, EntranceAt, Steady, TypeOK,
         Adding, Deleting
<1>3. OneEditor' /\ ListGood' /\ NodeReady'
  BY <1>1, <1>2, ListUndisturbed
<1>4. MgrLookUp(e) => IsListed(car_list)
  BY DEF MgrLookUp, Search, ListGood
<1>5. ~crashed'
  <2>1. MgrLookUp(e) => ~Strays(inCar[e])
    BY <1>4, Searched DEF Steady, TypeOK
  <2> QED
    BY <2>1 DEF MgrLookUp, MgrCountIn, MgrNoRoom
<1>6. NotListedYet'
  <2> SUFFICES ASSUME NEW f \in Entrances, ePc'[f] # "wait"
               PROVE  inCar[f] \notin Listed
    BY <1>1 DEF NotListedYet
  <2>1. CASE ePc[f] # "wait"
    BY <2>1 DEF NotListedYet
  <2>2. CASE ePc[f] = "wait"
    <3>1. f = e /\ MgrLookUp(e) /\ ~Finds(inCar[e]) /\ inCar[e] \in Cars
      BY <2>2, CarParkAssumption
      DEF MgrLookUp, MgrCountIn, MgrNoRoom, EntranceAt, Steady, TypeOK
    <3> QED
      BY <1>4, <3>1, Searched
  <2> QED
    BY <2>1, <2>2
<1>7. ASSUME NEW x \in Exits, xPc'[x] = "gate"
      PROVE  GoneAt(x)'
  <2>1. GoneAt(x)
    BY <1>1, <1>7
  <2> QED
    BY <1>1, <2>1 DEF GoneAt, HasVehicle, InsideCars
<1> QED
  BY <1>3, <1>5, <1>6, <1>7

LEMMA CountOutState ==
  ASSUME Steady, OnePlace, ListState, Listed' = Listed, ~raced',
         NEW x \in Exits, MgrCountOut(x)
  PROVE  ListState'
<1> USE DEF ListState
<1>1. /\ <<car_list, next, alive, xHead, inCar, outCar, inside, leaving, ePc,
           holder>>'
           = <<car_list, next, alive, xHead, inCar, outCar, inside, leaving, ePc,
               holder>>
      /\ rung' = rung \ {x}
      /\ gateUp' \in {gateUp, gateUp \cup {x}}
      /\ xPc' = [xPc EXCEPT ![x] = "gate"] /\ xPc[x] = "wait" /\ x \in rung
  BY DEF MgrCountOut, ExitAt, simVars
<1>2. Deleting = {} /\ Deleting' = {} /\ Adding' = Adding
  BY <1>1 DEF MgrCountOut, Search, Adding, Deleting, Steady, TypeOK
<1>3. OneEditor' /\ ListGood' /\ NodeReady'
  BY <1>1, <1>2, ListUndisturbed
<1>4. outCar[x] \in Cars /\ outPc[x] = "atGate"
  BY <1>1 DEF Steady, LanesInStep, ExitInStep
<1>5. ~crashed'
  <2>1. outCar[x] \in Listed
    BY <1>1 DEF Listed
  <2>2. Finds(outCar[x])
    BY <1>2, <1>4, <2>1, Searched DEF ListGood
  <2> QED
    BY <2>2 DEF MgrCountOut
<1>6. NotListedYet'
  BY <1>1 DEF NotListedYet
<1>7. gateUp' \cap Entrances = gateUp \cap Entrances
  BY <1>1, CarParkAssumption
<1>8. \A y \in Exits : HasVehicle(y)' <=> HasVehicle(y)
  BY <1>1 DEF HasVehicle, Steady, TypeOK
<1>9. HasVehicle(x)
  BY <1>1 DEF HasVehicle
<1>10. ASSUME NEW y \in Exits, xPc'[y] = "gate"
       PROVE  GoneAt(y)'
  <2>1. CASE y = x
    <3>1. outCar[x] \notin InsideCars \cup leaving
      BY <1>4 DEF OnePlace
    <3>2. \A e \in Entrances \cap gateUp : inCar[e] # outCar[x]
      BY <1>4 DEF OnePlace, AtExitGates, Steady, LanesInStep, EntranceInStep
    <3>3. ASSUME NEW z \in Exits \ {x}, HasVehicle(z)
          PROVE  outCar[z] # outCar[x]
      <4>1. CASE z \in rung
        BY <1>4, <4>1 DEF OnePlace, Steady, LanesInStep, ExitInStep
      <4>2. CASE xPc[z] = "gate"
        BY <1>9, <4>2 DEF GoneAt
      <4> QED
        BY <3>3, <4>1, <4>2 DEF HasVehicle
    <3> QED
      BY <1>1, <1>4, <1>7, <1>8, <2>1, <3>1, <3>2, <3>3 DEF GoneAt, InsideCars
  <2>2. CASE y # x
    <3>1. GoneAt(y)
      BY <1>1, <1>10, <2>2 DEF Steady, TypeOK
    <3> QED
      BY <1>1, <1>7, <1>8, <3>1 DEF GoneAt, InsideCars
  <2> QED
    BY <2>1, <2>2
<1> QED
  BY <1>3, <1>5, <1>6, <1>10

LEMMA SenseState ==
  ASSUME Steady, OnePlace, ListState, Listed' = Listed, ~raced', MgrSenseLevel
  PROVE  ListState'
<1> USE DEF ListState
<1>1. /\ <<car_list, next, alive>>' = <<car_list, next, alive>>
      /\ <<ePc, holder, xPc, xHead>>' = <<ePc, holder, xPc, xHead>>
      /\ <<rung, gateUp>>' = <<rung, gateUp>>
      /\ <<inCar, outCar, inside, leaving>>' = <<inCar, outCar, inside, leaving>>
  BY DEF MgrSenseLevel, simVars, laneVars
<1>2. OneEditor' /\ ListGood' /\ NodeReady'
  BY <1>1, ListUndisturbed DEF Adding, Deleting
<1>3. ~crashed'
  <2>1. IsListed(car_list)
    BY DEF MgrSenseLevel, Search, ListGood
  <2>2. ~Strays(topPlate)
    BY <2>1, Searched DEF Steady, TypeOK
  <2> QED
    BY <2>2 DEF MgrSenseLevel
<1>4. NotListedYet' /\ \A x \in Exits : xPc'[x] = "gate" => GoneAt(x)'
  BY <1>1 DEF NotListedYet, GoneAt, HasVehicle, InsideCars
<1> QED
  BY <1>2, <1>3, <1>4

\* The simulator moves cars, none of which an exit still has to bill.
LEMMA SimulatorState ==
  ASSUME Steady, OnePlace, ListState, Listed' = Listed,
         \/ \E e \in Entrances : (\E c \in Cars : SimArrive(e, c))
                                 \/ SimReadSign(e) \/ SimDriveIn(e)
         \/ \E x \in Exits : (\E c \in leaving : SimAtExit(x, c)) \/ SimDriveOut(x)
         \/ \E p \in inside : SimLeave(p)
  PROVE  ListState'
<1> USE DEF ListState
<1>1. /\ <<car_list, next, alive>>' = <<car_list, next, alive>>
      /\ <<ePc, holder, xPc, xHead>>' = <<ePc, holder, xPc, xHead>>
      /\ crashed' = crashed
  BY DEF SimArrive, SimReadSign, SimDriveIn, SimAtExit, SimDriveOut, SimLeave,
         laneVars, listVars
<1>2. OneEditor' /\ ListGood' /\ NodeReady'
  BY <1>1, ListUndisturbed DEF Adding, Deleting
<1>3. NotListedYet'
  <2> SUFFICES ASSUME NEW f \in Entrances, ePc[f] # "wait"
               PROVE  inCar'[f] \notin Listed
    BY <1>1 DEF NotListedYet
  <2>1. simPc[f] # "pop" /\ f \notin gateUp /\ (sign[f] \in Levels \cup {Unset})
    BY DEF Steady, TypeOK, LanesInStep, EntranceInStep
  <2>2. inCar'[f] = inCar[f]
    BY <2>1, Signs DEF SimArrive, SimReadSign, SimDriveIn, SimAtExit, SimDriveOut,
       SimLeave, Steady, TypeOK
  <2> QED
    BY <2>2 DEF NotListedYet
<1>4. ASSUME NEW x \in Exits, xPc'[x] = "gate"
      PROVE  GoneAt(x)'
  <2>0. GoneAt(x) /\ xPc[x] = "gate"
    BY <1>1, <1>4
  <2>1. CASE \E e \in Entrances : (\E c \in Cars : SimArrive(e, c)) \/ SimReadSign(e)
    <3>1. PICK e \in Entrances : (\E c \in Cars : SimArrive(e, c)) \/ SimReadSign(e)
      BY <2>1
    <3>2. /\ \A f \in Entrances \cap gateUp : inCar'[f] = inCar[f]
          /\ gateUp' = gateUp /\ outCar' = outCar
          /\ inside' = inside /\ leaving' = leaving
          /\ \A y \in Exits : HasVehicle(y)' <=> HasVehicle(y)
      BY <1>1, <3>1, Signs, CarParkAssumption
      DEF SimArrive, SimReadSign, Steady, TypeOK, LanesInStep, EntranceInStep,
          HasVehicle
    <3> QED
      BY <2>0, <3>2 DEF GoneAt, InsideCars
  <2>2. CASE \E e \in Entrances : SimDriveIn(e)
    <3>1. PICK e \in Entrances : SimDriveIn(e)
      BY <2>2
    <3> DEFINE parked == <<inCar[e], sign[e]>>
    <3>2. parked[1] = inCar[e] /\ inside' = inside \cup {parked}
      BY <3>1 DEF SimDriveIn
    <3>3. InsideCars' = InsideCars \cup {inCar[e]}
      BY <3>2 DEF InsideCars
    <3> HIDE DEF parked
    <3>4. /\ e \in gateUp /\ gateUp' = gateUp \ {e}
          /\ \A f \in Entrances \cap gateUp' : inCar'[f] = inCar[f]
          /\ outCar' = outCar /\ leaving' = leaving /\ rung' = rung
      BY <3>1 DEF SimDriveIn, Steady, TypeOK
    <3> QED
      BY <1>1, <2>0, <3>3, <3>4 DEF GoneAt, HasVehicle
  <2>3. CASE \E y \in Exits : \E c \in leaving : SimAtExit(y, c)
    <3>1. PICK y \in Exits, c \in leaving : SimAtExit(y, c)
      BY <2>3
    <3>2. /\ y # x /\ outCar'[x] = outCar[x] /\ outCar'[y] = c
          /\ \A z \in Exits \ {y} : outCar'[z] = outCar[z]
          /\ rung' = rung \cup {y} /\ leaving' = leaving \ {c}
          /\ inCar' = inCar /\ inside' = inside /\ gateUp' = gateUp
      BY <2>0, <3>1 DEF SimAtExit, Steady, TypeOK
    <3>3. outCar[x] # c
      BY <2>0 DEF GoneAt
    <3> QED
      BY <1>1, <2>0, <3>2, <3>3 DEF GoneAt, HasVehicle, InsideCars
  <2>4. CASE \E y \in Exits : SimDriveOut(y)
    <3>1. /\ <<inCar, outCar, inside, leaving, rung>>'
               = <<inCar, outCar, inside, leaving, rung>>
          /\ gateUp' \subseteq gateUp
      BY <2>4 DEF SimDriveOut
    <3> QED
      BY <1>1, <2>0, <3>1 DEF GoneAt, HasVehicle, InsideCars
  <2>5. CASE \E p \in inside : SimLeave(p)
    <3>1. /\ <<inCar, outCar, rung, gateUp>>' = <<inCar, outCar, rung, gateUp>>
          /\ InsideCars' \cup leaving' \subseteq InsideCars \cup leaving
      BY <2>5 DEF SimLeave, InsideCars
    <3> QED
      BY <1>1, <2>0, <3>1 DEF GoneAt, HasVehicle
  <2> QED
    BY <2>1, <2>2, <2>3, <2>4, <2>5
<1> QED
  BY <1>1, <1>2, <1>3, <1>4

LEMMA RacedStays == [Next]_vars /\ ~raced' => ~raced
BY DEF Next, EntranceStep, ExitStep, vars, simVars, shmVars, senseVars, laneVars,
       countVars, listVars, SimArrive, SimReadSign, SimDriveIn, SimLeave,
       SimAtExit, SimDriveOut, MgrLookUp, MgrCountIn, MgrNoRoom, MgrShow,
       MgrLink, MgrCountOut, MgrUnlink, MgrStore, MgrSenseLevel, Search, Edit

LEMMA ListInvStep == IInv /\ IInv' /\ ListInv /\ [Next]_vars => ListInv'
<1> SUFFICES ASSUME IInv, IInv', ListInv, [Next]_vars, ~raced'
             PROVE  ListState'
  BY DEF ListInv
<1> USE DEF IInv
<1>0. ListState
  BY RacedStays DEF ListInv
<1>1. CASE \E e \in Entrances : MgrLink(e)
  BY <1>0, <1>1, LinkState
<1>2. CASE \E x \in Exits : MgrUnlink(x)
  BY <1>0, <1>2, UnlinkState
<1>3. CASE /\ \A e \in Entrances : ~MgrLink(e)
           /\ \A x \in Exits : ~MgrUnlink(x)
  <2>1. Listed' = Listed
    BY <1>3, ListedSame
  <2>2. CASE UNCHANGED vars
    <3>1. /\ <<car_list, next, alive>>' = <<car_list, next, alive>>
          /\ <<ePc, holder, xPc, xHead>>' = <<ePc, holder, xPc, xHead>>
          /\ <<rung, gateUp>>' = <<rung, gateUp>> /\ crashed' = crashed
          /\ <<inCar, outCar, inside, leaving>>' = <<inCar, outCar, inside, leaving>>
      BY <2>2 DEF vars, simVars, shmVars, laneVars, listVars
    <3>2. OneEditor' /\ ListGood' /\ NodeReady'
      BY <1>0, <2>1, <3>1, ListUndisturbed DEF Adding, Deleting
    <3>3. NotListedYet' /\ \A x \in Exits : xPc'[x] = "gate" => GoneAt(x)'
      BY <1>0, <2>1, <3>1 DEF ListState, NotListedYet, GoneAt, HasVehicle, InsideCars
    <3> QED
      BY <1>0, <3>1, <3>2, <3>3 DEF ListState
  <2>3. CASE \E e \in Entrances : MgrShow(e)
    BY <1>0, <2>1, <2>3, ShowState
  <2>4. CASE \E x \in Exits : MgrStore(x)
    BY <1>0, <2>1, <2>4, StoreState
  <2>5. CASE \E e \in Entrances : MgrLookUp(e) \/ MgrCountIn(e) \/ MgrNoRoom(e)
    BY <1>0, <2>1, <2>5, EntranceState
  <2>6. CASE \E x \in Exits : MgrCountOut(x)
    BY <1>0, <2>1, <2>6, CountOutState
  <2>7. CASE MgrSenseLevel
    BY <1>0, <2>1, <2>7, SenseState
  <2>8. CASE \/ \E e \in Entrances : (\E c \in Cars : SimArrive(e, c))
                                     \/ SimReadSign(e) \/ SimDriveIn(e)
             \/ \E x \in Exits : (\E c \in leaving : SimAtExit(x, c)) \/ SimDriveOut(x)
             \/ \E p \in inside : SimLeave(p)
    BY <1>0, <2>1, <2>8, SimulatorState
  <2> QED
    BY <1>3, <2>2, <2>3, <2>4, <2>5, <2>6, <2>7, <2>8
    DEF Next, EntranceStep, ExitStep
<1> QED
  BY <1>1, <1>2, <1>3

\* As long as no thread edits car_list while another edits it, or searches it while
\* another deletes from it, it has the vehicle of each car from its entrance to its
\* bill, and no other, and the manager never follows a bad pointer.
THEOREM ListKept == Spec => []ListIsKept
<1>1. Spec => []ListInv
  BY ListInvInit, ListInvStep, Invariance, PTL DEF Spec
<1>2. ASSUME Steady, ListInv
      PROVE  ListIsKept
  <2> SUFFICES ASSUME ~raced
               PROVE  ~crashed /\ (Deleting = {} => Chain \ {NoCar} = Listed)
    BY DEF ListIsKept
  <2>1. Deleting = {} => IsListed(car_list)
    BY <1>2 DEF ListInv, ListState, ListGood
  <2>2. Chain = Reach(car_list, next, alive)
    BY ChainReach DEF Chain
  <2> QED
    BY <1>2, <2>1, <2>2 DEF ListInv, ListState, IsListed, IsList
<1>3. IInv => Steady
  BY DEF IInv
<1> QED
  BY <1>1, <1>2, <1>3, Invariance, PTL

-----------------------------------------------------------------------------
(* The entrances, all together.                                            *)

\* A sign that shows a level shows the one the car at it was assigned to.
SignIsAssigned == \A e \in Entrances : sign[e] \in Levels => sign[e] = assigned[e]

LEMMA SignStep == Steady /\ SignIsAssigned /\ [Next]_vars => SignIsAssigned'
<1> SUFFICES ASSUME Steady, SignIsAssigned, [Next]_vars
             PROVE  SignIsAssigned'
  OBVIOUS
<1> USE DEF SignIsAssigned, Steady, TypeOK, shmVars, laneVars
<1>1. CASE sign' = sign /\ assigned' = assigned
  BY <1>1
<1>2. ASSUME NEW e \in Entrances,
             SimReadSign(e) \/ SimDriveIn(e) \/ MgrLookUp(e) \/ MgrNoRoom(e)
      PROVE  SignIsAssigned'
  <2>1. \E s \in {Unset, Banned, Full} : sign' \in {sign, [sign EXCEPT ![e] = s]}
    BY <1>2 DEF SimReadSign, SimDriveIn, MgrLookUp, MgrNoRoom
  <2>2. assigned' = assigned
    BY <1>2 DEF SimReadSign, SimDriveIn, MgrLookUp, MgrNoRoom
  <2> QED
    BY <2>1, <2>2, Signs
<1>3. ASSUME NEW e \in Entrances, MgrCountIn(e)
      PROVE  SignIsAssigned'
  <2>1. sign' = sign /\ sign[e] = Unset
    BY <1>3 DEF MgrCountIn, EntranceAt, LanesInStep, EntranceInStep
  <2>2. \A f \in Entrances \ {e} : assigned'[f] = assigned[f]
    BY <1>3 DEF MgrCountIn, CarCount
  <2> QED
    BY <2>1, <2>2, Signs
<1>4. ASSUME NEW e \in Entrances, MgrShow(e)
      PROVE  SignIsAssigned'
  BY <1>4 DEF MgrShow
<1> QED
  BY <1>1, <1>2, <1>3, <1>4
  DEF Next, EntranceStep, ExitStep, vars, SimArrive, SimLeave, SimAtExit,
      SimDriveOut, MgrLink, MgrCountOut, MgrUnlink, MgrStore, MgrSenseLevel

\* Only these actions change who asks and what was decided.
LEMMA VerdictSame ==
  ASSUME Steady, [Next]_vars,
         \A e \in Entrances : /\ \A c \in Cars : ~SimArrive(e, c)
                              /\ ~SimReadSign(e) /\ ~SimDriveIn(e) /\ ~MgrCountIn(e)
  PROVE  /\ inCar' = inCar
         /\ \A e \in Entrances : Verdict(e)' = Verdict(e)
<1> USE CarParkAssumption DEF Steady, TypeOK, simVars, shmVars, laneVars
<1>1. inCar' = inCar /\ assigned' = assigned
  BY DEF Next, EntranceStep, ExitStep, vars, MgrLookUp, MgrNoRoom, MgrShow,
         SimLeave, SimAtExit, SimDriveOut, MgrLink, MgrCountOut, MgrUnlink,
         MgrStore, MgrSenseLevel
<1>2. ASSUME NEW f \in Entrances
      PROVE  CountedAt(f)' <=> CountedAt(f)
  <2> USE DEF CountedAt
  <2>1. ASSUME NEW e \in Entrances, MgrLookUp(e) \/ MgrNoRoom(e)
        PROVE  CountedAt(f)' <=> CountedAt(f)
    BY <2>1 DEF MgrLookUp, MgrNoRoom, EntranceAt
  <2>2. ASSUME NEW e \in Entrances, MgrShow(e) \/ MgrLink(e)
        PROVE  CountedAt(f)' <=> CountedAt(f)
    BY <2>2 DEF MgrShow, MgrLink, EntranceAt
  <2>3. ASSUME NEW x \in Exits, SimDriveOut(x) \/ MgrCountOut(x)
        PROVE  CountedAt(f)' <=> CountedAt(f)
    BY <2>3 DEF SimDriveOut, MgrCountOut
  <2>4. CASE ePc' = ePc /\ gateUp' = gateUp
    BY <2>4
  <2> QED
    BY <2>1, <2>2, <2>3, <2>4
    DEF Next, EntranceStep, ExitStep, vars, SimLeave, SimAtExit, MgrUnlink,
        MgrStore, MgrSenseLevel
<1> QED
  BY <1>1, <1>2 DEF Verdict

LEMMA AdmissionStep ==
  ASSUME IInv, SignIsAssigned, [Next]_vars
  PROVE  [Admission!Next]_(Admission!vars)
<1> USE CarParkAssumption DEF IInv, Steady
<1> DEFINE verdict == [e \in Entrances |-> Verdict(e)]
<1>1. ASSUME NEW e \in Entrances, NEW c \in Cars, SimArrive(e, c)
      PROVE  Admission!Next
  <2>1. inCar[e] = NoCar /\ simPc[e] = "pop"
    BY <1>1 DEF SimArrive, LanesInStep, EntranceInStep
  <2>2. \A f \in Entrances : inCar[f] # c
    BY <1>1 DEF SimArrive, SimCars, LanesInStep, EntranceInStep
  <2>3. \A l \in Levels : <<c, l>> \notin inside
    <3> SUFFICES ASSUME NEW l \in Levels, <<c, l>> \in inside PROVE FALSE
      OBVIOUS
    <3>1. <<c, l>>[1] \in InsideCars
      BY DEF InsideCars
    <3> QED
      BY <1>1, <3>1 DEF SimArrive, SimCars
  <2>4. \A f \in Entrances : Verdict(f)' = Verdict(f)
    BY <1>1 DEF SimArrive, laneVars, Verdict, CountedAt
  <2>5. /\ inCar' = [inCar EXCEPT ![e] = c] /\ inside' = inside
        /\ verdict' = verdict
    BY <1>1, <2>4 DEF SimArrive
  <2>6. Admission!Ask(e, c)
    BY <2>1, <2>2, <2>3, <2>5 DEF Admission!Ask
  <2> QED
    BY <1>1, <2>6 DEF Admission!Next, Admission!LaneNext
<1>2. ASSUME NEW e \in Entrances, SimReadSign(e), sign[e] \in Levels
      PROVE  UNCHANGED Admission!vars
  <2>1. inCar' = inCar /\ inside' = inside
    BY <1>2 DEF SimReadSign
  <2>2. \A f \in Entrances : Verdict(f)' = Verdict(f)
    BY <1>2 DEF SimReadSign, laneVars, Verdict, CountedAt
  <2>3. verdict' = verdict
    BY <2>2
  <2> QED
    BY <2>1, <2>3 DEF Admission!vars
<1>3. ASSUME NEW e \in Entrances, SimReadSign(e), sign[e] \notin Levels
      PROVE  Admission!Next
  <2>1. inCar[e] # NoCar /\ ~CountedAt(e)
    BY <1>3 DEF SimReadSign, CountedAt, LanesInStep, EntranceInStep
  <2>2. inCar' = [inCar EXCEPT ![e] = NoCar] /\ inside' = inside
    BY <1>3 DEF SimReadSign
  <2>3. \A f \in Entrances : Verdict(f)' = Verdict(f)
    BY <1>3 DEF SimReadSign, laneVars, Verdict, CountedAt
  <2>4. verdict' = verdict /\ verdict[e] = -1
    BY <2>1, <2>3 DEF Verdict
  <2>5. Admission!TurnAway(e)
    BY <2>1, <2>2, <2>4 DEF Admission!TurnAway, Admission!Pending
  <2> QED
    BY <1>3, <2>5 DEF Admission!Next, Admission!LaneNext
<1>4. ASSUME NEW e \in Entrances, SimDriveIn(e)
      PROVE  Admission!Next
  <2>1. /\ inCar[e] # NoCar /\ CountedAt(e) /\ sign[e] \in Levels
        /\ sign[e] = assigned[e]
    BY <1>4 DEF SimDriveIn, CountedAt, LanesInStep, EntranceInStep, SignIsAssigned
  <2>2. /\ inCar' = [inCar EXCEPT ![e] = NoCar]
        /\ inside' = inside \cup {<<inCar[e], sign[e]>>}
    BY <1>4 DEF SimDriveIn
  <2>3. verdict[e] = sign[e] /\ sign[e] # -1
    BY <2>1, Signs DEF Verdict, Unset
  <2>4. ~CountedAt(e)'
    BY <1>4 DEF SimDriveIn, laneVars, CountedAt, LanesInStep, EntranceInStep
  <2>5. \A f \in Entrances : Verdict(f)' = IF f = e THEN -1 ELSE Verdict(f)
    BY <1>4, <2>4 DEF SimDriveIn, laneVars, Verdict, CountedAt
  <2>6. verdict' = [verdict EXCEPT ![e] = -1]
    BY <2>5
  <2>7. Admission!Enter(e)
    BY <2>1, <2>2, <2>3, <2>6 DEF Admission!Enter, Admission!Pending
  <2> QED
    BY <1>4, <2>7 DEF Admission!Next, Admission!LaneNext
<1>5. ASSUME NEW e \in Entrances, MgrCountIn(e)
      PROVE  Admission!Next
  <2>1. inCar[e] \in Allowed /\ ~CountedAt(e) /\ CountedAt(e)'
    BY <1>5 DEF MgrCountIn, EntranceAt, CountedAt, LanesInStep, EntranceInStep,
       TypeOK
  <2>2. inCar' = inCar /\ inside' = inside
    BY <1>5 DEF MgrCountIn, simVars
  <2> DEFINE l == (m_counter + 1) % LEVELS
  <2>3. l \in Levels /\ assigned' = [assigned EXCEPT ![e] = l]
    BY <1>5, NextLevel DEF MgrCountIn, CarCount
  <2> HIDE DEF l
  <2>4. \A f \in Entrances \ {e} : CountedAt(f)' <=> CountedAt(f)
    BY <1>5 DEF MgrCountIn, EntranceAt, CountedAt, shmVars
  <2>5. \A f \in Entrances : Verdict(f)' = IF f = e THEN l ELSE Verdict(f)
    BY <2>1, <2>3, <2>4 DEF Verdict, TypeOK
  <2>6. verdict' = [verdict EXCEPT ![e] = l] /\ verdict[e] = -1
    BY <2>1, <2>5 DEF Verdict
  <2>7. Admission!Admit(e, l)
    BY <2>1, <2>2, <2>6 DEF Admission!Admit, Admission!Pending
  <2>8. Admission!LaneNext(e)
    BY <2>3, <2>7 DEF Admission!LaneNext
  <2> QED
    BY <2>8 DEF Admission!Next
<1>6. ASSUME NEW p \in inside, SimLeave(p)
      PROVE  Admission!Next
  <2>1. inCar' = inCar /\ inside' = inside \ {p}
    BY <1>6 DEF SimLeave
  <2>2. \A e \in Entrances : Verdict(e)' = Verdict(e)
    BY <1>6 DEF SimLeave, laneVars, Verdict, CountedAt
  <2>3. verdict' = verdict
    BY <2>2
  <2> QED
    BY <1>6, <2>1, <2>3 DEF Admission!Next, Admission!Leave
<1>7. CASE /\ \A e \in Entrances : /\ \A c \in Cars : ~SimArrive(e, c)
                                   /\ ~SimReadSign(e) /\ ~SimDriveIn(e) /\ ~MgrCountIn(e)
           /\ \A p \in inside : ~SimLeave(p)
  <2>1. inCar' = inCar /\ \A e \in Entrances : Verdict(e)' = Verdict(e)
    BY <1>7, VerdictSame
  <2>2. verdict' = verdict
    BY <2>1
  <2>3. inside' = inside
    BY <1>7 DEF Next, EntranceStep, ExitStep, vars, simVars, MgrLookUp, MgrNoRoom,
       MgrShow, SimAtExit, SimDriveOut, MgrLink, MgrCountOut, MgrUnlink, MgrStore,
       MgrSenseLevel
  <2> QED
    BY <2>1, <2>2, <2>3 DEF Admission!vars
<1> QED
  BY <1>1, <1>2, <1>3, <1>4, <1>5, <1>6, <1>7

\* The entrances together implement AdmissionLane: a counted car is never turned
\* away and parks on the level it was assigned, whatever the other threads do.
THEOREM AdmissionRefinement == Spec => ImplementsAdmission
<1>1. Init => Admission!Init /\ SignIsAssigned
  <2> SUFFICES ASSUME Init PROVE Admission!Init /\ SignIsAssigned
    OBVIOUS
  <2>1. \A e \in Entrances : ~CountedAt(e)
    BY DEF Init, CountedAt
  <2>2. Admission!Init
    BY <2>1 DEF Init, Verdict, Admission!Init, Admission!Pending
  <2>3. SignIsAssigned
    BY Signs DEF Init, SignIsAssigned
  <2> QED
    BY <2>2, <2>3
<1>2. IInv /\ SignIsAssigned /\ [Next]_vars => SignIsAssigned'
  BY SignStep DEF IInv
<1>3. IInv /\ SignIsAssigned /\ [Next]_vars => [Admission!Next]_(Admission!vars)
  BY AdmissionStep
<1> QED
  BY <1>1, <1>2, <1>3, Invariance, PTL DEF Spec, ImplementsAdmission, Admission!Spec
=============================================================================
