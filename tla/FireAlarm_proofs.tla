------------------------- MODULE FireAlarm_proofs -------------------------
(***************************************************************************)
(* Proofs about FireAlarm for any number of levels and any signs.          *)
(***************************************************************************)
EXTENDS FireAlarm, TLAPS

Early == {"start", "wait1", "woken1", "decide", "raise"}

AllRaised == \A l \in Levels : alarms[l] # "0"

\* Until the threads for the signs run, alarm_mutex excludes what it guards,
\* and a monitor reads back from alarm_active what it has written.
MutexHolds ==
  mainPc \in Early =>
    /\ \A s \in Screens : evacPc[s] = "off"
    /\ mainPc = "decide" => locked
    /\ checkPc = "write" => locked /\ mainPc # "decide"
    /\ \A l \in Levels : monPc[l] = "check" =>
         /\ locked /\ mainPc # "decide" /\ checkPc # "write"
         /\ \A k \in Levels : monPc[k] = "check" => k = l
         /\ active # "0" => alarms[l] # "0"

\* emergency_mode has raised the first alarms, and all of them before it starts
\* a thread or a gate moves.
AlarmsRaised ==
  /\ mainPc \in Early \ {"raise"} => raised = 0
  /\ mainPc = "raise" => \A l \in Levels : l < raised => alarms[l] # "0"
  /\ mainPc \in {"join", "lock2", "wait2", "woken2"} => AllRaised
  /\ gatesUp => AllRaised

\* Before that, none.
NoneRaised ==
  mainPc \in Early \ {"raise"} => \A l \in Levels : alarms[l] # "1"

\* Nobody sees an end that was not asked for.
NoEndYet ==
  ~Ending => /\ active # "e" /\ checkPc \notin {"ring", "done"}
             /\ \A l \in Levels : alarms[l] # "e"

\* main is woken for a fire or the end.
WokenForCause ==
  /\ mainPc \in {"woken1", "decide"} \/ Emergency
  /\ ~Ending /\ "spurious" \notin lapses
  => Fire

\* The simulator listens to its user again only after all alarms are on.
UserWaits ==
  /\ \E l \in Levels : heat[l] # "cool"
  /\ simPc \notin {"fire", "open"}
  => AllRaised

\* The program ends in time or because it was asked to.
DoneForCause == mainPc = "done" => AllRaised \/ Ending

IInv == /\ TypeOK /\ MutexHolds /\ AlarmsRaised /\ NoEndYet /\ WokenForCause
        /\ UserWaits /\ DoneForCause /\ MonitorStopsForItsLevel /\ NoneRaised

LEMMA LevelZero == 0 \in Levels
BY FireAssumption DEF Levels

LEMMA InvInit == Init => IInv
<1> SUFFICES ASSUME Init PROVE IInv
  OBVIOUS
<1> USE DEF Init
<1>1. TypeOK
  <2>1. raised \in 0..LEVELS
    BY FireAssumption
  <2>2. gatesUp \in BOOLEAN /\ locked \in BOOLEAN
    BY Zenon
  <2> QED
    BY <2>1, <2>2 DEF TypeOK, Flags, SimPoints, MainPoints
<1>2. MutexHolds /\ AlarmsRaised /\ NoEndYet
  BY LevelZero DEF MutexHolds, AlarmsRaised, NoEndYet
<1>3. WokenForCause /\ UserWaits
  BY DEF WokenForCause, UserWaits, Emergency
<1>4. DoneForCause /\ MonitorStopsForItsLevel /\ NoneRaised
  BY DEF DoneForCause, MonitorStopsForItsLevel, NoneRaised
<1> QED
  BY <1>1, <1>2, <1>3, <1>4 DEF IInv

LEMMA TypeStep == TypeOK /\ [Next]_vars => TypeOK'
<1> SUFFICES ASSUME TypeOK, [Next]_vars PROVE TypeOK'
  OBVIOUS
<1> USE LevelZero
    DEF TypeOK, Flags, SimPoints, MainPoints, Lapses, Woken, Waiting, Broadcast,
        mainFrame, evacFrame, simVars, threadVars
<1>1. ASSUME NEW l \in Levels, SimStartFire(l) PROVE TypeOK'
  BY <1>1 DEF SimStartFire
<1>2. ASSUME NEW l \in Levels, LevelHeats(l) PROVE TypeOK'
  BY <1>2 DEF LevelHeats
<1>3. ASSUME NEW l \in Levels, MonSample(l) PROVE TypeOK'
  <2>1. monPc' \in [Levels -> {"sample", "update", "check", "done"}]
    BY <1>3 DEF MonSample
  <2>2. mainPc' \in MainPoints
    BY <1>3 DEF MonSample
  <2>3. lapses' \subseteq Lapses
    BY <1>3 DEF MonSample
  <2>4. UNCHANGED <<alarms, simVars, gatesUp, active, locked, raised, checkPc, evacPc>>
    BY <1>3 DEF MonSample
  <2> QED
    BY <2>1, <2>2, <2>3, <2>4
<1>4. ASSUME NEW l \in Levels, MonUpdate(l) PROVE TypeOK'
  <2>1. active' \in Flags
    BY <1>4 DEF MonUpdate
  <2>2. monPc' \in [Levels -> {"sample", "update", "check", "done"}]
    BY <1>4 DEF MonUpdate
  <2>3. locked' \in BOOLEAN
    BY <1>4 DEF MonUpdate
  <2>4. UNCHANGED <<alarms, simVars, gatesUp, mainPc, raised, checkPc, evacPc, lapses>>
    BY <1>4 DEF MonUpdate
  <2> QED
    BY <2>1, <2>2, <2>3, <2>4
<1>5. ASSUME NEW l \in Levels, MonCheck(l) PROVE TypeOK'
  <2>1. monPc' \in [Levels -> {"sample", "update", "check", "done"}]
    BY <1>5 DEF MonCheck
  <2>2. locked' \in BOOLEAN
    BY <1>5 DEF MonCheck
  <2>3. UNCHANGED <<alarms, simVars, gatesUp, active, mainPc, raised, checkPc, evacPc, lapses>>
    BY <1>5 DEF MonCheck
  <2> QED
    BY <2>1, <2>2, <2>3
<1>6. CASE SimSeeAlarm \/ SimJoinGates \/ GatesOpen
  <2>1. simPc' \in SimPoints
    BY <1>6 DEF SimSeeAlarm, SimJoinGates, GatesOpen
  <2>2. gatesUp' \in BOOLEAN
    BY <1>6 DEF SimSeeAlarm, SimJoinGates, GatesOpen
  <2>3. UNCHANGED <<alarms, heat, active, locked, threadVars, lapses>>
    BY <1>6 DEF SimSeeAlarm, SimJoinGates, GatesOpen
  <2> QED
    BY <2>1, <2>2, <2>3
<1>7. CASE SimEnd
  <2>1. simPc' \in SimPoints
    BY <1>7 DEF SimEnd
  <2>2. alarms' \in [Levels -> Flags]
    BY <1>7 DEF SimEnd
  <2>3. UNCHANGED <<heat, gatesUp, active, locked, threadVars, lapses>>
    BY <1>7 DEF SimEnd
  <2> QED
    BY <2>1, <2>2, <2>3
<1>8. CASE CheckTest \/ CheckLock
  <2>1. /\ checkPc' \in {"test", "lock", "write", "ring", "done"}
        /\ UNCHANGED <<alarms, simVars, gatesUp, active, mainPc, raised, monPc, evacPc, lapses>>
    BY <1>8 DEF CheckTest, CheckLock
  <2>2. locked' \in BOOLEAN
    BY <1>8 DEF CheckTest, CheckLock
  <2> QED
    BY <2>1, <2>2
<1>9. CASE CheckWrite
  <2>1. /\ active' \in Flags /\ checkPc' = "test"
        /\ UNCHANGED <<alarms, simVars, gatesUp, mainPc, raised, monPc, evacPc, lapses>>
    BY <1>9 DEF CheckWrite
  <2>2. locked' \in BOOLEAN
    BY <1>9 DEF CheckWrite
  <2> QED
    BY <2>1, <2>2
<1>10. CASE CheckRing
  BY <1>10 DEF CheckRing
<1>11. CASE MainWakes
  BY <1>11 DEF MainWakes
<1>12. CASE MainRaise
  <2>1. raised' \in 0..LEVELS
    BY <1>12, FireAssumption DEF MainRaise
  <2>2. alarms' \in [Levels -> Flags]
    BY <1>12 DEF MainRaise
  <2> QED
    BY <1>12, <2>1, <2>2 DEF MainRaise
<1>13. CASE MainWait \/ MainReturn \/ MainDecide
  <2>1. mainPc' \in MainPoints
    BY <1>13 DEF MainWait, MainReturn, MainDecide
  <2>2. locked' \in BOOLEAN
    BY <1>13 DEF MainWait, MainReturn, MainDecide
  <2>3. UNCHANGED <<alarms, raised, evacPc, mainFrame>>
    BY <1>13 DEF MainWait, MainReturn, MainDecide
  <2> QED
    BY <2>1, <2>2, <2>3
<1>14. CASE MainStartThreads \/ MainJoin \/ MainWaitAgain \/ MainEnd
  <2>1. CASE MainStartThreads
    BY <2>1 DEF MainStartThreads
  <2>2. CASE MainJoin
    BY <2>2 DEF MainJoin
  <2>3. CASE MainWaitAgain
    BY <2>3 DEF MainWaitAgain
  <2>4. CASE MainEnd
    BY <2>4 DEF MainEnd
  <2> QED
    BY <1>14, <2>1, <2>2, <2>3, <2>4
<1>15. ASSUME NEW s \in Screens, EvacStep(s) PROVE TypeOK'
  <2>1. CASE EvacUnlock(s)
    <3>1. locked' \in BOOLEAN
      BY <2>1 DEF EvacUnlock
    <3>2. evacPc' \in [Screens -> {"off", "unlock", "show", "scan", "done"}]
      BY <2>1 DEF EvacUnlock
    <3>3. UNCHANGED <<active, evacFrame>>
      BY <2>1 DEF EvacUnlock
    <3> QED
      BY <3>1, <3>2, <3>3
  <2>2. CASE EvacLock(s)
    <3>1. locked' \in BOOLEAN
      BY <2>2 DEF EvacLock
    <3>2. evacPc' \in [Screens -> {"off", "unlock", "show", "scan", "done"}]
      BY <2>2 DEF EvacLock
    <3>3. UNCHANGED <<active, evacFrame>>
      BY <2>2 DEF EvacLock
    <3> QED
      BY <3>1, <3>2, <3>3
  <2>3. CASE EvacScan(s)
    BY <2>3 DEF EvacScan
  <2> QED
    BY <1>15, <2>1, <2>2, <2>3 DEF EvacStep
<1>16. CASE UNCHANGED vars
  BY <1>16 DEF vars
<1> QED
  BY <1>1, <1>2, <1>3, <1>4, <1>5, <1>6, <1>7, <1>8, <1>9, <1>10, <1>11, <1>12,
     <1>13, <1>14, <1>15, <1>16 DEF Next, MonStep, CheckStep, MainStep

\* No alarm goes back to '0'.
LEMMA AlarmsStay ==
  ASSUME TypeOK, [Next]_vars, NEW l \in Levels, alarms[l] # "0"
  PROVE  alarms'[l] # "0"
<1> USE DEF simVars, threadVars, mainFrame, evacFrame
<1>1. CASE SimEnd
  BY <1>1 DEF SimEnd, TypeOK
<1>2. CASE MainRaise
  BY <1>2 DEF MainRaise, TypeOK
<1>3. CASE UNCHANGED alarms
  BY <1>3
<1> QED
  BY <1>1, <1>2, <1>3
     DEF Next, vars, SimStartFire, LevelHeats, MonStep, MonSample, MonUpdate,
         MonCheck, SimSeeAlarm, SimJoinGates, GatesOpen, CheckStep, CheckTest,
         CheckLock, CheckWrite, CheckRing, MainStep, MainWait, MainReturn,
         MainDecide, MainStartThreads, MainJoin, MainWaitAgain, MainEnd,
         MainWakes, EvacStep, EvacUnlock, EvacLock, EvacScan

LEMMA MutexStep == IInv /\ [Next]_vars => MutexHolds'
<1> SUFFICES ASSUME IInv, [Next]_vars, mainPc' \in Early PROVE MutexHolds'
  BY DEF MutexHolds
<1> USE LevelZero DEF IInv, TypeOK, MutexHolds, Early, Broadcast, Woken, Waiting, mainFrame, evacFrame,
        simVars, threadVars, Running
<1>1. ASSUME NEW l \in Levels, SimStartFire(l) \/ LevelHeats(l) PROVE MutexHolds'
  BY <1>1 DEF SimStartFire, LevelHeats
<1>2. ASSUME NEW l \in Levels, MonSample(l) PROVE MutexHolds'
  BY <1>2 DEF MonSample
<1>3. ASSUME NEW l \in Levels, MonUpdate(l) PROVE MutexHolds'
  BY <1>3 DEF MonUpdate
<1>4. ASSUME NEW l \in Levels, MonCheck(l) PROVE MutexHolds'
  BY <1>4 DEF MonCheck
<1>5. CASE SimSeeAlarm \/ SimJoinGates \/ GatesOpen
  BY <1>5 DEF SimSeeAlarm, SimJoinGates, GatesOpen
<1>6. CASE SimEnd
  BY <1>6 DEF SimEnd
<1>7. CASE CheckTest \/ CheckLock
  BY <1>7 DEF CheckTest, CheckLock
<1>8. CASE CheckWrite
  BY <1>8 DEF CheckWrite
<1>9. CASE CheckRing
  BY <1>9 DEF CheckRing
<1>10. CASE MainWakes
  BY <1>10 DEF MainWakes
<1>11. CASE MainRaise
  BY <1>11 DEF MainRaise
<1>12. CASE MainWait \/ MainReturn \/ MainDecide
  BY <1>12 DEF MainWait, MainReturn, MainDecide
<1>13. CASE MainStartThreads \/ MainJoin \/ MainWaitAgain \/ MainEnd
  BY <1>13 DEF MainStartThreads, MainJoin, MainWaitAgain, MainEnd
<1>14. ASSUME NEW s \in Screens, EvacStep(s) PROVE MutexHolds'
  BY <1>14 DEF EvacStep, EvacUnlock, EvacLock, EvacScan
<1>15. CASE UNCHANGED vars
  BY <1>15 DEF vars
<1> QED
  BY <1>1, <1>2, <1>3, <1>4, <1>5, <1>6, <1>7, <1>8, <1>9, <1>10, <1>11, <1>12,
     <1>13, <1>14, <1>15 DEF Next, MonStep, CheckStep, MainStep

LEMMA RaisedStep == IInv /\ [Next]_vars => AlarmsRaised'
<1> SUFFICES ASSUME IInv, [Next]_vars PROVE AlarmsRaised'
  OBVIOUS
<1> USE DEF IInv, Early, AlarmsRaised, AllRaised, mainFrame, evacFrame, simVars,
        threadVars, Broadcast, Woken, Waiting
<1>1. \A l \in Levels : alarms[l] # "0" => alarms'[l] # "0"
  BY AlarmsStay
<1>2. CASE MainRaise
  <2>1. raised \in Int /\ raised < LEVELS /\ raised \in Levels
    BY <1>2, FireAssumption DEF MainRaise, TypeOK, Levels
  <2>2. alarms'[raised] # "0"
    BY <1>2, <2>1 DEF MainRaise, TypeOK
  <2>3. \A l \in Levels : l < raised' => alarms'[l] # "0"
    BY <1>1, <1>2, <2>1, <2>2 DEF MainRaise, Levels
  <2> QED
    BY <1>1, <1>2, <2>3 DEF MainRaise
<1>3. CASE MainStartThreads
  <2>1. \A l \in Levels : l < raised
    BY <1>3, FireAssumption DEF MainStartThreads, Levels
  <2> QED
    BY <1>1, <1>3, <2>1 DEF MainStartThreads
<1>4. CASE MainDecide
  <2>1. raised' = 0 /\ \A l \in Levels : ~(l < 0)
    BY <1>4 DEF MainDecide, Levels
  <2> QED
    BY <1>1, <1>4, <2>1 DEF MainDecide
<1>5. CASE MainWait \/ MainReturn \/ MainJoin \/ MainWaitAgain \/ MainEnd
  BY <1>1, <1>5 DEF MainWait, MainReturn, MainJoin, MainWaitAgain, MainEnd
<1>6. ASSUME UNCHANGED <<raised, gatesUp>>,
             \/ mainPc' = mainPc
             \/ mainPc = "wait1" /\ mainPc' = "woken1"
             \/ mainPc = "wait2" /\ mainPc' = "woken2"
      PROVE  AlarmsRaised'
  BY <1>1, <1>6
<1>7. CASE GatesOpen
  BY <1>1, <1>7 DEF GatesOpen
<1> QED
  BY <1>2, <1>3, <1>4, <1>5, <1>6, <1>7
     DEF Next, vars, SimStartFire, LevelHeats, MonStep, MonSample, MonUpdate,
         MonCheck, SimSeeAlarm, SimJoinGates, SimEnd, CheckStep, CheckTest,
         CheckLock, CheckWrite, CheckRing, MainStep, MainWakes, EvacStep,
         EvacUnlock, EvacLock, EvacScan

LEMMA EndStep == IInv /\ [Next]_vars => NoEndYet'
<1> SUFFICES ASSUME IInv, [Next]_vars, ~Ending' PROVE NoEndYet'
  BY DEF NoEndYet
<1> USE LevelZero
    DEF IInv, TypeOK, NoEndYet, Ending, mainFrame, evacFrame, simVars, threadVars
<1>1. ASSUME UNCHANGED <<active, alarms, checkPc>>, simPc' = simPc \/ simPc \notin {"ending", "ended"}
      PROVE  NoEndYet'
  BY <1>1
<1>2. CASE SimEnd
  BY <1>2 DEF SimEnd
<1>3. ASSUME NEW l \in Levels, MonUpdate(l) PROVE NoEndYet'
  BY <1>3 DEF MonUpdate
<1>4. CASE CheckStep
  BY <1>4 DEF CheckStep, CheckTest, CheckLock, CheckWrite, CheckRing
<1>5. CASE MainRaise
  BY <1>5 DEF MainRaise
<1>6. ASSUME NEW s \in Screens, EvacScan(s) PROVE NoEndYet'
  BY <1>6 DEF EvacScan
<1> QED
  BY <1>1, <1>2, <1>3, <1>4, <1>5, <1>6
     DEF Next, vars, SimStartFire, LevelHeats, MonStep, MonSample, MonCheck,
         SimSeeAlarm, SimJoinGates, GatesOpen, MainStep, MainWait, MainReturn,
         MainDecide, MainStartThreads, MainJoin, MainWaitAgain, MainEnd,
         MainWakes, EvacStep, EvacUnlock, EvacLock

LEMMA CauseStep == IInv /\ [Next]_vars => WokenForCause'
<1> SUFFICES ASSUME IInv, [Next]_vars, ~Ending', "spurious" \notin lapses',
                    mainPc' \in {"woken1", "decide"} \/ Emergency'
             PROVE  Fire'
  BY DEF WokenForCause
<1>1. ~Ending /\ "spurious" \notin lapses /\ (Fire => Fire')
  <2> USE DEF Ending, Fire, Broadcast, mainFrame, evacFrame, simVars, threadVars
  <2>1. ASSUME NEW l \in Levels, SimStartFire(l) \/ LevelHeats(l)
        PROVE  UNCHANGED lapses /\ (Ending => Ending') /\ (Fire => Fire')
    BY <2>1 DEF SimStartFire, LevelHeats, IInv, TypeOK
  <2>2. \/ UNCHANGED heat /\ (Ending => Ending') /\ lapses \subseteq lapses'
        \/ \E l \in Levels : SimStartFire(l) \/ LevelHeats(l)
    BY DEF Next, vars, MonStep, MonSample, MonUpdate, MonCheck, SimSeeAlarm,
           SimJoinGates, SimEnd, GatesOpen, CheckStep, CheckTest, CheckLock,
           CheckWrite, CheckRing, MainStep, MainWait, MainReturn, MainDecide,
           MainRaise, MainStartThreads, MainJoin, MainWaitAgain, MainEnd,
           MainWakes, EvacStep, EvacUnlock, EvacLock, EvacScan
  <2> QED
    BY <2>1, <2>2
<1> SUFFICES ASSUME ~(mainPc \in {"woken1", "decide"} \/ Emergency) PROVE Fire
  BY <1>1 DEF IInv, WokenForCause
<1>2. mainPc = "wait1" /\ mainPc' = "woken1" /\ ~MainWakes
  BY <1>1 DEF Next, vars, simVars, threadVars, mainFrame, evacFrame, Emergency,
     Broadcast, Waiting, Woken, SimStartFire, LevelHeats, MonStep, MonSample,
     MonUpdate, MonCheck, SimSeeAlarm, SimJoinGates, SimEnd, GatesOpen,
     CheckStep, CheckTest, CheckLock, CheckWrite, CheckRing, MainStep, MainWait,
     MainReturn, MainDecide, MainRaise, MainStartThreads, MainJoin,
     MainWaitAgain, MainEnd, MainWakes, EvacStep, EvacUnlock, EvacLock, EvacScan
<1>3. CheckRing \/ \E l \in Levels : MonSample(l) /\ heat[l] = "hot"
  BY <1>2 DEF Next, vars, simVars, threadVars, mainFrame, evacFrame,
     SimStartFire, LevelHeats, MonStep, MonSample, MonUpdate, MonCheck,
     SimSeeAlarm, SimJoinGates, SimEnd, GatesOpen, CheckStep, CheckTest,
     CheckLock, CheckWrite, MainStep, MainWait, MainReturn, MainDecide,
     MainRaise, MainStartThreads, MainJoin, MainWaitAgain, MainEnd, EvacStep,
     EvacUnlock, EvacLock, EvacScan
<1>4. ~CheckRing
  BY <1>1 DEF IInv, NoEndYet, CheckRing
<1> QED
  BY <1>3, <1>4 DEF Fire

LEMMA UserStep == IInv /\ [Next]_vars => UserWaits'
<1> SUFFICES ASSUME IInv, [Next]_vars PROVE UserWaits'
  OBVIOUS
<1> USE DEF IInv, UserWaits, AllRaised, mainFrame, evacFrame, simVars, threadVars
<1>1. \A l \in Levels : alarms[l] # "0" => alarms'[l] # "0"
  BY AlarmsStay
<1>2. ASSUME NEW l \in Levels, SimStartFire(l) PROVE UserWaits'
  BY <1>2 DEF SimStartFire
<1>3. ASSUME NEW l \in Levels, LevelHeats(l) PROVE UserWaits'
  BY <1>1, <1>3 DEF LevelHeats, TypeOK
<1>4. CASE SimSeeAlarm \/ SimJoinGates \/ SimEnd
  BY <1>1, <1>4 DEF SimSeeAlarm, SimJoinGates, SimEnd, AlarmsRaised
<1>5. CASE UNCHANGED simVars
  BY <1>1, <1>5
<1> QED
  BY <1>2, <1>3, <1>4, <1>5
     DEF Next, vars, MonStep, MonSample, MonUpdate, MonCheck, GatesOpen,
         CheckStep, CheckTest, CheckLock, CheckWrite, CheckRing, MainStep,
         MainWait, MainReturn, MainDecide, MainRaise, MainStartThreads, MainJoin,
         MainWaitAgain, MainEnd, MainWakes, EvacStep, EvacUnlock, EvacLock,
         EvacScan

LEMMA DoneStep == IInv /\ [Next]_vars => DoneForCause'
<1> SUFFICES ASSUME IInv, [Next]_vars, mainPc' = "done"
             PROVE  AllRaised' \/ Ending'
  BY DEF DoneForCause
<1> USE DEF mainFrame, evacFrame, simVars, threadVars
<1>1. AllRaised => AllRaised'
  BY AlarmsStay DEF IInv, AllRaised
<1>2. Ending => Ending'
  BY DEF Ending, Next, vars, SimStartFire, LevelHeats, MonStep, MonSample,
     MonUpdate, MonCheck, SimSeeAlarm, SimJoinGates, SimEnd, GatesOpen,
     CheckStep, CheckTest, CheckLock, CheckWrite, CheckRing, MainStep, MainWait,
     MainReturn, MainDecide, MainRaise, MainStartThreads, MainJoin,
     MainWaitAgain, MainEnd, MainWakes, EvacStep, EvacUnlock, EvacLock, EvacScan
<1>3. CASE mainPc = "done"
  BY <1>1, <1>2, <1>3 DEF IInv, DoneForCause
<1>4. CASE MainDecide /\ active = "e"
  BY <1>2, <1>4 DEF IInv, NoEndYet
<1>5. CASE MainEnd
  BY <1>1, <1>5 DEF MainEnd, IInv, AlarmsRaised
<1> QED
  BY <1>3, <1>4, <1>5
     DEF Next, vars, Broadcast, Woken, Waiting, SimStartFire, LevelHeats,
         MonStep, MonSample, MonUpdate, MonCheck, SimSeeAlarm, SimJoinGates,
         SimEnd, GatesOpen, CheckStep, CheckTest, CheckLock, CheckWrite,
         CheckRing, MainStep, MainWait, MainReturn, MainDecide, MainRaise,
         MainStartThreads, MainJoin, MainWaitAgain, MainWakes, EvacStep,
         EvacUnlock, EvacLock, EvacScan

LEMMA HasUserStep == TypeOK /\ (locked => MutexHasUser) /\ [Next]_vars => (locked => MutexHasUser)'
<1> SUFFICES ASSUME TypeOK, locked => MutexHasUser, [Next]_vars, locked' PROVE MutexHasUser'
  OBVIOUS
<1> USE DEF TypeOK, MutexHasUser, Woken, Waiting, Broadcast, mainFrame, evacFrame, simVars,
            threadVars
<1>1. ASSUME NEW l \in Levels, SimStartFire(l) \/ LevelHeats(l) PROVE MutexHasUser'
  BY <1>1 DEF SimStartFire, LevelHeats
<1>2. CASE SimSeeAlarm \/ SimJoinGates \/ SimEnd \/ GatesOpen
  BY <1>2 DEF SimSeeAlarm, SimJoinGates, SimEnd, GatesOpen
<1>3. ASSUME NEW l \in Levels, MonSample(l) PROVE MutexHasUser'
  BY <1>3 DEF MonSample
<1>4. ASSUME NEW l \in Levels, MonUpdate(l) PROVE MutexHasUser'
  BY <1>4 DEF MonUpdate
<1>5. ASSUME NEW l \in Levels, MonCheck(l) PROVE MutexHasUser'
  BY <1>5 DEF MonCheck
<1>6. CASE CheckStep
  BY <1>6 DEF CheckStep, CheckTest, CheckLock, CheckWrite, CheckRing
<1>7. CASE MainWakes
  BY <1>7 DEF MainWakes
<1>8. CASE MainStep
  BY <1>8 DEF MainStep, MainWait, MainReturn, MainDecide, MainRaise, MainStartThreads, MainJoin,
              MainWaitAgain, MainEnd
<1>9. ASSUME NEW s \in Screens, EvacStep(s) PROVE MutexHasUser'
  BY <1>9 DEF EvacStep, EvacUnlock, EvacLock, EvacScan
<1>10. CASE UNCHANGED vars
  BY <1>10 DEF vars
<1> QED
  BY <1>1, <1>2, <1>3, <1>4, <1>5, <1>6, <1>7, <1>8, <1>9, <1>10 DEF Next, MonStep

LEMMA MonitorStep == IInv /\ [Next]_vars => MonitorStopsForItsLevel'
<1> SUFFICES ASSUME IInv, [Next]_vars, NEW l \in Levels, monPc'[l] = "done"
             PROVE  alarms'[l] # "0"
  BY DEF MonitorStopsForItsLevel
<1>1. alarms[l] # "0" => alarms'[l] # "0"
  BY AlarmsStay DEF IInv
<1>2. CASE monPc[l] = "done"
  BY <1>1, <1>2 DEF IInv, MonitorStopsForItsLevel
<1>3. CASE MonCheck(l) /\ active # "0"
  <2>1. CASE mainPc \in Early
    BY <1>1, <1>3, <2>1 DEF IInv, MutexHolds, MonCheck
  <2>2. CASE mainPc \notin Early
    <3>1. mainPc \in {"join", "lock2", "wait2", "woken2"}
      BY <1>3, <2>2 DEF MonCheck, Running, Early, IInv, TypeOK, MainPoints
    <3> QED
      BY <1>1, <3>1 DEF IInv, AlarmsRaised, AllRaised
  <2> QED
    BY <2>1, <2>2
<1> QED
  BY <1>2, <1>3
     DEF IInv, TypeOK, Next, vars, mainFrame, evacFrame, simVars, threadVars,
         SimStartFire, LevelHeats, MonStep, MonSample, MonUpdate, MonCheck,
         SimSeeAlarm, SimJoinGates, SimEnd, GatesOpen, CheckStep, CheckTest,
         CheckLock, CheckWrite, CheckRing, MainStep, MainWait, MainReturn,
         MainDecide, MainRaise, MainStartThreads, MainJoin, MainWaitAgain,
         MainEnd, MainWakes, EvacStep, EvacUnlock, EvacLock, EvacScan

LEMMA NoneStep == IInv /\ [Next]_vars => NoneRaised'
<1> SUFFICES ASSUME IInv, [Next]_vars, mainPc' \in Early \ {"raise"}, NEW l \in Levels
             PROVE  alarms'[l] # "1"
  BY DEF NoneRaised
<1>1. mainPc \in Early \ {"raise"} /\ (UNCHANGED alarms \/ SimEnd)
  BY DEF Early, Next, vars, mainFrame, evacFrame, simVars, threadVars, Broadcast, Woken, Waiting,
         SimStartFire, LevelHeats, MonStep, MonSample, MonUpdate, MonCheck,
         SimSeeAlarm, SimJoinGates, GatesOpen, CheckStep, CheckTest,
         CheckLock, CheckWrite, CheckRing, MainStep, MainWait, MainReturn,
         MainDecide, MainRaise, MainStartThreads, MainJoin, MainWaitAgain,
         MainEnd, MainWakes, EvacStep, EvacUnlock, EvacLock, EvacScan, SimEnd
<1> QED
  BY <1>1 DEF IInv, TypeOK, NoneRaised, SimEnd

LEMMA InvStep == IInv /\ [Next]_vars => IInv'
<1> SUFFICES ASSUME IInv, [Next]_vars PROVE IInv'
  OBVIOUS
<1>1. TypeOK'
  BY TypeStep DEF IInv
<1> QED
  BY <1>1, MutexStep, RaisedStep, EndStep, CauseStep, UserStep, DoneStep,
     MonitorStep, NoneStep DEF IInv

\* Whoever has alarm_mutex before the signs' threads run gives it back.
LEMMA GivenBack ==
  ASSUME MutexHolds, locked => MutexHasUser, mainPc \in Early
  PROVE  locked => mainPc = "decide" \/ checkPc = "write" \/ \E l \in Levels : monPc[l] = "check"
BY DEF MutexHolds, MutexHasUser

LEMMA NotSlept ==
  ASSUME IInv, locked => MutexHasUser
  PROVE  FireIsNotSlept
<1> SUFFICES ASSUME NEW f \in Levels, heat[f] # "cool", NEW a \in Levels, alarms[a] = "0"
             PROVE  /\ \/ mainPc \in {"start", "wait1"} /\ \A l \in Levels : monPc[l] # "done"
                       \/ mainPc \in {"woken1", "raise"}
                       \/ mainPc = "decide" /\ active # "e"
                    /\ locked => \/ mainPc = "decide" \/ checkPc = "write"
                                 \/ \E l \in Levels : monPc[l] = "check"
  BY DEF FireIsNotSlept
<1>1. ~Ending /\ ~AllRaised
  BY DEF IInv, UserWaits, AllRaised, Ending
<1>2. active # "e" /\ \A l \in Levels : alarms[l] # "e"
  BY <1>1 DEF IInv, NoEndYet
<1>3. mainPc \in Early
  BY <1>1 DEF IInv, TypeOK, MainPoints, Early, AlarmsRaised, DoneForCause
<1>4. ASSUME mainPc \in {"start", "wait1"}, NEW l \in Levels
      PROVE  monPc[l] # "done"
  <2>1. alarms[l] = "0"
    BY <1>2, <1>4 DEF IInv, TypeOK, Flags, NoneRaised, Early
  <2> QED
    BY <2>1 DEF IInv, MonitorStopsForItsLevel
<1> QED
  BY <1>2, <1>3, <1>4, GivenBack DEF IInv, Early

-----------------------------------------------------------------------------
(* The theorems.                                                           *)

\* Every variable keeps its type.
THEOREM TypeCorrect == Spec => []TypeOK
BY InvInit, InvStep, PTL DEF Spec, IInv

\* An alarm is raised for a fire, as long as nobody has ended the simulation
\* and no wait has returned by itself.
THEOREM NoFalseEmergencies == Spec => []NoFalseEmergency
<1>1. IInv => NoFalseEmergency
  BY DEF IInv, WokenForCause, NoFalseEmergency
<1> QED
  BY <1>1, InvInit, InvStep, PTL DEF Spec

\* The invariant, and alarm_mutex never without a user.
THEOREM Invariance == Spec => [](IInv /\ (locked => MutexHasUser))
<1>1. Init => (locked => MutexHasUser)
  BY DEF Init
<1>2. TypeOK /\ (locked => MutexHasUser) /\ [Next]_vars => (locked => MutexHasUser)'
  BY HasUserStep
<1>3. IInv => TypeOK
  BY DEF IInv
<1> QED
  BY <1>1, <1>2, <1>3, InvInit, InvStep, PTL DEF Spec

\* A fire is neither slept through nor ended before all alarms are on.
THEOREM FireNeverSlept == Spec => []FireIsNotSlept
BY Invariance, NotSlept, PTL

\* A monitor stops for the flag of its own level only, and alarm_mutex is never
\* left locked but by an evac_msg that has returned.
THEOREM MutexIsSound == Spec => []MutexServes
<1>1. IInv /\ (locked => MutexHasUser) => MutexServes
  BY DEF IInv, MutexServes
<1> QED
  BY Invariance, <1>1, PTL
=============================================================================
