------------------------------ MODULE FireAlarm ------------------------------
(***************************************************************************)
(* The control threads of the fire alarm (firealarm.c): main, thf_check,   *)
(* the monitors as far as they ring and end, and the threads that show     *)
(* EVACUATE; and the simulator's main thread, which starts a fire and ends *)
(* everything (check_user_input, simulator.c).                             *)
(*                                                                         *)
(* alarm_mutex is only locked or free: evac_msg unlocks it whoever holds   *)
(* it, and returns holding it.  Both waits for alarm_condvar are without a *)
(* predicate.  What a monitor makes of the temperatures is TempMonitor's   *)
(* matter, here a level is hot once the monitor rings for it at every      *)
(* sample; how a gate is opened is left out, gatesUp says that all are.    *)
(***************************************************************************)
EXTENDS Integers

CONSTANTS LEVELS,  \* number of levels
          Screens  \* the entrances' signs

ASSUME FireAssumption == LEVELS \in Nat \ {0}

Levels == 0..(LEVELS - 1)

VARIABLES alarms,   \* shared: levels[l].alarm
          simPc,    \* where the simulator's main thread is
          heat,     \* a level's temperature, as far as its monitor goes
          gatesUp,  \* all boom gates are open
          active,   \* alarm_active
          locked,   \* alarm_mutex is locked
          mainPc,   \* where main is, emergency_mode included
          raised,   \* emergency_mode: i, the alarms set so far
          checkPc,  \* where thf_check is
          monPc,    \* where the tempmonitor of a level is
          evacPc,   \* where the evac_msg of a sign is
          lapses    \* history: which of Lapses the wake-ups have had

simVars == <<simPc, heat>>
threadVars == <<mainPc, raised, checkPc, monPc, evacPc>>
vars == <<alarms, simVars, gatesUp, active, locked, threadVars, lapses>>

\* A broadcast before main has come to wait; a wait that returned by itself.
Lapses == {"early", "spurious"}

Flags == {"0", "1", "e"}
SimPoints == {"idle", "fire", "open", "ending", "ended"}
MainPoints == {"start", "wait1", "woken1", "decide", "raise", "join", "lock2",
               "wait2", "woken2", "done"}

Init ==
  /\ alarms = [l \in Levels |-> "0"]
  /\ simPc = "idle" /\ heat = [l \in Levels |-> "cool"] /\ gatesUp = FALSE
  /\ active = "0" /\ locked = FALSE
  /\ mainPc = "start" /\ raised = 0
  /\ checkPc = "test"
  /\ monPc = [l \in Levels |-> "sample"]
  /\ evacPc = [s \in Screens |-> "off"]
  /\ lapses = {}

Running == mainPc # "done"

-----------------------------------------------------------------------------
(* The simulator.                                                          *)

\* 'r', 'f' or another key: rate_of_rise or fixed_temp on a random level.  One
\* that has burnt before stays as it is, and the simulator sees the alarm.
SimStartFire(l) ==
  /\ simPc = "idle" /\ heat[l] = "cool"
  /\ simPc' = "fire"
  /\ heat' = [heat EXCEPT ![l] = "burning"]
  /\ UNCHANGED <<alarms, gatesUp, active, locked, threadVars, lapses>>

\* The monitor's windows have filled with the fire.
LevelHeats(l) ==
  /\ heat[l] = "burning"
  /\ heat' = [heat EXCEPT ![l] = "hot"]
  /\ UNCHANGED <<alarms, simPc, gatesUp, active, locked, threadVars, lapses>>

\* rate_of_rise and fixed_temp return; main starts thf_boomAlarm for the gates.
SimSeeAlarm ==
  /\ simPc = "fire"
  /\ \E l \in Levels : alarms[l] = "1"
  /\ simPc' = "open"
  /\ UNCHANGED <<alarms, heat, gatesUp, active, locked, threadVars, lapses>>

\* thf_boomAlarm and openboomgate have met at every gate.
GatesOpen ==
  /\ simPc = "open" /\ mainPc = "join"
  /\ gatesUp' = TRUE
  /\ UNCHANGED <<alarms, simVars, active, locked, threadVars, lapses>>

SimJoinGates ==
  /\ simPc = "open" /\ gatesUp
  /\ simPc' = "idle"
  /\ UNCHANGED <<alarms, heat, gatesUp, active, locked, threadVars, lapses>>

\* Mutant: the simulator takes an 'e' while its fire burns.
SimEndInFire ==
  /\ simPc \in {"idle", "fire", "ending"}
  /\ simPc' = IF simPc = "ending" THEN "ended" ELSE "ending"
  /\ alarms' = [alarms EXCEPT ![0] = "e"]
  /\ UNCHANGED <<heat, gatesUp, active, locked, threadVars, lapses>>

\* 'e': check_user_input sets the flag of level 0, and so does main again.
SimEnd ==
  /\ simPc \in {"idle", "ending"}
  /\ simPc' = IF simPc = "idle" THEN "ending" ELSE "ended"
  /\ alarms' = [alarms EXCEPT ![0] = "e"]
  /\ UNCHANGED <<heat, gatesUp, active, locked, threadVars, lapses>>

-----------------------------------------------------------------------------
(* The condition variable.                                                 *)

Waiting == mainPc \in {"wait1", "wait2"}

Woken(pc) == IF pc = "wait1" THEN "woken1" ELSE "woken2"

Broadcast ==
  /\ mainPc' = IF Waiting THEN Woken(mainPc) ELSE mainPc
  /\ lapses' = IF mainPc = "start" THEN lapses \cup {"early"} ELSE lapses

MainWakes ==
  /\ Waiting
  /\ mainPc' = Woken(mainPc)
  /\ lapses' = lapses \cup {"spurious"}
  /\ UNCHANGED <<alarms, simVars, gatesUp, active, locked, raised, checkPc, monPc, evacPc>>

-----------------------------------------------------------------------------
(* The monitors and thf_check.                                             *)

\* Mutant: rings without having looked.
MonRingAnyway(l) ==
  /\ Running /\ monPc[l] = "sample"
  /\ monPc' = [monPc EXCEPT ![l] = "update"]
  /\ Broadcast
  /\ UNCHANGED <<alarms, simVars, gatesUp, active, locked, raised, checkPc, evacPc>>

\* Mutant: nothing is broadcast.
MonKeepQuiet(l) ==
  /\ Running /\ monPc[l] = "sample"
  /\ monPc' = [monPc EXCEPT ![l] = "update"]
  /\ UNCHANGED <<alarms, simVars, gatesUp, active, locked, mainPc, lapses, raised, checkPc, evacPc>>

MonSample(l) ==
  /\ Running /\ monPc[l] = "sample"
  /\ monPc' = [monPc EXCEPT ![l] = "update"]
  /\ IF heat[l] = "hot" THEN Broadcast ELSE UNCHANGED <<mainPc, lapses>>
  /\ UNCHANGED <<alarms, simVars, gatesUp, active, locked, raised, checkPc, evacPc>>

\* Mutant: alarm_active is updated without the lock.
MonUpdateUnlocked(l) ==
  /\ Running /\ monPc[l] = "update"
  /\ active' = alarms[l]
  /\ monPc' = [monPc EXCEPT ![l] = "check"]
  /\ UNCHANGED <<alarms, simVars, gatesUp, locked, mainPc, raised, checkPc, evacPc, lapses>>

MonUpdate(l) ==
  /\ Running /\ monPc[l] = "update"
  /\ ~locked /\ locked' = TRUE
  /\ active' = alarms[l]
  /\ monPc' = [monPc EXCEPT ![l] = "check"]
  /\ UNCHANGED <<alarms, simVars, gatesUp, mainPc, raised, checkPc, evacPc, lapses>>

\* local_check is read back from alarm_active.
MonCheck(l) ==
  /\ Running /\ monPc[l] = "check"
  /\ locked' = FALSE
  /\ monPc' = [monPc EXCEPT ![l] = IF active = "0" THEN "sample" ELSE "done"]
  /\ UNCHANGED <<alarms, simVars, gatesUp, active, mainPc, raised, checkPc, evacPc, lapses>>

\* The loop's condition is read without the lock.
CheckTest ==
  /\ Running /\ checkPc = "test"
  /\ checkPc' = IF active = "e" THEN "ring" ELSE "lock"
  /\ UNCHANGED <<alarms, simVars, gatesUp, active, locked, mainPc, raised, monPc, evacPc, lapses>>

CheckLock ==
  /\ Running /\ checkPc = "lock"
  /\ ~locked /\ locked' = TRUE
  /\ checkPc' = "write"
  /\ UNCHANGED <<alarms, simVars, gatesUp, active, mainPc, raised, monPc, evacPc, lapses>>

CheckWrite ==
  /\ Running /\ checkPc = "write"
  /\ active' = alarms[0]
  /\ locked' = FALSE
  /\ checkPc' = "test"
  /\ UNCHANGED <<alarms, simVars, gatesUp, mainPc, raised, monPc, evacPc, lapses>>

\* Mutant: thf_check returns without broadcasting.
CheckReturnOnly ==
  /\ Running /\ checkPc = "ring"
  /\ checkPc' = "done"
  /\ UNCHANGED <<alarms, simVars, gatesUp, active, locked, mainPc, lapses, raised, monPc, evacPc>>

CheckRing ==
  /\ Running /\ checkPc = "ring"
  /\ Broadcast
  /\ checkPc' = "done"
  /\ UNCHANGED <<alarms, simVars, gatesUp, active, locked, raised, monPc, evacPc>>

-----------------------------------------------------------------------------
(* main and emergency_mode.                                                *)

mainFrame == <<simVars, gatesUp, active, checkPc, monPc, lapses>>

MainWait ==
  /\ mainPc = "start"
  /\ ~locked
  /\ mainPc' = "wait1"
  /\ UNCHANGED <<alarms, locked, raised, evacPc, mainFrame>>

\* pthread_cond_wait returns with the mutex.
MainReturn ==
  /\ mainPc = "woken1"
  /\ ~locked /\ locked' = TRUE
  /\ mainPc' = "decide"
  /\ UNCHANGED <<alarms, raised, evacPc, mainFrame>>

MainDecide ==
  /\ mainPc = "decide"
  /\ locked' = FALSE
  /\ mainPc' = IF active = "e" THEN "done" ELSE "raise"
  /\ UNCHANGED <<alarms, raised, evacPc, mainFrame>>

MainRaise ==
  /\ mainPc = "raise" /\ raised < LEVELS
  /\ alarms' = [alarms EXCEPT ![raised] = "1"]
  /\ raised' = raised + 1
  /\ UNCHANGED <<locked, mainPc, evacPc, mainFrame>>

\* Start the threads for the gates and for the signs.
MainStartThreads ==
  /\ mainPc = "raise" /\ raised = LEVELS
  /\ mainPc' = "join"
  /\ evacPc' = [s \in Screens |-> "unlock"]
  /\ UNCHANGED <<alarms, locked, raised, mainFrame>>

MainJoin ==
  /\ mainPc = "join" /\ gatesUp
  /\ mainPc' = "lock2"
  /\ UNCHANGED <<alarms, locked, raised, evacPc, mainFrame>>

MainWaitAgain ==
  /\ mainPc = "lock2"
  /\ ~locked
  /\ mainPc' = "wait2"
  /\ UNCHANGED <<alarms, locked, raised, evacPc, mainFrame>>

\* The mutex is released, the threads are cancelled, the program ends.
MainEnd ==
  /\ mainPc = "woken2"
  /\ ~locked
  /\ mainPc' = "done"
  /\ UNCHANGED <<alarms, locked, raised, evacPc, mainFrame>>

-----------------------------------------------------------------------------
(* evac_msg.                                                               *)

evacFrame == <<alarms, simVars, gatesUp, mainPc, raised, checkPc, monPc, lapses>>

\* At the top of the loop the mutex is unlocked, the first time not by the
\* thread that locked it.
EvacUnlock(s) ==
  /\ Running /\ evacPc[s] = "unlock"
  /\ locked' = FALSE
  /\ evacPc' = [evacPc EXCEPT ![s] = "show"]
  /\ UNCHANGED <<active, evacFrame>>

EvacLock(s) ==
  /\ Running /\ evacPc[s] = "show"
  /\ ~locked /\ locked' = TRUE
  /\ evacPc' = [evacPc EXCEPT ![s] = "scan"]
  /\ UNCHANGED <<active, evacFrame>>

\* The thread returns with the mutex locked once a level's flag is 'e'.
EvacScan(s) ==
  /\ Running /\ evacPc[s] = "scan"
  /\ IF \E l \in Levels : alarms[l] = "e"
     THEN active' = "e" /\ evacPc' = [evacPc EXCEPT ![s] = "done"]
     ELSE UNCHANGED active /\ evacPc' = [evacPc EXCEPT ![s] = "unlock"]
  /\ UNCHANGED <<locked, evacFrame>>

-----------------------------------------------------------------------------

MonStep(l) == MonSample(l) \/ MonUpdate(l) \/ MonCheck(l)

CheckStep == CheckTest \/ CheckLock \/ CheckWrite \/ CheckRing

MainStep == \/ MainWait \/ MainReturn \/ MainDecide \/ MainRaise
            \/ MainStartThreads \/ MainJoin \/ MainWaitAgain \/ MainEnd

EvacStep(s) == EvacUnlock(s) \/ EvacLock(s) \/ EvacScan(s)

Next ==
  \/ \E l \in Levels : SimStartFire(l) \/ LevelHeats(l) \/ MonStep(l)
  \/ SimSeeAlarm \/ SimJoinGates \/ SimEnd \/ GatesOpen
  \/ CheckStep \/ MainStep \/ MainWakes
  \/ \E s \in Screens : EvacStep(s)

Spec == Init /\ [][Next]_vars

\* Every thread that can run does, and one that again and again finds the mutex
\* free gets it; thf_check's test is not for ever preceded by a monitor that
\* overwrites the flag it has just stored.  A fire that burns fills the windows;
\* the gates can be opened.  Nothing makes the user type, or a wait return by itself,
\* and the threads for the signs may stand still.
FairSpec ==
  /\ Spec
  /\ \A l \in Levels : SF_vars(MonStep(l))
  /\ SF_vars(CheckStep) /\ SF_vars(CheckTest /\ active = "e") /\ SF_vars(MainStep)
  /\ WF_vars(\E l \in Levels : LevelHeats(l))
  /\ WF_vars(SimSeeAlarm \/ GatesOpen \/ SimJoinGates)

-----------------------------------------------------------------------------
(* Properties.                                                             *)

TypeOK ==
  /\ alarms \in [Levels -> Flags]
  /\ simPc \in SimPoints /\ heat \in [Levels -> {"cool", "burning", "hot"}]
  /\ gatesUp \in BOOLEAN
  /\ active \in Flags /\ locked \in BOOLEAN
  /\ mainPc \in MainPoints /\ raised \in 0..LEVELS
  /\ checkPc \in {"test", "lock", "write", "ring", "done"}
  /\ monPc \in [Levels -> {"sample", "update", "check", "done"}]
  /\ evacPc \in [Screens -> {"off", "unlock", "show", "scan", "done"}]
  /\ lapses \subseteq Lapses

Emergency == mainPc \in {"raise", "join", "lock2", "wait2", "woken2"}
Ending == simPc \in {"ending", "ended"}
Fire == \E l \in Levels : heat[l] = "hot"

\* The alarm is raised for a fire, as long as nobody has ended the simulation
\* and no wait has returned by itself.
NoFalseEmergency ==
  Emergency /\ ~Ending /\ "spurious" \notin lapses => Fire

\* A fire is neither slept through nor ended by the user before it has all its
\* alarms: main is on its way to raise them, or it has yet to be woken and then
\* all monitors still run, though each stops for what it reads from the one
\* alarm_active; and alarm_mutex is with somebody who gives it back.
FireIsNotSlept ==
  (\E l \in Levels : heat[l] # "cool") /\ (\E l \in Levels : alarms[l] = "0") =>
    /\ \/ mainPc \in {"start", "wait1"} /\ \A l \in Levels : monPc[l] # "done"
       \/ mainPc \in {"woken1", "raise"}
       \/ mainPc = "decide" /\ active # "e"
    /\ locked => \/ mainPc = "decide" \/ checkPc = "write"
                 \/ \E l \in Levels : monPc[l] = "check"

\* A monitor that reads its level's flag back from alarm_active stops for no
\* other level's: alarm_mutex is not broken before all alarms are on.
MonitorStopsForItsLevel ==
  \A l \in Levels : monPc[l] = "done" => alarms[l] # "0"

\* Somebody is at a step that unlocks alarm_mutex, or has returned with it.
MutexHasUser ==
  \/ mainPc = "decide" \/ checkPc = "write"
  \/ \E l \in Levels : monPc[l] = "check"
  \/ \E s \in Screens : evacPc[s] \in {"scan", "unlock", "done"}

\* alarm_mutex, which evac_msg unlocks whoever has it, serves all the same: the
\* monitors stop for their levels' flags, and nobody waits for it in vain, unless
\* an evac_msg has returned with it (firealarm.c:186, 206).
MutexServes == MonitorStopsForItsLevel /\ (locked => MutexHasUser)

\* A fire is answered, whatever wake-ups are lost, with an alarm on every level.
FireIsAnswered == Fire ~> \A l \in Levels : alarms[l] # "0"

\* When the simulation ends, the fire alarm ends or takes it for a fire, unless
\* the one broadcast of thf_check comes before main waits.
EndIsNoticed ==
  Ending ~> mainPc = "done" \/ Emergency \/ "early" \in lapses

\* "determine if there is a fire and, if so, override the manager"
\* (firealarm.c:3-4).
EmergencyOnlyInFire == Emergency /\ "spurious" \notin lapses => Fire
=============================================================================
