----------------------------- MODULE Emergency -----------------------------
(***************************************************************************)
(* The boom gates in an emergency.  Four threads of three programs move a  *)
(* gate under its one mutex: the simulator's lane (sim_gates, called by    *)
(* thf_entr and thf_exit), which main cancels in a fire, and the thread it *)
(* starts in its place (thf_boomAlarm), the manager's lane (m_sim_gates),  *)
(* whose alarm loop never ends so that nobody cancels it, and the fire     *)
(* alarm's openboomgate.  The simulator's creator thread is here for       *)
(* rand_lock, which it sleeps with and main needs to start a fire.         *)
(*                                                                         *)
(* A cancelled thread ends at its next cancellation point: a sleep, which  *)
(* leaves the mutex as it is, or a wait, which takes the mutex first and   *)
(* keeps it.  An unlock frees the mutex whoever has it.                    *)
(***************************************************************************)
EXTENDS Integers

CONSTANT Gates  \* the boom gates of the entrances and exits

ASSUME EmergencyAssumption == Gates # {}

Threads == {"lane", "mgr", "opener", "boom"}

VARIABLES gate,      \* shared: gate.status
          lock,      \* shared: who has gate.lock, or "free"
          pc,        \* per gate and thread: where it is
          goal,      \* the status that the lane, or the manager, works for
          cancelled, \* the gates whose lane's thread has been cancelled
          alarm,     \* the fire alarm has raised the alarm
          mainPc,    \* where the simulator's main is
          todo,      \* main's loop over the gates: those it has yet to do
          forced,    \* history: the gates whose mutex main took from its owner
          creator    \* where thf_creator is

gateVars == <<gate, lock, pc, goal>>
mainVars == <<cancelled, mainPc, todo, forced>>
vars == <<gateVars, mainVars, alarm, creator>>

GateStates == {"C", "R", "O", "L"}

Init ==
  /\ gate = [g \in Gates |-> "C"]
  /\ lock = [g \in Gates |-> "free"]
  /\ pc = [g \in Gates |-> [t \in Threads |-> IF t \in {"lane", "mgr"} THEN "away" ELSE "off"]]
  /\ goal = [g \in Gates |-> [t \in {"lane", "mgr"} |-> "O"]]
  /\ cancelled = {} /\ alarm = FALSE
  /\ mainPc = "idle" /\ todo = {} /\ forced = {}
  /\ creator = "start"

-----------------------------------------------------------------------------
(* A gate's mutex and condition variable.                                  *)

\* Thread t of gate g, at point a, goes on to point b.
Go(g, t, a, b) ==
  /\ pc[g][t] = a
  /\ pc' = [pc EXCEPT ![g][t] = b]

\* It has the mutex, which is free, between two of its steps.
Keep(g, t) == lock[g] = "free" /\ lock' = [lock EXCEPT ![g] = t]

\* It takes the mutex and gives it back, unlocking or waiting.
Pass(g) == lock[g] = "free" /\ UNCHANGED lock

Unlock(g) == lock' = [lock EXCEPT ![g] = "free"]

\* It broadcasts to those who wait at the gate.
Ring(g, t, a, b) ==
  /\ pc[g][t] = a
  /\ pc' = [pc EXCEPT ![g] = [u \in Threads |->
              IF u = t THEN b ELSE IF @[u] = "wait" THEN "try" ELSE @[u]]]
  /\ UNCHANGED <<gate, lock>>

\* A wait that returns by itself.
Wake(g, t) ==
  /\ Go(g, t, "wait", "try")
  /\ UNCHANGED <<gate, lock, goal, mainVars, alarm, creator>>

Frame == UNCHANGED <<mainVars, alarm, creator>>

-----------------------------------------------------------------------------
(* The simulator's lane.                                                   *)

\* A car rings the LPR, which the manager hears if it is not busy.
LaneAsk(g) ==
  /\ g \notin cancelled
  /\ pc[g].lane = "away"
  /\ pc' = [pc EXCEPT ![g].lane = "asking",
                     ![g].mgr = IF @ = "away" THEN "enter" ELSE @]
  /\ UNCHANGED <<gate, lock, goal>> /\ Frame

LaneCome(g) ==
  /\ Go(g, "lane", "asking", "try")
  /\ UNCHANGED <<gate, lock, goal>> /\ Frame

\* sim_gates tests the status.
LaneWait(g) ==
  /\ gate[g] \in {"O", "C"}
  /\ Pass(g) /\ Go(g, "lane", "try", "wait")
  /\ UNCHANGED <<gate, goal>> /\ Frame

LaneMove(g) ==
  /\ gate[g] \in {"R", "L"}
  /\ Keep(g, "lane")
  /\ Go(g, "lane", "try", IF gate[g] = "L" THEN "lowering" ELSE "raising")
  /\ UNCHANGED <<gate, goal>> /\ Frame

\* The sleep is over.
LaneMoved(g) ==
  /\ g \notin cancelled
  /\ \/ Go(g, "lane", "raising", "up")
     \/ Go(g, "lane", "lowering", "down")
  /\ UNCHANGED <<gate, lock, goal>> /\ Frame

LaneSet(g) ==
  /\ \/ Go(g, "lane", "up", "ringO") /\ gate' = [gate EXCEPT ![g] = "O"]
     \/ Go(g, "lane", "down", "ringC") /\ gate' = [gate EXCEPT ![g] = "C"]
  /\ Unlock(g)
  /\ UNCHANGED goal /\ Frame

\* thf_entr and thf_exit call sim_gates until it returns the status they want.
LaneRing(g) ==
  /\ \/ Ring(g, "lane", "ringO", IF goal[g].lane = "O" THEN "drive" ELSE "try") /\ UNCHANGED goal
     \/ goal[g].lane = "O" /\ Ring(g, "lane", "ringC", "try") /\ UNCHANGED goal
     \/ goal[g].lane = "C" /\ Ring(g, "lane", "ringC", "away") /\ goal' = [goal EXCEPT ![g].lane = "O"]
  /\ Frame

LaneDrive(g) ==
  /\ Go(g, "lane", "drive", "try")
  /\ goal' = [goal EXCEPT ![g].lane = "C"]
  /\ UNCHANGED <<gate, lock>> /\ Frame

\* Cancelled in a sleep, or in a wait of another mutex.
LaneEnd(g) ==
  /\ g \in cancelled
  /\ \E p \in {"away", "asking", "drive", "raising", "lowering"} : Go(g, "lane", p, "dead")
  /\ UNCHANGED <<gate, lock, goal>> /\ Frame

\* Cancelled in the wait at the gate.
LaneCancelled(g) ==
  /\ g \in cancelled
  /\ Go(g, "lane", "wait", "dying")
  /\ UNCHANGED <<gate, lock, goal>> /\ Frame

LaneEndWaiting(g) ==
  /\ Keep(g, "lane") /\ Go(g, "lane", "dying", "dead")
  /\ UNCHANGED <<gate, goal>> /\ Frame

-----------------------------------------------------------------------------
(* The manager's lane.                                                     *)

\* Mutant: the test of the status is missing.
MgrEnterAnyway(g) ==
  /\ Pass(g) /\ Go(g, "mgr", "enter", "ring")
  /\ gate' = [gate EXCEPT ![g] = "R"]
  /\ UNCHANGED goal /\ Frame

\* A gate that is not shut is left alone.
MgrEnter(g) ==
  /\ Pass(g)
  /\ IF gate[g] = "C"
     THEN Go(g, "mgr", "enter", "ring") /\ gate' = [gate EXCEPT ![g] = "R"]
     ELSE Go(g, "mgr", "enter", "leave") /\ UNCHANGED gate
  /\ UNCHANGED goal /\ Frame

MgrRing(g) ==
  /\ \/ Ring(g, "mgr", "ring", "try")
     \/ Ring(g, "mgr", "leave", "away")
  /\ UNCHANGED goal /\ Frame

\* Mutant: the status is not tested before the wait.
MgrWaitUntested(g) ==
  /\ Pass(g) /\ Go(g, "mgr", "try", "wait")
  /\ UNCHANGED <<gate, goal>> /\ Frame

MgrWait(g) ==
  /\ gate[g] # goal[g].mgr
  /\ Pass(g) /\ Go(g, "mgr", "try", "wait")
  /\ UNCHANGED <<gate, goal>> /\ Frame

\* Mutant: the sleep is outside the critical section.
MgrSeeOpenUnlocked(g) ==
  /\ gate[g] = "O" /\ goal[g].mgr = "O"
  /\ Pass(g) /\ Go(g, "mgr", "try", "hold")
  /\ UNCHANGED <<gate, goal>> /\ Frame

\* Sleeps over the open gate, with the mutex.
MgrSeeOpen(g) ==
  /\ gate[g] = "O" /\ goal[g].mgr = "O"
  /\ Keep(g, "mgr") /\ Go(g, "mgr", "try", "hold")
  /\ UNCHANGED <<gate, goal>> /\ Frame

MgrLower(g) ==
  /\ Go(g, "mgr", "hold", "ring")
  /\ gate' = [gate EXCEPT ![g] = "L"]
  /\ Unlock(g)
  /\ goal' = [goal EXCEPT ![g].mgr = "C"]
  /\ Frame

MgrSeeShut(g) ==
  /\ gate[g] = "C" /\ goal[g].mgr = "C"
  /\ Pass(g) /\ Go(g, "mgr", "try", "leave")
  /\ goal' = [goal EXCEPT ![g].mgr = "O"]
  /\ UNCHANGED <<gate>> /\ Frame

-----------------------------------------------------------------------------
(* The fire alarm.                                                         *)

RaiseAlarm ==
  /\ ~alarm /\ mainPc = "burn" /\ alarm' = TRUE
  /\ UNCHANGED <<gateVars, mainVars, creator>>

OpenerStart(g) ==
  /\ alarm
  /\ Go(g, "opener", "off", "try")
  /\ UNCHANGED <<gate, lock, goal>> /\ Frame

\* openboomgate tests the status.
OpenerSeeOpen(g) ==
  /\ gate[g] = "O"
  /\ Pass(g) /\ Go(g, "opener", "try", "done")
  /\ UNCHANGED <<gate, goal>> /\ Frame

OpenerRaise(g) ==
  /\ gate[g] = "C"
  /\ Pass(g) /\ Go(g, "opener", "try", "ring")
  /\ gate' = [gate EXCEPT ![g] = "R"]
  /\ UNCHANGED goal /\ Frame

\* A moving gate: on to the second lock, the first one not given back.
OpenerMiss(g) ==
  /\ gate[g] \in {"R", "L"}
  /\ Keep(g, "opener") /\ Go(g, "opener", "try", "relock")
  /\ UNCHANGED <<gate, goal>> /\ Frame

\* Mutant: no broadcast after the gate was asked for.
OpenerKeepQuiet(g) ==
  /\ Go(g, "opener", "ring", "relock")
  /\ UNCHANGED <<gate, lock, goal>> /\ Frame

OpenerRing(g) ==
  /\ Ring(g, "opener", "ring", "relock")
  /\ UNCHANGED goal /\ Frame

\* The wait comes without another look at the status.
OpenerWait(g) ==
  /\ Pass(g) /\ Go(g, "opener", "relock", "wait")
  /\ UNCHANGED <<gate, goal>> /\ Frame

-----------------------------------------------------------------------------
(* The simulator's thread for the gate in a fire.                          *)

BoomWait(g) ==
  /\ gate[g] \in {"O", "C"}
  /\ Pass(g) /\ Go(g, "boom", "try", "wait")
  /\ UNCHANGED <<gate, goal>> /\ Frame

\* A gate on its way down turns round.
BoomRaise(g) ==
  /\ gate[g] \in {"R", "L"}
  /\ Keep(g, "boom") /\ Go(g, "boom", "try", "raising")
  /\ gate' = [gate EXCEPT ![g] = "R"]
  /\ UNCHANGED goal /\ Frame

BoomOpen(g) ==
  /\ Go(g, "boom", "raising", "ring")
  /\ gate' = [gate EXCEPT ![g] = "O"]
  /\ Unlock(g)
  /\ UNCHANGED goal /\ Frame

BoomRing(g) ==
  /\ Ring(g, "boom", "ring", "done")
  /\ UNCHANGED goal /\ Frame

-----------------------------------------------------------------------------
(* The simulator's main and creator threads.                               *)

\* The creator sleeps with rand_lock, and keeps it if it is cancelled then.
RandLocked == creator \in {"sleep", "dead"}

\* 'f' or 'r' at the keyboard, at the start or after a fire.
UserFire ==
  /\ mainPc \in {"idle", "open"} /\ mainPc' = "rand"
  /\ UNCHANGED <<gateVars, cancelled, todo, forced, alarm, creator>>

\* rate_of_rise and fixed_temp choose a level under rand_lock.
MainChoose ==
  /\ mainPc = "rand" /\ ~RandLocked
  /\ mainPc' = "burn"
  /\ UNCHANGED <<gateVars, cancelled, todo, forced, alarm, creator>>

MainSeeAlarm ==
  /\ mainPc = "burn" /\ alarm
  /\ mainPc' = "cancel" /\ todo' = Gates
  /\ UNCHANGED <<gateVars, cancelled, forced, alarm, creator>>

\* main does gate g, then the next one or the next loop.
MainDo(g, loop, nextLoop) ==
  /\ mainPc = loop /\ g \in todo
  /\ IF todo = {g} THEN mainPc' = nextLoop /\ todo' = Gates
                   ELSE todo' = todo \ {g} /\ UNCHANGED mainPc
  /\ UNCHANGED <<alarm, creator>>

MainCancel(g) ==
  /\ MainDo(g, "cancel", "unlock")
  /\ cancelled' = cancelled \cup {g}
  /\ UNCHANGED <<gateVars, forced>>

MainUnlock(g) ==
  /\ MainDo(g, "unlock", "create")
  /\ Unlock(g)
  /\ forced' = IF lock[g] = "free" THEN forced ELSE forced \cup {g}
  /\ UNCHANGED <<gate, pc, goal, cancelled>>

MainCreate(g) ==
  /\ MainDo(g, "create", "join")
  /\ pc' = [pc EXCEPT ![g].boom = "try"]
  /\ UNCHANGED <<gate, lock, goal, cancelled, forced>>

\* "All boomgates open, simulator idle"
MainJoin ==
  /\ mainPc = "join" /\ \A g \in Gates : pc[g].boom = "done"
  /\ mainPc' = "open" /\ todo' = {}
  /\ UNCHANGED <<gateVars, cancelled, forced, alarm, creator>>

CreatorSleep ==
  /\ creator \in {"start", "work"} /\ creator' = "sleep"
  /\ UNCHANGED <<gateVars, mainVars, alarm>>

\* Mutant: rand_lock is not given back.
CreatorWorkLocked ==
  /\ creator = "sleep" /\ cancelled = {}
  /\ UNCHANGED <<creator, gateVars, mainVars, alarm>>

\* The sleep is over: the next one is its next cancellation point.
CreatorWork ==
  /\ creator = "sleep" /\ cancelled = {}
  /\ creator' = "work"
  /\ UNCHANGED <<gateVars, mainVars, alarm>>

\* Cancelled in a sleep; in its first one, before any car, it has no lock.
CreatorEnd ==
  /\ mainPc = "cancel" \/ cancelled # {}
  /\ \/ creator = "start" /\ creator' = "ended"
     \/ creator = "sleep" /\ creator' = "dead"
  /\ UNCHANGED <<gateVars, mainVars, alarm>>

-----------------------------------------------------------------------------

LaneStep(g) ==
  \/ LaneCome(g) \/ LaneWait(g) \/ LaneMove(g) \/ LaneMoved(g) \/ LaneSet(g)
  \/ LaneRing(g) \/ LaneDrive(g) \/ LaneEnd(g) \/ LaneCancelled(g) \/ LaneEndWaiting(g)

MgrStep(g) ==
  \/ MgrEnter(g) \/ MgrRing(g) \/ MgrWait(g) \/ MgrSeeOpen(g)
  \/ MgrLower(g) \/ MgrSeeShut(g)

OpenerStep(g) ==
  \/ OpenerStart(g) \/ OpenerSeeOpen(g) \/ OpenerRaise(g) \/ OpenerMiss(g)
  \/ OpenerRing(g) \/ OpenerWait(g)

BoomStep(g) == BoomWait(g) \/ BoomRaise(g) \/ BoomOpen(g) \/ BoomRing(g)

MainStep ==
  \/ MainChoose \/ MainSeeAlarm \/ MainJoin
  \/ \E g \in Gates : MainCancel(g) \/ MainUnlock(g) \/ MainCreate(g)

CreatorStep == CreatorSleep \/ CreatorWork \/ CreatorEnd

Next ==
  \/ \E g \in Gates : \/ LaneAsk(g) \/ LaneStep(g) \/ MgrStep(g)
                      \/ OpenerStep(g) \/ BoomStep(g)
                      \/ \E t \in Threads : Wake(g, t)
  \/ RaiseAlarm \/ UserFire \/ MainStep \/ CreatorStep

Spec == Init /\ [][Next]_vars

FairSpec ==
  /\ Spec
  /\ \A g \in Gates : SF_vars(LaneStep(g)) /\ SF_vars(MgrStep(g))
                      /\ SF_vars(OpenerStep(g)) /\ SF_vars(BoomStep(g))
  /\ SF_vars(MainStep) /\ WF_vars(CreatorStep)

-----------------------------------------------------------------------------

LanePoints == {"away", "asking", "try", "wait", "lowering", "raising", "up", "down",
               "ringO", "ringC", "drive", "dying", "dead"}
MgrPoints == {"away", "enter", "ring", "try", "wait", "hold", "leave"}
OpenerPoints == {"off", "try", "ring", "relock", "wait", "done"}
BoomPoints == {"off", "try", "wait", "raising", "ring", "done"}
AllPoints == LanePoints \cup MgrPoints \cup OpenerPoints \cup BoomPoints

\* Every variable keeps its type: the program counters of all four threads of
\* a gate, the status letters of simulator.c and manager.c.
TypeOK ==
  /\ gate \in [Gates -> GateStates]
  /\ lock \in [Gates -> Threads \cup {"free"}]
  /\ pc \in [Gates -> [Threads -> AllPoints]]
  /\ \A g \in Gates : /\ pc[g].lane \in LanePoints /\ pc[g].mgr \in MgrPoints
                       /\ pc[g].opener \in OpenerPoints /\ pc[g].boom \in BoomPoints
  /\ goal \in [Gates -> [{"lane", "mgr"} -> {"O", "C"}]]
  /\ cancelled \subseteq Gates /\ todo \subseteq Gates /\ forced \subseteq Gates
  /\ alarm \in BOOLEAN
  /\ mainPc \in {"idle", "rand", "burn", "cancel", "unlock", "create", "join", "open"}
  /\ creator \in {"start", "work", "sleep", "dead", "ended"}

\* What the thread inside gate g's critical section has seen is so, and the
\* mutex is its own.
Guarded(g) ==
  /\ pc[g].lane \in {"raising", "up"} => lock[g] = "lane" /\ gate[g] = "R"
  /\ pc[g].lane \in {"lowering", "down"} => lock[g] = "lane" /\ gate[g] = "L"
  /\ pc[g].mgr = "hold" => lock[g] = "mgr" /\ gate[g] = "O"
  /\ pc[g].boom = "raising" => lock[g] = "boom" /\ gate[g] = "R"

\* The sleeps that sim_gates, m_sim_gates and thf_boomAlarm take with a gate's
\* mutex are nobody else's, and the status does not change in them, until main
\* takes the mutex from its owner (simulator.c:997).
MutexHeld == \A g \in Gates \ forced : Guarded(g)

\* The order of a gate's movements (PARKING.h), with a lowered gate that may
\* turn round.
Movements == {<<"C", "R">>, <<"R", "O">>, <<"O", "L">>, <<"L", "C">>, <<"L", "R">>}

\* Four threads of three programs move a gate, and yet it never jumps: it goes
\* up, is open, goes down, is shut, and only on its way down turns round
\* (sim_gates, m_sim_gates, openboomgate, thf_boomAlarm), until main takes the
\* mutex from the thread that has it (simulator.c:997).
GateMovesInOrder ==
  [][\A g \in Gates : gate'[g] # gate[g] => <<gate[g], gate'[g]>> \in Movements \/ g \in forced]_vars

\* The mutex of gate g is lost: its lane, cancelled and not joined, took it after
\* main's unlock and ended in the sleep or the wait that came next, or openboomgate
\* waits for the mutex it has.
Stuck(g) ==
  \/ lock[g] = "lane" /\ pc[g].lane = "dead"
  \/ lock[g] = "opener" /\ pc[g].opener = "relock"

\* A thread of gate g is about to broadcast.
Ringing(g) ==
  \/ pc[g].lane \in {"ringO", "ringC"}
  \/ pc[g].mgr \in {"ring", "leave"}
  \/ pc[g].opener = "ring"
  \/ pc[g].boom = "ring"

\* Those who test the status before they wait still have nothing to do.
WaitsRightly(g) ==
  /\ pc[g].lane = "wait" => gate[g] \in {"O", "C"}
  /\ pc[g].mgr = "wait" => gate[g] # goal[g].mgr
  /\ pc[g].boom = "wait" => gate[g] \in {"O", "C"}

\* Gate g's mutex is free, or its owner is at a step that gives it back.
ComesBack(g) ==
  \/ lock[g] = "free"
  \/ lock[g] = "lane" /\ pc[g].lane \in {"raising", "up", "lowering", "down"}
  \/ lock[g] = "mgr" /\ pc[g].mgr = "hold"
  \/ lock[g] = "boom" /\ pc[g].boom = "raising"

\* No change of a gate's status is lost on a thread that waits for it: at each
\* moment sim_gates, m_sim_gates and thf_boomAlarm wait for what is not so, or
\* the broadcast is still to come (openboomgate waits untested). And the mutex
\* comes back, whoever main takes it from (simulator.c:997), unless it is lost
\* in one of the two ways of Stuck.
NobodyLeftWaiting ==
  \A g \in Gates : (WaitsRightly(g) \/ Ringing(g)) /\ (ComesBack(g) \/ Stuck(g))

\* Every gate is open at some time after the alarm (emergency_mode,
\* openboomgate), whatever its lanes do to it then, unless its mutex is lost or
\* main took it from a thread. With the same exceptions, the thread that main
\* starts for a gate comes back, so that main does, unless it finds the gate open
\* already, or shut again after openboomgate has seen it open (thf_boomAlarm).
GateOpensInFire ==
  \A g \in Gates :
    /\ (alarm /\ pc[g].opener = "off") ~> gate[g] = "O" \/ Stuck(g) \/ g \in forced
    /\ pc[g].boom = "try" ~>
         \/ pc[g].boom = "done" \/ Stuck(g) \/ g \in forced
         \/ pc[g].boom = "wait" /\ gate[g] = "O"
         \/ pc[g].boom = "wait" /\ gate[g] = "C" /\ pc[g].opener = "done"

\* A fire that the user asks for is started (rate_of_rise, fixed_temp), unless
\* the creator has been cancelled in the sleep it takes with rand_lock
\* (simulator.c:549-551).
UserIsServed == mainPc = "rand" ~> mainPc = "burn" \/ creator = "dead"

\* "All boomgates open, simulator idle" (simulator.c:1040).
AllOpenWhenIdle == mainPc = "open" => \A g \in Gates : gate[g] = "O"
=============================================================================
