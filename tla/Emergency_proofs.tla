-------------------------- MODULE Emergency_proofs --------------------------
(* Types, the gates' mutexes and the order of the gates' movements, for any *)
(* set of gates.                                                            *)
EXTENDS Emergency, TLAPS

\* The program counters, and the other variables: the parts of TypeOK.
PcOK ==
  /\ pc \in [Gates -> [Threads -> AllPoints]]
  /\ \A g \in Gates : /\ pc[g].lane \in LanePoints /\ pc[g].mgr \in MgrPoints
                       /\ pc[g].opener \in OpenerPoints /\ pc[g].boom \in BoomPoints
GateOK ==
  /\ gate \in [Gates -> GateStates]
  /\ lock \in [Gates -> Threads \cup {"free"}]
  /\ goal \in [Gates -> [{"lane", "mgr"} -> {"O", "C"}]]
MainOK ==
  /\ cancelled \subseteq Gates /\ todo \subseteq Gates /\ forced \subseteq Gates
  /\ alarm \in BOOLEAN
  /\ mainPc \in {"idle", "rand", "burn", "cancel", "unlock", "create", "join", "open"}
  /\ creator \in {"start", "work", "sleep", "dead", "ended"}

LEMMA TypeParts == TypeOK <=> PcOK /\ GateOK /\ MainOK
BY DEF TypeOK, PcOK, GateOK, MainOK

\* b is a point of thread t.
PointOf(t, b) ==
  \/ t = "lane" /\ b \in LanePoints
  \/ t = "mgr" /\ b \in MgrPoints
  \/ t = "opener" /\ b \in OpenerPoints
  \/ t = "boom" /\ b \in BoomPoints

\* Thread t of gate g is at b, the other threads are where they were.
Moved(g, t, b) ==
  /\ pc'[g][t] = b
  /\ \A h \in Gates, u \in Threads : h # g \/ u # t => pc'[h][u] = pc[h][u]

\* The same, but those that waited at the gate no longer do.
Rung(g, t, b) ==
  /\ pc'[g][t] = b
  /\ \A h \in Gates, u \in Threads :
       h # g \/ u # t => pc'[h][u] = pc[h][u] \/ (pc[h][u] = "wait" /\ pc'[h][u] = "try")

LEMMA RungTypes ==
  ASSUME PcOK, NEW g \in Gates, NEW t, NEW b, PointOf(t, b), Rung(g, t, b) \/ Moved(g, t, b),
         pc' \in [Gates -> [Threads -> AllPoints]]
  PROVE  PcOK'
<1>1. ASSUME NEW h \in Gates
      PROVE  /\ pc'[h].lane \in LanePoints /\ pc'[h].mgr \in MgrPoints
             /\ pc'[h].opener \in OpenerPoints /\ pc'[h].boom \in BoomPoints
  <2>1. {"lane", "mgr", "opener", "boom"} \subseteq Threads
    BY DEF Threads
  <2>2. "try" \in LanePoints /\ "try" \in MgrPoints /\ "try" \in OpenerPoints /\ "try" \in BoomPoints
    BY DEF LanePoints, MgrPoints, OpenerPoints, BoomPoints
  <2> QED BY <2>1, <2>2 DEF PcOK, PointOf, Rung, Moved
<1> QED BY <1>1 DEF PcOK

\* What a thread's own step does to the program counters.
LEMMA GoMoves ==
  ASSUME PcOK, NEW g \in Gates, NEW t, NEW a, NEW b, PointOf(t, b), Go(g, t, a, b)
  PROVE  PcOK' /\ Moved(g, t, b) /\ pc[g][t] = a
<1>1. t \in Threads /\ b \in AllPoints
  BY DEF PointOf, Threads, AllPoints
<1>2. pc' \in [Gates -> [Threads -> AllPoints]] /\ Moved(g, t, b) /\ pc[g][t] = a
  BY <1>1 DEF PcOK, Go, Moved
<1> QED BY <1>2, RungTypes

\* What a broadcast does to them.
LEMMA RingMoves ==
  ASSUME PcOK, NEW g \in Gates, NEW t, NEW a, NEW b, PointOf(t, b), Ring(g, t, a, b)
  PROVE  PcOK' /\ Rung(g, t, b)
<1>1. t \in Threads /\ b \in AllPoints /\ "try" \in AllPoints
  BY DEF PointOf, Threads, AllPoints, LanePoints
<1>2. pc' \in [Gates -> [Threads -> AllPoints]]
  BY <1>1 DEF PcOK, Ring
<1>3. ASSUME NEW h \in Gates, NEW u \in Threads
      PROVE  pc'[h][u] = IF h = g /\ u = t THEN b
                         ELSE IF h = g /\ pc[h][u] = "wait" THEN "try" ELSE pc[h][u]
  BY DEF Ring, PcOK
<1>4. Rung(g, t, b)
  BY <1>1, <1>3 DEF Rung
<1> QED BY <1>2, <1>4, RungTypes

LEMMA LanePc ==
  ASSUME PcOK, NEW g \in Gates, LaneAsk(g) \/ LaneStep(g)
  PROVE  PcOK'
<1>1. CASE LaneAsk(g)
  <2>1. {"lane", "mgr"} \subseteq Threads /\ {"asking", "enter"} \subseteq AllPoints
    BY DEF Threads, AllPoints, LanePoints, MgrPoints
  <2>2. pc' \in [Gates -> [Threads -> AllPoints]]
    BY <1>1, <2>1 DEF LaneAsk, PcOK
  <2>3. /\ pc'[g].lane = "asking" /\ pc'[g].mgr \in {pc[g].mgr, "enter"}
        /\ pc'[g].opener = pc[g].opener /\ pc'[g].boom = pc[g].boom
        /\ \A h \in Gates \ {g} : pc'[h] = pc[h]
    BY <1>1, <2>1 DEF LaneAsk, PcOK, Threads
  <2> QED BY <2>2, <2>3 DEF PcOK, LanePoints, MgrPoints
<1>2. CASE LaneCome(g)
  BY <1>2, GoMoves DEF LaneCome, PointOf, LanePoints
<1>3. CASE LaneWait(g)
  BY <1>3, GoMoves DEF LaneWait, PointOf, LanePoints
<1>4. CASE LaneMove(g)
  BY <1>4, GoMoves DEF LaneMove, PointOf, LanePoints
<1>5. CASE LaneMoved(g)
  BY <1>5, GoMoves DEF LaneMoved, PointOf, LanePoints
<1>6. CASE LaneSet(g)
  BY <1>6, GoMoves DEF LaneSet, PointOf, LanePoints
<1>7. CASE LaneRing(g)
  BY <1>7, RingMoves DEF LaneRing, PointOf, LanePoints
<1>8. CASE LaneDrive(g)
  BY <1>8, GoMoves DEF LaneDrive, PointOf, LanePoints
<1>9. CASE LaneEnd(g)
  BY <1>9, GoMoves DEF LaneEnd, PointOf, LanePoints
<1>10. CASE LaneCancelled(g)
  BY <1>10, GoMoves DEF LaneCancelled, PointOf, LanePoints
<1>11. CASE LaneEndWaiting(g)
  BY <1>11, GoMoves DEF LaneEndWaiting, PointOf, LanePoints
<1> QED BY <1>1, <1>2, <1>3, <1>4, <1>5, <1>6, <1>7, <1>8, <1>9, <1>10, <1>11 DEF LaneStep

LEMMA LaneGate ==
  ASSUME GateOK, MainOK, NEW g \in Gates, LaneAsk(g) \/ LaneStep(g)
  PROVE  GateOK' /\ MainOK'
<1>1. CASE LaneAsk(g)
  BY <1>1 DEF LaneAsk, GateOK, MainOK, GateStates, Threads, Keep, Pass, Unlock, Ring, Frame, mainVars
<1>2. CASE LaneCome(g)
  BY <1>2 DEF LaneCome, GateOK, MainOK, GateStates, Threads, Keep, Pass, Unlock, Ring, Frame, mainVars
<1>3. CASE LaneWait(g)
  BY <1>3 DEF LaneWait, GateOK, MainOK, GateStates, Threads, Keep, Pass, Unlock, Ring, Frame, mainVars
<1>4. CASE LaneMove(g)
  BY <1>4 DEF LaneMove, GateOK, MainOK, GateStates, Threads, Keep, Pass, Unlock, Ring, Frame, mainVars
<1>5. CASE LaneMoved(g)
  BY <1>5 DEF LaneMoved, GateOK, MainOK, GateStates, Threads, Keep, Pass, Unlock, Ring, Frame, mainVars
<1>6. CASE LaneSet(g)
  BY <1>6 DEF LaneSet, GateOK, MainOK, GateStates, Threads, Keep, Pass, Unlock, Ring, Frame, mainVars
<1>7. CASE LaneRing(g)
  BY <1>7 DEF LaneRing, GateOK, MainOK, GateStates, Threads, Keep, Pass, Unlock, Ring, Frame, mainVars
<1>8. CASE LaneDrive(g)
  BY <1>8 DEF LaneDrive, GateOK, MainOK, GateStates, Threads, Keep, Pass, Unlock, Ring, Frame, mainVars
<1>9. CASE LaneEnd(g)
  BY <1>9 DEF LaneEnd, GateOK, MainOK, GateStates, Threads, Keep, Pass, Unlock, Ring, Frame, mainVars
<1>10. CASE LaneCancelled(g)
  BY <1>10 DEF LaneCancelled, GateOK, MainOK, GateStates, Threads, Keep, Pass, Unlock, Ring, Frame, mainVars
<1>11. CASE LaneEndWaiting(g)
  BY <1>11 DEF LaneEndWaiting, GateOK, MainOK, GateStates, Threads, Keep, Pass, Unlock, Ring, Frame, mainVars
<1> QED BY <1>1, <1>2, <1>3, <1>4, <1>5, <1>6, <1>7, <1>8, <1>9, <1>10, <1>11 DEF LaneStep

LEMMA MgrPc ==
  ASSUME PcOK, NEW g \in Gates, MgrStep(g)
  PROVE  PcOK'
<1>1. CASE MgrEnter(g)
  BY <1>1, GoMoves DEF MgrEnter, PointOf, MgrPoints
<1>2. CASE MgrRing(g)
  BY <1>2, RingMoves DEF MgrRing, PointOf, MgrPoints
<1>3. CASE MgrWait(g)
  BY <1>3, GoMoves DEF MgrWait, PointOf, MgrPoints
<1>4. CASE MgrSeeOpen(g)
  BY <1>4, GoMoves DEF MgrSeeOpen, PointOf, MgrPoints
<1>5. CASE MgrLower(g)
  BY <1>5, GoMoves DEF MgrLower, PointOf, MgrPoints
<1>6. CASE MgrSeeShut(g)
  BY <1>6, GoMoves DEF MgrSeeShut, PointOf, MgrPoints
<1> QED BY <1>1, <1>2, <1>3, <1>4, <1>5, <1>6 DEF MgrStep

LEMMA MgrGate ==
  ASSUME GateOK, MainOK, NEW g \in Gates, MgrStep(g)
  PROVE  GateOK' /\ MainOK'
<1>1. CASE MgrEnter(g)
  BY <1>1 DEF MgrEnter, GateOK, MainOK, GateStates, Threads, Keep, Pass, Unlock, Ring, Frame, mainVars
<1>2. CASE MgrRing(g)
  BY <1>2 DEF MgrRing, GateOK, MainOK, GateStates, Threads, Keep, Pass, Unlock, Ring, Frame, mainVars
<1>3. CASE MgrWait(g)
  BY <1>3 DEF MgrWait, GateOK, MainOK, GateStates, Threads, Keep, Pass, Unlock, Ring, Frame, mainVars
<1>4. CASE MgrSeeOpen(g)
  BY <1>4 DEF MgrSeeOpen, GateOK, MainOK, GateStates, Threads, Keep, Pass, Unlock, Ring, Frame, mainVars
<1>5. CASE MgrLower(g)
  BY <1>5 DEF MgrLower, GateOK, MainOK, GateStates, Threads, Keep, Pass, Unlock, Ring, Frame, mainVars
<1>6. CASE MgrSeeShut(g)
  BY <1>6 DEF MgrSeeShut, GateOK, MainOK, GateStates, Threads, Keep, Pass, Unlock, Ring, Frame, mainVars
<1> QED BY <1>1, <1>2, <1>3, <1>4, <1>5, <1>6 DEF MgrStep

LEMMA OpenerPc ==
  ASSUME PcOK, NEW g \in Gates, OpenerStep(g)
  PROVE  PcOK'
<1>1. CASE OpenerStart(g)
  BY <1>1, GoMoves DEF OpenerStart, PointOf, OpenerPoints
<1>2. CASE OpenerSeeOpen(g)
  BY <1>2, GoMoves DEF OpenerSeeOpen, PointOf, OpenerPoints
<1>3. CASE OpenerRaise(g)
  BY <1>3, GoMoves DEF OpenerRaise, PointOf, OpenerPoints
<1>4. CASE OpenerMiss(g)
  BY <1>4, GoMoves DEF OpenerMiss, PointOf, OpenerPoints
<1>5. CASE OpenerRing(g)
  BY <1>5, RingMoves DEF OpenerRing, PointOf, OpenerPoints
<1>6. CASE OpenerWait(g)
  BY <1>6, GoMoves DEF OpenerWait, PointOf, OpenerPoints
<1> QED BY <1>1, <1>2, <1>3, <1>4, <1>5, <1>6 DEF OpenerStep

LEMMA OpenerGate ==
  ASSUME GateOK, MainOK, NEW g \in Gates, OpenerStep(g)
  PROVE  GateOK' /\ MainOK'
<1>1. CASE OpenerStart(g)
  BY <1>1 DEF OpenerStart, GateOK, MainOK, GateStates, Threads, Keep, Pass, Unlock, Ring, Frame, mainVars
<1>2. CASE OpenerSeeOpen(g)
  BY <1>2 DEF OpenerSeeOpen, GateOK, MainOK, GateStates, Threads, Keep, Pass, Unlock, Ring, Frame, mainVars
<1>3. CASE OpenerRaise(g)
  BY <1>3 DEF OpenerRaise, GateOK, MainOK, GateStates, Threads, Keep, Pass, Unlock, Ring, Frame, mainVars
<1>4. CASE OpenerMiss(g)
  BY <1>4 DEF OpenerMiss, GateOK, MainOK, GateStates, Threads, Keep, Pass, Unlock, Ring, Frame, mainVars
<1>5. CASE OpenerRing(g)
  BY <1>5 DEF OpenerRing, GateOK, MainOK, GateStates, Threads, Keep, Pass, Unlock, Ring, Frame, mainVars
<1>6. CASE OpenerWait(g)
  BY <1>6 DEF OpenerWait, GateOK, MainOK, GateStates, Threads, Keep, Pass, Unlock, Ring, Frame, mainVars
<1> QED BY <1>1, <1>2, <1>3, <1>4, <1>5, <1>6 DEF OpenerStep

LEMMA BoomPc ==
  ASSUME PcOK, NEW g \in Gates, BoomStep(g)
  PROVE  PcOK'
<1>1. CASE BoomWait(g)
  BY <1>1, GoMoves DEF BoomWait, PointOf, BoomPoints
<1>2. CASE BoomRaise(g)
  BY <1>2, GoMoves DEF BoomRaise, PointOf, BoomPoints
<1>3. CASE BoomOpen(g)
  BY <1>3, GoMoves DEF BoomOpen, PointOf, BoomPoints
<1>4. CASE BoomRing(g)
  BY <1>4, RingMoves DEF BoomRing, PointOf, BoomPoints
<1> QED BY <1>1, <1>2, <1>3, <1>4 DEF BoomStep

LEMMA BoomGate ==
  ASSUME GateOK, MainOK, NEW g \in Gates, BoomStep(g)
  PROVE  GateOK' /\ MainOK'
<1>1. CASE BoomWait(g)
  BY <1>1 DEF BoomWait, GateOK, MainOK, GateStates, Threads, Keep, Pass, Unlock, Ring, Frame, mainVars
<1>2. CASE BoomRaise(g)
  BY <1>2 DEF BoomRaise, GateOK, MainOK, GateStates, Threads, Keep, Pass, Unlock, Ring, Frame, mainVars
<1>3. CASE BoomOpen(g)
  BY <1>3 DEF BoomOpen, GateOK, MainOK, GateStates, Threads, Keep, Pass, Unlock, Ring, Frame, mainVars
<1>4. CASE BoomRing(g)
  BY <1>4 DEF BoomRing, GateOK, MainOK, GateStates, Threads, Keep, Pass, Unlock, Ring, Frame, mainVars
<1> QED BY <1>1, <1>2, <1>3, <1>4 DEF BoomStep

\* Every gate that moves, moves in order, or its mutex was taken.
InOrder ==
  \A g \in Gates : gate'[g] # gate[g] => <<gate[g], gate'[g]>> \in Movements \/ g \in forced

\* The points inside the critical section.
Inside == {"raising", "up", "lowering", "down", "hold"}

\* A broadcast, or a step that leaves gate and mutex alone, takes nobody in.
LEMMA OutsideKeeps ==
  ASSUME PcOK, MutexHeld, NEW g \in Gates, NEW t \in Threads, NEW b, b \notin Inside,
         Rung(g, t, b) \/ Moved(g, t, b), UNCHANGED <<gate, lock, forced>>
  PROVE  MutexHeld' /\ InOrder
<1>0. {"lane", "mgr", "opener", "boom"} \subseteq Threads
  BY DEF Threads
<1>1. ASSUME NEW h \in Gates \ forced
      PROVE  Guarded(h)'
  BY <1>0 DEF MutexHeld, Guarded, Rung, Moved, Inside
<1> QED BY <1>1 DEF MutexHeld, InOrder

\* A thread that has the mutex, sets the status and gives the mutex back.
LEMMA LeavingKeeps ==
  ASSUME GateOK, MutexHeld, NEW g \in Gates, NEW t \in Threads, NEW b, b \notin Inside, NEW s \in GateStates,
         Moved(g, t, b), g \notin forced => lock[g] = t /\ <<gate[g], s>> \in Movements,
         gate' = [gate EXCEPT ![g] = s], Unlock(g), UNCHANGED forced
  PROVE  MutexHeld' /\ InOrder
<1>0. {"lane", "mgr", "opener", "boom"} \subseteq Threads
  BY DEF Threads
<1>1. gate'[g] = s /\ \A h \in Gates \ {g} : gate'[h] = gate[h] /\ lock'[h] = lock[h]
  BY DEF GateOK, Unlock
<1>2. ASSUME NEW h \in Gates \ forced, h # g
      PROVE  Guarded(h)'
  BY <1>0, <1>1, <1>2 DEF MutexHeld, Guarded, Moved
<1>3. ASSUME g \notin forced
      PROVE  Guarded(g)'
  <2>1. \A u \in Threads \ {t} : pc'[g][u] = pc[g][u]
    BY DEF Moved
  <2>2. Guarded(g) /\ lock[g] = t
    BY <1>3 DEF MutexHeld
  <2>3. pc'[g].lane \notin {"raising", "up", "lowering", "down"}
    BY <1>0, <2>1, <2>2 DEF Guarded, Inside, Moved
  <2>4. pc'[g].mgr # "hold"
    BY <1>0, <2>1, <2>2 DEF Guarded, Inside, Moved
  <2>5. pc'[g].boom # "raising"
    BY <1>0, <2>1, <2>2 DEF Guarded, Inside, Moved
  <2> QED BY <2>3, <2>4, <2>5 DEF Guarded
<1>4. InOrder
  BY <1>1 DEF InOrder
<1> QED BY <1>2, <1>3, <1>4 DEF MutexHeld

LEMMA LaneMutex ==
  ASSUME PcOK, GateOK, MutexHeld, NEW g \in Gates, LaneAsk(g) \/ LaneStep(g)
  PROVE  MutexHeld' /\ InOrder
<1>0. {"lane", "mgr", "opener", "boom"} \subseteq Threads
  BY DEF Threads
<1>1. CASE LaneAsk(g)
  BY <1>0, <1>1 DEF LaneAsk, MutexHeld, Guarded, InOrder, Movements, GateOK, PcOK, Frame, mainVars
<1>2. CASE LaneCome(g)
  BY <1>0, <1>2, GoMoves DEF LaneCome, Go, PointOf, LanePoints, Moved, MutexHeld, Guarded, InOrder,
    Movements, GateOK, Keep, Pass, Unlock, Frame, mainVars
<1>3. CASE LaneWait(g)
  BY <1>0, <1>3, GoMoves DEF LaneWait, Go, PointOf, LanePoints, Moved, MutexHeld, Guarded, InOrder,
    Movements, GateOK, Keep, Pass, Unlock, Frame, mainVars
<1>4. CASE LaneMove(g)
  BY <1>0, <1>4, GoMoves DEF LaneMove, Go, PointOf, LanePoints, Moved, MutexHeld, Guarded, InOrder,
    Movements, GateOK, Keep, Pass, Unlock, Frame, mainVars
<1>5. CASE LaneMoved(g)
  <2>1. CASE Go(g, "lane", "raising", "up")
    BY <1>0, <1>5, <2>1, GoMoves DEF LaneMoved, PointOf, LanePoints, Moved, MutexHeld, Guarded, InOrder, Frame, mainVars
  <2>2. CASE Go(g, "lane", "lowering", "down")
    BY <1>0, <1>5, <2>2, GoMoves DEF LaneMoved, PointOf, LanePoints, Moved, MutexHeld, Guarded, InOrder, Frame, mainVars
  <2> QED BY <1>5, <2>1, <2>2 DEF LaneMoved
<1>6. CASE LaneSet(g)
  <2>1. CASE Go(g, "lane", "up", "ringO") /\ gate' = [gate EXCEPT ![g] = "O"]
    <3>1. Moved(g, "lane", "ringO") /\ pc[g].lane = "up"
      BY <1>6, <2>1, GoMoves DEF LaneSet, PointOf, LanePoints
    <3>2. g \notin forced => lock[g] = "lane" /\ <<gate[g], "O">> \in Movements
      BY <3>1 DEF MutexHeld, Guarded, Movements
    <3>3. "ringO" \notin Inside /\ "O" \in GateStates
      BY DEF Inside, GateStates
    <3>4. gate' = [gate EXCEPT ![g] = "O"] /\ Unlock(g) /\ UNCHANGED forced
      BY <1>6, <2>1 DEF LaneSet, Frame, mainVars
    <3> QED BY <1>0, <3>1, <3>2, <3>3, <3>4, LeavingKeeps
  <2>2. CASE Go(g, "lane", "down", "ringC") /\ gate' = [gate EXCEPT ![g] = "C"]
    <3>1. Moved(g, "lane", "ringC") /\ pc[g].lane = "down"
      BY <1>6, <2>2, GoMoves DEF LaneSet, PointOf, LanePoints
    <3>2. g \notin forced => lock[g] = "lane" /\ <<gate[g], "C">> \in Movements
      BY <3>1 DEF MutexHeld, Guarded, Movements
    <3>3. "ringC" \notin Inside /\ "C" \in GateStates
      BY DEF Inside, GateStates
    <3>4. gate' = [gate EXCEPT ![g] = "C"] /\ Unlock(g) /\ UNCHANGED forced
      BY <1>6, <2>2 DEF LaneSet, Frame, mainVars
    <3> QED BY <1>0, <3>1, <3>2, <3>3, <3>4, LeavingKeeps
  <2> QED BY <1>6, <2>1, <2>2 DEF LaneSet
<1>7. CASE LaneRing(g)
  <2>1. \E b \in {"drive", "try", "away"} : Rung(g, "lane", b)
    BY <1>7, RingMoves DEF LaneRing, PointOf, LanePoints
  <2>2. UNCHANGED <<gate, lock, forced>>
    BY <1>7 DEF LaneRing, Ring, Frame, mainVars
  <2> QED BY <1>0, <2>1, <2>2, OutsideKeeps DEF Inside
<1>8. CASE LaneDrive(g)
  BY <1>0, <1>8, GoMoves DEF LaneDrive, Go, PointOf, LanePoints, Moved, MutexHeld, Guarded, InOrder,
    Movements, GateOK, Keep, Pass, Unlock, Frame, mainVars
<1>9. CASE LaneEnd(g)
  BY <1>0, <1>9, GoMoves DEF LaneEnd, Go, PointOf, LanePoints, Moved, MutexHeld, Guarded, InOrder,
    Movements, GateOK, Keep, Pass, Unlock, Frame, mainVars
<1>10. CASE LaneCancelled(g)
  BY <1>0, <1>10, GoMoves DEF LaneCancelled, Go, PointOf, LanePoints, Moved, MutexHeld, Guarded, InOrder,
    Movements, GateOK, Keep, Pass, Unlock, Frame, mainVars
<1>11. CASE LaneEndWaiting(g)
  BY <1>0, <1>11, GoMoves DEF LaneEndWaiting, Go, PointOf, LanePoints, Moved, MutexHeld, Guarded, InOrder,
    Movements, GateOK, Keep, Pass, Unlock, Frame, mainVars
<1> QED BY <1>1, <1>2, <1>3, <1>4, <1>5, <1>6, <1>7, <1>8, <1>9, <1>10, <1>11 DEF LaneStep

LEMMA MgrMutex ==
  ASSUME PcOK, GateOK, MutexHeld, NEW g \in Gates, MgrStep(g)
  PROVE  MutexHeld' /\ InOrder
<1>0. {"lane", "mgr", "opener", "boom"} \subseteq Threads
  BY DEF Threads
<1>1. CASE MgrEnter(g)
  <2>1. (\E b \in {"ring", "leave"} : Moved(g, "mgr", b)) /\ pc[g].mgr = "enter"
    BY <1>1, GoMoves DEF MgrEnter, PointOf, MgrPoints
  <2>2. lock[g] = "free" /\ UNCHANGED <<lock, forced>>
    BY <1>1 DEF MgrEnter, Pass, Frame, mainVars
  <2>3. gate' = gate \/ (gate[g] = "C" /\ gate' = [gate EXCEPT ![g] = "R"])
    BY <1>1 DEF MgrEnter
  <2> QED BY <1>0, <2>1, <2>2, <2>3 DEF Moved, MutexHeld, Guarded, InOrder, Movements, GateOK
<1>2. CASE MgrRing(g)
  <2>1. \E b \in {"try", "away"} : Rung(g, "mgr", b)
    BY <1>2, RingMoves DEF MgrRing, PointOf, MgrPoints
  <2>2. UNCHANGED <<gate, lock, forced>>
    BY <1>2 DEF MgrRing, Ring, Frame, mainVars
  <2> QED BY <1>0, <2>1, <2>2, OutsideKeeps DEF Inside
<1>3. CASE MgrWait(g)
  BY <1>0, <1>3, GoMoves DEF MgrWait, Go, PointOf, MgrPoints, Moved, MutexHeld, Guarded, InOrder,
    Movements, GateOK, Keep, Pass, Unlock, Frame, mainVars
<1>4. CASE MgrSeeOpen(g)
  BY <1>0, <1>4, GoMoves DEF MgrSeeOpen, Go, PointOf, MgrPoints, Moved, MutexHeld, Guarded, InOrder,
    Movements, GateOK, Keep, Pass, Unlock, Frame, mainVars
<1>5. CASE MgrLower(g)
  <2>1. Moved(g, "mgr", "ring") /\ pc[g].mgr = "hold"
    BY <1>5, GoMoves DEF MgrLower, PointOf, MgrPoints
  <2>2. g \notin forced => lock[g] = "mgr" /\ <<gate[g], "L">> \in Movements
    BY <2>1 DEF MutexHeld, Guarded, Movements
  <2>3. "ring" \notin Inside /\ "L" \in GateStates
    BY DEF Inside, GateStates
  <2>4. gate' = [gate EXCEPT ![g] = "L"] /\ Unlock(g) /\ UNCHANGED forced
    BY <1>5 DEF MgrLower, Frame, mainVars
  <2> QED BY <1>0, <2>1, <2>2, <2>3, <2>4, LeavingKeeps
<1>6. CASE MgrSeeShut(g)
  BY <1>0, <1>6, GoMoves DEF MgrSeeShut, Go, PointOf, MgrPoints, Moved, MutexHeld, Guarded, InOrder,
    Movements, GateOK, Keep, Pass, Unlock, Frame, mainVars
<1> QED BY <1>1, <1>2, <1>3, <1>4, <1>5, <1>6 DEF MgrStep

LEMMA OpenerMutex ==
  ASSUME PcOK, GateOK, MutexHeld, NEW g \in Gates, OpenerStep(g)
  PROVE  MutexHeld' /\ InOrder
<1>0. {"lane", "mgr", "opener", "boom"} \subseteq Threads
  BY DEF Threads
<1>1. CASE OpenerStart(g)
  BY <1>0, <1>1, GoMoves DEF OpenerStart, Go, PointOf, OpenerPoints, Moved, MutexHeld, Guarded, InOrder,
    Movements, GateOK, Keep, Pass, Unlock, Frame, mainVars
<1>2. CASE OpenerSeeOpen(g)
  BY <1>0, <1>2, GoMoves DEF OpenerSeeOpen, Go, PointOf, OpenerPoints, Moved, MutexHeld, Guarded, InOrder,
    Movements, GateOK, Keep, Pass, Unlock, Frame, mainVars
<1>3. CASE OpenerRaise(g)
  BY <1>0, <1>3, GoMoves DEF OpenerRaise, Go, PointOf, OpenerPoints, Moved, MutexHeld, Guarded, InOrder,
    Movements, GateOK, Keep, Pass, Unlock, Frame, mainVars
<1>4. CASE OpenerMiss(g)
  BY <1>0, <1>4, GoMoves DEF OpenerMiss, Go, PointOf, OpenerPoints, Moved, MutexHeld, Guarded, InOrder,
    Movements, GateOK, Keep, Pass, Unlock, Frame, mainVars
<1>5. CASE OpenerRing(g)
  BY <1>0, <1>5, RingMoves DEF OpenerRing, Ring, PointOf, OpenerPoints, Rung, MutexHeld, Guarded, InOrder,
    Movements, GateOK, Keep, Pass, Unlock, Frame, mainVars
<1>6. CASE OpenerWait(g)
  BY <1>0, <1>6, GoMoves DEF OpenerWait, Go, PointOf, OpenerPoints, Moved, MutexHeld, Guarded, InOrder,
    Movements, GateOK, Keep, Pass, Unlock, Frame, mainVars
<1> QED BY <1>1, <1>2, <1>3, <1>4, <1>5, <1>6 DEF OpenerStep

LEMMA BoomMutex ==
  ASSUME PcOK, GateOK, MutexHeld, NEW g \in Gates, BoomStep(g)
  PROVE  MutexHeld' /\ InOrder
<1>0. {"lane", "mgr", "opener", "boom"} \subseteq Threads
  BY DEF Threads
<1>1. CASE BoomWait(g)
  BY <1>0, <1>1, GoMoves DEF BoomWait, Go, PointOf, BoomPoints, Moved, MutexHeld, Guarded, InOrder,
    Movements, GateOK, Keep, Pass, Unlock, Frame, mainVars
<1>2. CASE BoomRaise(g)
  BY <1>0, <1>2, GoMoves DEF BoomRaise, Go, PointOf, BoomPoints, Moved, MutexHeld, Guarded, InOrder,
    Movements, GateOK, Keep, Pass, Unlock, Frame, mainVars
<1>3. CASE BoomOpen(g)
  <2>1. Moved(g, "boom", "ring") /\ pc[g].boom = "raising"
    BY <1>3, GoMoves DEF BoomOpen, PointOf, BoomPoints
  <2>2. g \notin forced => lock[g] = "boom" /\ <<gate[g], "O">> \in Movements
    BY <2>1 DEF MutexHeld, Guarded, Movements
  <2>3. "ring" \notin Inside /\ "O" \in GateStates
    BY DEF Inside, GateStates
  <2>4. gate' = [gate EXCEPT ![g] = "O"] /\ Unlock(g) /\ UNCHANGED forced
    BY <1>3 DEF BoomOpen, Frame, mainVars
  <2> QED BY <1>0, <2>1, <2>2, <2>3, <2>4, LeavingKeeps
<1>4. CASE BoomRing(g)
  BY <1>0, <1>4, RingMoves DEF BoomRing, Ring, PointOf, BoomPoints, Rung, MutexHeld, Guarded, InOrder,
    Movements, GateOK, Keep, Pass, Unlock, Frame, mainVars
<1> QED BY <1>1, <1>2, <1>3, <1>4 DEF BoomStep

\* A wait that returns by itself.
LEMMA WakeKeeps ==
  ASSUME PcOK, GateOK, MainOK, MutexHeld, NEW g \in Gates, NEW t \in Threads, Wake(g, t)
  PROVE  PcOK' /\ GateOK' /\ MainOK' /\ MutexHeld' /\ InOrder
<1>1. PointOf(t, "try") /\ "try" \notin Inside
  BY DEF Threads, PointOf, LanePoints, MgrPoints, OpenerPoints, BoomPoints, Inside
<1>2. PcOK' /\ Moved(g, t, "try")
  BY <1>1, GoMoves DEF Wake
<1>3. UNCHANGED <<gate, lock, goal, mainVars, alarm, creator>>
  BY DEF Wake
<1>4. GateOK' /\ MainOK'
  BY <1>3 DEF GateOK, MainOK, mainVars
<1> QED BY <1>1, <1>2, <1>3, <1>4, OutsideKeeps DEF mainVars

\* main's loop over the gates leaves all but mainPc, todo and its own variables.
LEMMA LoopTypes ==
  ASSUME MainOK, NEW g \in Gates, NEW a, NEW b \in {"unlock", "create", "join"}, MainDo(g, a, b)
  PROVE  /\ todo' \subseteq Gates
         /\ mainPc' \in {"idle", "rand", "burn", "cancel", "unlock", "create", "join", "open"}
         /\ UNCHANGED <<alarm, creator>>
BY DEF MainDo, MainOK

LEMMA MainTypes ==
  ASSUME PcOK, GateOK, MainOK, RaiseAlarm \/ UserFire \/ MainStep \/ CreatorStep
  PROVE  PcOK' /\ GateOK' /\ MainOK'
<1>1. ASSUME NEW g \in Gates, MainCancel(g)
      PROVE  PcOK' /\ GateOK' /\ MainOK'
  BY <1>1, LoopTypes DEF MainCancel, PcOK, GateOK, MainOK, gateVars
<1>2. ASSUME NEW g \in Gates, MainUnlock(g)
      PROVE  PcOK' /\ GateOK' /\ MainOK'
  <2>1. PcOK' /\ GateOK'
    BY <1>2 DEF MainUnlock, Unlock, PcOK, GateOK
  <2> QED BY <1>2, <2>1, LoopTypes DEF MainUnlock, MainOK
<1>3. ASSUME NEW g \in Gates, MainCreate(g)
      PROVE  PcOK' /\ GateOK' /\ MainOK'
  <2>1. "boom" \in Threads /\ "try" \in AllPoints /\ PointOf("boom", "try")
    BY DEF Threads, AllPoints, BoomPoints, PointOf
  <2>2. pc' \in [Gates -> [Threads -> AllPoints]] /\ Moved(g, "boom", "try")
    BY <1>3, <2>1 DEF MainCreate, PcOK, Moved
  <2>3. PcOK'
    BY <2>1, <2>2, RungTypes
  <2> QED BY <1>3, <2>3, LoopTypes DEF MainCreate, GateOK, MainOK
<1>4. CASE RaiseAlarm \/ UserFire \/ MainChoose \/ MainSeeAlarm \/ MainJoin
  BY <1>4 DEF RaiseAlarm, UserFire, MainChoose, MainSeeAlarm, MainJoin, PcOK, GateOK, MainOK, gateVars, mainVars
<1>5. CASE CreatorStep
  BY <1>5 DEF CreatorStep, CreatorSleep, CreatorWork, CreatorEnd, PcOK, GateOK, MainOK, gateVars, mainVars
<1> QED BY <1>1, <1>2, <1>3, <1>4, <1>5 DEF MainStep

LEMMA MainMutex ==
  ASSUME PcOK, GateOK, MutexHeld, RaiseAlarm \/ UserFire \/ MainStep \/ CreatorStep
  PROVE  MutexHeld' /\ InOrder
<1>1. ASSUME NEW g \in Gates, MainCancel(g)
      PROVE  MutexHeld' /\ InOrder
  BY <1>1 DEF MainCancel, MutexHeld, Guarded, InOrder, gateVars
<1>2. ASSUME NEW g \in Gates, MainUnlock(g)
      PROVE  MutexHeld' /\ InOrder
  <2>1. UNCHANGED <<gate, pc>> /\ \A h \in Gates \ {g} : lock'[h] = lock[h]
    BY <1>2 DEF MainUnlock, Unlock, GateOK
  <2>2. forced \subseteq forced' /\ (g \notin forced' => lock[g] = "free" /\ lock'[g] = "free")
    BY <1>2 DEF MainUnlock, Unlock, GateOK
  <2> QED BY <2>1, <2>2 DEF MutexHeld, Guarded, InOrder
<1>3. ASSUME NEW g \in Gates, MainCreate(g)
      PROVE  MutexHeld' /\ InOrder
  <2>1. "boom" \in Threads /\ "try" \notin Inside
    BY DEF Threads, Inside
  <2>2. Moved(g, "boom", "try") /\ UNCHANGED <<gate, lock, forced>>
    BY <1>3, <2>1 DEF MainCreate, PcOK, Moved
  <2> QED BY <2>1, <2>2, OutsideKeeps
<1>4. CASE RaiseAlarm \/ UserFire \/ MainChoose \/ MainSeeAlarm \/ MainJoin \/ CreatorStep
  <2>1. UNCHANGED <<gate, lock, pc, forced>>
    BY <1>4 DEF RaiseAlarm, UserFire, MainChoose, MainSeeAlarm, MainJoin, CreatorStep, CreatorSleep,
      CreatorWork, CreatorEnd, gateVars, mainVars
  <2> QED BY <2>1 DEF MutexHeld, Guarded, InOrder
<1> QED BY <1>1, <1>2, <1>3, <1>4 DEF MainStep

LEMMA InitOK == Init => TypeOK /\ MutexHeld
<1> SUFFICES ASSUME Init PROVE TypeOK /\ MutexHeld
  OBVIOUS
<1>1. PcOK
  BY DEF Init, PcOK, Threads, AllPoints, LanePoints, MgrPoints, OpenerPoints, BoomPoints
<1>2. GateOK /\ MainOK
  BY DEF Init, GateOK, MainOK, GateStates, Threads
<1>3. MutexHeld
  BY DEF Init, MutexHeld, Guarded, Threads
<1> QED BY <1>1, <1>2, <1>3, TypeParts

\* Every step keeps types and mutexes, and moves the gates in order.
LEMMA StepOK ==
  ASSUME TypeOK, MutexHeld, Next
  PROVE  TypeOK' /\ MutexHeld' /\ InOrder
<1>1. PcOK /\ GateOK /\ MainOK
  BY TypeParts
<1>2. ASSUME NEW g \in Gates, LaneAsk(g) \/ LaneStep(g) \/ MgrStep(g) \/ OpenerStep(g) \/ BoomStep(g)
      PROVE  PcOK' /\ GateOK' /\ MainOK'
  BY <1>1, <1>2, LanePc, MgrPc, OpenerPc, BoomPc, LaneGate, MgrGate, OpenerGate, BoomGate
<1>3. ASSUME NEW g \in Gates, LaneAsk(g) \/ LaneStep(g) \/ MgrStep(g) \/ OpenerStep(g) \/ BoomStep(g)
      PROVE  MutexHeld' /\ InOrder
  BY <1>1, <1>3, LaneMutex, MgrMutex, OpenerMutex, BoomMutex
<1>4. PcOK' /\ GateOK' /\ MainOK' /\ MutexHeld' /\ InOrder
  BY <1>1, <1>2, <1>3, WakeKeeps, MainTypes, MainMutex DEF Next
<1> QED BY <1>4, TypeParts DEF PcOK, GateOK, MainOK, TypeOK

\* Types and mutexes together are inductive.
THEOREM Invariance == Spec => [](TypeOK /\ MutexHeld)
<1>1. TypeOK /\ MutexHeld /\ UNCHANGED vars => TypeOK' /\ MutexHeld'
  BY DEF TypeOK, MutexHeld, Guarded, vars, gateVars, mainVars
<1> QED BY InitOK, StepOK, <1>1, PTL DEF Spec

\* The variables keep their types, for any set of gates.
THEOREM TypeCorrect == Spec => []TypeOK
BY Invariance, PTL

\* The sleeps with a gate's mutex exclude each other, and the status does not
\* change in them, until main takes the mutex from its owner.
THEOREM MutexCorrect == Spec => []MutexHeld
BY Invariance, PTL

\* No gate jumps, whoever moves it, until then.
THEOREM GatesNeverJump == Spec => GateMovesInOrder
<1>1. TypeOK /\ MutexHeld /\ [Next]_vars =>
        [\A g \in Gates : gate'[g] # gate[g] => <<gate[g], gate'[g]>> \in Movements \/ g \in forced]_vars
  BY StepOK DEF InOrder
<1> QED BY <1>1, Invariance, PTL DEF Spec, GateMovesInOrder

-----------------------------------------------------------------------------
(* No lost wake-up, and no mutex lost but in the two ways of Stuck.         *)

\* NobodyLeftWaiting at one gate.
Served(g) == (WaitsRightly(g) \/ Ringing(g)) /\ (ComesBack(g) \/ Stuck(g))

\* main starts the thread of a gate only when there is none.
BoomsReady ==
  /\ mainPc \in {"idle", "rand", "burn", "cancel", "unlock", "open"} =>
       \A g \in Gates : pc[g].boom \in {"off", "done"}
  /\ mainPc = "create" => \A g \in todo : pc[g].boom \in {"off", "done"}

\* Gate h and its threads are as they were.
SameAt(h) ==
  /\ gate'[h] = gate[h] /\ lock'[h] = lock[h] /\ goal'[h] = goal[h]
  /\ \A u \in Threads : pc'[h][u] = pc[h][u]

\* A thread that main has not started yet, or that is through, stays so.
BoomRests == \A h \in Gates : pc[h].boom \in {"off", "done"} => pc'[h].boom = pc[h].boom

\* What a step at gate g keeps.
StepKeeps(g) ==
  /\ Served(g)'
  /\ \A h \in Gates \ {g} : SameAt(h)
  /\ BoomRests
  /\ UNCHANGED <<mainPc, todo>>

LEMMA SameServed ==
  ASSUME NEW h \in Gates, Served(h), SameAt(h)
  PROVE  Served(h)'
<1>1. {"lane", "mgr", "opener", "boom"} \subseteq Threads
  BY DEF Threads
<1> QED BY <1>1 DEF Served, SameAt, WaitsRightly, Ringing, ComesBack, Stuck

\* After a broadcast nobody waits at the gate.
LEMMA RingServes ==
  ASSUME PcOK, NEW g \in Gates, Served(g), NEW t \in Threads, NEW a, NEW b, Ring(g, t, a, b),
         a \notin {"raising", "up", "lowering", "down", "dead", "hold", "relock"},
         b # "wait", t = "boom" => a \notin {"off", "done"},
         \A h \in Gates \ {g} : goal'[h] = goal[h], UNCHANGED <<mainPc, todo>>
  PROVE  StepKeeps(g)
<1>0. {"lane", "mgr", "opener", "boom"} \subseteq Threads
  BY DEF Threads
<1>1. ASSUME NEW h \in Gates, NEW u \in Threads
      PROVE  pc'[h][u] = IF h = g /\ u = t THEN b
                         ELSE IF h = g /\ pc[h][u] = "wait" THEN "try" ELSE pc[h][u]
  BY DEF Ring, PcOK
<1>2. pc[g][t] = a /\ UNCHANGED <<gate, lock>>
  BY DEF Ring
<1>3. Served(g)'
  <2>1. \A u \in Threads : pc'[g][u] # "wait"
    BY <1>1
  <2>2. WaitsRightly(g)'
    BY <1>0, <2>1 DEF WaitsRightly
  <2>3. (ComesBack(g) \/ Stuck(g))'
    BY <1>0, <1>1, <1>2 DEF Served, ComesBack, Stuck
  <2> QED BY <2>2, <2>3 DEF Served
<1>4. \A h \in Gates \ {g} : SameAt(h)
  BY <1>1, <1>2 DEF SameAt
<1>5. BoomRests
  BY <1>0, <1>1, <1>2 DEF BoomRests
<1> QED BY <1>3, <1>4, <1>5 DEF StepKeeps

\* The rest of a thread's own step, which changes at most its gate.
LEMMA GoServes ==
  ASSUME PcOK, GateOK, NEW g \in Gates, NEW t \in Threads, NEW a, NEW b, Moved(g, t, b), pc[g][t] = a,
         \A h \in Gates \ {g} : gate'[h] = gate[h] /\ lock'[h] = lock[h] /\ goal'[h] = goal[h],
         Served(g)', t = "boom" => a \notin {"off", "done"}, UNCHANGED <<mainPc, todo>>
  PROVE  StepKeeps(g)
<1>0. {"lane", "mgr", "opener", "boom"} \subseteq Threads
  BY DEF Threads
<1>1. \A h \in Gates \ {g} : SameAt(h)
  BY DEF SameAt, Moved
<1>2. BoomRests
  BY <1>0 DEF BoomRests, Moved
<1> QED BY <1>1, <1>2 DEF StepKeeps

LEMMA LaneServes ==
  ASSUME PcOK, GateOK, NEW g \in Gates, Served(g), LaneAsk(g) \/ LaneStep(g)
  PROVE  StepKeeps(g)
<1>0. {"lane", "mgr", "opener", "boom"} \subseteq Threads
  BY DEF Threads
<1>1. CASE LaneAsk(g)
  <2>1. /\ pc[g].lane = "away" /\ pc'[g].lane = "asking"
        /\ pc'[g].mgr = IF pc[g].mgr = "away" THEN "enter" ELSE pc[g].mgr
        /\ pc'[g].opener = pc[g].opener /\ pc'[g].boom = pc[g].boom
        /\ \A h \in Gates \ {g} : pc'[h] = pc[h]
    BY <1>0, <1>1 DEF LaneAsk, PcOK
  <2>2. UNCHANGED <<gate, lock, goal, mainPc, todo>>
    BY <1>1 DEF LaneAsk, Frame, mainVars
  <2>3. Served(g)'
    BY <2>1, <2>2 DEF Served, WaitsRightly, Ringing, ComesBack, Stuck
  <2> QED BY <2>1, <2>2, <2>3 DEF StepKeeps, SameAt, BoomRests
<1>2. CASE LaneCome(g)
  <2>1. pc[g].lane = "asking" /\ Moved(g, "lane", "try")
    BY <1>2, GoMoves DEF LaneCome, PointOf, LanePoints
  <2>2. /\ \A h \in Gates \ {g} : gate'[h] = gate[h] /\ lock'[h] = lock[h] /\ goal'[h] = goal[h]
        /\ UNCHANGED <<mainPc, todo>>
    BY <1>2 DEF LaneCome, Keep, Pass, Unlock, Frame, mainVars, GateOK
  <2>3. Served(g)'
    BY <1>0, <1>2, <2>1 DEF LaneCome, Go, Moved, Keep, Pass, Unlock, GateOK, Served, WaitsRightly, Ringing,
      ComesBack, Stuck
  <2> QED BY <1>0, <2>1, <2>2, <2>3, GoServes
<1>3. CASE LaneWait(g)
  <2>1. pc[g].lane = "try" /\ Moved(g, "lane", "wait")
    BY <1>3, GoMoves DEF LaneWait, PointOf, LanePoints
  <2>2. /\ \A h \in Gates \ {g} : gate'[h] = gate[h] /\ lock'[h] = lock[h] /\ goal'[h] = goal[h]
        /\ UNCHANGED <<mainPc, todo>>
    BY <1>3 DEF LaneWait, Keep, Pass, Unlock, Frame, mainVars, GateOK
  <2>3. Served(g)'
    BY <1>0, <1>3, <2>1 DEF LaneWait, Go, Moved, Keep, Pass, Unlock, GateOK, Served, WaitsRightly, Ringing,
      ComesBack, Stuck
  <2> QED BY <1>0, <2>1, <2>2, <2>3, GoServes
<1>4. CASE LaneMove(g)
  <2>1. (pc[g].lane = "try" /\ Moved(g, "lane", "lowering")) \/ (pc[g].lane = "try" /\ Moved(g, "lane", "raising"))
    BY <1>4, GoMoves DEF LaneMove, PointOf, LanePoints
  <2>2. /\ \A h \in Gates \ {g} : gate'[h] = gate[h] /\ lock'[h] = lock[h] /\ goal'[h] = goal[h]
        /\ UNCHANGED <<mainPc, todo>>
    BY <1>4 DEF LaneMove, Keep, Pass, Unlock, Frame, mainVars, GateOK
  <2>3. Served(g)'
    BY <1>0, <1>4, <2>1 DEF LaneMove, Go, Moved, Keep, Pass, Unlock, GateOK, Served, WaitsRightly, Ringing,
      ComesBack, Stuck
  <2> QED BY <1>0, <2>1, <2>2, <2>3, GoServes
<1>5. CASE LaneMoved(g)
  <2>1. (pc[g].lane = "raising" /\ Moved(g, "lane", "up")) \/ (pc[g].lane = "lowering" /\ Moved(g, "lane", "down"))
    BY <1>5, GoMoves DEF LaneMoved, PointOf, LanePoints
  <2>2. /\ \A h \in Gates \ {g} : gate'[h] = gate[h] /\ lock'[h] = lock[h] /\ goal'[h] = goal[h]
        /\ UNCHANGED <<mainPc, todo>>
    BY <1>5 DEF LaneMoved, Keep, Pass, Unlock, Frame, mainVars, GateOK
  <2>3. Served(g)'
    BY <1>0, <1>5, <2>1 DEF LaneMoved, Go, Moved, Keep, Pass, Unlock, GateOK, Served, WaitsRightly, Ringing,
      ComesBack, Stuck
  <2> QED BY <1>0, <2>1, <2>2, <2>3, GoServes
<1>6. CASE LaneSet(g)
  <2>1. (pc[g].lane = "up" /\ Moved(g, "lane", "ringO")) \/ (pc[g].lane = "down" /\ Moved(g, "lane", "ringC"))
    BY <1>6, GoMoves DEF LaneSet, PointOf, LanePoints
  <2>2. /\ \A h \in Gates \ {g} : gate'[h] = gate[h] /\ lock'[h] = lock[h] /\ goal'[h] = goal[h]
        /\ UNCHANGED <<mainPc, todo>>
    BY <1>6 DEF LaneSet, Keep, Pass, Unlock, Frame, mainVars, GateOK
  <2>3. Served(g)'
    BY <1>0, <1>6, <2>1 DEF LaneSet, Go, Moved, Keep, Pass, Unlock, GateOK, Served, WaitsRightly, Ringing,
      ComesBack, Stuck
  <2> QED BY <1>0, <2>1, <2>2, <2>3, GoServes
<1>7. CASE LaneRing(g)
  BY <1>0, <1>7, RingServes DEF LaneRing, Frame, mainVars, GateOK
<1>8. CASE LaneDrive(g)
  <2>1. pc[g].lane = "drive" /\ Moved(g, "lane", "try")
    BY <1>8, GoMoves DEF LaneDrive, PointOf, LanePoints
  <2>2. /\ \A h \in Gates \ {g} : gate'[h] = gate[h] /\ lock'[h] = lock[h] /\ goal'[h] = goal[h]
        /\ UNCHANGED <<mainPc, todo>>
    BY <1>8 DEF LaneDrive, Keep, Pass, Unlock, Frame, mainVars, GateOK
  <2>3. Served(g)'
    BY <1>0, <1>8, <2>1 DEF LaneDrive, Go, Moved, Keep, Pass, Unlock, GateOK, Served, WaitsRightly, Ringing,
      ComesBack, Stuck
  <2> QED BY <1>0, <2>1, <2>2, <2>3, GoServes
<1>9. CASE LaneEnd(g)
  <2>1. \E p \in {"away", "asking", "drive", "raising", "lowering"} : pc[g].lane = p /\ Moved(g, "lane", "dead")
    BY <1>9, GoMoves DEF LaneEnd, PointOf, LanePoints
  <2>2. /\ \A h \in Gates \ {g} : gate'[h] = gate[h] /\ lock'[h] = lock[h] /\ goal'[h] = goal[h]
        /\ UNCHANGED <<mainPc, todo>>
    BY <1>9 DEF LaneEnd, Keep, Pass, Unlock, Frame, mainVars, GateOK
  <2>3. Served(g)'
    BY <1>0, <1>9, <2>1 DEF LaneEnd, Go, Moved, Keep, Pass, Unlock, GateOK, Served, WaitsRightly, Ringing,
      ComesBack, Stuck
  <2> QED BY <1>0, <2>1, <2>2, <2>3, GoServes
<1>10. CASE LaneCancelled(g)
  <2>1. pc[g].lane = "wait" /\ Moved(g, "lane", "dying")
    BY <1>10, GoMoves DEF LaneCancelled, PointOf, LanePoints
  <2>2. /\ \A h \in Gates \ {g} : gate'[h] = gate[h] /\ lock'[h] = lock[h] /\ goal'[h] = goal[h]
        /\ UNCHANGED <<mainPc, todo>>
    BY <1>10 DEF LaneCancelled, Keep, Pass, Unlock, Frame, mainVars, GateOK
  <2>3. Served(g)'
    BY <1>0, <1>10, <2>1 DEF LaneCancelled, Go, Moved, Keep, Pass, Unlock, GateOK, Served, WaitsRightly, Ringing,
      ComesBack, Stuck
  <2> QED BY <1>0, <2>1, <2>2, <2>3, GoServes
<1>11. CASE LaneEndWaiting(g)
  <2>1. pc[g].lane = "dying" /\ Moved(g, "lane", "dead")
    BY <1>11, GoMoves DEF LaneEndWaiting, PointOf, LanePoints
  <2>2. /\ \A h \in Gates \ {g} : gate'[h] = gate[h] /\ lock'[h] = lock[h] /\ goal'[h] = goal[h]
        /\ UNCHANGED <<mainPc, todo>>
    BY <1>11 DEF LaneEndWaiting, Keep, Pass, Unlock, Frame, mainVars, GateOK
  <2>3. Served(g)'
    BY <1>0, <1>11, <2>1 DEF LaneEndWaiting, Go, Moved, Keep, Pass, Unlock, GateOK, Served, WaitsRightly, Ringing,
      ComesBack, Stuck
  <2> QED BY <1>0, <2>1, <2>2, <2>3, GoServes
<1> QED BY <1>1, <1>2, <1>3, <1>4, <1>5, <1>6, <1>7, <1>8, <1>9, <1>10, <1>11 DEF LaneStep

LEMMA MgrServes ==
  ASSUME PcOK, GateOK, NEW g \in Gates, Served(g), MgrStep(g)
  PROVE  StepKeeps(g)
<1>0. {"lane", "mgr", "opener", "boom"} \subseteq Threads
  BY DEF Threads
<1>1. CASE MgrEnter(g)
  <2>1. (pc[g].mgr = "enter" /\ Moved(g, "mgr", "ring")) \/ (pc[g].mgr = "enter" /\ Moved(g, "mgr", "leave"))
    BY <1>1, GoMoves DEF MgrEnter, PointOf, MgrPoints
  <2>2. /\ \A h \in Gates \ {g} : gate'[h] = gate[h] /\ lock'[h] = lock[h] /\ goal'[h] = goal[h]
        /\ UNCHANGED <<mainPc, todo>>
    BY <1>1 DEF MgrEnter, Keep, Pass, Unlock, Frame, mainVars, GateOK
  <2>3. Served(g)'
    BY <1>0, <1>1, <2>1 DEF MgrEnter, Go, Moved, Keep, Pass, Unlock, GateOK, Served, WaitsRightly, Ringing,
      ComesBack, Stuck
  <2> QED BY <1>0, <2>1, <2>2, <2>3, GoServes
<1>2. CASE MgrRing(g)
  BY <1>0, <1>2, RingServes DEF MgrRing, Frame, mainVars, GateOK
<1>3. CASE MgrWait(g)
  <2>1. pc[g].mgr = "try" /\ Moved(g, "mgr", "wait")
    BY <1>3, GoMoves DEF MgrWait, PointOf, MgrPoints
  <2>2. /\ \A h \in Gates \ {g} : gate'[h] = gate[h] /\ lock'[h] = lock[h] /\ goal'[h] = goal[h]
        /\ UNCHANGED <<mainPc, todo>>
    BY <1>3 DEF MgrWait, Keep, Pass, Unlock, Frame, mainVars, GateOK
  <2>3. Served(g)'
    BY <1>0, <1>3, <2>1 DEF MgrWait, Go, Moved, Keep, Pass, Unlock, GateOK, Served, WaitsRightly, Ringing,
      ComesBack, Stuck
  <2> QED BY <1>0, <2>1, <2>2, <2>3, GoServes
<1>4. CASE MgrSeeOpen(g)
  <2>1. pc[g].mgr = "try" /\ Moved(g, "mgr", "hold")
    BY <1>4, GoMoves DEF MgrSeeOpen, PointOf, MgrPoints
  <2>2. /\ \A h \in Gates \ {g} : gate'[h] = gate[h] /\ lock'[h] = lock[h] /\ goal'[h] = goal[h]
        /\ UNCHANGED <<mainPc, todo>>
    BY <1>4 DEF MgrSeeOpen, Keep, Pass, Unlock, Frame, mainVars, GateOK
  <2>3. Served(g)'
    BY <1>0, <1>4, <2>1 DEF MgrSeeOpen, Go, Moved, Keep, Pass, Unlock, GateOK, Served, WaitsRightly, Ringing,
      ComesBack, Stuck
  <2> QED BY <1>0, <2>1, <2>2, <2>3, GoServes
<1>5. CASE MgrLower(g)
  <2>1. pc[g].mgr = "hold" /\ Moved(g, "mgr", "ring")
    BY <1>5, GoMoves DEF MgrLower, PointOf, MgrPoints
  <2>2. /\ \A h \in Gates \ {g} : gate'[h] = gate[h] /\ lock'[h] = lock[h] /\ goal'[h] = goal[h]
        /\ UNCHANGED <<mainPc, todo>>
    BY <1>5 DEF MgrLower, Keep, Pass, Unlock, Frame, mainVars, GateOK
  <2>3. Served(g)'
    BY <1>0, <1>5, <2>1 DEF MgrLower, Go, Moved, Keep, Pass, Unlock, GateOK, Served, WaitsRightly, Ringing,
      ComesBack, Stuck
  <2> QED BY <1>0, <2>1, <2>2, <2>3, GoServes
<1>6. CASE MgrSeeShut(g)
  <2>1. pc[g].mgr = "try" /\ Moved(g, "mgr", "leave")
    BY <1>6, GoMoves DEF MgrSeeShut, PointOf, MgrPoints
  <2>2. /\ \A h \in Gates \ {g} : gate'[h] = gate[h] /\ lock'[h] = lock[h] /\ goal'[h] = goal[h]
        /\ UNCHANGED <<mainPc, todo>>
    BY <1>6 DEF MgrSeeShut, Keep, Pass, Unlock, Frame, mainVars, GateOK
  <2>3. Served(g)'
    BY <1>0, <1>6, <2>1 DEF MgrSeeShut, Go, Moved, Keep, Pass, Unlock, GateOK, Served, WaitsRightly, Ringing,
      ComesBack, Stuck
  <2> QED BY <1>0, <2>1, <2>2, <2>3, GoServes
<1> QED BY <1>1, <1>2, <1>3, <1>4, <1>5, <1>6 DEF MgrStep

LEMMA OpenerServes ==
  ASSUME PcOK, GateOK, NEW g \in Gates, Served(g), OpenerStep(g)
  PROVE  StepKeeps(g)
<1>0. {"lane", "mgr", "opener", "boom"} \subseteq Threads
  BY DEF Threads
<1>1. CASE OpenerStart(g)
  <2>1. pc[g].opener = "off" /\ Moved(g, "opener", "try")
    BY <1>1, GoMoves DEF OpenerStart, PointOf, OpenerPoints
  <2>2. /\ \A h \in Gates \ {g} : gate'[h] = gate[h] /\ lock'[h] = lock[h] /\ goal'[h] = goal[h]
        /\ UNCHANGED <<mainPc, todo>>
    BY <1>1 DEF OpenerStart, Keep, Pass, Unlock, Frame, mainVars, GateOK
  <2>3. Served(g)'
    BY <1>0, <1>1, <2>1 DEF OpenerStart, Go, Moved, Keep, Pass, Unlock, GateOK, Served, WaitsRightly, Ringing,
      ComesBack, Stuck
  <2> QED BY <1>0, <2>1, <2>2, <2>3, GoServes
<1>2. CASE OpenerSeeOpen(g)
  <2>1. pc[g].opener = "try" /\ Moved(g, "opener", "done")
    BY <1>2, GoMoves DEF OpenerSeeOpen, PointOf, OpenerPoints
  <2>2. /\ \A h \in Gates \ {g} : gate'[h] = gate[h] /\ lock'[h] = lock[h] /\ goal'[h] = goal[h]
        /\ UNCHANGED <<mainPc, todo>>
    BY <1>2 DEF OpenerSeeOpen, Keep, Pass, Unlock, Frame, mainVars, GateOK
  <2>3. Served(g)'
    BY <1>0, <1>2, <2>1 DEF OpenerSeeOpen, Go, Moved, Keep, Pass, Unlock, GateOK, Served, WaitsRightly, Ringing,
      ComesBack, Stuck
  <2> QED BY <1>0, <2>1, <2>2, <2>3, GoServes
<1>3. CASE OpenerRaise(g)
  <2>1. pc[g].opener = "try" /\ Moved(g, "opener", "ring")
    BY <1>3, GoMoves DEF OpenerRaise, PointOf, OpenerPoints
  <2>2. /\ \A h \in Gates \ {g} : gate'[h] = gate[h] /\ lock'[h] = lock[h] /\ goal'[h] = goal[h]
        /\ UNCHANGED <<mainPc, todo>>
    BY <1>3 DEF OpenerRaise, Keep, Pass, Unlock, Frame, mainVars, GateOK
  <2>3. Served(g)'
    BY <1>0, <1>3, <2>1 DEF OpenerRaise, Go, Moved, Keep, Pass, Unlock, GateOK, Served, WaitsRightly, Ringing,
      ComesBack, Stuck
  <2> QED BY <1>0, <2>1, <2>2, <2>3, GoServes
<1>4. CASE OpenerMiss(g)
  <2>1. pc[g].opener = "try" /\ Moved(g, "opener", "relock")
    BY <1>4, GoMoves DEF OpenerMiss, PointOf, OpenerPoints
  <2>2. /\ \A h \in Gates \ {g} : gate'[h] = gate[h] /\ lock'[h] = lock[h] /\ goal'[h] = goal[h]
        /\ UNCHANGED <<mainPc, todo>>
    BY <1>4 DEF OpenerMiss, Keep, Pass, Unlock, Frame, mainVars, GateOK
  <2>3. Served(g)'
    BY <1>0, <1>4, <2>1 DEF OpenerMiss, Go, Moved, Keep, Pass, Unlock, GateOK, Served, WaitsRightly, Ringing,
      ComesBack, Stuck
  <2> QED BY <1>0, <2>1, <2>2, <2>3, GoServes
<1>5. CASE OpenerRing(g)
  BY <1>0, <1>5, RingServes DEF OpenerRing, Frame, mainVars, GateOK
<1>6. CASE OpenerWait(g)
  <2>1. pc[g].opener = "relock" /\ Moved(g, "opener", "wait")
    BY <1>6, GoMoves DEF OpenerWait, PointOf, OpenerPoints
  <2>2. /\ \A h \in Gates \ {g} : gate'[h] = gate[h] /\ lock'[h] = lock[h] /\ goal'[h] = goal[h]
        /\ UNCHANGED <<mainPc, todo>>
    BY <1>6 DEF OpenerWait, Keep, Pass, Unlock, Frame, mainVars, GateOK
  <2>3. Served(g)'
    BY <1>0, <1>6, <2>1 DEF OpenerWait, Go, Moved, Keep, Pass, Unlock, GateOK, Served, WaitsRightly, Ringing,
      ComesBack, Stuck
  <2> QED BY <1>0, <2>1, <2>2, <2>3, GoServes
<1> QED BY <1>1, <1>2, <1>3, <1>4, <1>5, <1>6 DEF OpenerStep

LEMMA BoomServes ==
  ASSUME PcOK, GateOK, NEW g \in Gates, Served(g), BoomStep(g)
  PROVE  StepKeeps(g)
<1>0. {"lane", "mgr", "opener", "boom"} \subseteq Threads
  BY DEF Threads
<1>1. CASE BoomWait(g)
  <2>1. pc[g].boom = "try" /\ Moved(g, "boom", "wait")
    BY <1>1, GoMoves DEF BoomWait, PointOf, BoomPoints
  <2>2. /\ \A h \in Gates \ {g} : gate'[h] = gate[h] /\ lock'[h] = lock[h] /\ goal'[h] = goal[h]
        /\ UNCHANGED <<mainPc, todo>>
    BY <1>1 DEF BoomWait, Keep, Pass, Unlock, Frame, mainVars, GateOK
  <2>3. Served(g)'
    BY <1>0, <1>1, <2>1 DEF BoomWait, Go, Moved, Keep, Pass, Unlock, GateOK, Served, WaitsRightly, Ringing,
      ComesBack, Stuck
  <2> QED BY <1>0, <2>1, <2>2, <2>3, GoServes
<1>2. CASE BoomRaise(g)
  <2>1. pc[g].boom = "try" /\ Moved(g, "boom", "raising")
    BY <1>2, GoMoves DEF BoomRaise, PointOf, BoomPoints
  <2>2. /\ \A h \in Gates \ {g} : gate'[h] = gate[h] /\ lock'[h] = lock[h] /\ goal'[h] = goal[h]
        /\ UNCHANGED <<mainPc, todo>>
    BY <1>2 DEF BoomRaise, Keep, Pass, Unlock, Frame, mainVars, GateOK
  <2>3. Served(g)'
    BY <1>0, <1>2, <2>1 DEF BoomRaise, Go, Moved, Keep, Pass, Unlock, GateOK, Served, WaitsRightly, Ringing,
      ComesBack, Stuck
  <2> QED BY <1>0, <2>1, <2>2, <2>3, GoServes
<1>3. CASE BoomOpen(g)
  <2>1. pc[g].boom = "raising" /\ Moved(g, "boom", "ring")
    BY <1>3, GoMoves DEF BoomOpen, PointOf, BoomPoints
  <2>2. /\ \A h \in Gates \ {g} : gate'[h] = gate[h] /\ lock'[h] = lock[h] /\ goal'[h] = goal[h]
        /\ UNCHANGED <<mainPc, todo>>
    BY <1>3 DEF BoomOpen, Keep, Pass, Unlock, Frame, mainVars, GateOK
  <2>3. Served(g)'
    BY <1>0, <1>3, <2>1 DEF BoomOpen, Go, Moved, Keep, Pass, Unlock, GateOK, Served, WaitsRightly, Ringing,
      ComesBack, Stuck
  <2> QED BY <1>0, <2>1, <2>2, <2>3, GoServes
<1>4. CASE BoomRing(g)
  BY <1>0, <1>4, RingServes DEF BoomRing, Frame, mainVars, GateOK
<1> QED BY <1>1, <1>2, <1>3, <1>4 DEF BoomStep

LEMMA WakeServes ==
  ASSUME PcOK, GateOK, NEW g \in Gates, Served(g), NEW t \in Threads, Wake(g, t)
  PROVE  StepKeeps(g)
<1>0. {"lane", "mgr", "opener", "boom"} \subseteq Threads
  BY DEF Threads
<1>1. PointOf(t, "try")
  BY DEF Threads, PointOf, LanePoints, MgrPoints, OpenerPoints, BoomPoints
<1>2. Moved(g, t, "try") /\ pc[g][t] = "wait"
  BY <1>1, GoMoves DEF Wake
<1>3. UNCHANGED <<gate, lock, goal, mainPc, todo>>
  BY DEF Wake, mainVars
<1>4. Served(g)'
  BY <1>0, <1>2, <1>3 DEF Moved, Served, WaitsRightly, Ringing, ComesBack, Stuck
<1> QED BY <1>2, <1>3, <1>4, GoServes

\* The steps of main, the user and the creator.
LEMMA MainServes ==
  ASSUME PcOK, GateOK, MainOK, BoomsReady, NobodyLeftWaiting,
         RaiseAlarm \/ UserFire \/ MainStep \/ CreatorStep
  PROVE  BoomsReady' /\ NobodyLeftWaiting'
<1>0. {"lane", "mgr", "opener", "boom"} \subseteq Threads
  BY DEF Threads
<1>1. ASSUME NEW g \in Gates, MainCancel(g)
      PROVE  BoomsReady' /\ NobodyLeftWaiting'
  <2>1. UNCHANGED <<gate, lock, pc, goal>> /\ mainPc = "cancel" /\ mainPc' \in {"cancel", "unlock"}
    BY <1>1 DEF MainCancel, MainDo, gateVars
  <2>2. BoomsReady'
    BY <2>1 DEF BoomsReady
  <2> QED BY <2>1, <2>2 DEF NobodyLeftWaiting, WaitsRightly, Ringing, ComesBack, Stuck
<1>2. ASSUME NEW g \in Gates, MainUnlock(g)
      PROVE  BoomsReady' /\ NobodyLeftWaiting'
  <2>1. /\ UNCHANGED <<gate, pc, goal>> /\ lock' = [lock EXCEPT ![g] = "free"]
        /\ mainPc = "unlock" /\ mainPc' \in {"unlock", "create"} /\ todo' \subseteq Gates
    BY <1>2 DEF MainUnlock, MainDo, Unlock, MainOK
  <2>2. BoomsReady'
    BY <2>1 DEF BoomsReady
  <2>3. ASSUME NEW h \in Gates
        PROVE  lock'[h] = "free" \/ lock'[h] = lock[h]
    BY <2>1 DEF GateOK
  <2>4. ASSUME NEW h \in Gates
        PROVE  Served(h)'
    BY <2>1, <2>3 DEF NobodyLeftWaiting, Served, WaitsRightly, Ringing, ComesBack, Stuck
  <2> QED BY <2>2, <2>4 DEF NobodyLeftWaiting, Served
<1>3. ASSUME NEW g \in Gates, MainCreate(g)
      PROVE  BoomsReady' /\ NobodyLeftWaiting'
  <2>1. /\ UNCHANGED <<gate, lock, goal>> /\ mainPc = "create" /\ g \in todo
        /\ \/ mainPc' = "join"
           \/ mainPc' = "create" /\ todo' = todo \ {g}
    BY <1>3 DEF MainCreate, MainDo
  <2>2. Moved(g, "boom", "try")
    BY <1>0, <1>3 DEF MainCreate, PcOK, Moved
  <2>3. pc[g].boom \in {"off", "done"}
    BY <2>1 DEF BoomsReady
  <2>4. BoomsReady'
    BY <1>0, <2>1, <2>2 DEF BoomsReady, Moved, MainOK
  <2>5. ASSUME NEW h \in Gates
        PROVE  Served(h)'
    <3>1. CASE h # g
      BY <1>0, <2>1, <2>2, <3>1 DEF NobodyLeftWaiting, Served, WaitsRightly, Ringing, ComesBack, Stuck, Moved
    <3>2. CASE h = g
      BY <1>0, <2>1, <2>2, <2>3, <3>2 DEF NobodyLeftWaiting, Served, WaitsRightly, Ringing, ComesBack,
        Stuck, Moved
    <3> QED BY <3>1, <3>2
  <2> QED BY <2>4, <2>5 DEF NobodyLeftWaiting, Served
<1>4. CASE RaiseAlarm \/ UserFire \/ MainChoose \/ MainSeeAlarm \/ MainJoin \/ CreatorStep
  <2>1. UNCHANGED <<gate, lock, pc, goal>>
    BY <1>4 DEF RaiseAlarm, UserFire, MainChoose, MainSeeAlarm, MainJoin, CreatorStep, CreatorSleep,
      CreatorWork, CreatorEnd, gateVars, mainVars
  <2>2. BoomsReady'
    BY <1>4, <2>1 DEF RaiseAlarm, UserFire, MainChoose, MainSeeAlarm, MainJoin, CreatorStep, CreatorSleep,
      CreatorWork, CreatorEnd, mainVars, BoomsReady
  <2> QED BY <2>1, <2>2 DEF NobodyLeftWaiting, WaitsRightly, Ringing, ComesBack, Stuck
<1> QED BY <1>1, <1>2, <1>3, <1>4 DEF MainStep

LEMMA ServedInit == Init => BoomsReady /\ NobodyLeftWaiting
<1>1. {"lane", "mgr", "opener", "boom"} \subseteq Threads
  BY DEF Threads
<1> QED BY <1>1 DEF Init, BoomsReady, NobodyLeftWaiting, WaitsRightly, Ringing, ComesBack

LEMMA ServedStep ==
  ASSUME TypeOK, BoomsReady, NobodyLeftWaiting, Next
  PROVE  BoomsReady' /\ NobodyLeftWaiting'
<1>1. PcOK /\ GateOK /\ MainOK
  BY TypeParts
<1>2. \A g \in Gates : Served(g)
  BY DEF NobodyLeftWaiting, Served
<1>3. ASSUME NEW g \in Gates, StepKeeps(g)
      PROVE  BoomsReady' /\ NobodyLeftWaiting'
  <2>1. \A h \in Gates : Served(h)'
    BY <1>2, <1>3, SameServed DEF StepKeeps
  <2>2. BoomsReady'
    BY <1>1, <1>3 DEF StepKeeps, BoomRests, BoomsReady, MainOK
  <2> QED BY <2>1, <2>2 DEF NobodyLeftWaiting, Served
<1>4. ASSUME NEW g \in Gates, LaneAsk(g) \/ LaneStep(g) \/ MgrStep(g) \/ OpenerStep(g) \/ BoomStep(g)
      PROVE  BoomsReady' /\ NobodyLeftWaiting'
  <2>1. StepKeeps(g)
    BY <1>1, <1>2, <1>4, LaneServes, MgrServes, OpenerServes, BoomServes
  <2> QED BY <1>3, <2>1
<1>5. ASSUME NEW g \in Gates, NEW t \in Threads, Wake(g, t)
      PROVE  BoomsReady' /\ NobodyLeftWaiting'
  <2>1. StepKeeps(g)
    BY <1>1, <1>2, <1>5, WakeServes
  <2> QED BY <1>3, <2>1
<1> QED BY <1>1, <1>4, <1>5, MainServes DEF Next

\* No wake-up is lost on those who test the status before they wait, and a
\* gate's mutex is lost only in the two ways of Stuck, for any set of gates.
THEOREM NobodyIsForgotten == Spec => []NobodyLeftWaiting
<1>1. BoomsReady /\ NobodyLeftWaiting /\ UNCHANGED vars => BoomsReady' /\ NobodyLeftWaiting'
  BY DEF BoomsReady, NobodyLeftWaiting, WaitsRightly, Ringing, ComesBack, Stuck, vars, gateVars, mainVars
<1> QED BY ServedInit, ServedStep, <1>1, TypeCorrect, PTL DEF Spec
=============================================================================
