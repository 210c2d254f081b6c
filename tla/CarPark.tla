------------------------------ MODULE CarPark ------------------------------
(***************************************************************************)
(* The car park as a whole: the manager's threads for the entrances, the   *)
(* exits and the levels (entrance_lpr, exit_lpr, level_lpr, manager.c),    *)
(* the data they share, and the simulator's cars that move them.           *)
(*                                                                         *)
(* The manager's threads share m_counter and level_tracker, always under   *)
(* car_park_lock, and car_list, which entrances and exits change and       *)
(* everybody searches without a common lock.  The list is modelled as the  *)
(* heap it is: a node per vehicle, its next pointer, and which nodes are   *)
(* allocated; reading a freed node or a null one ends the manager.         *)
(*                                                                         *)
(* The handshake of one lane (LPR, sign and gate) is a rendezvous here;    *)
(* EntranceLane and ExitLane have its steps, and show that a wake-up that  *)
(* is lost stops the lane, which here is a lane that takes no more steps.  *)
(* Steps that only their own lane can observe are taken together, and a    *)
(* local variable that is not read again goes back to its initial value.   *)
(***************************************************************************)
EXTENDS Integers, FiniteSets

CONSTANTS Cars,           \* the cars the creator thread can produce
          Allowed,        \* those whose plates are in plates.txt
          Entrances,      \* the entrances
          Exits,          \* the exits
          LEVELS,         \* number of levels (PARKING.h)
          LEVEL_CAPACITY, \* number of cars a level takes (PARKING.h)
          NoCar,          \* the null pointer, and an empty plate
          LevelThreads    \* stands for the level threads' own variable

ASSUME CarParkAssumption ==
  /\ IsFiniteSet(Cars) /\ IsFiniteSet(Exits)
  /\ Allowed \subseteq Cars
  /\ NoCar \notin Cars
  /\ LEVELS \in Nat \ {0}
  /\ LEVEL_CAPACITY \in Nat
  /\ LevelThreads \notin Entrances
  /\ Entrances \cap Exits = {}

Levels == 0 .. LEVELS - 1
Capacity == LEVELS * LEVEL_CAPACITY

(* The sign: a level, or one of these. *)
Unset  == -1
Banned == -2
Full   == -3

VARIABLES
  \* the simulator
  simPc,    \* per entrance: where thf_entr is
  inCar,    \* per entrance: thf_entr's popped_car
  inside,   \* inside_list, as pairs <<car, car->lvl>>
  leaving,  \* the cars in the exit queues
  outPc,    \* per exit: where thf_exit is
  outCar,   \* per exit: thf_exit's popped_car
  \* the shared memory
  rung,     \* the lanes whose LPR went off and whose thread has not seen it
  sign,     \* per entrance: what the sign tells the car that is asking
  gateUp,   \* the lanes whose gate is raised for their car
  topPlate, \* the LPR plate of the last level
  sensing,  \* TRUE: a level thread has been woken and has yet to run
  \* the manager
  ePc,      \* per entrance: where entrance_lpr is
  holder,   \* per entrance: the plate it copied
  assigned, \* per entrance: assign_level
  xPc,      \* per exit: where exit_lpr is
  xHead,    \* per exit: what node_delete returned
  m_counter,
  level_tracker,
  car_list, \* the first node
  next,     \* per node: its next pointer
  alive,    \* the allocated nodes
  levelPtr, \* per vehicle: the variable its level pointer points to
  raced,    \* history: car_list was edited in another thread's edit, or searched
            \* in another thread's node_delete
  crashed   \* the manager has ended on a bad pointer

simVars   == <<simPc, inCar, inside, leaving, outPc, outCar>>
senseVars == <<topPlate, sensing>>
shmVars   == <<rung, sign, gateUp, senseVars>>
laneVars  == <<ePc, holder, assigned, xPc, xHead>>
countVars == <<m_counter, level_tracker>>
listVars  == <<car_list, next, alive, levelPtr, raced>>
vars == <<simVars, shmVars, laneVars, countVars, listVars, crashed>>

Init ==
  /\ simPc = [e \in Entrances |-> "pop"]
  /\ inCar = [e \in Entrances |-> NoCar]
  /\ inside = {} /\ leaving = {}
  /\ outPc = [x \in Exits |-> "pop"]
  /\ outCar = [x \in Exits |-> NoCar]
  /\ rung = {} /\ gateUp = {}
  /\ sign = [e \in Entrances |-> Unset]
  /\ topPlate = NoCar /\ sensing = FALSE
  /\ ePc = [e \in Entrances |-> "wait"]
  /\ holder = [e \in Entrances |-> NoCar]
  /\ assigned = [e \in Entrances |-> 0]
  /\ xPc = [x \in Exits |-> "wait"]
  /\ xHead = [x \in Exits |-> NoCar]
  /\ m_counter = 0
  /\ level_tracker = [l \in Levels |-> 0]
  /\ car_list = NoCar
  /\ next = [c \in Cars |-> NoCar]
  /\ alive = {}
  /\ levelPtr = [c \in Cars |-> LevelThreads]
  /\ raced = FALSE /\ crashed = FALSE

-----------------------------------------------------------------------------
(* The car list.  A node is named by the plate of its vehicle.             *)

\* The nodes a search from h meets: it ends at a null pointer, or on a node that
\* has been freed.
ChainFrom(h) ==
  LET closed == {S \in SUBSET (Cars \cup {NoCar}) :
                   h \in S /\ \A n \in S \cap alive : next[n] \in S}
  IN  {n \in Cars \cup {NoCar} : \A S \in closed : n \in S}

Chain == ChainFrom(car_list)

\* node_find_lp returns the node of plate p.
Finds(p) == p \in Chain \cap alive

\* node_find_lp for p runs into a freed node.
Strays(p) == ~Finds(p) /\ \E n \in Chain \cap Cars : n \notin alive

\* The threads between node_add, or node_delete, and the store of its result.
Adding == {e \in Entrances : ePc[e] = "link"}
Deleting == {x \in Exits : xPc[x] = "store"}

Search == raced' = (raced \/ Deleting # {})
Edit == raced' = (raced \/ Deleting # {} \/ Adding # {})

-----------------------------------------------------------------------------
(* The simulator.                                                          *)

InsideCars == {p[1] : p \in inside}
AtExitGates == {outCar[x] : x \in {y \in Exits : outPc[y] = "atGate"}}

\* sim_cars: the plates in the simulation, which the creator avoids.
SimCars ==
  {inCar[e] : e \in {f \in Entrances : simPc[f] # "pop"}}
  \cup InsideCars \cup leaving \cup AtExitGates

\* Mutant: the creator does not look for the plate in sim_cars.
SimArriveAgain(e, c) ==
  /\ simPc[e] = "pop"
  /\ inCar' = [inCar EXCEPT ![e] = c]
  /\ simPc' = [simPc EXCEPT ![e] = "asking"]
  /\ rung' = rung \cup {e}
  /\ UNCHANGED <<inside, leaving, outPc, outCar, sign, gateUp, senseVars,
                 laneVars, countVars, listVars, crashed>>

\* The creator makes a car and queues it, thf_entr takes it to the LPR.
SimArrive(e, c) ==
  /\ simPc[e] = "pop"
  /\ c \notin SimCars
  /\ inCar' = [inCar EXCEPT ![e] = c]
  /\ simPc' = [simPc EXCEPT ![e] = "asking"]
  /\ rung' = rung \cup {e}
  /\ UNCHANGED <<inside, leaving, outPc, outCar, sign, gateUp, senseVars,
                 laneVars, countVars, listVars, crashed>>

\* The car takes the level on the sign, or leaves the simulation.
SimReadSign(e) ==
  /\ simPc[e] = "asking"
  /\ sign[e] # Unset
  /\ IF sign[e] \in Levels
     THEN /\ simPc' = [simPc EXCEPT ![e] = "entering"]
          /\ UNCHANGED <<inCar, sign>>
     ELSE /\ simPc' = [simPc EXCEPT ![e] = "pop"]
          /\ inCar' = [inCar EXCEPT ![e] = NoCar]
          /\ sign' = [sign EXCEPT ![e] = Unset]
  /\ UNCHANGED <<inside, leaving, outPc, outCar, rung, gateUp, senseVars,
                 laneVars, countVars, listVars, crashed>>

\* trig_LPR on a level.  All level threads were given the address of the
\* same variable, so once main has left its loop they wait on the last
\* level; one that started early may still wait, once, on another level.  A
\* thread that is not waiting misses the broadcast.
LevelLPR(c, l) ==
  /\ topPlate' = IF l = LEVELS - 1 THEN c ELSE topPlate
  /\ sensing' \in {sensing, TRUE}

\* Through the raised gate to the level on the sign, then into inside_list.
SimDriveIn(e) ==
  /\ simPc[e] = "entering"
  /\ e \in gateUp
  /\ LevelLPR(inCar[e], sign[e])
  /\ inside' = inside \cup {<<inCar[e], sign[e]>>}
  /\ gateUp' = gateUp \ {e}
  /\ simPc' = [simPc EXCEPT ![e] = "pop"]
  /\ inCar' = [inCar EXCEPT ![e] = NoCar]
  /\ sign' = [sign EXCEPT ![e] = Unset]
  /\ UNCHANGED <<leaving, outPc, outCar, rung,
                 laneVars, countVars, listVars, crashed>>

\* thf_inside: a car whose time is up goes to an exit queue.
SimLeave(p) ==
  /\ inside' = inside \ {p}
  /\ leaving' = leaving \cup {p[1]}
  /\ LevelLPR(p[1], p[2])
  /\ UNCHANGED <<simPc, inCar, outPc, outCar, rung, sign, gateUp,
                 laneVars, countVars, listVars, crashed>>

\* thf_exit takes a car from its queue to the LPR, whose mutex the manager's
\* thread holds until it has dealt with the car before.
SimAtExit(x, c) ==
  /\ outPc[x] = "pop"
  /\ xPc[x] = "wait"
  /\ leaving' = leaving \ {c}
  /\ outCar' = [outCar EXCEPT ![x] = c]
  /\ outPc' = [outPc EXCEPT ![x] = "atGate"]
  /\ rung' = rung \cup {x}
  /\ UNCHANGED <<simPc, inCar, inside, sign, gateUp, senseVars,
                 laneVars, countVars, listVars, crashed>>

\* Through the raised gate, then out of the simulation (destroy_car).
SimDriveOut(x) ==
  /\ outPc[x] = "atGate"
  /\ x \in gateUp
  /\ gateUp' = gateUp \ {x}
  /\ outPc' = [outPc EXCEPT ![x] = "pop"]
  /\ UNCHANGED <<simPc, inCar, inside, leaving, outCar, rung, sign,
                 senseVars, laneVars, countVars, listVars, crashed>>

-----------------------------------------------------------------------------
(* The manager's entrance threads.                                         *)

EntranceAt(e, from, to) ==
  /\ ~crashed
  /\ ePc[e] = from
  /\ ePc' = [ePc EXCEPT ![e] = to]

\* Mutant: the hash table is not asked.
MgrLookUpListOnly(e) ==
  /\ e \in rung
  /\ e \notin gateUp
  /\ rung' = rung \ {e}
  /\ crashed' = Strays(inCar[e])
  /\ IF ~Finds(inCar[e])
     THEN /\ EntranceAt(e, "wait", "count")
          /\ holder' = [holder EXCEPT ![e] = inCar[e]]
          /\ UNCHANGED sign
     ELSE /\ EntranceAt(e, "wait", "wait")
          /\ sign' = [sign EXCEPT ![e] = Banned]
          /\ UNCHANGED holder
  /\ Search
  /\ UNCHANGED <<simVars, gateUp, senseVars, assigned, xPc, xHead,
                 countVars, car_list, next, alive, levelPtr>>

\* node_find_lp, with no lock, and search_plate, once the gate is down behind
\* the car before.
MgrLookUp(e) ==
  /\ e \in rung
  /\ e \notin gateUp
  /\ rung' = rung \ {e}
  /\ crashed' = Strays(inCar[e])
  /\ IF inCar[e] \in Allowed /\ ~Finds(inCar[e])
     THEN /\ EntranceAt(e, "wait", "count")
          /\ holder' = [holder EXCEPT ![e] = inCar[e]]
          /\ UNCHANGED sign
     ELSE /\ EntranceAt(e, "wait", "wait")
          /\ sign' = [sign EXCEPT ![e] = Banned]
          /\ UNCHANGED holder
  /\ Search
  /\ UNCHANGED <<simVars, gateUp, senseVars, assigned, xPc, xHead,
                 countVars, car_list, next, alive, levelPtr>>

\* Mutant: one car too many.
HasRoomForOneMore == m_counter <= Capacity

\* Room is checked and taken under car_park_lock (m_counter, car_count).
HasRoom == m_counter < Capacity

\* car_count: level_tracker and assign_level when the counter has become n.
CarCount(e, n) ==
  LET next_level == n % LEVELS
  IN  /\ level_tracker' =
           IF level_tracker[next_level] < LEVEL_CAPACITY
           THEN [level_tracker EXCEPT ![next_level] = @ + 1]
           ELSE level_tracker
      /\ assigned' = [assigned EXCEPT ![e] = next_level]

MgrCountIn(e) ==
  /\ HasRoom
  /\ EntranceAt(e, "count", "show")
  /\ m_counter' = m_counter + 1
  /\ CarCount(e, m_counter + 1)
  /\ UNCHANGED <<simVars, shmVars, holder, xPc, xHead, listVars, crashed>>

\* Mutant: the counter goes up before the test for room.
MgrNoRoomCounted(e) ==
  /\ ~HasRoom
  /\ EntranceAt(e, "count", "wait")
  /\ m_counter' = m_counter + 1
  /\ sign' = [sign EXCEPT ![e] = Full]
  /\ holder' = [holder EXCEPT ![e] = NoCar]
  /\ UNCHANGED <<simVars, rung, gateUp, senseVars, assigned, xPc, xHead,
                 level_tracker, listVars, crashed>>

MgrNoRoom(e) ==
  /\ ~HasRoom
  /\ EntranceAt(e, "count", "wait")
  /\ sign' = [sign EXCEPT ![e] = Full]
  /\ holder' = [holder EXCEPT ![e] = NoCar]
  /\ UNCHANGED <<simVars, rung, gateUp, senseVars, assigned, xPc, xHead,
                 countVars, listVars, crashed>>

\* Mutant: room is tested again when the sign is written, now that all is counted.
MgrShowFullNow(e) ==
  /\ EntranceAt(e, "show", "link")
  /\ sign' = [sign EXCEPT ![e] = IF HasRoom THEN assigned[e] ELSE Full]
  /\ alive' = alive \cup {holder[e]}
  /\ next' = [next EXCEPT ![holder[e]] = car_list]
  /\ levelPtr' = [levelPtr EXCEPT ![holder[e]] = e]
  /\ Edit
  /\ UNCHANGED <<simVars, rung, gateUp, senseVars, holder, assigned, xPc,
                 xHead, countVars, car_list, crashed>>

\* The level goes on the sign.  Then the vehicle is made, its level a
\* pointer to this thread's assign_level, and node_add reads the head.
MgrShow(e) ==
  /\ EntranceAt(e, "show", "link")
  /\ sign' = [sign EXCEPT ![e] = assigned[e]]
  /\ alive' = alive \cup {holder[e]}
  /\ next' = [next EXCEPT ![holder[e]] = car_list]
  /\ levelPtr' = [levelPtr EXCEPT ![holder[e]] = e]
  /\ Edit
  /\ UNCHANGED <<simVars, rung, gateUp, senseVars, holder, assigned, xPc,
                 xHead, countVars, car_list, crashed>>

\* car_list = newhead, whatever it has become since; then the gate goes up.
MgrLink(e) ==
  /\ EntranceAt(e, "link", "wait")
  /\ car_list' = holder[e]
  /\ holder' = [holder EXCEPT ![e] = NoCar]
  /\ gateUp' = gateUp \cup {e}
  /\ UNCHANGED <<simVars, rung, sign, senseVars, assigned, xPc,
                 xHead, countVars, next, alive, levelPtr, raced, crashed>>

-----------------------------------------------------------------------------
(* The manager's exit threads.                                             *)

ExitAt(x, from, to) ==
  /\ ~crashed
  /\ xPc[x] = from
  /\ xPc' = [xPc EXCEPT ![x] = to]

\* *find->vehicle->level: what the variable it points to holds now.
LevelOf(c) ==
  IF levelPtr[c] = LevelThreads THEN LEVELS - 1 ELSE assigned[levelPtr[c]]

\* Under car_park_lock: one car fewer, and one fewer on the level its
\* vehicle points to.  Then the gate goes up.
MgrCountOut(x) ==
  /\ x \in rung
  /\ ExitAt(x, "wait", "gate")
  /\ rung' = rung \ {x}
  /\ m_counter' = m_counter - 1
  /\ crashed' = ~Finds(outCar[x])
  /\ IF Finds(outCar[x])
     THEN LET l == LevelOf(outCar[x])
          IN  level_tracker' = IF level_tracker[l] # 0
                               THEN [level_tracker EXCEPT ![l] = @ - 1]
                               ELSE level_tracker
     ELSE UNCHANGED level_tracker
  /\ gateUp' = IF Finds(outCar[x]) THEN gateUp \cup {x} ELSE gateUp
  /\ Search
  /\ UNCHANGED <<simVars, sign, senseVars, ePc, holder, assigned, xHead,
                 car_list, next, alive, levelPtr>>

\* The gate has come down and the bill is written (module ExitLane); then
\* node_delete unlinks and frees the node of plate p, and returns a head.
MgrUnlink(x) ==
  /\ x \notin gateUp
  /\ ExitAt(x, "gate", "store")
  /\ LET p == outCar[x]
     IN  /\ crashed' = Strays(p)
         /\ xHead' = [xHead EXCEPT ![x] =
                        IF Finds(p) /\ car_list = p THEN next[p] ELSE car_list]
         /\ alive' = alive \ (Chain \cap {p})
         /\ next' = [n \in Cars |->
                       CASE ~Finds(p) -> next[n]
                         [] Finds(p) /\ n = p -> NoCar
                         [] Finds(p) /\ n # p ->
                              IF n \in Chain /\ next[n] = p
                              THEN next[p] ELSE next[n]]
  /\ outCar' = [outCar EXCEPT ![x] = NoCar]
  /\ Edit
  /\ UNCHANGED <<simPc, inCar, inside, leaving, outPc, shmVars, ePc, holder,
                 assigned, countVars, car_list, levelPtr>>

\* Mutant: what node_delete returned is not stored.
MgrStoreNothing(x) ==
  /\ ExitAt(x, "store", "wait")
  /\ xHead' = [xHead EXCEPT ![x] = NoCar]
  /\ UNCHANGED <<simVars, shmVars, ePc, holder, assigned, countVars,
                 listVars, crashed>>

\* car_list = what node_delete returned, whatever it has become since.
MgrStore(x) ==
  /\ ExitAt(x, "store", "wait")
  /\ car_list' = xHead[x]
  /\ xHead' = [xHead EXCEPT ![x] = NoCar]
  /\ UNCHANGED <<simVars, shmVars, ePc, holder, assigned, countVars,
                 next, alive, levelPtr, raced, crashed>>

-----------------------------------------------------------------------------
(* The manager's level threads.                                            *)

\* Whichever level woke it, the thread reads the last level's plate and
\* points that vehicle's level to its own variable, the last level.
MgrSenseLevel ==
  /\ ~crashed
  /\ sensing
  /\ sensing' \in BOOLEAN
  /\ levelPtr' = IF Finds(topPlate)
                 THEN [levelPtr EXCEPT ![topPlate] = LevelThreads]
                 ELSE levelPtr
  /\ crashed' = Strays(topPlate)
  /\ Search
  /\ UNCHANGED <<simVars, rung, sign, gateUp, topPlate, laneVars, countVars,
                 car_list, next, alive>>

-----------------------------------------------------------------------------

EntranceStep(e) ==
  \/ \E c \in Cars : SimArrive(e, c)
  \/ SimReadSign(e)
  \/ SimDriveIn(e)
  \/ MgrLookUp(e)
  \/ MgrCountIn(e)
  \/ MgrNoRoom(e)
  \/ MgrShow(e)
  \/ MgrLink(e)

ExitStep(x) ==
  \/ \E c \in leaving : SimAtExit(x, c)
  \/ SimDriveOut(x)
  \/ MgrCountOut(x)
  \/ MgrUnlink(x)
  \/ MgrStore(x)

Next ==
  \/ \E e \in Entrances : EntranceStep(e)
  \/ \E x \in Exits : ExitStep(x)
  \/ \E p \in inside : SimLeave(p)
  \/ MgrSenseLevel

Spec == Init /\ [][Next]_vars

-----------------------------------------------------------------------------

TypeOK ==
  /\ simPc \in [Entrances -> {"pop", "asking", "entering"}]
  /\ inCar \in [Entrances -> Cars \cup {NoCar}]
  /\ inside \subseteq Cars \X Levels
  /\ leaving \subseteq Cars
  /\ outPc \in [Exits -> {"pop", "atGate"}]
  /\ outCar \in [Exits -> Cars \cup {NoCar}]
  /\ rung \subseteq Entrances \cup Exits
  /\ sign \in [Entrances -> Levels \cup {Unset, Banned, Full}]
  /\ gateUp \subseteq Entrances \cup Exits
  /\ topPlate \in Cars \cup {NoCar}
  /\ sensing \in BOOLEAN
  /\ ePc \in [Entrances -> {"wait", "count", "show", "link"}]
  /\ holder \in [Entrances -> Cars \cup {NoCar}]
  /\ assigned \in [Entrances -> Levels]
  /\ xPc \in [Exits -> {"wait", "gate", "store"}]
  /\ xHead \in [Exits -> Cars \cup {NoCar}]
  /\ m_counter \in Int
  /\ level_tracker \in [Levels -> 0 .. LEVEL_CAPACITY]
  /\ car_list \in Cars \cup {NoCar}
  /\ next \in [Cars -> Cars \cup {NoCar}]
  /\ alive \subseteq Cars
  /\ levelPtr \in [Cars -> Entrances \cup {LevelThreads}]
  /\ raced \in BOOLEAN
  /\ crashed \in BOOLEAN

\* A lane's two threads are where they can be at the same time: nobody has
\* gone on to the next car while the other is still busy with this one, and a
\* level on the sign, or a raised gate, is there for an allowed car that was
\* looked up (thf_entr with entrance_lpr, thf_exit with exit_lpr).
EntranceInStep(e) ==
  /\ simPc[e] = "pop" => /\ inCar[e] = NoCar /\ sign[e] = Unset
                         /\ ePc[e] = "wait" /\ e \notin rung \cup gateUp
  /\ simPc[e] # "pop" => inCar[e] \in Cars
  /\ simPc[e] = "entering" => sign[e] \in Levels
  /\ e \in rung => ePc[e] = "wait" /\ e \notin gateUp /\ sign[e] = Unset
  /\ ePc[e] # "wait" => /\ e \notin gateUp
                        /\ holder[e] = inCar[e] /\ inCar[e] \in Allowed
  /\ ePc[e] \in {"count", "show"} => sign[e] = Unset
  /\ ePc[e] = "link" => sign[e] \in Levels
  /\ e \in gateUp => sign[e] \in Levels /\ inCar[e] \in Allowed
  /\ sign[e] \in Levels => ePc[e] = "link" \/ e \in gateUp

ExitInStep(x) ==
  /\ outPc[x] = "atGate" => /\ outCar[x] \in Cars
                            /\ x \in rung \cup gateUp \/ crashed
  /\ x \in rung => outPc[x] = "atGate" /\ xPc[x] = "wait" /\ x \notin gateUp
  /\ x \in gateUp => outPc[x] = "atGate" /\ xPc[x] = "gate"

LanesInStep ==
  /\ \A e \in Entrances : EntranceInStep(e)
  /\ \A x \in Exits : ExitInStep(x)

\* A car is in one place: at one entrance, on one level, in the exit queues
\* or at one exit (the creator's check of sim_cars, and what each thread
\* takes from and puts into the others' lists).
OnePlace ==
  /\ \A p, q \in inside : p[1] = q[1] => p = q
  /\ InsideCars \cap leaving = {}
  /\ \A e \in Entrances : simPc[e] # "pop" =>
        /\ inCar[e] \notin InsideCars \cup leaving \cup AtExitGates
        /\ \A f \in Entrances \ {e} : inCar[e] # inCar[f]
  /\ \A x \in Exits : outPc[x] = "atGate" =>
        /\ outCar[x] \notin InsideCars \cup leaving
        /\ \A y \in Exits \ {x} : outPc[y] = "atGate" => outCar[x] # outCar[y]

\* No lane's manager is ever busy with another car than its simulator, and no car
\* is at two lanes, or in a queue and at a lane, at once.
CarsInStep == LanesInStep /\ OnePlace

\* The car at entrance e has been counted in: the manager is past the count
\* for it, and the simulator has not parked it yet.
CountedAt(e) == ePc[e] \in {"show", "link"} \/ e \in gateUp

\* The cars that count as being in the car park.
Counted ==
  {inCar[e] : e \in {f \in Entrances : CountedAt(f)}}
  \cup InsideCars \cup leaving
  \cup {outCar[x] : x \in {y \in Exits : y \in rung}}

\* m_counter is the number of cars that were admitted and have not set off an
\* exit's LPR: no car is counted twice or missed, whatever the threads'
\* order (entrance_lpr, exit_lpr).
CountIsExact == m_counter = Cardinality(Counted)

\* A car is counted out when it sets off the exit's LPR, before it is through
\* the gate, so a car can come in on its place: the cars that are really in
\* the car park exceed "number of levels * the number of cars per level"
\* (manager.h) by one per exit at most (exit_lpr).
CapacityKept ==
  Cardinality(InsideCars \cup leaving \cup AtExitGates)
     <= Capacity + Cardinality(Exits)

\* A car that comes in was allowed, and was counted before its gate opened.
OnlyAllowedInside == InsideCars \cup leaving \subseteq Allowed

\* Only allowed cars take places, and hardly more than there are.
PlacesAreKept == CapacityKept /\ OnlyAllowedInside

\* "The manager also needs to keep track of how full the individual levels are"
\* (manager.h): once the car park is empty, so are the levels.
EmptyLevelsWhenNoCars ==
  m_counter = 0 => \A l \in Levels : level_tracker[l] = 0

\* "Monitor the status of the LPR sensors and keep track of where each car is
\* in the car park" (manager.h): a car that is inside is in car_list.
ListKnowsInside == \A c \in InsideCars : Finds(c)

\* The cars that the manager keeps a vehicle for: from node_add to node_delete.
Listed ==
  {inCar[e] : e \in Entrances \cap gateUp} \cup InsideCars \cup leaving
  \cup {outCar[x] : x \in {y \in Exits : y \in rung \/ xPc[y] = "gate"}}

\* As long as no thread meets another at car_list, the list has the vehicle of each
\* car from its entrance to its bill, and no other, and no pointer is bad: what
\* goes wrong with it goes wrong because it has no lock (manager.c:168, 268).
ListIsKept ==
  ~raced => ~crashed /\ (Deleting = {} => Chain \ {NoCar} = Listed)

Lot == INSTANCE ParkingLot WITH counted <- Counted

\* The threads together do what ParkingLot promises.
ImplementsParkingLot == Lot!Spec

\* The level that the car at entrance e has been admitted to, if it has been.
Verdict(e) == IF CountedAt(e) THEN assigned[e] ELSE -1

Admission == INSTANCE AdmissionLane
               WITH Lanes <- Entrances, asking <- inCar, parked <- inside,
                    verdict <- [e \in Entrances |-> Verdict(e)]

\* All entrances together do what AdmissionLane promises: whatever the other
\* threads do to the count and the list meanwhile, an allowed car that was counted
\* in goes in, to the level that was assigned to it, and no other car does
\* (entrance_lpr, car_count, thf_entr).
ImplementsAdmission == Admission!Spec
=============================================================================
