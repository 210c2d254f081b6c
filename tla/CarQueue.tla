------------------------------ MODULE CarQueue ------------------------------
(***************************************************************************)
(* The life of a car in the simulator: made by thf_creator, queued at an   *)
(* entrance, driven in by thf_entr or turned away, inside, taken out by    *)
(* thf_inside, queued at an exit, driven out by thf_exit.  A queue is a    *)
(* linked list to whose head the cars are pushed and in which node_pop     *)
(* clears the last car's node, but leaves the node.  All entrances share   *)
(* eq_lock and eq_cond, all exits exq_lock and exq_cond, and a new car     *)
(* signals one of those who wait.                                          *)
(***************************************************************************)
EXTENDS Naturals, Sequences

CONSTANTS Entrances, Exits, Cars,
          NoCar, NoLane, \* no car, no lane
          MaxNodes       \* bound: nodes of each queue; the code's grows for ever

Lanes == Entrances \cup Exits

ASSUME QueueAssumption ==
  /\ NoCar \notin Cars /\ NoLane \notin Lanes
  /\ Entrances \cap Exits = {} /\ MaxNodes \in [Lanes -> Nat]

Producers == {"creator", "inside"}

\* The lanes whose queues producer p fills, and whose condition it signals.
Ends == [creator |-> Entrances, inside |-> Exits]

VARIABLES queue,   \* per lane: the cars of its nodes from the head, newest first
          point,   \* per lane: where its thread is
          held,    \* per lane: popped_car
          load,    \* per producer: the car that it has yet to queue
          rings,   \* per producer: the lane whose car it has yet to signal
          simCars, \* sim_cars_head: the cars in the simulation
          inside,  \* inside_list
          robbed   \* history: lanes that wait while their signal woke another

laneVars == <<point, held>>
carVars == <<simCars, inside>>
vars == <<queue, laneVars, load, rings, carVars, robbed>>

\* A queue starts as one node without a car.
Init ==
  /\ queue = [l \in Lanes |-> <<NoCar>>]
  /\ point = [l \in Lanes |-> "test"]
  /\ held = [l \in Lanes |-> NoCar]
  /\ load = [p \in Producers |-> NoCar]
  /\ rings = [p \in Producers |-> NoLane]
  /\ simCars = {} /\ inside = {} /\ robbed = {}

-----------------------------------------------------------------------------
(* Linked lists.                                                           *)

NodePush(list, c) == <<c>> \o list

\* Where node_pop finds the last car: the second node has none, or the first
\* node whose next but one has none is before it.
LastCar(list) ==
  IF list[2] = NoCar THEN 1
  ELSE CHOOSE k \in 2..Len(list) - 1 : list[k + 1] = NoCar /\ \A j \in 3..k : list[j] # NoCar

NodePop(list) == [list EXCEPT ![LastCar(list)] = NoCar]

-----------------------------------------------------------------------------
(* The threads that make cars queue.                                       *)

Idle(p) == load[p] = NoCar /\ rings[p] = NoLane

\* thf_creator: a car with a plate that no other car in the simulation has.
CreatorMake(c) ==
  /\ Idle("creator")
  /\ c \notin simCars
  /\ simCars' = simCars \cup {c}
  /\ load' = [load EXCEPT !["creator"] = c]
  /\ UNCHANGED <<queue, laneVars, rings, inside, robbed>>

\* Mutant: the car is not deleted from inside_list.
InsideTakeUndeleted(c) ==
  /\ Idle("inside")
  /\ c \in inside
  /\ load' = [load EXCEPT !["inside"] = c]
  /\ UNCHANGED <<queue, laneVars, rings, carVars, robbed>>

\* thf_inside: a car whose time is up.
InsideTake(c) ==
  /\ Idle("inside")
  /\ c \in inside
  /\ inside' = inside \ {c}
  /\ load' = [load EXCEPT !["inside"] = c]
  /\ UNCHANGED <<queue, laneVars, rings, simCars, robbed>>

\* Mutant: nobody is told of the car.
PushQuietly(p, l) ==
  /\ load[p] # NoCar /\ l \in Ends[p]
  /\ Len(queue[l]) < MaxNodes[l]
  /\ queue' = [queue EXCEPT ![l] = NodePush(@, load[p])]
  /\ load' = [load EXCEPT ![p] = NoCar]
  /\ UNCHANGED <<laneVars, rings, carVars, robbed>>

Push(p, l) ==
  /\ load[p] # NoCar /\ l \in Ends[p]
  /\ Len(queue[l]) < MaxNodes[l]
  /\ queue' = [queue EXCEPT ![l] = NodePush(@, load[p])]
  /\ load' = [load EXCEPT ![p] = NoCar]
  /\ rings' = [rings EXCEPT ![p] = l]
  /\ UNCHANGED <<laneVars, carVars, robbed>>

Waiting(p) == {l \in Ends[p] : point[l] = "wait"}

\* pthread_cond_signal wakes one of those who wait, whoever it is.
Signal(p, l) ==
  /\ rings[p] # NoLane /\ l \in Waiting(p)
  /\ point' = [point EXCEPT ![l] = "test"]
  /\ robbed' = (robbed \cup {r \in Waiting(p) : r = rings[p]}) \ {l}
  /\ rings' = [rings EXCEPT ![p] = NoLane]
  /\ UNCHANGED <<queue, held, load, carVars>>

SignalNobody(p) ==
  /\ rings[p] # NoLane /\ Waiting(p) = {}
  /\ rings' = [rings EXCEPT ![p] = NoLane]
  /\ UNCHANGED <<queue, laneVars, load, carVars, robbed>>

-----------------------------------------------------------------------------
(* thf_entr and thf_exit.                                                  *)

\* Mutant: the wait without the test of the queue before it.
LaneWaitUntested(l) ==
  /\ point[l] = "test"
  /\ point' = [point EXCEPT ![l] = "wait"]
  /\ UNCHANGED <<queue, held, load, rings, carVars, robbed>>

LaneWait(l) ==
  /\ point[l] = "test" /\ queue[l][1] = NoCar
  /\ point' = [point EXCEPT ![l] = "wait"]
  /\ UNCHANGED <<queue, held, load, rings, carVars, robbed>>

\* Mutant: the head of the list is popped, not its last car.
LanePopHead(l) ==
  /\ point[l] = "test" /\ queue[l][1] # NoCar
  /\ held' = [held EXCEPT ![l] = queue[l][1]]
  /\ queue' = [queue EXCEPT ![l] = Tail(@)]
  /\ point' = [point EXCEPT ![l] = "serve"]
  /\ UNCHANGED <<load, rings, carVars, robbed>>

LanePop(l) ==
  /\ point[l] = "test" /\ queue[l][1] # NoCar
  /\ held' = [held EXCEPT ![l] = queue[l][LastCar(queue[l])]]
  /\ queue' = [queue EXCEPT ![l] = NodePop(@)]
  /\ point' = [point EXCEPT ![l] = "serve"]
  /\ UNCHANGED <<load, rings, carVars, robbed>>

\* The car is out of the lane's hands at point b.
Release(l, b) ==
  /\ point[l] = "serve"
  /\ held' = [held EXCEPT ![l] = NoCar]
  /\ point' = [point EXCEPT ![l] = b]
  /\ UNCHANGED <<queue, load, rings, robbed>>

\* The car joins inside_list, then the gate comes down.
EntranceAdmit(l) ==
  /\ l \in Entrances /\ Release(l, "close")
  /\ inside' = inside \cup {held[l]} /\ UNCHANGED simCars

EntranceRefuse(l) ==
  /\ l \in Entrances /\ Release(l, "test")
  /\ simCars' = simCars \ {held[l]} /\ UNCHANGED inside

\* destroy_car, then the gate comes down.
ExitLetOut(l) ==
  /\ l \in Exits /\ Release(l, "close")
  /\ simCars' = simCars \ {held[l]} /\ UNCHANGED inside

LaneClose(l) ==
  /\ point[l] = "close"
  /\ point' = [point EXCEPT ![l] = "test"]
  /\ UNCHANGED <<queue, held, load, rings, carVars, robbed>>

\* A wait that returns by itself.
Wake(l) ==
  /\ point[l] = "wait"
  /\ point' = [point EXCEPT ![l] = "test"]
  /\ robbed' = robbed \ {l}
  /\ UNCHANGED <<queue, held, load, rings, carVars>>

-----------------------------------------------------------------------------

LaneStep(l) ==
  \/ LaneWait(l) \/ LanePop(l) \/ EntranceAdmit(l) \/ EntranceRefuse(l)
  \/ ExitLetOut(l) \/ LaneClose(l)

SignalStep(p) == SignalNobody(p) \/ \E l \in Lanes : Signal(p, l)

Next ==
  \/ \E c \in Cars : CreatorMake(c) \/ InsideTake(c)
  \/ \E p \in Producers : SignalStep(p) \/ \E l \in Lanes : Push(p, l)
  \/ \E l \in Lanes : LaneStep(l) \/ Wake(l)

Spec == Init /\ [][Next]_vars

FairSpec ==
  /\ Spec
  /\ \A l \in Lanes : WF_vars(LaneStep(l))
  /\ \A p \in Producers : WF_vars(SignalStep(p))

-----------------------------------------------------------------------------

\* How many nodes of a list have a car; the cars behind them, oldest first.
Count(list) == CHOOSE n \in 0..Len(list) - 1 : \A i \in 1..Len(list) : list[i] # NoCar <=> i <= n

CarsOf(list) == [i \in 1..Count(list) |-> list[Count(list) + 1 - i]]

Fifo == INSTANCE FifoLanes WITH waiting <- [l \in Lanes |-> CarsOf(queue[l])], serving <- held

\* The places that a car can be in.
Places ==
  ({"queue", "held"} \X Lanes) \cup ({"load"} \X Producers) \cup {<<"inside", "list">>}

InQueue(c, l) == \E i \in 1..Len(queue[l]) : queue[l][i] = c

IsAt(c, x) ==
  \/ x[1] = "queue" /\ InQueue(c, x[2])
  \/ x[1] = "held" /\ held[x[2]] = c
  \/ x[1] = "load" /\ load[x[2]] = c
  \/ x[1] = "inside" /\ c \in inside

OnePlaceEach ==
  \A c \in Cars :
    IF c \in simCars THEN \E x \in Places : \A y \in Places : IsAt(c, y) <=> y = x
    ELSE \A x \in Places : ~IsAt(c, x)

OneNodeEach ==
  \A l \in Lanes : \A i, j \in 1..Len(queue[l]) :
    queue[l][i] = queue[l][j] /\ queue[l][i] # NoCar => i = j

-----------------------------------------------------------------------------

\* Every variable keeps its type; a lane has a car just while it serves it.
TypeOK ==
  /\ queue \in [Lanes -> Seq(Cars \cup {NoCar})]
  /\ point \in [Lanes -> {"test", "wait", "serve", "close"}]
  /\ held \in [Lanes -> Cars \cup {NoCar}]
  /\ \A l \in Lanes : held[l] # NoCar <=> point[l] = "serve"
  /\ load \in [Producers -> Cars \cup {NoCar}]
  /\ rings \in [Producers -> Lanes \cup {NoLane}]
  /\ simCars \subseteq Cars /\ inside \subseteq Cars /\ robbed \subseteq Lanes

\* A car on its way through lists, threads and lanes (node_push, node_pop,
\* snode_delete) is neither lost nor doubled: one that is in sim_cars is in one
\* place and in one node there, and one that is not is nowhere.
EveryCarOnce == OnePlaceEach /\ OneNodeEach

\* A lane asleep over a car (simulator.c:671, 831) was asleep when the car came,
\* and the car's signal is still to come or has woken another lane.
SleepsOnlyIfRobbed ==
  \A p \in Producers : \A l \in Waiting(p) :
    queue[l][1] # NoCar => l \in robbed \/ rings[p] = l

\* Each lane serves its cars in the order in which they came, whatever nodes
\* node_pop (simulator.c:66-93) leaves in the list.
ImplementsFifo == Fifo!Spec

\* A lane with cars in its queue serves the next one, unless the signal for one
\* of them wakes another lane (thf_creator's and thf_inside's
\* pthread_cond_signal).
CarsAreServed ==
  \A l \in Lanes : queue[l][1] # NoCar ~> point[l] = "serve" \/ l \in robbed
=============================================================================
