# A TLA+ model of the car park

The repository holds three programs that share one memory segment
(`PARKING.h`): the **simulator** (`simulator.c`), which plays the cars and the
hardware, the **manager** (`manager.c`), which runs the car park, and the **fire
alarm** (`firealarm.c`). Everything they agree on passes through that segment:
per entrance a licence plate reader (LPR), a boom gate and a sign, per exit an
LPR and a gate, per level an LPR, a temperature and an alarm flag. Each device
but the last two has a process-shared mutex and condition variable.

This directory models the programs in TLA+, checks the models with TLC and
proves what matters most with TLAPS.

## Inventory

| Part | State | Operations | Talks to |
| --- | --- | --- | --- |
| Simulator, entrances (`thf_entr`) | its queue, `popped_car`, `assigned_lvl` | pop a car, ring the LPR, wait at the sign, drive through the gate, ring the level's LPR, join `inside_list` | entrance's LPR, sign, gate |
| Simulator, levels (`thf_inside`) | `inside_list` | pick a car whose time is up, ring the level's LPR, queue it at an exit | level LPR, exit queues |
| Simulator, exits (`thf_exit`) | its queue, `popped_car` | pop, ring, drive through the gate, leave the simulation | exit's LPR, gate |
| Simulator, creation (`thf_creator`) | `sim_cars_head`, entrance queues | make a car with a plate nobody has, queue it | entrance queues |
| Simulator, temperatures and user (`thf_temp`, `rate_of_rise`, `fixed_temp`, `check_user_input`, `main`) | temperatures, alarm flag of level 0 | drift, simulate a fire, end | levels, all gates (`thf_boomAlarm`) |
| Manager, entrances (`entrance_lpr`) | `holder`, `assign_level` | wait at the LPR, look the plate up, count the car in, show a level or 'F' or 'X', add a vehicle, `m_sim_gates` | `m_counter`, `level_tracker`, `car_list` |
| Manager, levels (`level_lpr`) | `holder` | wait at the LPR, point the vehicle's level here | `car_list` |
| Manager, exits (`exit_lpr`, `money`) | `find` | wait at the LPR, count the car out, `m_sim_gates`, bill, delete the vehicle | the same, revenue file |
| Manager, display and `main` | - | print; start threads; wait for an alarm | reads everything |
| Fire alarm, monitors (`tempmonitor`) | last 5 temperatures, last 30 medians | sample, smooth, detect, broadcast | level temperature, `alarm_active` |
| Fire alarm, control (`main`, `thf_check`, `emergency_mode`, `evac_msg`, `openboomgate`) | `alarm_active`, `alarm_mutex`, `alarm_condvar` | wait for a fire or the end, raise all alarms, open all gates, show EVACUATE | alarm flags, gates, signs |

What makes it hard:

* Nearly every wait is a `pthread_cond_wait` with no predicate. A broadcast that
  comes before the wait is lost; sleeps of a few milliseconds are all that makes
  that unlikely. A wait that returns by itself reads what was left for another car.
* The gate is a four-state protocol (`C`, `R`, `O`, `L`) moved by two programs in turn,
  and by four threads of three programs in a fire.
* Entrances and exits share `m_counter` and `level_tracker` under `car_park_lock`,
  but `car_list` under nothing, and a vehicle's level is a pointer to a thread's
  local variable. The file that the bills go to is one global handle for all exits.
* The simulator's queues share one condition variable for all entrances and one for
  all exits, and a new car signals it once.
* Times are kept in 16 bits in places and in 64 in others.
* The alarm cuts across everything: threads are cancelled wherever they are,
  mutexes are unlocked by those who do not hold them.

`PROJECT.json` lists the hazards one by one, each at its line.

What makes each part correct:

* a lane (entrance or exit): the plate, the sign and the gate belong to one car at
  a time; the gate is not shut on a car; every car is served and billed;
* the car park: the counter is exact, the capacity is kept, only listed cars get
  in, and every car inside is in the list;
* the queues: a car is in one place, first in first out, and no lane sleeps over a car;
* time and money: a car stays as long as it should, and each stay is billed once, by
  its length;
* the alarm: a fire is detected and answered, only a fire is, the gates open, and the
  programs end.

## Modules

| Module | What it is |
| --- | --- |
| `AdmissionLane` | what the entrances promise: ask, admit or turn away, enter |
| `EntranceLane` | the two threads of one entrance; implements `AdmissionLane` with one lane |
| `DepartureLane` | what an exit promises: depart, bill, forget |
| `ExitLane` | the two threads of one exit; implements `DepartureLane` |
| `ParkingLot` | what the manager promises about the whole: count in with room, count out once |
| `CarPark` | all lanes and level threads on the shared counter and the shared list; implements `ParkingLot`, and `AdmissionLane` with all entrances |
| `TempMonitor` | the monitor of one level: samples, medians, detection |
| `FireAlarm` | the fire alarm's control threads, and the simulator's user |
| `Emergency` | a gate's threads in a fire: the lanes', `openboomgate`, `thf_boomAlarm`; the simulator's `main` and creator |
| `FifoLanes` | what the simulator's queues promise: cars wait and are served in their order |
| `CarQueue` | the life of a car through creator, queues, lanes and `thf_inside`; implements `FifoLanes` |
| `Billing` | the clocks, arrival and leaving times, and the revenue file |
| `MC*` | constants for TLC |
| `*_proofs` | the theorems and their proofs |

### EntranceLane and ExitLane

One program counter per thread. A critical section without a wait inside is one
step, a broadcast after the unlock a step of its own, and "in `pthread_cond_wait`"
a point of its own, since a broadcast only moves a thread that is there. The
history variable `lapses` records whether a broadcast found nobody (`"lost"`) or
a wait returned by itself (`"spurious"`); no action's guard reads it. The sleeps
are not modelled: any delay can happen. The gate's waits loop over the status and
are guards.

`EntranceLane` leaves the decision open (an allowed car may be admitted to any
level, find the car park full, or its plate in the list); `CarPark` decides it.
`ExitLane` has the environment bring cars in, and keeps the LPR's mutex, which
`exit_lpr` holds across the gate, the bill and the deletion.

`ServiceGetsOn` is what both owe to the way their threads wait for each other, without
any fairness. Its first half says that until a wake-up goes astray one of the two can
move, unless the lane is at rest; its second that each step of theirs but `SimPop` makes
`Way`, a number, smaller. No service can then be stuck or go round in circles, and
fairness has only to make the threads take their steps for `EveryCarServed` and
`EveryCarLeaves`. `SimCanMove` and `MgrCanMove` are the guards of the threads' steps
in words of their own, since the provers do not take `ENABLED`.

### CarPark

The handshake of a lane is a rendezvous here: `rung` is an LPR that went off, the
sign goes back to `Unset` when its car has gone, `gateUp` is a raised gate. That
abstraction is what the two lane modules justify; a lane that lost a wake-up is
one that takes no more steps; nor do the waits at an LPR (`manager.c:136, 253`) return by
themselves, which is modelled there. `node_find_lp`'s walk over the list is one step, without
the writes that another thread could make during it. What the threads share is modelled as it is:
`m_counter` and `level_tracker` under `car_park_lock` (one step), `car_list` as a
heap with next pointers and freed nodes, read and stored in separate steps,
`vehicle->level` as the name of the variable it points to. `node_find_lp` that
meets a freed node, and a null vehicle at the exit, end the manager (`crashed`).

`raced` is the history of threads that met at the list: one searched it or edited it
between another's `node_delete` and the store of its result, or one edited it between
another's `node_add` and its store. No guard reads it. `ListIsKept` says that the list is
right until then, so that the missing lock is all that is wrong with it. `Chain`, the
nodes that a search meets, is what every set that is closed under the next pointers of
allocated nodes and has the head in it has in common.

Left out: the bytes of a plate and the null byte that `strcpy` puts behind
`holder`, malloc failures, the start-up window in which `new_level` still changes.

### TempMonitor

One level's `tempmonitor` and its surroundings: the level's temperature moves to
another of `Temps` (at most `MaxChanges` times, the one bound), its alarm flag to
`1` or `e`, at any moment. The lists are newest first, as in the code; a sample is
one step, since nobody else sees `templist` and `medianlist`. The sort is modelled
by what its middle element is. `sorttemp[0]`, which the code never writes, is any
member of `Garbage`; the sample that goes to `sorttemp[5]`, past the array, is
not sorted. `readings` is a history of the samples behind the kept medians, for
the properties only. What the model says of the window holds for any length;
the code's is 30.

### FireAlarm

`main` with `emergency_mode`, `thf_check`, each level's monitor, each sign's
`evac_msg`, and the simulator's main thread. `alarm_mutex` is a boolean without an
owner, because `evac_msg` unlocks it before it has locked it and returns holding it.
`pthread_cond_wait` is three points: waiting, woken and not yet holding the mutex,
and past it. A broadcast moves `main` only if it is waiting; one that comes before
`main` waits for the first time is recorded in `lapses`, as is a wait that returns
by itself. What the monitor computes is `TempMonitor`'s matter: here a level is
`cool`, `burning`, or `hot` once its monitor rings at every sample. What
`openboomgate` and `thf_boomAlarm` do to a gate is left out: `gatesUp` comes true
once both programs have started their threads. `FireIsNotSlept` follows a fire until its
alarms are on: although every wait is bare and one flag serves all levels, `main` is on its
way, or every monitor is still there to ring. `Emergency` has the gates, and the
ways in which these threads do not come back. The simulator returns to its user
after that, so that several fires and an end can follow each other. In a second fire
`SimJoinGates` is possible at once, since the gates are up, whereas `thf_boomAlarm` waits at
a gate that is open already (`simulator.c:874`): `Emergency` has that.

### Emergency

One gate after the other has a mutex with an owner, and up to four threads: the
simulator's lane (in `sim_gates`), the manager's lane (in `m_sim_gates`), the fire
alarm's `openboomgate` and, once `main` has cancelled the lane, `thf_boomAlarm`. A
thread that sleeps with the mutex has a point for it (`raising`, `lowering`, `hold`);
a critical section without a sleep is one step. `main` starts a fire, waits for the
alarm, cancels, unlocks every gate's mutex *whoever has it*, creates, joins and is back
at the keyboard, one gate at a time in each loop. `forced` is the history of the gates
whose mutex it took from an owner. A cancelled thread ends at its next sleep, leaving the
mutex as it is, or in its wait, where it takes the mutex first and keeps it (`dying`, `dead`).
The manager's alarm loop (`manager.c:547`) has a condition that is always true, so its
lanes run on. The creator is there for `rand_lock`, which it holds in its sleep and
`main` needs to choose a level for the fire.

`NobodyLeftWaiting` relates the waits to the status: at each moment who tests the
status before it waits still waits for what is not so, or a broadcast is on its way; and a
gate's mutex is free, or with a thread whose next step gives it back, or lost in one of the
two ways of `Stuck`, named below.

Left out: the LPRs' and signs' mutexes that `main` unlocks too, cancelling a thread a
second time (whose effect is undefined), and what `FireAlarm` models.

What the model shows of the code besides the run for a violation, and what the
properties have as exceptions: a lane, cancelled and not joined, can take the mutex after
`main`'s unlock and end with it in a sleep or a wait (`simulator.c:986, 997`), and
`openboomgate` can lock it twice (`firealarm.c:168`): nobody moves that gate again
(`Stuck`). `openboomgate` can miss the broadcast between its unlock and its wait
(`firealarm.c:169`). `thf_boomAlarm` waits for ever for a gate that is open already, and
for one that `openboomgate` saw open and the manager has shut since; then `main` never
returns to its user. After `main` has taken a mutex from the manager, two threads can
be inside, and a gate may be shut for good. The creator, cancelled in its sleep, keeps
`rand_lock` (`simulator.c:548-551`), and the next fire that the user asks for hangs
`main` (`simulator.c:335, 361`).

### CarQueue and FifoLanes

A lane's queue is the linked list as `node_push` and `node_pop` leave it: new cars in
front, the last car's node emptied but not unlinked, so that after *n* cars there are
*n* empty nodes and more behind the first ones. `LastCar` is `node_pop`'s walk. All the
lists of one kind are under one mutex and one condition variable, and
`pthread_cond_signal` wakes one of those who wait, or nobody. `robbed` is the history
of lanes that were asleep when the signal for their car woke another lane; no guard reads
it. `MaxNodes` bounds the lists, which in the code grow for ever.

A lane that has popped a car serves it and comes back: that it does is what
`EntranceLane` and `ExitLane` are about. The queues' first nodes come from `malloc` and
their `car` is never set; the model has it null, as in a fresh heap. `exq_lock` and
`exq_cond` are never initialised; zeroed storage is what their initialisers give. The
creator's walk over `sim_cars`, after it has unlocked the list, is taken as finding
every plate; that it may read a freed node is left out.

### Billing

`elapsed` is each program's clock, which `thf_time` only moves on. `exit_time`
(`simulator.h:15`) and `arrival` (`linked_list.h:13`) are kept modulo 2^16 and compared
with, or subtracted from, the 64-bit clock as they are. `comp_times` is the first car in
`inside_list` whose time is up. In `money`, `fopen`, the reading of the clock, `fprintf` and
`fclose` are a step each, with one stream that `fp` points to, its buffer and the file.
Another exit's `fopen` in between leaves the first stream open for good, with its lines;
a use of a stream that the other exit has closed is undefined, modelled as losing the line
or ending the manager (`crashed`). `visit`, `came`, `due`, `stay` and `mixed` are histories.
Left out: the rate and the text of a line, and the vehicle that was not found (`CarPark`,
`ExitLane`).

A car's arrival does not fit in 16 bits from 65.5 seconds on, and what it is billed is then
its stay and 2^16 ms more for each wrap by the time it came: not what `manager.h:42-43`
asks for, "how long each car has been in the parking lot". `BillsAreRight` therefore speaks
of the cars that came before; their stay may go past the wrap. `Right` in `Billing_proofs`
has the whole of it, as part of the invariant.

## Runs

`PROJECT.json` lists them; each `.cfg` gives the bounds.

| Run | Instance | Shows |
| --- | --- | --- |
| `entrance` | 3 cars, 2 allowed, 2 levels, 3 entrances' digits | the handshake, the verdict, the gate, no deadlock, refinement of `AdmissionLane`, progress |
| `exit` | 3 cars | the handshake, plate and bill, no deadlock, refinement of `DepartureLane`, progress |
| `car_park` | 4 cars, 3 allowed, 2 entrances, 1 exit, 1 level, 1 place | the counter, the capacity, who gets in, the list until threads meet at it, refinement of `ParkingLot` and `AdmissionLane` |
| `car_park_tracker` (violation) | 2 cars, 3 levels of 2 | `level_tracker` stays above zero in an empty car park (`manager.h:37-38`) |
| `car_park_list` (violation) | 2 cars, 2 entrances, 1 exit | the unlocked list loses a vehicle (`manager.h:18-19`) |
| `temp_monitor` | window 10, temperatures 51, 58, 59, 2 changes, 3 uninitialised values | how far a median can be off, no false alarm, which heat is surely called, progress |
| `fire_alarm` | 2 levels, 1 sign | a fire is answered and at no time slept through, nothing else is answered, the mutex serves as long as it must |
| `fire_alarm_end` (violation) | 2 levels, 2 signs | the end of the simulation is taken for a fire (`firealarm.c:3-4`) |
| `emergency` | 1 gate | who sleeps with the mutex keeps it, no lost wake-up or mutex but those of the code, the gate's order, that it opens and the fire's thread returns, that a fire starts, each with the code's exceptions |
| `emergency_gate` (violation) | 1 gate | a gate is not open when `simulator.c:1040` says that all are |
| `car_queue` | 2 entrances, 1 exit, 3 cars; lists of 4, 2 and 2 nodes | a car is in one place, refinement of `FifoLanes`, who can sleep over a car, progress |
| `billing` | 2 cars, 3 visits, 2 exits, clocks 0, 60000, 70000, stays 100 and 9999 | the bills' sums for cars that came before the wrap, that they are in the file once, that a car stays until its time |

Three cars are enough for a lane: the one being served, one before it whose traces
(plate, sign, gate) may still be there, and one that comes next; the third level of
detail is that one of them is not on the list. In `car_park` one place and three
allowed cars make the "full" branch, the race for the last place between two
entrances, and the place that an exit gives back too early all happen. The allowed
cars and the entrances are interchangeable, hence the symmetry; the run has no
liveness property. One level is enough for the count and the list, which do not read
it; that a car parks on the level it was assigned says nothing with a single level, and is
there for the theorem, which has any number of them.

Seven modules have `TypeOK` as a theorem of every behaviour and their runs leave it out;
`temp_monitor` checks it, because there it bounds the lists.

In `temp_monitor` 10 is the shortest window in which nine tenths is not all of it;
58 is the threshold, 59 is above it and 51 is 7 degrees below it and 8 below 59, so
that each comparison has both its outcomes; two changes make a dip and a spike. The
uninitialised value is below, between or above all temperatures. In `fire_alarm` two
levels give the one that the user ends (0) and one whose monitor does not know; fires
and the end can come in any order.

One gate is enough in `emergency`: gates share nothing but `main`'s loops, in which a
second gate only adds delay between two steps at the first, and any delay is in the
model already. The theorems are for any set of gates. In `car_queue` two entrances are
what a stolen signal takes; at the first all three cars can wait, so that `node_pop`
takes its first, its second and a later turn in the loop, with an empty node behind
the last car. In `billing` 60000 plus a stay of 9999 is beyond 2^16 = 65536 and plus 100
is not; 70000 is an arrival after a wrap; three visits of two cars make a car come
back after its bill and two exits bill at once.

Deadlock is not checked in these runs because the code does stop: a lane after a
lost wake-up, the manager after a null pointer, a monitor and the fire alarm at
their end, a gate whose mutex is lost, and the bounds of `car_queue` and `billing`.

### Fairness

`FairSpec` has weak fairness on each thread of a lane: a thread that can run
does. No fairness is put on cars arriving or leaving, on spurious wake-ups, or on
anything that needs a sleep to be long enough: progress is claimed *unless a
wake-up was lost or spurious*, which is exactly what the code gives.

`TempMonitor`: weak fairness on the monitor, a loop without waits. `FireAlarm`: strong
fairness on each thread, because a thread that asks for `alarm_mutex` finds it locked
now and then, but free again and again, and gets it in the end. It is also put on
`thf_check`'s test of `alarm_active = 'e'`: between the store and the test, which is
not under the mutex, a monitor can overwrite the flag, but not every time. A fire
fills the monitor's windows in the end. Nothing is assumed of the user, nor that
a wait returns by itself.

`Emergency`: strong fairness on each thread of a gate and on `main`, for the same reason:
the gate's mutex and `rand_lock` are free again and again; weak fairness on the creator,
which needs nobody. `CarQueue`: weak fairness on the lanes and on the signals that
a producer owes; none on the producers' making of cars. `Billing` claims no progress.

## Proofs

All for any cars, levels, entrances, exits and gates, from the constants' assumptions
only (`LaneAssumption`, `ExitAssumption`, `CarParkAssumption`, `QueueAssumption`,
`BillingAssumption` and so on, which say that "no car" is no car and counts are counts).

* `EntranceLane_proofs`: types; `GateOpenOverCar` by itself (only the thread that
  drives the car shuts the gate); then `Handshake`, which is inductive together with
  `TypeOK` and says which points the two threads can be at together. It is needed
  because the claims about one car speak of two threads' variables: that the sign
  was not left from the car before follows only from knowing where the manager is
  when the simulator reads it. `OnlyAdmittedCarPasses` and the refinement follow from
  it. `LapsesStay` (a lapse stays on record) lets every step before the first
  spurious wake-up use it. `ServiceAdvances` rests on `LookedAfterStep` (as long as no
  wake-up went astray, a car in front of the sign has its manager at work on it),
  `SomebodyMoves` (points that keep in step leave one of the two free to move) and `WayDown`
  (one step per action: `Way` gets smaller).
* `ExitLane_proofs`: the same shape; the inductive invariant is `TypeOK`, `Handshake`
  and `InsideIsListed`, since `exit_lpr` crashes unless the vehicle is found. In
  its `ServiceAdvances` the car is one at the shut gate, and who waits for the LPR's mutex
  waits for a manager that can move.
* `CarPark_proofs`: the inductive invariant is types, `CarsInStep` (the lanes' threads are
  in step and a car is in one place) and the exact count; a step changes `Counted` by at
  most one car, and that car is not counted elsewhere because it is in one place.
  `PlacesAreKept` and the refinement of `ParkingLot` follow. None of this depends on
  the list, which may be damaged. The refinement of `AdmissionLane` adds `SignIsAssigned`:
  a level on a sign is the one that was assigned there. `ListKept` is about the list itself. `Chain` is
  defined by the sets closed under `next`, so that no induction over the list's length is
  needed: a node is in it because every closed set has it, and is not because some
  closed set has not (`ReachSame`, `ReachCons`). `ListBesideNode`, `ListPrepended`,
  `ListWithoutHead` and `ListWithoutInner` say what a write beside the list, `node_add`, and
  the two branches of `node_delete` make of a list. `ListInv` then says
  that until a race one thread at most edits (`OneEditor`), that the list is good, with
  the node that is about to be linked in front or with the one that is deleted gone
  (`ListGood`, `NodeReady`), and that a car whose vehicle is deleted is nowhere else.
* `TempMonitor_proofs`: `MiddleOfFour` is the heart: whatever the fifth value is, two
  of the four samples are at or below the middle of the five, and two at or above.
  The inductive invariant `IInv` is types, `Aligned` (the three lists are parts of one
  row of samples: `templist` is the head of `readings`, each median has the samples
  it came from) and `MediansWithinReadings`. The detection properties follow from it
  by counting, for any temperatures, any window and any uninitialised value.
* `FireAlarm_proofs`: for any number of levels and signs. `MutexHolds` says which
  points are inside the critical section, until the signs' threads start and break
  the mutex; by then `AlarmsRaised` makes every flag nonzero, and that is why a monitor
  still stops for its own level only. `NoEndYet`, `WokenForCause` and `DoneForCause`
  trace an emergency and an end back to a fire or the user; `UserWaits` that the
  simulator takes no `e` while its fire has not raised an alarm. `NoneRaised` (no flag is `1`
  before `emergency_mode`) keeps every monitor running until then, and
  `GivenBack` says who has the mutex; `FireNeverSlept` follows from these.
* `Emergency_proofs`: `TypeOK` and `MutexHeld` are inductive together: who is at a point
  that sleeps with the mutex is its owner, every other thread's step that changes the
  status needs the mutex free or its own, and only `main`'s unlock breaks it, which
  `forced` records. `GateMovesInOrder` follows, since the owner's next move starts from
  the status that it saw. `NobodyLeftWaiting` is inductive beside it with `BoomsReady`
  (`main` starts a gate's `thf_boomAlarm` only when there is none). What it needs is that a
  thread which changes the status rings before it waits again, and that one which takes the
  mutex over from an owner, through `main`'s unlock, gives it back itself.
* `CarQueue_proofs`: the lists' shape is the inductive part: cars in front, empty nodes
  behind, at least one of these, so that `LastCar` is the oldest car. With it
  `EveryCarOnce` (a step moves one car from one place to another) and
  `SleepsOnlyIfRobbed` are inductive, and `node_push` and `node_pop` map to `Append`
  and `Tail` of `FifoLanes`.
* `Billing_proofs`: `IInv` is types, `Owners` (a car is in one place, in `inside_list` once,
  and at one exit; its visit's number is its own), `Timed` (`arrival` and `exitTime` are
  `came` and `due` modulo 2^16, `thf_inside`'s reading is not ahead of its clock, and a sum
  not yet printed is the stay and the wraps before it, `Right`), `LinesRight` (so is every line in the buffer and in the file,
  no visit has two, and a visit not yet printed has none) and `OneHasFile` (as long as
  exits did not mix, one exit at most is between `fopen` and `fclose`, `fp` is its stream
  with its line alone, and a visit that is not to be printed has been). It is needed because a line outlives its car's variables:
  that no later line is of the same visit follows only from who owns which visit.

Only model-checked: the liveness properties (`EveryCarServed`, `EveryCarLeaves`,
`HeatIsNoticed`, `FireIsAnswered`, `EndIsNoticed`, `GateOpensInFire`, `UserIsServed`,
`CarsAreServed`), which need fairness, and the counterexamples. What these liveness
properties rest on besides fairness is proved: `ServiceGetsOn` for `EveryCarServed` and
`EveryCarLeaves`, `FireIsNotSlept` for `FireIsAnswered`, `NobodyLeftWaiting` for
`GateOpensInFire`, `SleepsOnlyIfRobbed` for `CarsAreServed`.

## What the models show beyond the runs

* `manager.c:171` sleeps 2 ms to "ensure that sim is waiting for signal". It does not
  ensure it: `EveryCarServed` has the exception of a lost wake-up for it, and after one
  both threads of the entrance wait for each other.
* `manager.h:37-38` wants cars on a level that is not fully occupied; `car_count` takes
  the counter modulo `LEVELS`, full or not. `CarPark` has it as it is.
* `sorttemp` is filled from index 1 (`firealarm.c:83-84`), so the oldest of five samples is
  not sorted and an uninitialised value is. With it, nine of ten medians of the
  five samples can be high (`firealarm.c:112-113`) and the level not be called.
  `FiresAreCalled` therefore asks for three of the four samples that are sorted.
* `evac_msg` returns with `alarm_mutex` (`firealarm.c:206`). If it gets it before `main`
  does, `main` never returns from its second wait, and the program never ends, although
  `firealarm.c:324` says "End program once emergency is over".
* The other way round, a monitor that has not yet read its own flag rings again, wakes that
  wait, which the monitors share, and the program ends with the emergency still on.
* An 'e' that the user types while `emergency_mode` raises the alarms can be overwritten
  (`firealarm.c:218`), and with it the only sign of the end.
* A bill is too high by 2^16 ms for each wrap of the clock before the car came
  (`linked_list.h:13`), against `manager.h:42-43`: the exception of `BillsAreRight`. Two
  exits that bill at once can lose lines (`BillsRecorded`).
* A car whose leaving time does not fit in 16 bits leaves at once (`LeavesOnTime`).
* An entrance can sleep over a car until another one comes (`SleepsOnlyIfRobbed`).

## Not modelled

* The status display (`thf_display`, `status_display.h`): it prints, and changes nothing.
* The hash table's buckets and the reading of the plate files: filled before any thread
  runs, and searched as a set afterwards (`Allowed`).
* Mapping the shared memory; the simulator's `display_shm.c`, and the build file.
* The start-up window in which `manager.c:526` passes one `new_level` to all level threads
  while main still changes it: `CarPark` starts when all threads have.
* What `compare` (`firealarm.c:41`) makes of an uninitialised value near `INT_MIN`, where its
  subtraction overflows: `TempMonitor` sorts by the true order.
* The rates at which temperatures drift, and the index behind the array
  (`simulator.c:304-309`): `TempMonitor` allows any change of temperature.
* The letters that `evac_msg` shows. A car that waits at a sign then would read one and,
  since none of them is a level's, leave the simulation.
* The simulator's list of cars as nodes (`sim_cars`), walked without its lock by the creator.
