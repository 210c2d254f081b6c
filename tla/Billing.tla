------------------------------ MODULE Billing ------------------------------
(***************************************************************************)
(* Time and money: the clocks of the simulator and the manager (thf_time), *)
(* the time at which a car is to leave, kept in 16 bits (car_t), the       *)
(* vehicle's arrival, kept in 16 bits too (vehicle_t), thf_inside's search *)
(* for a car that is to leave, and the bill that exit_lpr writes (money)   *)
(* through the one file handle that all exits share.                       *)
(*                                                                         *)
(* fopen, the reading of the clock, fprintf and fclose are a step each:    *)
(* another exit may come between.  A line is in the stream's buffer until  *)
(* fclose; a stream that fp no longer points to keeps its lines for good.  *)
(***************************************************************************)
EXTENDS Integers, Sequences

CONSTANTS Cars, Exits,
          Times,      \* the readings of the clocks
          LeaveTimes, \* what thf_entr draws for a car's stay
          NoCar,
          MaxVisits   \* bound: how many times cars come

\* uint16_t
WRAP == 65536

Unread == -1

Programs == {"sim", "mgr"}

ASSUME BillingAssumption ==
  /\ Times \subseteq Nat /\ 0 \in Times
  /\ LeaveTimes \subseteq Nat
  /\ NoCar \notin Cars /\ MaxVisits \in Nat

VARIABLES elapsed,   \* runtime.elapsed of "sim" and "mgr"
          place,     \* per car: where it is
          exitTime,  \* per car: car->exit_time
          inside,    \* inside_list, newest first
          curr,      \* thf_inside: curr_time while it searches, else Unread
          listed,    \* the cars with a vehicle in car_list
          arrival,   \* per car: vehicle->arrival
          point,     \* per exit: where exit_lpr is
          find,      \* per exit: the car whose vehicle it found
          total,     \* per exit: money's total_time
          stay,      \* history, per exit: how long the car has been in
          fpOpen,    \* whether the stream that fp points to is open
          buffer,    \* the lines in that stream's buffer
          file,      \* the lines in billing.txt
          crashed,   \* the manager ended on a closed stream
          visits,    \* history: how many cars have come
          visit,     \* history, per car: which of them it is
          came,      \* history, per car: the manager's time when it came
          due,       \* history, per car: the simulator's time when it is to leave
          mixed      \* history: an exit opened the file while another had it open

simVars == <<place, exitTime, inside, curr, due>>
carVars == <<listed, arrival, visits, visit, came>>
fileVars == <<fpOpen, buffer, file, crashed, mixed>>
exitVars == <<point, find, total, stay>>
vars == <<elapsed, simVars, carVars, fileVars, exitVars>>

Init ==
  /\ elapsed = [p \in Programs |-> 0]
  /\ place = [c \in Cars |-> "away"]
  /\ exitTime = [c \in Cars |-> 0] /\ due = [c \in Cars |-> 0]
  /\ inside = <<>> /\ curr = Unread
  /\ listed = {} /\ arrival = [c \in Cars |-> 0] /\ came = [c \in Cars |-> 0]
  /\ visits = 0 /\ visit = [c \in Cars |-> 0]
  /\ point = [x \in Exits |-> "wait"]
  /\ find = [x \in Exits |-> NoCar] /\ total = [x \in Exits |-> 0]
  /\ stay = [x \in Exits |-> 0]
  /\ fpOpen = FALSE /\ buffer = <<>> /\ file = <<>>
  /\ crashed = FALSE /\ mixed = FALSE

-----------------------------------------------------------------------------

\* thf_time: the clock goes on while the thread sleeps.
Tick(p, t) ==
  /\ t > elapsed[p]
  /\ elapsed' = [elapsed EXCEPT ![p] = t]
  /\ UNCHANGED <<simVars, carVars, fileVars, exitVars>>

\* entrance_lpr adds the vehicle of a car that it admits.
MgrRecord(c) ==
  /\ place[c] = "away" /\ c \notin listed
  /\ visits < MaxVisits
  /\ arrival' = [arrival EXCEPT ![c] = elapsed.mgr % WRAP]
  /\ came' = [came EXCEPT ![c] = elapsed.mgr]
  /\ listed' = listed \cup {c}
  /\ visits' = visits + 1
  /\ visit' = [visit EXCEPT ![c] = visits + 1]
  /\ place' = [place EXCEPT ![c] = "gate"]
  /\ UNCHANGED <<elapsed, exitTime, inside, curr, due, fileVars, exitVars>>

\* Mutant: the time of the stay is not added.
SimAssignNow(c, leave_time) ==
  /\ place[c] = "gate"
  /\ exitTime' = [exitTime EXCEPT ![c] = elapsed.sim % WRAP]
  /\ due' = [due EXCEPT ![c] = elapsed.sim + leave_time]
  /\ place' = [place EXCEPT ![c] = "drive"]
  /\ UNCHANGED <<elapsed, inside, curr, carVars, fileVars, exitVars>>

\* thf_entr at the open gate.
SimAssign(c, leave_time) ==
  /\ place[c] = "gate"
  /\ exitTime' = [exitTime EXCEPT ![c] = (elapsed.sim + leave_time) % WRAP]
  /\ due' = [due EXCEPT ![c] = elapsed.sim + leave_time]
  /\ place' = [place EXCEPT ![c] = "drive"]
  /\ UNCHANGED <<elapsed, inside, curr, carVars, fileVars, exitVars>>

SimPark(c) ==
  /\ place[c] = "drive"
  /\ inside' = <<c>> \o inside
  /\ place' = [place EXCEPT ![c] = "inside"]
  /\ UNCHANGED <<elapsed, exitTime, curr, due, carVars, fileVars, exitVars>>

\* thf_inside reads the clock, then searches the list.
InsideRead ==
  /\ curr = Unread
  /\ curr' = elapsed.sim
  /\ UNCHANGED <<elapsed, place, exitTime, inside, due, carVars, fileVars, exitVars>>

\* comp_times: the first in the list whose time is up is at i.
CompTimes(i) ==
  /\ exitTime[inside[i]] <= curr
  /\ \A j \in 1..i - 1 : exitTime[inside[j]] > curr

\* snode_delete
Without(s, i) == SubSeq(s, 1, i - 1) \o SubSeq(s, i + 1, Len(s))

InsideTake(i) ==
  /\ curr # Unread /\ CompTimes(i)
  /\ inside' = Without(inside, i)
  /\ place' = [place EXCEPT ![inside[i]] = "exit"]
  /\ curr' = Unread
  /\ UNCHANGED <<elapsed, exitTime, due, carVars, fileVars, exitVars>>

InsideNobody ==
  /\ curr # Unread /\ \A i \in 1..Len(inside) : ~CompTimes(i)
  /\ curr' = Unread
  /\ UNCHANGED <<elapsed, place, exitTime, inside, due, carVars, fileVars, exitVars>>

-----------------------------------------------------------------------------
(* exit_lpr and money.                                                     *)

\* The car rings at the exit, its vehicle is found and its gate goes up and
\* down; the car is gone.
ExitLetOut(x, c) ==
  /\ point[x] = "wait" /\ place[c] = "exit"
  /\ place' = [place EXCEPT ![c] = "away"]
  /\ find' = [find EXCEPT ![x] = c]
  /\ point' = [point EXCEPT ![x] = "open"]
  /\ exitTime' = [exitTime EXCEPT ![c] = 0] /\ due' = [due EXCEPT ![c] = 0]
  /\ UNCHANGED <<elapsed, inside, curr, carVars, fileVars, total, stay>>

HasFile == {"time", "print", "close"}

Go(x, from, to) == point[x] = from /\ point' = [point EXCEPT ![x] = to]

\* Mutant: the file is opened for writing, which empties it.
MoneyOpenAnew(x) ==
  /\ Go(x, "open", "time")
  /\ fpOpen' = TRUE /\ buffer' = <<>> /\ file' = <<>>
  /\ mixed' = (mixed \/ \E y \in Exits : point[y] \in HasFile)
  /\ UNCHANGED <<elapsed, simVars, carVars, crashed, find, total, stay>>

MoneyOpen(x) ==
  /\ Go(x, "open", "time")
  /\ fpOpen' = TRUE /\ buffer' = <<>>
  /\ mixed' = (mixed \/ \E y \in Exits : point[y] \in HasFile)
  /\ UNCHANGED <<elapsed, simVars, carVars, file, crashed, find, total, stay>>

\* Mutant: the time of the stay is kept in 16 bits as well.
MoneyTimeShort(x) ==
  /\ Go(x, "time", "print")
  /\ total' = [total EXCEPT ![x] = (elapsed.mgr - arrival[find[x]]) % WRAP]
  /\ stay' = [stay EXCEPT ![x] = elapsed.mgr - came[find[x]]]
  /\ UNCHANGED <<elapsed, simVars, carVars, fileVars, find>>

MoneyTime(x) ==
  /\ Go(x, "time", "print")
  /\ total' = [total EXCEPT ![x] = elapsed.mgr - arrival[find[x]]]
  /\ stay' = [stay EXCEPT ![x] = elapsed.mgr - came[find[x]]]
  /\ UNCHANGED <<elapsed, simVars, carVars, fileVars, find>>

Line(x) ==
  [visit |-> visit[find[x]], came |-> came[find[x]], stay |-> stay[x], total |-> total[x]]

MoneyPrint(x) ==
  /\ Go(x, "print", "close")
  /\ fpOpen
  /\ buffer' = Append(buffer, Line(x))
  /\ UNCHANGED <<elapsed, simVars, carVars, fpOpen, file, crashed, mixed, find, total, stay>>

MoneyClose(x) ==
  /\ Go(x, "close", "delete")
  /\ fpOpen
  /\ file' = file \o buffer
  /\ buffer' = <<>> /\ fpOpen' = FALSE
  /\ UNCHANGED <<elapsed, simVars, carVars, crashed, mixed, find, total, stay>>

\* fprintf or fclose on a stream that another exit has closed: undefined; the
\* line is lost or the program ends.
MoneyOnClosed(x) ==
  /\ Go(x, "print", "close") \/ Go(x, "close", "delete")
  /\ ~fpOpen
  /\ crashed' \in BOOLEAN
  /\ UNCHANGED <<elapsed, simVars, carVars, fpOpen, buffer, file, mixed, find, total, stay>>

\* node_delete: nobody has the vehicle any more; exit_lpr waits for the next car.
MgrDelete(x) ==
  /\ Go(x, "delete", "wait")
  /\ listed' = listed \ {find[x]}
  /\ find' = [find EXCEPT ![x] = NoCar]
  /\ arrival' = [arrival EXCEPT ![find[x]] = 0] /\ came' = [came EXCEPT ![find[x]] = 0]
  /\ visit' = [visit EXCEPT ![find[x]] = 0]
  /\ total' = [total EXCEPT ![x] = 0] /\ stay' = [stay EXCEPT ![x] = 0]
  /\ UNCHANGED <<elapsed, simVars, visits, fileVars>>

-----------------------------------------------------------------------------

SimStep ==
  \/ \E c \in Cars : SimPark(c) \/ \E leave_time \in LeaveTimes : SimAssign(c, leave_time)
  \/ InsideRead \/ InsideNobody \/ \E i \in 1..Len(inside) : InsideTake(i)

Money(x) ==
  MoneyOpen(x) \/ MoneyTime(x) \/ MoneyPrint(x) \/ MoneyClose(x) \/ MoneyOnClosed(x)

MgrStep ==
  \/ \E c \in Cars : MgrRecord(c) \/ \E x \in Exits : ExitLetOut(x, c)
  \/ \E x \in Exits : Money(x) \/ MgrDelete(x)

Next ==
  \/ \E p \in Programs : \E t \in Times : Tick(p, t)
  \/ SimStep
  \/ ~crashed /\ MgrStep

Spec == Init /\ [][Next]_vars

-----------------------------------------------------------------------------

Places == {"away", "gate", "drive", "inside", "exit"}
Points == {"wait", "open", "delete"} \cup HasFile

Bill == [visit : Nat, came : Nat, stay : Int, total : Int]

\* Every variable keeps its type.
TypeOK ==
  /\ elapsed \in [Programs -> Nat]
  /\ place \in [Cars -> Places]
  /\ exitTime \in [Cars -> Nat] /\ due \in [Cars -> Nat]
  /\ inside \in Seq(Cars) /\ curr \in Nat \cup {Unread}
  /\ listed \subseteq Cars /\ arrival \in [Cars -> Nat] /\ came \in [Cars -> Nat]
  /\ visits \in Nat /\ visit \in [Cars -> Nat]
  /\ point \in [Exits -> Points] /\ find \in [Exits -> Cars \cup {NoCar}]
  /\ total \in [Exits -> Int] /\ stay \in [Exits -> Int]
  /\ fpOpen \in BOOLEAN /\ crashed \in BOOLEAN /\ mixed \in BOOLEAN
  /\ buffer \in Seq(Bill) /\ file \in Seq(Bill)

\* A car is taken out of inside_list when its time has come, unless that time
\* did not fit in 16 bits (simulator.c:496, 712).
LeavesOnTime ==
  [][\A c \in Cars : place[c] = "inside" /\ place'[c] # "inside" =>
       due[c] <= elapsed.sim \/ due[c] >= WRAP]_vars

\* Whatever the exits do to each other's stream, a line in billing.txt is of a
\* visit of its own, and its bill (manager.c:229-241) is the stay's, however long
\* the car stays, unless the time at which it came did not fit in 16 bits
\* (linked_list.h:13): then it is not what manager.h:42-43 asks for.
BillsAreRight ==
  \A i \in 1..Len(file) :
    /\ file[i].came < WRAP => file[i].total = file[i].stay
    /\ \A j \in 1..Len(file) : file[j].visit = file[i].visit => j = i

\* The visits that are not paid yet.
Unpaid(k) ==
  \E c \in listed :
    visit[c] = k /\ \A x \in Exits : find[x] = c => point[x] # "delete"

\* As long as no two exits have billed at once (manager.c:231-240), each visit is
\* in billing.txt by the time that its vehicle is deleted, and just once.
BillsRecorded ==
  ~mixed =>
    /\ ~crashed
    /\ \A k \in 1..visits :
         IF Unpaid(k) THEN \A i \in 1..Len(file) : file[i].visit # k
         ELSE \E i \in 1..Len(file) : \A j \in 1..Len(file) : file[j].visit = k <=> j = i
=============================================================================
