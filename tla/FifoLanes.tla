----------------------------- MODULE FifoLanes -----------------------------
(***************************************************************************)
(* What the simulator's queues promise: a car waits at one lane at a time, *)
(* and a lane serves the cars one by one in the order of their arrival.    *)
(* CarQueue is shown to implement it.                                      *)
(***************************************************************************)
EXTENDS Naturals, Sequences

CONSTANTS Lanes, Cars, NoCar

VARIABLES waiting, \* per lane: the cars in its queue, the oldest first
          serving  \* per lane: the car it serves, or NoCar

vars == <<waiting, serving>>

Init ==
  /\ waiting = [l \in Lanes |-> <<>>]
  /\ serving = [l \in Lanes |-> NoCar]

Present(c) ==
  \E l \in Lanes : serving[l] = c \/ \E i \in 1..Len(waiting[l]) : waiting[l][i] = c

Arrive(l, c) ==
  /\ ~Present(c)
  /\ waiting' = [waiting EXCEPT ![l] = Append(@, c)]
  /\ UNCHANGED serving

Serve(l) ==
  /\ serving[l] = NoCar /\ waiting[l] # <<>>
  /\ serving' = [serving EXCEPT ![l] = Head(waiting[l])]
  /\ waiting' = [waiting EXCEPT ![l] = Tail(@)]

Finish(l) ==
  /\ serving[l] # NoCar
  /\ serving' = [serving EXCEPT ![l] = NoCar]
  /\ UNCHANGED waiting

Next == \E l \in Lanes : Serve(l) \/ Finish(l) \/ \E c \in Cars : Arrive(l, c)

Spec == Init /\ [][Next]_vars
=============================================================================
