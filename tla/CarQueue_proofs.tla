-------------------------- MODULE CarQueue_proofs --------------------------
(***************************************************************************)
(* Proofs about CarQueue, for any entrances, exits and cars, and any       *)
(* number of nodes.                                                        *)
(***************************************************************************)
EXTENDS CarQueue, SequenceTheorems, TLAPS

Entries == Cars \cup {NoCar}

\* The cars of a list are in its first n nodes, and a node without one is behind.
Filled(list, n) ==
  /\ n \in 0..Len(list) - 1
  /\ \A i \in 1..Len(list) : list[i] # NoCar <=> i <= n

InOrder(list) == \E n \in 0..Len(list) - 1 : Filled(list, n)

-----------------------------------------------------------------------------
(* Sequences and lists.                                                    *)

LEMMA FunctionIsSeq ==
  ASSUME NEW S, NEW n \in Nat, NEW f \in [1..n -> S]
  PROVE  f \in Seq(S) /\ Len(f) = n
<1>1. f \in Seq(S)
  BY SeqDef
<1>2. Len(f) \in Nat /\ DOMAIN f = 1..Len(f) /\ DOMAIN f = 1..n
  BY <1>1, LenProperties
<1> QED
  BY <1>1, <1>2

LEMMA CountIs ==
  ASSUME NEW list \in Seq(Entries), NEW n, Filled(list, n)
  PROVE  Count(list) = n
<1> DEFINE Fits(k) == \A i \in 1..Len(list) : list[i] # NoCar <=> i <= k
<1>1. Len(list) \in Nat
  BY LenProperties
<1>2. n \in 0..Len(list) - 1 /\ Fits(n)
  BY DEF Filled
<1>3. ASSUME NEW k \in 0..Len(list) - 1, Fits(k)
      PROVE  k = n
  <2>1. CASE k < n
    <3>1. n \in 1..Len(list)
      BY <1>1, <1>2, <2>1
    <3> QED
      BY <3>1, <1>1, <1>2, <1>3, <2>1
  <2>2. CASE n < k
    <3>1. k \in 1..Len(list)
      BY <1>1, <1>2, <2>2
    <3> QED
      BY <3>1, <1>1, <1>2, <1>3, <2>2
  <2> QED
    BY <2>1, <2>2, <1>1, <1>2
<1>4. Count(list) = CHOOSE k \in 0..Len(list) - 1 : Fits(k)
  BY DEF Count
<1> HIDE DEF Fits
<1>5. Count(list) \in 0..Len(list) - 1 /\ Fits(Count(list))
  BY <1>2, <1>4
<1> QED
  BY <1>3, <1>5

\* node_push puts a car before the others.
LEMMA PushKeepsOrder ==
  ASSUME NEW list \in Seq(Entries), NEW n, Filled(list, n), NEW c \in Cars
  PROVE  /\ NodePush(list, c) \in Seq(Entries)
         /\ Len(NodePush(list, c)) = Len(list) + 1
         /\ NodePush(list, c)[1] = c
         /\ \A i \in 1..Len(list) : NodePush(list, c)[i + 1] = list[i]
         /\ Filled(NodePush(list, c), n + 1)
<1>1. /\ <<c>> \in Seq(Entries) /\ Len(<<c>>) = 1 /\ <<c>>[1] = c
      /\ Len(list) \in Nat
  BY LenProperties DEF Entries
<1>2. /\ NodePush(list, c) \in Seq(Entries)
      /\ Len(NodePush(list, c)) = 1 + Len(list)
      /\ \A i \in 1..1 + Len(list) :
           NodePush(list, c)[i] = IF i <= 1 THEN <<c>>[i] ELSE list[i - 1]
  BY <1>1, ConcatProperties DEF NodePush
<1> HIDE DEF NodePush
<1>3. NodePush(list, c)[1] = c
  BY <1>1, <1>2
<1>4. \A i \in 1..Len(list) : NodePush(list, c)[i + 1] = list[i]
  BY <1>1, <1>2
<1>5. n \in 0..Len(list) - 1 /\ c # NoCar
  BY QueueAssumption DEF Filled
<1>6. ASSUME NEW i \in 1..Len(list) + 1
      PROVE  NodePush(list, c)[i] # NoCar <=> i <= n + 1
  <2>1. CASE i = 1
    BY <2>1, <1>3, <1>5, <1>1
  <2>2. CASE i # 1
    <3>1. i - 1 \in 1..Len(list) /\ (i - 1) + 1 = i
      BY <2>2, <1>1
    <3>2. NodePush(list, c)[i] = list[i - 1]
      BY <3>1, <1>4
    <3>3. list[i - 1] # NoCar <=> i - 1 <= n
      BY <3>1 DEF Filled
    <3> QED
      BY <3>1, <3>2, <3>3, <1>5, <1>1
  <2> QED
    BY <2>1, <2>2
<1>7. Filled(NodePush(list, c), n + 1)
  BY <1>1, <1>2, <1>5, <1>6 DEF Filled
<1> QED
  BY <1>1, <1>2, <1>3, <1>4, <1>7

\* node_pop finds the car that is last.
LEMMA LastCarIsLast ==
  ASSUME NEW list \in Seq(Entries), NEW n, Filled(list, n), list[1] # NoCar
  PROVE  LastCar(list) = n /\ n >= 1
<1>1. /\ Len(list) \in Nat /\ n \in 0..Len(list) - 1
      /\ \A i \in 1..Len(list) : list[i] # NoCar <=> i <= n
  BY LenProperties DEF Filled
<1>2. n >= 1 /\ 1 \in 1..Len(list) /\ 2 \in 1..Len(list) /\ n + 1 \in 1..Len(list)
  <2>1. 1 \in 1..Len(list)
    BY <1>1
  <2>2. n >= 1
    BY <2>1, <1>1
  <2> QED
    BY <2>1, <2>2, <1>1
<1>3. CASE list[2] = NoCar
  <2>1. n < 2
    BY <1>1, <1>2, <1>3
  <2>2. LastCar(list) = 1
    BY <1>3 DEF LastCar
  <2> QED
    BY <2>1, <2>2, <1>1, <1>2
<1>4. CASE list[2] # NoCar
  <2> DEFINE Found(k) == list[k + 1] = NoCar /\ \A j \in 3..k : list[j] # NoCar
  <2>1. n >= 2
    BY <1>1, <1>2, <1>4
  <2>2. n \in 2..Len(list) - 1 /\ Found(n)
    <3>1. list[n + 1] = NoCar
      BY <1>1, <1>2
    <3>2. ASSUME NEW j \in 3..n PROVE list[j] # NoCar
      BY <1>1, <2>1
    <3> QED
      BY <3>1, <3>2, <2>1, <1>1
  <2>3. ASSUME NEW k \in 2..Len(list) - 1, Found(k)
        PROVE  k = n
    <3>1. k + 1 \in 1..Len(list) /\ k \in 1..Len(list)
      BY <1>1
    <3>2. k >= n
      BY <3>1, <1>1, <2>3
    <3>3. CASE k = 2
      BY <3>2, <3>3, <2>1, <1>1
    <3>4. CASE k # 2
      <4>1. k \in 3..k
        BY <3>4
      <4>2. list[k] # NoCar
        BY <4>1, <2>3
      <4> QED
        BY <4>2, <3>1, <3>2, <1>1
    <3> QED
      BY <3>3, <3>4
  <2>4. LastCar(list) = CHOOSE k \in 2..Len(list) - 1 : Found(k)
    BY <1>4 DEF LastCar
  <2> HIDE DEF Found
  <2>5. LastCar(list) \in 2..Len(list) - 1 /\ Found(LastCar(list))
    BY <2>2, <2>4
  <2> QED
    BY <2>3, <2>5, <1>2
<1> QED
  BY <1>3, <1>4

\* node_pop takes the last car and leaves its node.
LEMMA PopKeepsOrder ==
  ASSUME NEW list \in Seq(Entries), NEW n, Filled(list, n), list[1] # NoCar
  PROVE  /\ n \in 1..Len(list) /\ LastCar(list) = n /\ list[n] \in Cars
         /\ NodePop(list) \in Seq(Entries)
         /\ Len(NodePop(list)) = Len(list)
         /\ \A i \in 1..Len(list) : NodePop(list)[i] = IF i = n THEN NoCar ELSE list[i]
         /\ Filled(NodePop(list), n - 1)
<1>1. /\ Len(list) \in Nat /\ n \in 0..Len(list) - 1
      /\ \A i \in 1..Len(list) : list[i] # NoCar <=> i <= n
  BY LenProperties DEF Filled
<1>2. LastCar(list) = n /\ n >= 1
  BY LastCarIsLast
<1>3. n \in 1..Len(list)
  BY <1>1, <1>2
<1>4. list[n] \in Cars
  <2>1. list[n] \in Entries
    BY <1>3, ElementOfSeq
  <2>2. list[n] # NoCar
    BY <1>1, <1>3
  <2> QED
    BY <2>1, <2>2 DEF Entries
<1>5. NodePop(list) = [list EXCEPT ![n] = NoCar]
  BY <1>2 DEF NodePop
<1>6. /\ NodePop(list) \in Seq(Entries) /\ Len(NodePop(list)) = Len(list)
      /\ \A i \in 1..Len(list) : NodePop(list)[i] = IF i = n THEN NoCar ELSE list[i]
  <2>1. NoCar \in Entries
    BY DEF Entries
  <2>2. /\ [list EXCEPT ![n] = NoCar] \in Seq(Entries)
        /\ Len([list EXCEPT ![n] = NoCar]) = Len(list)
        /\ \A i \in 1..Len(list) :
             [list EXCEPT ![n] = NoCar][i] = IF i = n THEN NoCar ELSE list[i]
    BY <2>1, <1>3, ExceptSeq
  <2> QED
    BY <2>2, <1>5, Zenon
<1>7. Filled(NodePop(list), n - 1)
  BY <1>1, <1>2, <1>6 DEF Filled
<1> QED
  BY <1>2, <1>3, <1>4, <1>6, <1>7

LEMMA CarsOfList ==
  ASSUME NEW list \in Seq(Entries), NEW n, Filled(list, n)
  PROVE  /\ CarsOf(list) \in Seq(Cars) /\ Len(CarsOf(list)) = n
         /\ \A i \in 1..n : CarsOf(list)[i] = list[n + 1 - i]
<1>1. /\ Len(list) \in Nat /\ n \in 0..Len(list) - 1 /\ n \in Nat
      /\ \A i \in 1..Len(list) : list[i] # NoCar <=> i <= n
  BY LenProperties DEF Filled
<1>2. CarsOf(list) = [i \in 1..n |-> list[n + 1 - i]]
  BY CountIs DEF CarsOf
<1>3. ASSUME NEW i \in 1..n
      PROVE  list[n + 1 - i] \in Cars
  <2>1. n + 1 - i \in 1..Len(list) /\ n + 1 - i <= n
    BY <1>1
  <2>2. list[n + 1 - i] \in Entries
    BY <2>1, ElementOfSeq
  <2>3. list[n + 1 - i] # NoCar
    BY <2>1, <1>1
  <2> QED
    BY <2>2, <2>3 DEF Entries
<1>4. CarsOf(list) \in [1..n -> Cars]
  BY <1>2, <1>3
<1> QED
  BY <1>1, <1>2, <1>4, FunctionIsSeq

\* A pushed car is the last of the lane's cars.
LEMMA PushAppends ==
  ASSUME NEW list \in Seq(Entries), NEW n, Filled(list, n), NEW c \in Cars
  PROVE  CarsOf(NodePush(list, c)) = Append(CarsOf(list), c)
<1> DEFINE new == NodePush(list, c)
           cars == CarsOf(list)
<1>1. /\ new \in Seq(Entries) /\ new[1] = c /\ Filled(new, n + 1)
      /\ \A i \in 1..Len(list) : new[i + 1] = list[i]
  BY PushKeepsOrder
<1>2. /\ cars \in Seq(Cars) /\ Len(cars) = n
      /\ \A i \in 1..n : cars[i] = list[n + 1 - i]
  BY CarsOfList
<1>3. /\ CarsOf(new) \in Seq(Cars) /\ Len(CarsOf(new)) = n + 1
      /\ \A i \in 1..n + 1 : CarsOf(new)[i] = new[(n + 1) + 1 - i]
  <2> HIDE DEF new
  <2> QED
    BY <1>1, CarsOfList
<1>4. n \in Nat /\ n <= Len(list) - 1 /\ Len(list) \in Nat
  BY LenProperties DEF Filled
<1> HIDE DEF new, cars
<1>5. /\ Append(cars, c) \in Seq(Cars) /\ Len(Append(cars, c)) = n + 1
      /\ \A i \in 1..n + 1 : Append(cars, c)[i] = IF i <= n THEN cars[i] ELSE c
  BY <1>2, <1>4, AppendProperties
<1>6. ASSUME NEW i \in 1..n + 1
      PROVE  CarsOf(new)[i] = Append(cars, c)[i]
  <2>1. CASE i <= n
    <3>1. /\ n + 1 - i \in 1..Len(list) /\ i \in 1..n
          /\ (n + 1) + 1 - i = (n + 1 - i) + 1
      BY <1>4, <2>1
    <3>2. CarsOf(new)[i] = list[n + 1 - i]
      BY <3>1, <1>1, <1>3
    <3> QED
      BY <3>1, <3>2, <1>2, <1>5, <2>1
  <2>2. CASE i = n + 1
    <3>1. CarsOf(new)[i] = new[1]
      BY <1>3, <1>4, <2>2
    <3> QED
      BY <3>1, <1>1, <1>4, <1>5, <2>2
  <2>3. i <= n \/ i = n + 1
    BY <1>4
  <2> QED
    BY <2>1, <2>2, <2>3
<1>7. CarsOf(new) = Append(cars, c)
  BY <1>3, <1>5, <1>6, SeqEqual
<1> QED
  BY <1>7 DEF new, cars

\* The popped car is the first of the lane's cars.
LEMMA PopTakesFirst ==
  ASSUME NEW list \in Seq(Entries), NEW n, Filled(list, n), list[1] # NoCar
  PROVE  /\ CarsOf(list) # <<>>
         /\ list[LastCar(list)] = Head(CarsOf(list))
         /\ CarsOf(NodePop(list)) = Tail(CarsOf(list))
<1> DEFINE new == NodePop(list)
           cars == CarsOf(list)
<1>1. /\ n \in 1..Len(list) /\ LastCar(list) = n
      /\ new \in Seq(Entries) /\ Filled(new, n - 1)
      /\ \A i \in 1..Len(list) : new[i] = IF i = n THEN NoCar ELSE list[i]
  BY PopKeepsOrder
<1>2. /\ cars \in Seq(Cars) /\ Len(cars) = n
      /\ \A i \in 1..n : cars[i] = list[n + 1 - i]
  BY CarsOfList
<1>3. /\ CarsOf(new) \in Seq(Cars) /\ Len(CarsOf(new)) = n - 1
      /\ \A i \in 1..n - 1 : CarsOf(new)[i] = new[(n - 1) + 1 - i]
  <2> HIDE DEF new
  <2> QED
    BY <1>1, CarsOfList
<1>4. Len(list) \in Nat
  BY LenProperties
<1> HIDE DEF new, cars
<1>5. cars # <<>> /\ Len(cars) >= 1
  BY <1>1, <1>2, <1>4, EmptySeq
<1>6. Head(cars) = cars[1]
  BY <1>2, <1>5
<1>7. list[n] = Head(cars)
  BY <1>1, <1>2, <1>4, <1>6
<1>8. /\ Tail(cars) \in Seq(Cars) /\ Len(Tail(cars)) = n - 1
      /\ \A i \in 1..n - 1 : Tail(cars)[i] = cars[i + 1]
  BY <1>2, <1>5, HeadTailProperties
<1>9. ASSUME NEW i \in 1..n - 1
      PROVE  CarsOf(new)[i] = Tail(cars)[i]
  <2>1. /\ n - i \in 1..Len(list) /\ n - i # n /\ i + 1 \in 1..n
        /\ (n - 1) + 1 - i = n - i /\ n + 1 - (i + 1) = n - i
    BY <1>1, <1>4
  <2>2. CarsOf(new)[i] = list[n - i]
    BY <2>1, <1>1, <1>3
  <2>3. Tail(cars)[i] = list[n - i]
    BY <2>1, <1>2, <1>8
  <2> QED
    BY <2>2, <2>3
<1>10. CarsOf(new) = Tail(cars)
  BY <1>3, <1>8, <1>9, SeqEqual
<1> QED
  BY <1>1, <1>5, <1>7, <1>10 DEF new, cars

-----------------------------------------------------------------------------
(* Types, the order of the lists, and the producers.                       *)

ListsInOrder == \A l \in Lanes : InOrder(queue[l])

\* A producer has signalled for a car before it takes the next, and signals at
\* its own lanes.
ProducersInStep ==
  \A p \in Producers :
    /\ load[p] # NoCar => rings[p] = NoLane
    /\ rings[p] \in Ends[p] \cup {NoLane}

Steady == TypeOK /\ ListsInOrder /\ ProducersInStep

LEMMA EndsAre ==
  /\ Producers = {"creator", "inside"}
  /\ Ends["creator"] = Entrances /\ Ends["inside"] = Exits
  /\ \A p \in Producers : Ends[p] \subseteq Lanes
  /\ \A p, q \in Producers : \A l \in Ends[p] : l \in Ends[q] => p = q
BY QueueAssumption DEF Producers, Ends, Lanes

LEMMA ListAt ==
  ASSUME Steady, NEW l \in Lanes
  PROVE  queue[l] \in Seq(Entries) /\ \E n \in 0..Len(queue[l]) - 1 : Filled(queue[l], n)
BY DEF Steady, TypeOK, ListsInOrder, InOrder, Entries

LEMMA SteadyInit == Init => Steady
<1> SUFFICES ASSUME Init PROVE Steady
  OBVIOUS
<1>1. /\ <<NoCar>> \in Seq(Entries) /\ Len(<<NoCar>>) = 1 /\ <<NoCar>>[1] = NoCar
  BY DEF Entries
<1>2. TypeOK
  BY <1>1, QueueAssumption DEF Init, TypeOK, Entries
<1>3. Filled(<<NoCar>>, 0)
  BY <1>1 DEF Filled
<1>4. ListsInOrder
  BY <1>1, <1>3 DEF Init, ListsInOrder, InOrder
<1>5. ProducersInStep
  BY QueueAssumption DEF Init, ProducersInStep
<1> QED
  BY <1>2, <1>4, <1>5 DEF Steady

\* What a step does to one lane's list.
LEMMA PushedList ==
  ASSUME Steady, NEW p \in Producers, NEW l \in Lanes, Push(p, l)
  PROVE  /\ load[p] \in Cars
         /\ queue' \in [Lanes -> Seq(Entries)]
         /\ \A k \in Lanes : k # l => queue'[k] = queue[k]
         /\ queue'[l] = NodePush(queue[l], load[p])
         /\ Len(queue'[l]) = Len(queue[l]) + 1
         /\ queue'[l][1] = load[p]
         /\ \A i \in 1..Len(queue[l]) : queue'[l][i + 1] = queue[l][i]
         /\ ListsInOrder'
<1>1. queue[l] \in Seq(Entries)
  BY ListAt
<1>2. PICK n \in 0..Len(queue[l]) - 1 : Filled(queue[l], n)
  BY ListAt
<1>3. load[p] \in Cars
  BY DEF Push, Steady, TypeOK
<1>4. /\ queue \in [Lanes -> Seq(Entries)]
      /\ queue' = [queue EXCEPT ![l] = NodePush(queue[l], load[p])]
  BY DEF Push, Steady, TypeOK, Entries
<1>5. /\ NodePush(queue[l], load[p]) \in Seq(Entries)
      /\ Len(NodePush(queue[l], load[p])) = Len(queue[l]) + 1
      /\ NodePush(queue[l], load[p])[1] = load[p]
      /\ \A i \in 1..Len(queue[l]) : NodePush(queue[l], load[p])[i + 1] = queue[l][i]
      /\ Filled(NodePush(queue[l], load[p]), n + 1)
  BY <1>1, <1>2, <1>3, PushKeepsOrder
<1>6. /\ queue'[l] = NodePush(queue[l], load[p])
      /\ \A k \in Lanes : k # l => queue'[k] = queue[k]
      /\ queue' \in [Lanes -> Seq(Entries)]
  BY <1>4, <1>5
<1>7. ListsInOrder'
  <2> SUFFICES ASSUME NEW k \in Lanes PROVE InOrder(queue'[k])
    BY DEF ListsInOrder
  <2>1. CASE k = l
    <3>1. n + 1 \in 0..Len(queue'[l]) - 1
      BY <1>1, <1>5, <1>6, LenProperties
    <3> QED
      BY <2>1, <3>1, <1>5, <1>6 DEF InOrder
  <2>2. CASE k # l
    BY <2>2, <1>6 DEF Steady, ListsInOrder
  <2> QED
    BY <2>1, <2>2
<1> QED
  BY <1>3, <1>5, <1>6, <1>7

LEMMA PoppedList ==
  ASSUME Steady, NEW l \in Lanes, LanePop(l)
  PROVE  \E n \in 1..Len(queue[l]) :
         /\ queue[l][n] \in Cars /\ n = LastCar(queue[l])
         /\ held' = [held EXCEPT ![l] = queue[l][n]]
         /\ queue' \in [Lanes -> Seq(Entries)]
         /\ \A k \in Lanes : k # l => queue'[k] = queue[k]
         /\ queue'[l] = NodePop(queue[l])
         /\ Len(queue'[l]) = Len(queue[l])
         /\ \A i \in 1..Len(queue[l]) : queue'[l][i] = IF i = n THEN NoCar ELSE queue[l][i]
         /\ ListsInOrder'
<1>1. queue[l] \in Seq(Entries)
  BY ListAt
<1>2. PICK n \in 0..Len(queue[l]) - 1 : Filled(queue[l], n)
  BY ListAt
<1>3. /\ queue \in [Lanes -> Seq(Entries)] /\ queue[l][1] # NoCar
      /\ queue' = [queue EXCEPT ![l] = NodePop(queue[l])]
      /\ held' = [held EXCEPT ![l] = queue[l][LastCar(queue[l])]]
  BY DEF LanePop, Steady, TypeOK, Entries
<1>5. /\ n \in 1..Len(queue[l]) /\ LastCar(queue[l]) = n /\ queue[l][n] \in Cars
      /\ NodePop(queue[l]) \in Seq(Entries)
      /\ Len(NodePop(queue[l])) = Len(queue[l])
      /\ \A i \in 1..Len(queue[l]) :
           NodePop(queue[l])[i] = IF i = n THEN NoCar ELSE queue[l][i]
      /\ Filled(NodePop(queue[l]), n - 1)
  BY <1>1, <1>2, <1>3, PopKeepsOrder
<1>6. /\ queue'[l] = NodePop(queue[l])
      /\ \A k \in Lanes : k # l => queue'[k] = queue[k]
      /\ queue' \in [Lanes -> Seq(Entries)]
  BY <1>3, <1>5
<1>7. ListsInOrder'
  <2> SUFFICES ASSUME NEW k \in Lanes PROVE InOrder(queue'[k])
    BY DEF ListsInOrder
  <2>1. CASE k = l
    <3>1. n - 1 \in 0..Len(queue'[l]) - 1
      BY <1>1, <1>5, <1>6, LenProperties
    <3> QED
      BY <2>1, <3>1, <1>5, <1>6 DEF InOrder
  <2>2. CASE k # l
    BY <2>2, <1>6 DEF Steady, ListsInOrder
  <2> QED
    BY <2>1, <2>2
<1> QED
  BY <1>3, <1>5, <1>6, <1>7

LEMMA SteadyStep == Steady /\ [Next]_vars => Steady'
<1> SUFFICES ASSUME Steady, [Next]_vars PROVE Steady'
  OBVIOUS
<1> USE DEF Steady
<1>1. ASSUME NEW c \in Cars, CreatorMake(c)
      PROVE  Steady'
  BY <1>1, EndsAre DEF TypeOK, ListsInOrder, ProducersInStep, CreatorMake, Idle, laneVars
<1>2. ASSUME NEW c \in Cars, InsideTake(c)
      PROVE  Steady'
  BY <1>2, EndsAre DEF TypeOK, ListsInOrder, ProducersInStep, InsideTake, Idle, laneVars
<1>3. ASSUME NEW p \in Producers, NEW l \in Lanes, Push(p, l)
      PROVE  Steady'
  <2>1. TypeOK'
    BY <1>3, PushedList DEF TypeOK, Push, laneVars, carVars, Entries
  <2>2. ProducersInStep'
    BY <1>3, EndsAre DEF TypeOK, ProducersInStep, Push
  <2> QED
    BY <1>3, <2>1, <2>2, PushedList
<1>4. ASSUME NEW p \in Producers, NEW l \in Lanes, Signal(p, l)
      PROVE  Steady'
  BY <1>4, EndsAre DEF TypeOK, ListsInOrder, ProducersInStep, Signal, Waiting, carVars
<1>5. ASSUME NEW p \in Producers, SignalNobody(p)
      PROVE  Steady'
  BY <1>5, EndsAre DEF TypeOK, ListsInOrder, ProducersInStep, SignalNobody, laneVars, carVars
<1>6. ASSUME NEW l \in Lanes, LaneWait(l)
      PROVE  Steady'
  BY <1>6 DEF TypeOK, ListsInOrder, ProducersInStep, LaneWait, carVars
<1>7. ASSUME NEW l \in Lanes, LanePop(l)
      PROVE  Steady'
  <2>1. PICK n \in 1..Len(queue[l]) :
           /\ queue[l][n] \in Cars
           /\ held' = [held EXCEPT ![l] = queue[l][n]]
           /\ queue' \in [Lanes -> Seq(Entries)]
           /\ ListsInOrder'
    BY <1>7, PoppedList
  <2>2. TypeOK'
    BY <1>7, <2>1, QueueAssumption DEF TypeOK, LanePop, carVars, Entries
  <2>3. ProducersInStep'
    BY <1>7 DEF ProducersInStep, LanePop
  <2> QED
    BY <2>1, <2>2, <2>3
<1>8. ASSUME NEW l \in Lanes, EntranceAdmit(l) \/ EntranceRefuse(l) \/ ExitLetOut(l)
      PROVE  Steady'
  <2>1. /\ point' \in [Lanes -> {"test", "wait", "serve", "close"}]
        /\ held' \in [Lanes -> Cars \cup {NoCar}]
        /\ \A k \in Lanes : held'[k] # NoCar <=> point'[k] = "serve"
    BY <1>8 DEF TypeOK, EntranceAdmit, EntranceRefuse, ExitLetOut, Release
  <2>2. held[l] \in Cars
    BY <1>8 DEF TypeOK, EntranceAdmit, EntranceRefuse, ExitLetOut, Release
  <2>3. simCars' \subseteq Cars /\ inside' \subseteq Cars
    BY <1>8, <2>2 DEF TypeOK, EntranceAdmit, EntranceRefuse, ExitLetOut
  <2>4. UNCHANGED <<queue, load, rings, robbed>>
    BY <1>8 DEF EntranceAdmit, EntranceRefuse, ExitLetOut, Release
  <2> QED
    BY <2>1, <2>3, <2>4 DEF TypeOK, ListsInOrder, ProducersInStep
<1>9. ASSUME NEW l \in Lanes, LaneClose(l) \/ Wake(l)
      PROVE  Steady'
  BY <1>9 DEF TypeOK, ListsInOrder, ProducersInStep, LaneClose, Wake, carVars
<1>10. CASE UNCHANGED vars
  BY <1>10 DEF TypeOK, ListsInOrder, ProducersInStep, vars, laneVars, carVars
<1> QED
  BY <1>1, <1>2, <1>3, <1>4, <1>5, <1>6, <1>7, <1>8, <1>9, <1>10
     DEF Next, SignalStep, LaneStep

-----------------------------------------------------------------------------
(* Every car once.                                                         *)

\* After the step car m is at place b only, and the others are where they were.
Moves(m, b) ==
  \A d \in Cars : \A x \in Places : IsAt(d, x)' <=> IF d = m THEN x = b ELSE IsAt(d, x)

LEMMA PlaceCases ==
  /\ \A x \in Places :
       \/ \E l \in Lanes : x = <<"queue", l>> \/ x = <<"held", l>>
       \/ \E p \in Producers : x = <<"load", p>>
       \/ x = <<"inside", "list">>
  /\ \A l \in Lanes : <<"queue", l>> \in Places /\ <<"held", l>> \in Places
  /\ \A p \in Producers : <<"load", p>> \in Places
  /\ <<"inside", "list">> \in Places
BY DEF Places

LEMMA AtCases ==
  ASSUME NEW c
  PROVE  /\ \A l \in Lanes :
              /\ IsAt(c, <<"queue", l>>) <=> InQueue(c, l)
              /\ IsAt(c, <<"held", l>>) <=> held[l] = c
              /\ IsAt(c, <<"queue", l>>)' <=> InQueue(c, l)'
              /\ IsAt(c, <<"held", l>>)' <=> held'[l] = c
         /\ \A p \in Producers :
              /\ IsAt(c, <<"load", p>>) <=> load[p] = c
              /\ IsAt(c, <<"load", p>>)' <=> load'[p] = c
         /\ IsAt(c, <<"inside", "list">>) <=> c \in inside
         /\ IsAt(c, <<"inside", "list">>)' <=> c \in inside'
BY DEF IsAt

LEMMA OnlyPlace ==
  ASSUME OnePlaceEach, NEW c \in Cars, NEW x \in Places, IsAt(c, x)
  PROVE  c \in simCars /\ \A y \in Places : IsAt(c, y) <=> y = x
BY DEF OnePlaceEach

\* The same in terms of the variables.
LEMMA MovesIf ==
  ASSUME NEW m \in Cars, NEW b \in Places,
         \A d \in Cars :
           /\ \A l \in Lanes :
                /\ InQueue(d, l)' <=> IF d = m THEN b = <<"queue", l>> ELSE InQueue(d, l)
                /\ held'[l] = d <=> IF d = m THEN b = <<"held", l>> ELSE held[l] = d
           /\ \A p \in Producers :
                load'[p] = d <=> IF d = m THEN b = <<"load", p>> ELSE load[p] = d
           /\ d \in inside' <=> IF d = m THEN b = <<"inside", "list">> ELSE d \in inside
  PROVE  Moves(m, b)
<1> SUFFICES ASSUME NEW d \in Cars, NEW x \in Places
             PROVE  IsAt(d, x)' <=> IF d = m THEN x = b ELSE IsAt(d, x)
  BY DEF Moves
<1>1. ASSUME NEW l \in Lanes, x = <<"queue", l>>
      PROVE  IsAt(d, x)' <=> IF d = m THEN x = b ELSE IsAt(d, x)
  BY <1>1, AtCases
<1>2. ASSUME NEW l \in Lanes, x = <<"held", l>>
      PROVE  IsAt(d, x)' <=> IF d = m THEN x = b ELSE IsAt(d, x)
  BY <1>2, AtCases
<1>3. ASSUME NEW p \in Producers, x = <<"load", p>>
      PROVE  IsAt(d, x)' <=> IF d = m THEN x = b ELSE IsAt(d, x)
  BY <1>3, AtCases
<1>4. CASE x = <<"inside", "list">>
  BY <1>4, AtCases
<1> QED
  BY <1>1, <1>2, <1>3, <1>4, PlaceCases

LEMMA MovedOnce ==
  ASSUME OnePlaceEach, NEW m \in Cars, NEW b \in Places, Moves(m, b),
         simCars' = simCars \cup {m}
  PROVE  OnePlaceEach'
<1> SUFFICES ASSUME NEW d \in Cars
             PROVE  IF d \in simCars'
                    THEN \E x \in Places : \A y \in Places : IsAt(d, y)' <=> y = x
                    ELSE \A x \in Places : ~IsAt(d, x)'
  BY DEF OnePlaceEach, Places, Lanes, Producers
<1>1. CASE d = m
  BY <1>1 DEF Moves
<1>2. CASE d # m
  BY <1>2 DEF Moves, OnePlaceEach
<1> QED
  BY <1>1, <1>2

LEMMA GoneOnce ==
  ASSUME OnePlaceEach, NEW m \in Cars, simCars' = simCars \ {m},
         \A d \in Cars : \A x \in Places : IsAt(d, x)' <=> d # m /\ IsAt(d, x)
  PROVE  OnePlaceEach'
BY DEF OnePlaceEach, Places, Lanes, Producers

LEMMA SameOnce ==
  ASSUME EveryCarOnce, UNCHANGED <<queue, held, load, inside, simCars>>
  PROVE  EveryCarOnce'
BY DEF EveryCarOnce, OnePlaceEach, OneNodeEach, IsAt, InQueue, Places, Lanes, Producers

LEMMA OnceInit == Init => EveryCarOnce
<1> SUFFICES ASSUME Init PROVE EveryCarOnce
  OBVIOUS
<1>1. \A l \in Lanes : Len(queue[l]) = 1 /\ queue[l][1] = NoCar /\ held[l] = NoCar
  BY DEF Init
<1>2. simCars = {} /\ inside = {} /\ \A p \in Producers : load[p] = NoCar
  BY DEF Init
<1>3. OnePlaceEach
  BY <1>1, <1>2, QueueAssumption DEF OnePlaceEach, IsAt, InQueue, Places
<1>4. OneNodeEach
  BY <1>1 DEF OneNodeEach
<1> QED
  BY <1>3, <1>4 DEF EveryCarOnce

LEMMA OnceCreatorMake ==
  ASSUME Steady, EveryCarOnce, NEW c \in Cars, CreatorMake(c)
  PROVE  EveryCarOnce'
<1> DEFINE b == <<"load", "creator">>
<1>1. b \in Places /\ "creator" \in Producers
  BY PlaceCases DEF Producers
<1>2. \A x \in Places : ~IsAt(c, x)
  BY DEF CreatorMake, EveryCarOnce, OnePlaceEach
<1>3. /\ \A l \in Lanes : ~InQueue(c, l) /\ held[l] # c
      /\ c \notin inside
  BY <1>2, AtCases, PlaceCases
<1>4. /\ load' = [load EXCEPT !["creator"] = c] /\ load \in [Producers -> Cars \cup {NoCar}]
      /\ load["creator"] = NoCar /\ UNCHANGED <<queue, held, inside>>
      /\ simCars' = simCars \cup {c}
  BY DEF CreatorMake, Steady, TypeOK, Idle, laneVars
<1>5. \A p \in Producers : \A d \in Cars :
        load'[p] = d <=> IF d = c THEN b = <<"load", p>> ELSE load[p] = d
  <2> SUFFICES ASSUME NEW p \in Producers, NEW d \in Cars
               PROVE  load'[p] = d <=> IF d = c THEN b = <<"load", p>> ELSE load[p] = d
    OBVIOUS
  <2>1. load[p] # c
    BY <1>2, AtCases, PlaceCases
  <2>2. CASE p = "creator"
    BY <2>2, <1>4, QueueAssumption
  <2>3. CASE p # "creator"
    BY <2>1, <2>3, <1>4
  <2> QED
    BY <2>2, <2>3
<1>6. Moves(c, b)
  <2>1. \A d \in Cars : \A l \in Lanes : InQueue(d, l)' <=> InQueue(d, l)
    BY <1>4 DEF InQueue
  <2> QED
    BY <1>1, <1>3, <1>4, <1>5, <2>1, MovesIf
<1>7. OnePlaceEach'
  BY <1>1, <1>4, <1>6, MovedOnce DEF EveryCarOnce
<1> QED
  BY <1>4, <1>7 DEF EveryCarOnce, OneNodeEach

LEMMA OnceInsideTake ==
  ASSUME Steady, EveryCarOnce, NEW c \in Cars, InsideTake(c)
  PROVE  EveryCarOnce'
<1> DEFINE a == <<"inside", "list">>
           b == <<"load", "inside">>
<1>1. a \in Places /\ b \in Places /\ "inside" \in Producers
  BY PlaceCases DEF Producers
<1>2. c \in simCars /\ \A x \in Places : IsAt(c, x) <=> x = a
  <2>1. IsAt(c, a)
    BY AtCases DEF InsideTake
  <2> QED
    BY <1>1, <2>1, OnlyPlace DEF EveryCarOnce
<1>3. \A l \in Lanes : ~InQueue(c, l) /\ held[l] # c
  <2> SUFFICES ASSUME NEW l \in Lanes PROVE ~InQueue(c, l) /\ held[l] # c
    OBVIOUS
  <2>1. /\ <<"queue", l>> \in Places /\ <<"queue", l>> # a
        /\ <<"held", l>> \in Places /\ <<"held", l>> # a
    BY PlaceCases
  <2>2. ~IsAt(c, <<"queue", l>>) /\ ~IsAt(c, <<"held", l>>)
    BY <1>2, <2>1
  <2> QED
    BY <2>2, AtCases
<1>4. /\ load' = [load EXCEPT !["inside"] = c] /\ load \in [Producers -> Cars \cup {NoCar}]
      /\ load["inside"] = NoCar /\ UNCHANGED <<queue, held, simCars>>
      /\ inside' = inside \ {c}
  BY DEF InsideTake, Steady, TypeOK, Idle, laneVars
<1>5. \A p \in Producers : \A d \in Cars :
        load'[p] = d <=> IF d = c THEN b = <<"load", p>> ELSE load[p] = d
  <2> SUFFICES ASSUME NEW p \in Producers, NEW d \in Cars
               PROVE  load'[p] = d <=> IF d = c THEN b = <<"load", p>> ELSE load[p] = d
    OBVIOUS
  <2>1. load[p] # c
    BY <1>2, AtCases, PlaceCases
  <2>2. CASE p = "inside"
    BY <2>2, <1>4, QueueAssumption
  <2>3. CASE p # "inside"
    BY <2>1, <2>3, <1>4
  <2> QED
    BY <2>2, <2>3
<1>6. Moves(c, b)
  <2>1. \A d \in Cars : \A l \in Lanes : InQueue(d, l)' <=> InQueue(d, l)
    BY <1>4 DEF InQueue
  <2> QED
    BY <1>1, <1>3, <1>4, <1>5, <2>1, MovesIf
<1>7. OnePlaceEach'
  BY <1>1, <1>2, <1>4, <1>6, MovedOnce DEF EveryCarOnce
<1> QED
  BY <1>4, <1>7 DEF EveryCarOnce, OneNodeEach

LEMMA OncePush ==
  ASSUME Steady, EveryCarOnce, NEW p \in Producers, NEW l \in Lanes, Push(p, l)
  PROVE  EveryCarOnce'
<1> DEFINE m == load[p]
           a == <<"load", p>>
           b == <<"queue", l>>
<1>1. a \in Places /\ b \in Places
  BY PlaceCases
<1>2. /\ m \in Cars
      /\ \A k \in Lanes : k # l => queue'[k] = queue[k]
      /\ Len(queue'[l]) = Len(queue[l]) + 1
      /\ queue'[l][1] = m
      /\ \A i \in 1..Len(queue[l]) : queue'[l][i + 1] = queue[l][i]
  BY PushedList
<1>3. Len(queue[l]) \in Nat
  BY ListAt, LenProperties
<1>4. m \in simCars /\ \A x \in Places : IsAt(m, x) <=> x = a
  <2>1. IsAt(m, a)
    BY AtCases
  <2> QED
    BY <1>1, <1>2, <2>1, OnlyPlace DEF EveryCarOnce
<1>5. /\ \A k \in Lanes : ~InQueue(m, k) /\ held[k] # m
      /\ \A q \in Producers : q # p => load[q] # m
      /\ m \notin inside
  BY <1>4, AtCases, PlaceCases
<1>6. /\ load' = [load EXCEPT ![p] = NoCar] /\ load \in [Producers -> Cars \cup {NoCar}]
      /\ UNCHANGED <<held, simCars, inside>>
  BY DEF Push, Steady, TypeOK, laneVars, carVars
<1>7. \A d \in Cars : InQueue(d, l)' <=> d = m \/ InQueue(d, l)
  <2> SUFFICES ASSUME NEW d \in Cars PROVE InQueue(d, l)' <=> d = m \/ InQueue(d, l)
    OBVIOUS
  <2>1. ASSUME NEW i \in 1..Len(queue'[l]), queue'[l][i] = d, d # m
        PROVE  InQueue(d, l)
    <3>1. i # 1
      BY <1>2, <2>1
    <3>2. i - 1 \in 1..Len(queue[l]) /\ (i - 1) + 1 = i
      BY <1>2, <1>3, <3>1
    <3> QED
      BY <1>2, <2>1, <3>2 DEF InQueue
  <2>2. ASSUME d = m PROVE InQueue(d, l)'
    <3>1. 1 \in 1..Len(queue'[l])
      BY <1>2, <1>3
    <3> QED
      BY <1>2, <2>2, <3>1 DEF InQueue
  <2>3. ASSUME NEW i \in 1..Len(queue[l]), queue[l][i] = d PROVE InQueue(d, l)'
    <3>1. i + 1 \in 1..Len(queue'[l])
      BY <1>2, <1>3
    <3> QED
      BY <1>2, <2>3, <3>1 DEF InQueue
  <2> QED
    BY <2>1, <2>2, <2>3 DEF InQueue
<1>8. \A d \in Cars : \A k \in Lanes :
        InQueue(d, k)' <=> IF d = m THEN b = <<"queue", k>> ELSE InQueue(d, k)
  <2> SUFFICES ASSUME NEW d \in Cars, NEW k \in Lanes
               PROVE  InQueue(d, k)' <=> IF d = m THEN b = <<"queue", k>> ELSE InQueue(d, k)
    OBVIOUS
  <2>1. CASE k = l
    BY <2>1, <1>7
  <2>2. CASE k # l
    <3>1. InQueue(d, k)' <=> InQueue(d, k)
      BY <2>2, <1>2 DEF InQueue
    <3> QED
      BY <3>1, <2>2, <1>5
  <2> QED
    BY <2>1, <2>2
<1>9. \A d \in Cars : \A q \in Producers :
        load'[q] = d <=> IF d = m THEN b = <<"load", q>> ELSE load[q] = d
  <2> SUFFICES ASSUME NEW d \in Cars, NEW q \in Producers
               PROVE  load'[q] = d <=> IF d = m THEN b = <<"load", q>> ELSE load[q] = d
    OBVIOUS
  <2>1. CASE q = p
    BY <2>1, <1>6, QueueAssumption
  <2>2. CASE q # p
    BY <2>2, <1>5, <1>6
  <2> QED
    BY <2>1, <2>2
<1>10. Moves(m, b)
  <2>1. \A d \in Cars :
          /\ \A k \in Lanes :
               held'[k] = d <=> IF d = m THEN b = <<"held", k>> ELSE held[k] = d
          /\ d \in inside' <=> IF d = m THEN b = <<"inside", "list">> ELSE d \in inside
    BY <1>5, <1>6
  <2> HIDE DEF m, b
  <2> QED
    BY <1>1, <1>2, <1>8, <1>9, <2>1, MovesIf
<1>11. OnePlaceEach'
  <2>1. simCars' = simCars \cup {m}
    BY <1>4, <1>6
  <2> HIDE DEF m, b
  <2> QED
    BY <1>1, <1>2, <1>10, <2>1, MovedOnce DEF EveryCarOnce
<1>12. OneNodeEach'
  <2> SUFFICES ASSUME NEW k \in Lanes, NEW i \in 1..Len(queue'[k]), NEW j \in 1..Len(queue'[k]),
                      queue'[k][i] = queue'[k][j], queue'[k][i] # NoCar
               PROVE  i = j
    BY DEF OneNodeEach
  <2>1. CASE k # l
    BY <2>1, <1>2 DEF EveryCarOnce, OneNodeEach
  <2>2. CASE k = l
    <3>1. \A h \in 1..Len(queue'[l]) : h # 1 =>
            h - 1 \in 1..Len(queue[l]) /\ queue'[l][h] = queue[l][h - 1]
      <4> SUFFICES ASSUME NEW h \in 1..Len(queue'[l]), h # 1
                   PROVE  h - 1 \in 1..Len(queue[l]) /\ queue'[l][h] = queue[l][h - 1]
        OBVIOUS
      <4>1. h - 1 \in 1..Len(queue[l]) /\ (h - 1) + 1 = h
        BY <1>2, <1>3
      <4> QED
        BY <4>1, <1>2
    <3>2. \A h \in 1..Len(queue[l]) : queue[l][h] # m
      BY <1>5 DEF InQueue
    <3>3. CASE i = 1 \/ j = 1
      BY <3>1, <3>2, <3>3, <2>2, <1>2
    <3>4. CASE i # 1 /\ j # 1
      <4>1. i - 1 = j - 1
        BY <3>1, <3>4, <2>2 DEF EveryCarOnce, OneNodeEach
      <4> QED
        BY <4>1, <1>2, <1>3, <2>2
    <3> QED
      BY <3>3, <3>4
  <2> QED
    BY <2>1, <2>2
<1> QED
  BY <1>11, <1>12 DEF EveryCarOnce

LEMMA OncePop ==
  ASSUME Steady, EveryCarOnce, NEW l \in Lanes, LanePop(l)
  PROVE  EveryCarOnce'
<1> DEFINE b == <<"held", l>>
<1>1. PICK n \in 1..Len(queue[l]) :
        /\ queue[l][n] \in Cars
        /\ held' = [held EXCEPT ![l] = queue[l][n]]
        /\ \A k \in Lanes : k # l => queue'[k] = queue[k]
        /\ Len(queue'[l]) = Len(queue[l])
        /\ \A i \in 1..Len(queue[l]) : queue'[l][i] = IF i = n THEN NoCar ELSE queue[l][i]
  BY PoppedList
<1>2. PICK m \in Cars : m = queue[l][n]
  BY <1>1
<1>3. b \in Places /\ <<"queue", l>> \in Places
  BY PlaceCases
<1>4. m \in simCars /\ \A x \in Places : IsAt(m, x) <=> x = <<"queue", l>>
  <2>1. IsAt(m, <<"queue", l>>)
    BY <1>2, AtCases DEF InQueue
  <2> QED
    BY <1>3, <2>1, OnlyPlace DEF EveryCarOnce
<1>5. /\ \A k \in Lanes : (k # l => ~InQueue(m, k)) /\ held[k] # m
      /\ \A p \in Producers : load[p] # m
      /\ m \notin inside
  BY <1>4, AtCases, PlaceCases
<1>6. /\ held \in [Lanes -> Cars \cup {NoCar}] /\ held[l] = NoCar
      /\ UNCHANGED <<load, simCars, inside>>
  BY DEF LanePop, Steady, TypeOK, carVars
<1>7. \A i \in 1..Len(queue[l]) : queue[l][i] = m => i = n
  BY <1>1, <1>2, QueueAssumption DEF EveryCarOnce, OneNodeEach
<1>8. \A d \in Cars : InQueue(d, l)' <=> d # m /\ InQueue(d, l)
  <2> SUFFICES ASSUME NEW d \in Cars PROVE InQueue(d, l)' <=> d # m /\ InQueue(d, l)
    OBVIOUS
  <2>1. ASSUME NEW i \in 1..Len(queue[l]), queue'[l][i] = d
        PROVE  d # m /\ InQueue(d, l)
    <3>1. i # n /\ queue[l][i] = d
      BY <1>1, <2>1, QueueAssumption
    <3> QED
      BY <3>1, <1>7 DEF InQueue
  <2>2. ASSUME NEW i \in 1..Len(queue[l]), queue[l][i] = d, d # m
        PROVE  InQueue(d, l)'
    <3>1. queue'[l][i] = d
      BY <1>1, <1>2, <2>2
    <3> QED
      BY <3>1, <1>1 DEF InQueue
  <2> QED
    BY <1>1, <2>1, <2>2 DEF InQueue
<1>9. \A d \in Cars : \A k \in Lanes :
        InQueue(d, k)' <=> IF d = m THEN b = <<"queue", k>> ELSE InQueue(d, k)
  <2> SUFFICES ASSUME NEW d \in Cars, NEW k \in Lanes
               PROVE  InQueue(d, k)' <=> IF d = m THEN b = <<"queue", k>> ELSE InQueue(d, k)
    OBVIOUS
  <2>1. b # <<"queue", k>>
    OBVIOUS
  <2>2. CASE k = l
    BY <2>1, <2>2, <1>8
  <2>3. CASE k # l
    <3>1. InQueue(d, k)' <=> InQueue(d, k)
      BY <2>3, <1>1 DEF InQueue
    <3> QED
      BY <3>1, <2>1, <2>3, <1>5
  <2> QED
    BY <2>2, <2>3
<1>10. \A d \in Cars : \A k \in Lanes :
         held'[k] = d <=> IF d = m THEN b = <<"held", k>> ELSE held[k] = d
  <2> SUFFICES ASSUME NEW d \in Cars, NEW k \in Lanes
               PROVE  held'[k] = d <=> IF d = m THEN b = <<"held", k>> ELSE held[k] = d
    OBVIOUS
  <2>1. CASE k = l
    BY <2>1, <1>1, <1>2, <1>6, QueueAssumption
  <2>2. CASE k # l
    BY <2>2, <1>1, <1>5, <1>6
  <2> QED
    BY <2>1, <2>2
<1>11. Moves(m, b)
  <2>1. \A d \in Cars :
          /\ \A p \in Producers :
               load'[p] = d <=> IF d = m THEN b = <<"load", p>> ELSE load[p] = d
          /\ d \in inside' <=> IF d = m THEN b = <<"inside", "list">> ELSE d \in inside
    BY <1>5, <1>6
  <2> HIDE DEF b
  <2> QED
    BY <1>3, <1>9, <1>10, <2>1, MovesIf
<1>12. OnePlaceEach'
  <2>1. simCars' = simCars \cup {m}
    BY <1>4, <1>6
  <2> HIDE DEF b
  <2> QED
    BY <1>3, <1>11, <2>1, MovedOnce DEF EveryCarOnce
<1>13. OneNodeEach'
  <2> SUFFICES ASSUME NEW k \in Lanes, NEW i \in 1..Len(queue'[k]), NEW j \in 1..Len(queue'[k]),
                      queue'[k][i] = queue'[k][j], queue'[k][i] # NoCar
               PROVE  i = j
    BY DEF OneNodeEach
  <2>1. CASE k # l
    BY <2>1, <1>1 DEF EveryCarOnce, OneNodeEach
  <2>2. CASE k = l
    BY <2>2, <1>1 DEF EveryCarOnce, OneNodeEach
  <2> QED
    BY <2>1, <2>2
<1> QED
  BY <1>12, <1>13 DEF EveryCarOnce

\* A served car is in the lane's hands only.
LEMMA HeldCar ==
  ASSUME Steady, EveryCarOnce, NEW l \in Lanes, point[l] = "serve"
  PROVE  /\ held[l] \in simCars /\ held[l] \in Cars
         /\ \A k \in Lanes : ~InQueue(held[l], k) /\ (k # l => held[k] # held[l])
         /\ \A p \in Producers : load[p] # held[l]
         /\ held[l] \notin inside
<1>1. held[l] \in Cars
  BY DEF Steady, TypeOK
<1>2. <<"held", l>> \in Places /\ IsAt(held[l], <<"held", l>>)
  BY AtCases, PlaceCases
<1>3. held[l] \in simCars /\ \A x \in Places : IsAt(held[l], x) <=> x = <<"held", l>>
  BY <1>1, <1>2, OnlyPlace DEF EveryCarOnce
<1> QED
  BY <1>1, <1>3, AtCases, PlaceCases

LEMMA OnceAdmit ==
  ASSUME Steady, EveryCarOnce, NEW l \in Lanes, EntranceAdmit(l)
  PROVE  EveryCarOnce'
<1> DEFINE b == <<"inside", "list">>
<1>1. point[l] = "serve"
  BY DEF EntranceAdmit, Release
<1>2. PICK m \in Cars : m = held[l]
  BY <1>1, HeldCar
<1>3. /\ held' = [held EXCEPT ![l] = NoCar] /\ held \in [Lanes -> Cars \cup {NoCar}]
      /\ inside' = inside \cup {m} /\ UNCHANGED <<queue, load, simCars>>
  BY <1>2 DEF EntranceAdmit, Release, Steady, TypeOK
<1>4. \A d \in Cars : \A k \in Lanes :
        held'[k] = d <=> IF d = m THEN b = <<"held", k>> ELSE held[k] = d
  <2> SUFFICES ASSUME NEW d \in Cars, NEW k \in Lanes
               PROVE  held'[k] = d <=> IF d = m THEN b = <<"held", k>> ELSE held[k] = d
    OBVIOUS
  <2>1. CASE k = l
    BY <2>1, <1>2, <1>3, QueueAssumption
  <2>2. CASE k # l
    BY <2>2, <1>1, <1>2, <1>3, HeldCar
  <2> QED
    BY <2>1, <2>2
<1>5. Moves(m, b)
  <2>1. b \in Places
    BY PlaceCases
  <2>2. \A d \in Cars :
          /\ \A k \in Lanes :
               InQueue(d, k)' <=> IF d = m THEN b = <<"queue", k>> ELSE InQueue(d, k)
          /\ \A p \in Producers :
               load'[p] = d <=> IF d = m THEN b = <<"load", p>> ELSE load[p] = d
          /\ d \in inside' <=> IF d = m THEN b = <<"inside", "list">> ELSE d \in inside
    <3>1. \A d \in Cars : \A k \in Lanes : InQueue(d, k)' <=> InQueue(d, k)
      BY <1>3 DEF InQueue
    <3>2. /\ \A k \in Lanes : ~InQueue(m, k)
          /\ \A p \in Producers : load[p] # m
      BY <1>1, <1>2, HeldCar
    <3> QED
      BY <1>3, <3>1, <3>2
  <2> HIDE DEF b
  <2> QED
    BY <1>4, <2>1, <2>2, MovesIf
<1>6. OnePlaceEach'
  <2>1. b \in Places
    BY PlaceCases
  <2>2. simCars' = simCars \cup {m}
    BY <1>1, <1>2, <1>3, HeldCar
  <2> QED
    BY <1>5, <2>1, <2>2, MovedOnce DEF EveryCarOnce
<1> QED
  BY <1>3, <1>6 DEF EveryCarOnce, OneNodeEach

\* A car turned away at an entrance, or let out at an exit.
LEMMA OnceGone ==
  ASSUME Steady, EveryCarOnce, NEW l \in Lanes, EntranceRefuse(l) \/ ExitLetOut(l)
  PROVE  EveryCarOnce'
<1>1. point[l] = "serve"
  BY DEF EntranceRefuse, ExitLetOut, Release
<1>2. PICK m \in Cars : m = held[l]
  BY <1>1, HeldCar
<1>3. /\ held' = [held EXCEPT ![l] = NoCar] /\ held \in [Lanes -> Cars \cup {NoCar}]
      /\ simCars' = simCars \ {m} /\ UNCHANGED <<queue, load, inside>>
  BY <1>2 DEF EntranceRefuse, ExitLetOut, Release, Steady, TypeOK
<1>4. /\ \A k \in Lanes : ~InQueue(m, k) /\ (k # l => held[k] # m)
      /\ \A p \in Producers : load[p] # m
      /\ m \notin inside
  BY <1>1, <1>2, HeldCar
<1>5. \A d \in Cars : \A k \in Lanes :
        /\ held'[k] = d <=> d # m /\ held[k] = d
        /\ InQueue(d, k)' <=> InQueue(d, k)
  <2> SUFFICES ASSUME NEW d \in Cars, NEW k \in Lanes
               PROVE  /\ held'[k] = d <=> d # m /\ held[k] = d
                      /\ InQueue(d, k)' <=> InQueue(d, k)
    OBVIOUS
  <2>1. InQueue(d, k)' <=> InQueue(d, k)
    BY <1>3 DEF InQueue
  <2>2. CASE k = l
    BY <2>1, <2>2, <1>2, <1>3, QueueAssumption
  <2>3. CASE k # l
    BY <2>1, <2>3, <1>3, <1>4
  <2> QED
    BY <2>2, <2>3
<1>6. ASSUME NEW d \in Cars, NEW x \in Places
      PROVE  IsAt(d, x)' <=> d # m /\ IsAt(d, x)
  <2>1. ASSUME NEW k \in Lanes, x = <<"queue", k>>
        PROVE  IsAt(d, x)' <=> d # m /\ IsAt(d, x)
    <3>1. InQueue(d, k)' <=> InQueue(d, k)
      BY <1>5
    <3>2. d = m => ~InQueue(d, k)
      BY <1>4
    <3> QED
      BY <2>1, <3>1, <3>2, AtCases
  <2>2. ASSUME NEW k \in Lanes, x = <<"held", k>>
        PROVE  IsAt(d, x)' <=> d # m /\ IsAt(d, x)
    BY <2>2, <1>5, AtCases
  <2>3. ASSUME NEW p \in Producers, x = <<"load", p>>
        PROVE  IsAt(d, x)' <=> d # m /\ IsAt(d, x)
    <3>1. load'[p] = load[p] /\ load[p] # m
      BY <1>3, <1>4
    <3> QED
      BY <2>3, <3>1, AtCases
  <2>4. CASE x = <<"inside", "list">>
    BY <2>4, <1>3, <1>4, AtCases
  <2> QED
    BY <2>1, <2>2, <2>3, <2>4, PlaceCases
<1>7. OnePlaceEach'
  BY <1>3, <1>6, GoneOnce DEF EveryCarOnce
<1> QED
  BY <1>3, <1>7 DEF EveryCarOnce, OneNodeEach

LEMMA OnceStep == Steady /\ EveryCarOnce /\ [Next]_vars => EveryCarOnce'
<1> SUFFICES ASSUME Steady, EveryCarOnce, [Next]_vars PROVE EveryCarOnce'
  OBVIOUS
<1>1. ASSUME NEW p \in Producers, SignalStep(p) PROVE EveryCarOnce'
  BY <1>1, SameOnce DEF SignalStep, Signal, SignalNobody, laneVars, carVars
<1>2. ASSUME NEW l \in Lanes, LaneWait(l) \/ LaneClose(l) \/ Wake(l) PROVE EveryCarOnce'
  BY <1>2, SameOnce DEF LaneWait, LaneClose, Wake, carVars
<1>3. CASE UNCHANGED vars
  BY <1>3, SameOnce DEF vars, laneVars, carVars
<1> QED
  BY <1>1, <1>2, <1>3, OnceCreatorMake, OnceInsideTake, OncePush, OncePop, OnceAdmit,
     OnceGone DEF Next, LaneStep

-----------------------------------------------------------------------------
(* The sleepers.                                                           *)

LEMMA SleepersStep == Steady /\ SleepsOnlyIfRobbed /\ [Next]_vars => SleepsOnlyIfRobbed'
<1> SUFFICES ASSUME Steady, SleepsOnlyIfRobbed, [Next]_vars,
                    NEW q \in Producers, NEW k \in Ends[q], point'[k] = "wait",
                    queue'[k][1] # NoCar
             PROVE  k \in robbed' \/ rings'[q] = k
  BY DEF SleepsOnlyIfRobbed, Waiting
<1>0. /\ k \in Lanes /\ point \in [Lanes -> {"test", "wait", "serve", "close"}]
      /\ rings \in [Producers -> Lanes \cup {NoLane}]
      /\ \A l \in Ends[q] : point[l] = "wait" /\ queue[l][1] # NoCar
                              => l \in robbed \/ rings[q] = l
  BY EndsAre DEF Steady, TypeOK, SleepsOnlyIfRobbed, Waiting
<1>1. ASSUME NEW c \in Cars, CreatorMake(c) \/ InsideTake(c)
      PROVE  k \in robbed' \/ rings'[q] = k
  BY <1>0, <1>1 DEF CreatorMake, InsideTake, laneVars
<1>2. ASSUME NEW p \in Producers, NEW l \in Lanes, Push(p, l)
      PROVE  k \in robbed' \/ rings'[q] = k
  <2>1. rings[p] = NoLane /\ l \in Ends[p] /\ rings' = [rings EXCEPT ![p] = l]
        /\ UNCHANGED <<point, robbed>>
    BY <1>2 DEF Steady, ProducersInStep, Push, laneVars
  <2>2. CASE k = l
    BY <2>1, <2>2, <1>0, EndsAre
  <2>3. CASE k # l
    <3>1. k \in robbed \/ rings[q] = k
      <4>1. queue'[k] = queue[k]
        BY <1>0, <1>2, <2>3, PushedList
      <4> QED
        BY <4>1, <1>0, <2>1
    <3>2. p = q => rings[q] # k
      BY <2>1, <1>0, QueueAssumption
    <3> QED
      BY <3>1, <3>2, <2>1, <1>0
  <2> QED
    BY <2>2, <2>3
<1>3. ASSUME NEW p \in Producers, NEW l \in Lanes, Signal(p, l)
      PROVE  k \in robbed' \/ rings'[q] = k
  <2>1. /\ l \in Ends[p] /\ point' = [point EXCEPT ![l] = "test"] /\ queue' = queue
        /\ robbed' = (robbed \cup {r \in Waiting(p) : r = rings[p]}) \ {l}
        /\ rings' = [rings EXCEPT ![p] = NoLane]
    BY <1>3 DEF Signal, Waiting
  <2>2. k # l /\ point[k] = "wait"
    BY <2>1, <1>0
  <2>3. k \in robbed \/ rings[q] = k
    BY <2>1, <2>2, <1>0
  <2>4. CASE k \in robbed
    BY <2>1, <2>2, <2>4
  <2>5. CASE rings[q] = k /\ p # q
    BY <2>1, <2>5, <1>0
  <2>6. CASE rings[q] = k /\ p = q
    BY <2>1, <2>2, <2>6 DEF Waiting
  <2> QED
    BY <2>3, <2>4, <2>5, <2>6
<1>4. ASSUME NEW p \in Producers, SignalNobody(p)
      PROVE  k \in robbed' \/ rings'[q] = k
  <2>1. p # q
    BY <1>0, <1>4 DEF SignalNobody, Waiting, laneVars
  <2> QED
    BY <2>1, <1>0, <1>4 DEF SignalNobody, laneVars
<1>5. ASSUME NEW l \in Lanes, LaneWait(l)
      PROVE  k \in robbed' \/ rings'[q] = k
  BY <1>0, <1>5 DEF LaneWait
<1>6. ASSUME NEW l \in Lanes, LanePop(l)
      PROVE  k \in robbed' \/ rings'[q] = k
  <2>1. /\ point' = [point EXCEPT ![l] = "serve"] /\ UNCHANGED <<rings, robbed>>
        /\ \A j \in Lanes : j # l => queue'[j] = queue[j]
    BY <1>6, PoppedList DEF LanePop
  <2> QED
    BY <2>1, <1>0
<1>7. ASSUME NEW l \in Lanes, EntranceAdmit(l) \/ EntranceRefuse(l) \/ ExitLetOut(l)
      PROVE  k \in robbed' \/ rings'[q] = k
  BY <1>0, <1>7 DEF EntranceAdmit, EntranceRefuse, ExitLetOut, Release
<1>8. ASSUME NEW l \in Lanes, LaneClose(l) \/ Wake(l)
      PROVE  k \in robbed' \/ rings'[q] = k
  BY <1>0, <1>8 DEF LaneClose, Wake
<1>9. CASE UNCHANGED vars
  BY <1>0, <1>9 DEF vars, laneVars
<1> QED
  BY <1>1, <1>2, <1>3, <1>4, <1>5, <1>6, <1>7, <1>8, <1>9 DEF Next, SignalStep, LaneStep

-----------------------------------------------------------------------------
(* The theorems.                                                           *)

IInv == Steady /\ EveryCarOnce /\ SleepsOnlyIfRobbed

LEMMA Invariance == Spec => []IInv
<1>1. Init => IInv
  <2>1. Init => SleepsOnlyIfRobbed
    BY EndsAre DEF Init, SleepsOnlyIfRobbed, Waiting
  <2> QED
    BY <2>1, SteadyInit, OnceInit DEF IInv
<1>2. IInv /\ [Next]_vars => IInv'
  BY SteadyStep, OnceStep, SleepersStep DEF IInv
<1> QED
  BY <1>1, <1>2, PTL DEF Spec

\* The variables keep their types, for any lanes and cars.
THEOREM TypeCorrect == Spec => []TypeOK
<1>1. IInv => TypeOK
  BY DEF IInv, Steady
<1> QED
  BY <1>1, Invariance, PTL

\* No car is lost or doubled on its way through the queues and the threads.
THEOREM CarsOnce == Spec => []EveryCarOnce
<1>1. IInv => EveryCarOnce
  BY DEF IInv
<1> QED
  BY <1>1, Invariance, PTL

\* A lane sleeps over a car only if its signal is to come or woke another lane.
THEOREM SleepersRobbed == Spec => []SleepsOnlyIfRobbed
<1>1. IInv => SleepsOnlyIfRobbed
  BY DEF IInv
<1> QED
  BY <1>1, Invariance, PTL

-----------------------------------------------------------------------------
(* The lanes are first in, first out.                                      *)

LEMMA FifoInit == Init => Fifo!Init
<1> SUFFICES ASSUME Init PROVE Fifo!Init
  OBVIOUS
<1>1. \A l \in Lanes : queue[l] = <<NoCar>>
  BY DEF Init
<1>2. /\ <<NoCar>> \in Seq(Entries) /\ Len(<<NoCar>>) = 1 /\ <<NoCar>>[1] = NoCar
  BY DEF Entries
<1>3. Filled(<<NoCar>>, 0)
  BY <1>2 DEF Filled
<1>4. CarsOf(<<NoCar>>) \in Seq(Cars) /\ Len(CarsOf(<<NoCar>>)) = 0
  BY <1>2, <1>3, CarsOfList
<1>5. CarsOf(<<NoCar>>) = <<>>
  BY <1>4, EmptySeq
<1> QED
  BY <1>1, <1>5 DEF Init, Fifo!Init

LEMMA FifoPush ==
  ASSUME IInv, NEW p \in Producers, NEW l \in Lanes, Push(p, l)
  PROVE  Fifo!Arrive(l, load[p]) /\ load[p] \in Cars
<1> DEFINE c == load[p]
<1>1. /\ Steady /\ EveryCarOnce
  BY DEF IInv
<1>2. /\ c \in Cars
      /\ \A k \in Lanes : k # l => queue'[k] = queue[k]
      /\ queue'[l] = NodePush(queue[l], c)
  BY <1>1, PushedList
<1>3. CarsOf(queue'[l]) = Append(CarsOf(queue[l]), c)
  BY <1>1, <1>2, ListAt, PushAppends
<1>4. /\ \A k \in Lanes : ~InQueue(c, k) /\ held[k] # c
  <2>1. <<"load", p>> \in Places /\ IsAt(c, <<"load", p>>)
    BY AtCases, PlaceCases
  <2>2. \A x \in Places : IsAt(c, x) <=> x = <<"load", p>>
    BY <1>1, <1>2, <2>1, OnlyPlace DEF EveryCarOnce
  <2> QED
    BY <2>2, AtCases, PlaceCases
<1>5. ASSUME NEW k \in Lanes, NEW i \in 1..Len(CarsOf(queue[k]))
      PROVE  CarsOf(queue[k])[i] # c
  <2>1. PICK n \in 0..Len(queue[k]) - 1 : Filled(queue[k], n)
    BY <1>1, ListAt
  <2>2. queue[k] \in Seq(Entries) /\ Len(queue[k]) \in Nat
    BY <1>1, ListAt, LenProperties
  <2>3. i \in 1..n /\ CarsOf(queue[k])[i] = queue[k][n + 1 - i]
    BY <2>1, <2>2, CarsOfList
  <2>4. n + 1 - i \in 1..Len(queue[k])
    BY <2>1, <2>2, <2>3
  <2> QED
    BY <2>3, <2>4, <1>4 DEF InQueue
<1>6. ~Fifo!Present(c)
  BY <1>4, <1>5 DEF Fifo!Present
<1>7. [k \in Lanes |-> CarsOf(queue'[k])]
        = [[k \in Lanes |-> CarsOf(queue[k])] EXCEPT ![l] = Append(CarsOf(queue[l]), c)]
  BY <1>2, <1>3
<1>8. held' = held
  BY DEF Push, laneVars
<1> HIDE DEF c
<1>9. Fifo!Arrive(l, c)
  BY <1>6, <1>7, <1>8 DEF Fifo!Arrive
<1> QED
  BY <1>2, <1>9 DEF c

LEMMA FifoPop ==
  ASSUME IInv, NEW l \in Lanes, LanePop(l)
  PROVE  Fifo!Serve(l)
<1>1. Steady /\ queue[l][1] # NoCar /\ held[l] = NoCar
  BY DEF IInv, Steady, TypeOK, LanePop
<1>2. /\ CarsOf(queue[l]) # <<>>
      /\ queue[l][LastCar(queue[l])] = Head(CarsOf(queue[l]))
      /\ CarsOf(NodePop(queue[l])) = Tail(CarsOf(queue[l]))
  BY <1>1, ListAt, PopTakesFirst
<1>3. /\ \A k \in Lanes : k # l => queue'[k] = queue[k]
      /\ queue'[l] = NodePop(queue[l])
  BY <1>1, PoppedList
<1>4. [k \in Lanes |-> CarsOf(queue'[k])]
        = [[k \in Lanes |-> CarsOf(queue[k])] EXCEPT ![l] = Tail(CarsOf(queue[l]))]
  BY <1>2, <1>3
<1>5. held' = [held EXCEPT ![l] = Head(CarsOf(queue[l]))]
  BY <1>2 DEF LanePop
<1> QED
  BY <1>1, <1>2, <1>4, <1>5 DEF Fifo!Serve

LEMMA FifoRelease ==
  ASSUME IInv, NEW l \in Lanes, EntranceAdmit(l) \/ EntranceRefuse(l) \/ ExitLetOut(l)
  PROVE  Fifo!Finish(l)
<1>1. held[l] # NoCar
  BY DEF IInv, Steady, TypeOK, EntranceAdmit, EntranceRefuse, ExitLetOut, Release
<1>2. queue' = queue /\ held' = [held EXCEPT ![l] = NoCar]
  BY DEF EntranceAdmit, EntranceRefuse, ExitLetOut, Release
<1> QED
  BY <1>1, <1>2 DEF Fifo!Finish

LEMMA FifoStep == IInv /\ [Next]_vars => [Fifo!Next]_(Fifo!vars)
<1> SUFFICES ASSUME IInv, [Next]_vars PROVE Fifo!Next \/ UNCHANGED Fifo!vars
  OBVIOUS
<1>1. UNCHANGED <<queue, held>> => UNCHANGED Fifo!vars
  BY DEF Fifo!vars
<1>2. ASSUME NEW c \in Cars, CreatorMake(c) \/ InsideTake(c) PROVE UNCHANGED Fifo!vars
  BY <1>1, <1>2 DEF CreatorMake, InsideTake, laneVars
<1>3. ASSUME NEW p \in Producers, SignalStep(p) PROVE UNCHANGED Fifo!vars
  BY <1>1, <1>3 DEF SignalStep, Signal, SignalNobody, laneVars
<1>4. ASSUME NEW l \in Lanes, LaneWait(l) \/ LaneClose(l) \/ Wake(l)
      PROVE  UNCHANGED Fifo!vars
  BY <1>1, <1>4 DEF LaneWait, LaneClose, Wake
<1>5. CASE UNCHANGED vars
  BY <1>1, <1>5 DEF vars, laneVars
<1>6. ASSUME NEW p \in Producers, NEW l \in Lanes, Push(p, l) PROVE Fifo!Next
  BY <1>6, FifoPush DEF Fifo!Next
<1>7. ASSUME NEW l \in Lanes, LanePop(l) PROVE Fifo!Next
  BY <1>7, FifoPop DEF Fifo!Next
<1>8. ASSUME NEW l \in Lanes, EntranceAdmit(l) \/ EntranceRefuse(l) \/ ExitLetOut(l)
      PROVE  Fifo!Next
  BY <1>8, FifoRelease DEF Fifo!Next
<1> QED
  BY <1>2, <1>3, <1>4, <1>5, <1>6, <1>7, <1>8 DEF Next, LaneStep

\* The queues, with the nodes that node_pop leaves in them, implement FifoLanes.
THEOREM Refinement == Spec => ImplementsFifo
<1>1. Init => Fifo!Init
  BY FifoInit
<1>2. IInv /\ [Next]_vars => [Fifo!Next]_(Fifo!vars)
  BY FifoStep
<1> QED
  BY <1>1, <1>2, Invariance, PTL DEF Spec, ImplementsFifo, Fifo!Spec
=============================================================================
