------------------------ MODULE TempMonitor_proofs ------------------------
(***************************************************************************)
(* Proofs about TempMonitor for any temperatures, any uninitialised value, *)
(* any length of the window and any number of changes.                     *)
(***************************************************************************)
EXTENDS TempMonitor, FiniteSetTheorems, SequenceTheorems, TLAPS

\* The kept samples and medians are those of the newest readings, and the last
\* broadcasts are what they call for.
Aligned ==
  /\ Len(templist) = IF Len(readings) < MEDIAN_WINDOW THEN Len(readings)
                     ELSE MEDIAN_WINDOW
  /\ \A i \in 1..Len(templist) : templist[i] = readings[i]
  /\ Len(medianlist) = IF Len(readings) < MEDIAN_WINDOW THEN 0
                       ELSE Len(readings) - (MEDIAN_WINDOW - 1)
  /\ called = IF Len(templist) < MEDIAN_WINDOW THEN {}
              ELSE Detect(templist, medianlist)

IInv == TypeOK /\ Aligned /\ MediansWithinReadings

-----------------------------------------------------------------------------
(* Lists and medians.                                                      *)

\* The list p is list with x in front, of which at most n stay.
Pushed(p, x, list, n, S) ==
  /\ p \in Seq(S)
  /\ Len(p) = IF Len(list) < n THEN Len(list) + 1 ELSE n
  /\ p[1] = x
  /\ \A i \in 2..Len(p) : p[i] = list[i - 1]

LEMMA PushProperties ==
  ASSUME NEW S, NEW x \in S, NEW list \in Seq(S), NEW n \in Nat \ {0}
  PROVE  Pushed(Push(x, list, n), x, list, n, S)
<1> DEFINE l == <<x>> \o list
           k == IF Len(list) < n THEN Len(list) + 1 ELSE n
<1>1. Len(list) \in Nat
  BY LenProperties
<1>2. <<x>> \in Seq(S) /\ Len(<<x>>) = 1 /\ <<x>>[1] = x
  OBVIOUS
<1>3. /\ l \in Seq(S) /\ Len(l) = 1 + Len(list)
      /\ \A i \in 1..(1 + Len(list)) : l[i] = IF i <= 1 THEN <<x>>[i] ELSE list[i - 1]
  BY <1>2, ConcatProperties
<1>4. k \in 1..(1 + Len(list))
  BY <1>1
<1>5. \A i \in 1..k : l[i] \in S
  BY <1>3, <1>4, <1>1, ElementOfSeq
<1>6. /\ SubSeq(l, 1, k) \in Seq(S) /\ Len(SubSeq(l, 1, k)) = k
      /\ \A i \in 1..k : SubSeq(l, 1, k)[i] = l[i]
  <2> HIDE DEF l, k
  <2> QED BY <1>1, <1>4, <1>5, SubSeqProperties
<1>7. Push(x, list, n) = SubSeq(l, 1, k)
  BY DEF Push
<1> HIDE DEF k
<1> QED
  BY <1>1, <1>2, <1>3, <1>4, <1>6, <1>7 DEF k, Pushed

\* A set of two elements is a pair.
LEMMA TwoElements ==
  ASSUME NEW S, IsFiniteSet(S), Cardinality(S) = 2
  PROVE  \E a, b : a # b /\ S = {a, b}
<1>1. PICK a : a \in S
  BY FS_EmptySet
<1>2. IsFiniteSet(S \ {a}) /\ Cardinality(S \ {a}) = 1
  BY <1>1, FS_RemoveElement
<1>3. PICK b : S \ {a} = {b}
  BY <1>2, FS_Singleton
<1> QED
  BY <1>1, <1>3

\* Two of the last four values are at or below the middle one, and two at or
\* above it, whatever the first value is.
LEMMA MiddleOfFour ==
  ASSUME NEW s, \A i \in 1..5 : s[i] \in Int, NEW m \in Middle(s)
  PROVE  /\ \E j, k \in 2..5 : j # k /\ s[j] <= m /\ s[k] <= m
         /\ \E j, k \in 2..5 : j # k /\ s[j] >= m /\ s[k] >= m
         /\ \E k \in 1..5 : m = s[k]
<1>1. PICK i \in 1..5, before \in SUBSET (1..5) :
        /\ i \notin before
        /\ m = s[i]
        /\ Cardinality(before) = 2
        /\ \A j \in before : s[j] <= s[i]
        /\ \A j \in (1..5) \ (before \cup {i}) : s[j] >= s[i]
  BY DEF Middle, MEDIAN_WINDOW
<1>2. IsFiniteSet(before)
  <2>1. 1 \in Int /\ 5 \in Int
    OBVIOUS
  <2>2. IsFiniteSet(1..5)
    BY <2>1, FS_Interval, Zenon
  <2> QED
    BY <2>2, FS_Subset
<1>3. PICK a, b : a # b /\ before = {a, b}
  BY <1>1, <1>2, TwoElements
<1>4. a \in 1..5 /\ b \in 1..5 /\ a # i /\ b # i
  BY <1>1, <1>3
<1>5. s[a] <= m /\ s[b] <= m /\ s[i] <= m /\ s[i] >= m
  BY <1>1, <1>3, <1>4
<1>6. PICK c \in 1..5, d \in 1..5 :
        c # d /\ c \notin {a, b, i} /\ d \notin {a, b, i}
  <2>1. {1, 2, 3, 4, 5} = 1..5
    OBVIOUS
  <2> QED
    BY <2>1, <1>3, <1>4
<1>7. s[c] >= m /\ s[d] >= m
  BY <1>1, <1>3, <1>6
<1>8. \E j, k \in 2..5 : j # k /\ s[j] <= m /\ s[k] <= m
  BY <1>3, <1>4, <1>5
<1>9. \E j, k \in 2..5 : j # k /\ s[j] >= m /\ s[k] >= m
  BY <1>5, <1>6, <1>7
<1> QED
  BY <1>1, <1>8, <1>9

-----------------------------------------------------------------------------
(* The inductive invariant.                                                *)

LEMMA InvInit == Init => IInv
BY MonitorAssumption
   DEF Init, IInv, TypeOK, Aligned, MediansWithinReadings, MEDIAN_WINDOW, Horizon

\* What a sample does to the samples and the readings.
LEMMA ReadStep ==
  ASSUME IInv, Read
  PROVE  /\ templist' \in Seq(Temps) /\ readings' \in Seq(Temps)
         /\ Len(templist') = IF Len(templist) < 5 THEN Len(templist) + 1 ELSE 5
         /\ Len(readings') = IF Len(readings) < Horizon THEN Len(readings) + 1
                             ELSE Horizon
         /\ Len(templist') = IF Len(readings') < 5 THEN Len(readings') ELSE 5
         /\ \A i \in 1..Len(templist') : templist'[i] = readings'[i]
         /\ \A i \in 2..Len(readings') : readings'[i] = readings[i - 1]
<1>1. Horizon \in Nat \ {0} /\ Horizon >= 5
  BY MonitorAssumption DEF Horizon, MEDIAN_WINDOW
<1>2. temp \in Temps /\ templist \in Seq(Temps) /\ readings \in Seq(Temps)
  BY DEF IInv, TypeOK
<1>3. /\ templist' = Push(temp, templist, 5)
      /\ readings' = Push(temp, readings, Horizon)
  BY DEF Read, MEDIAN_WINDOW
<1>4. /\ templist' \in Seq(Temps)
      /\ Len(templist') = IF Len(templist) < 5 THEN Len(templist) + 1 ELSE 5
      /\ templist'[1] = temp
      /\ \A i \in 2..Len(templist') : templist'[i] = templist[i - 1]
  <2>1. Pushed(templist', temp, templist, 5, Temps)
    BY <1>2, <1>3, PushProperties
  <2> QED
    BY <2>1 DEF Pushed
<1>5. /\ readings' \in Seq(Temps)
      /\ Len(readings') = IF Len(readings) < Horizon THEN Len(readings) + 1
                          ELSE Horizon
      /\ readings'[1] = temp
      /\ \A i \in 2..Len(readings') : readings'[i] = readings[i - 1]
  <2>1. Pushed(readings', temp, readings, Horizon, Temps)
    BY <1>1, <1>2, <1>3, PushProperties
  <2> QED
    BY <2>1 DEF Pushed
<1>6. /\ Len(templist) \in Nat /\ Len(readings) \in Nat
      /\ Len(readings) <= Horizon
      /\ Len(templist) = IF Len(readings) < 5 THEN Len(readings) ELSE 5
      /\ \A i \in 1..Len(templist) : templist[i] = readings[i]
  BY <1>2, LenProperties DEF IInv, TypeOK, Aligned, MEDIAN_WINDOW
<1>7. Len(templist') = IF Len(readings') < 5 THEN Len(readings') ELSE 5
  BY <1>1, <1>4, <1>5, <1>6
<1>8. \A i \in 1..Len(templist') : templist'[i] = readings'[i]
  <2> SUFFICES ASSUME NEW i \in 1..Len(templist'), i # 1
               PROVE  templist'[i] = readings'[i]
    BY <1>4, <1>5
  <2>1. i \in 2..Len(templist') /\ i \in 2..Len(readings') /\ i - 1 \in 1..Len(templist)
    BY <1>1, <1>4, <1>5, <1>6, <1>7
  <2> QED
    BY <2>1, <1>4, <1>5, <1>6
<1> QED
  BY <1>4, <1>5, <1>7, <1>8

LEMMA FewStep == IInv /\ SampleFew => IInv'
<1> SUFFICES ASSUME IInv, SampleFew PROVE IInv'
  OBVIOUS
<1>1. Read /\ UNCHANGED <<temp, changes, alarm, pc, medianlist, called>>
  BY DEF SampleFew, Read
<1>2. Len(templist') # 5
  BY DEF SampleFew, MEDIAN_WINDOW
<1> DEFINE n == Len(readings)
<1>3. /\ n \in Nat /\ Len(readings') < 5 /\ Len(templist') < 5 /\ Len(templist) < 5
      /\ n < 5 /\ Len(templist') = Len(readings')
  <2>1. Len(templist) \in Nat /\ n \in Nat /\ Len(readings') \in Nat
    BY ReadStep, <1>1, LenProperties DEF IInv, TypeOK
  <2>2. Len(templist) <= 5 /\ Len(templist) = IF n < 5 THEN n ELSE 5
    BY DEF IInv, TypeOK, Aligned, MEDIAN_WINDOW
  <2> QED
    BY <2>1, <2>2, <1>1, <1>2, ReadStep
<1>4. TypeOK'
  <2>1. Len(readings') <= Horizon /\ Len(templist') <= 5
    BY <1>3, MonitorAssumption DEF Horizon, MEDIAN_WINDOW
  <2> QED
    BY <2>1, <1>1, ReadStep DEF IInv, TypeOK, MEDIAN_WINDOW
<1>5. Len(medianlist) = 0 /\ called = {}
  BY <1>3 DEF IInv, Aligned, MEDIAN_WINDOW
<1>6. Aligned'
  BY <1>1, <1>3, <1>5, ReadStep DEF Aligned, MEDIAN_WINDOW
<1>7. MediansWithinReadings'
  <2>1. DOMAIN medianlist' = 1..0
    BY <1>1, <1>5, LenProperties DEF IInv, TypeOK
  <2> QED
    BY <2>1 DEF MediansWithinReadings
<1> QED
  BY <1>4, <1>6, <1>7 DEF IInv

\* The new median is that of a value from the heap and the four newest samples.
LEMMA NewMedian ==
  ASSUME NEW list \in Seq(Temps), Len(list) = 5, NEW g \in Garbage,
         NEW m \in Middle(Sorted(list, g))
  PROVE  /\ m \in Temps \cup Garbage
         /\ \E j, k \in 1..4 : j # k /\ list[j] <= m /\ list[k] <= m
         /\ \E j, k \in 1..4 : j # k /\ list[j] >= m /\ list[k] >= m
<1> DEFINE s == Sorted(list, g)
           four == SubSeq(list, 1, 4)
<1>1. \A i \in 1..4 : list[i] \in Temps /\ list[i] \in Int
  <2> SUFFICES ASSUME NEW i \in 1..4 PROVE list[i] \in Temps
    BY MonitorAssumption
  <2>1. i \in 1..Len(list)
    OBVIOUS
  <2> QED
    BY <2>1, ElementOfSeq
<1>2. four \in Seq(Temps) /\ Len(four) = 4 /\ \A i \in 1..4 : four[i] = list[i]
  BY <1>1, SubSeqProperties
<1>3. s = <<g>> \o four
  BY DEF Sorted, MEDIAN_WINDOW
<1>4. s[1] = g /\ \A i \in 2..5 : s[i] = list[i - 1]
  <2>1. <<g>> \in Seq(Temps \cup Garbage) /\ four \in Seq(Temps \cup Garbage)
    BY <1>2
  <2>2. Len(<<g>>) = 1 /\ <<g>>[1] = g
    OBVIOUS
  <2>3. \A i \in 1..5 : s[i] = IF i <= 1 THEN <<g>>[i] ELSE four[i - 1]
    <3> HIDE DEF four, s
    <3> QED BY <1>2, <1>3, <2>1, <2>2, ConcatProperties
  <2> HIDE DEF four, s
  <2> QED
    BY <1>2, <2>2, <2>3
<1> HIDE DEF s, four
<1>5. \A i \in 1..5 : s[i] \in Temps \cup Garbage /\ s[i] \in Int
  BY <1>1, <1>4, MonitorAssumption
<1>6. m \in Middle(s)
  BY DEF s
<1>7. /\ \E j, k \in 2..5 : j # k /\ s[j] <= m /\ s[k] <= m
      /\ \E j, k \in 2..5 : j # k /\ s[j] >= m /\ s[k] >= m
      /\ \E k \in 1..5 : m = s[k]
  BY <1>5, <1>6, MiddleOfFour
<1>8. \E j, k \in 1..4 : j # k /\ list[j] <= m /\ list[k] <= m
  <2>1. PICK j \in 2..5, k \in 2..5 : j # k /\ s[j] <= m /\ s[k] <= m
    BY <1>7
  <2>2. j - 1 \in 1..4 /\ k - 1 \in 1..4 /\ j - 1 # k - 1
    BY <2>1
  <2> QED
    BY <1>4, <2>1, <2>2
<1>9. \E j, k \in 1..4 : j # k /\ list[j] >= m /\ list[k] >= m
  <2>1. PICK j \in 2..5, k \in 2..5 : j # k /\ s[j] >= m /\ s[k] >= m
    BY <1>7
  <2>2. j - 1 \in 1..4 /\ k - 1 \in 1..4 /\ j - 1 # k - 1
    BY <2>1
  <2> QED
    BY <1>4, <2>1, <2>2
<1> QED
  BY <1>5, <1>7, <1>8, <1>9

LEMMA FullStep ==
  ASSUME IInv, NEW g \in Garbage, SampleFull(g)
  PROVE  IInv'
<1>1. /\ Read /\ Len(templist') = 5
      /\ called' = Detect(templist', medianlist') /\ pc' = "check"
      /\ UNCHANGED <<temp, changes, alarm>>
  BY DEF SampleFull, Read, MEDIAN_WINDOW
<1>2. PICK m \in Middle(Sorted(templist', g)) :
        medianlist' = Push(m, medianlist, TEMPCHANGE_WINDOW)
  BY DEF SampleFull
<1>3. templist' \in Seq(Temps) /\ readings' \in Seq(Temps)
  BY <1>1, ReadStep
<1>4. /\ m \in Temps \cup Garbage
      /\ \E j, k \in 1..4 : j # k /\ templist'[j] <= m /\ templist'[k] <= m
      /\ \E j, k \in 1..4 : j # k /\ templist'[j] >= m /\ templist'[k] >= m
  BY <1>1, <1>3, NewMedian
<1> DEFINE n == Len(readings)
           W == TEMPCHANGE_WINDOW
<1>5. W \in Nat \ {0} /\ Horizon = W + 4 /\ n \in Nat /\ n <= Horizon
  BY MonitorAssumption, LenProperties DEF Horizon, MEDIAN_WINDOW, IInv, TypeOK
<1>6. /\ medianlist \in Seq(Temps \cup Garbage)
      /\ Len(medianlist) = IF n < 5 THEN 0 ELSE n - 4
  BY DEF IInv, TypeOK, Aligned, MEDIAN_WINDOW
<1>7. /\ medianlist' \in Seq(Temps \cup Garbage)
      /\ Len(medianlist') = IF Len(medianlist) < W THEN Len(medianlist) + 1 ELSE W
      /\ medianlist'[1] = m
      /\ \A i \in 2..Len(medianlist') : medianlist'[i] = medianlist[i - 1]
  <2>1. Pushed(medianlist', m, medianlist, W, Temps \cup Garbage)
    BY <1>2, <1>4, <1>5, <1>6, PushProperties
  <2> QED
    BY <2>1 DEF Pushed
<1>8. /\ Len(readings') = IF n < Horizon THEN n + 1 ELSE Horizon
      /\ Len(readings') >= 5 /\ n >= 4
      /\ Len(medianlist') = Len(readings') - 4
  <2>1. /\ Len(readings') = IF n < Horizon THEN n + 1 ELSE Horizon
        /\ 5 = IF Len(readings') < 5 THEN Len(readings') ELSE 5
    BY <1>1, ReadStep
  <2> QED
    BY <2>1, <1>5, <1>6, <1>7
<1>9. called' \subseteq Calls
  BY <1>1 DEF Detect
<1>10. TypeOK'
  BY <1>1, <1>3, <1>5, <1>7, <1>8, <1>9 DEF IInv, TypeOK, MEDIAN_WINDOW
<1>11. Aligned'
  BY <1>1, <1>5, <1>8, ReadStep DEF Aligned, MEDIAN_WINDOW
<1>12. MediansWithinReadings'
  <2> SUFFICES ASSUME NEW i \in 1..Len(medianlist')
               PROVE  /\ AtLeastTwo({j \in i..(i + 3) : readings'[j] <= medianlist'[i]})
                      /\ AtLeastTwo({j \in i..(i + 3) : readings'[j] >= medianlist'[i]})
    <3>1. DOMAIN medianlist' = 1..Len(medianlist')
      BY <1>7, LenProperties
    <3>2. \A i \in 1..Len(medianlist') : SortedFor(i) = i..(i + 3)
      BY <1>5, <1>7 DEF SortedFor, MEDIAN_WINDOW
    <3> QED
      BY <3>1, <3>2 DEF MediansWithinReadings
  <2>1. CASE i = 1
    <3>1. \A j \in 1..4 : readings'[j] = templist'[j]
      <4>1. \A j \in 1..Len(templist') : readings'[j] = templist'[j]
        BY <1>1, ReadStep
      <4> QED
        BY <4>1, <1>1
    <3>2. /\ i..(i + 3) = 1..4 /\ medianlist'[i] = m
          /\ \A j \in 1..4 : readings'[j] = templist'[j]
      BY <2>1, <3>1, <1>7
    <3>3. AtLeastTwo({j \in i..(i + 3) : readings'[j] <= medianlist'[i]})
      BY <3>2, <1>4 DEF AtLeastTwo
    <3>4. AtLeastTwo({j \in i..(i + 3) : readings'[j] >= medianlist'[i]})
      BY <3>2, <1>4 DEF AtLeastTwo
    <3> QED
      BY <3>3, <3>4
  <2>2. CASE i # 1
    <3>1. i - 1 \in DOMAIN medianlist /\ medianlist'[i] = medianlist[i - 1]
      <4>1. DOMAIN medianlist = 1..Len(medianlist) /\ Len(medianlist) \in Nat
        BY <1>6, LenProperties
      <4>2. i \in 2..Len(medianlist') /\ i - 1 \in 1..Len(medianlist)
        BY <2>2, <4>1, <1>5, <1>7
      <4> QED
        BY <4>1, <4>2, <1>7
    <3>2. /\ AtLeastTwo({j \in (i - 1)..(i + 2) : readings[j] <= medianlist[i - 1]})
          /\ AtLeastTwo({j \in (i - 1)..(i + 2) : readings[j] >= medianlist[i - 1]})
      <4>1. SortedFor(i - 1) = (i - 1)..(i + 2)
        BY <1>5, <1>7 DEF SortedFor, MEDIAN_WINDOW
      <4> QED
        BY <3>1, <4>1 DEF IInv, MediansWithinReadings
    <3>3. \A j \in (i - 1)..(i + 2) :
            j + 1 \in i..(i + 3) /\ readings'[j + 1] = readings[j]
      <4> TAKE j \in (i - 1)..(i + 2)
      <4>1. j + 1 \in 2..Len(readings') /\ j + 1 \in i..(i + 3)
        BY <2>2, <1>5, <1>7, <1>8
      <4> QED
        BY <4>1, <1>1, ReadStep
    <3>4. AtLeastTwo({j \in i..(i + 3) : readings'[j] <= medianlist'[i]})
      <4>1. PICK j \in (i - 1)..(i + 2), k \in (i - 1)..(i + 2) :
              j # k /\ readings[j] <= medianlist[i - 1] /\ readings[k] <= medianlist[i - 1]
        BY <3>2 DEF AtLeastTwo
      <4>2. /\ j + 1 \in {l \in i..(i + 3) : readings'[l] <= medianlist'[i]}
            /\ k + 1 \in {l \in i..(i + 3) : readings'[l] <= medianlist'[i]}
            /\ j + 1 # k + 1
        BY <4>1, <3>1, <3>3
      <4> QED
        BY <4>2 DEF AtLeastTwo
    <3>5. AtLeastTwo({j \in i..(i + 3) : readings'[j] >= medianlist'[i]})
      <4>1. PICK j \in (i - 1)..(i + 2), k \in (i - 1)..(i + 2) :
              j # k /\ readings[j] >= medianlist[i - 1] /\ readings[k] >= medianlist[i - 1]
        BY <3>2 DEF AtLeastTwo
      <4>2. /\ j + 1 \in {l \in i..(i + 3) : readings'[l] >= medianlist'[i]}
            /\ k + 1 \in {l \in i..(i + 3) : readings'[l] >= medianlist'[i]}
            /\ j + 1 # k + 1
        BY <4>1, <3>1, <3>3
      <4> QED
        BY <4>2 DEF AtLeastTwo
    <3> QED
      BY <3>4, <3>5
  <2> QED
    BY <2>1, <2>2
<1> QED
  BY <1>10, <1>11, <1>12 DEF IInv

\* A step that leaves the monitor's lists alone.
LEMMA OtherStep ==
  ASSUME IInv, UNCHANGED <<templist, medianlist, called, readings>>, TypeOK'
  PROVE  IInv'
BY DEF IInv, Aligned, MediansWithinReadings, SortedFor, AtLeastTwo

LEMMA InvStep == IInv /\ [Next]_vars => IInv'
<1> SUFFICES ASSUME IInv, [Next]_vars PROVE IInv'
  OBVIOUS
<1>1. ASSUME NEW t \in Temps, ChangeTemp(t) PROVE IInv'
  <2>1. TypeOK'
    BY <1>1, MonitorAssumption DEF ChangeTemp, monitorVars, IInv, TypeOK
  <2> QED
    BY <1>1, <2>1, OtherStep DEF ChangeTemp, monitorVars
<1>2. ASSUME NEW a \in {"1", "e"}, ChangeAlarm(a) PROVE IInv'
  <2>1. TypeOK'
    BY <1>2 DEF ChangeAlarm, monitorVars, IInv, TypeOK
  <2> QED
    BY <1>2, <2>1, OtherStep DEF ChangeAlarm, monitorVars
<1>3. CASE SampleFew
  BY <1>3, FewStep
<1>4. ASSUME NEW g \in Garbage, SampleFull(g) PROVE IInv'
  BY <1>4, FullStep
<1>5. CASE Check
  <2>1. TypeOK'
    BY <1>5 DEF Check, IInv, TypeOK
  <2> QED
    BY <1>5, <2>1, OtherStep DEF Check
<1>6. CASE UNCHANGED vars
  <2>1. TypeOK'
    BY <1>6 DEF vars, monitorVars, IInv, TypeOK
  <2> QED
    BY <1>6, <2>1, OtherStep DEF vars, monitorVars
<1> QED
  BY <1>1, <1>2, <1>3, <1>4, <1>5, <1>6 DEF Next, MonitorStep

-----------------------------------------------------------------------------
(* What the monitor detects.                                               *)

\* The lists hold integers, and a median's samples are among the readings.
LEMMA Lists ==
  ASSUME IInv
  PROVE  /\ TEMPCHANGE_WINDOW \in Nat \ {0}
         /\ DOMAIN medianlist = 1..Len(medianlist) /\ Len(medianlist) \in Nat
         /\ DOMAIN readings = 1..Len(readings) /\ Len(readings) \in Nat
         /\ \A i \in DOMAIN medianlist :
              medianlist[i] \in Int /\ SortedFor(i) \subseteq DOMAIN readings
         /\ \A i \in DOMAIN readings : readings[i] \in Int
         /\ Len(medianlist) > 0 => templist[1] = readings[1] /\ 1 \in DOMAIN readings
<1>1. TEMPCHANGE_WINDOW \in Nat \ {0} /\ Horizon = TEMPCHANGE_WINDOW + 4
  BY MonitorAssumption DEF Horizon, MEDIAN_WINDOW
<1>2. /\ medianlist \in Seq(Temps \cup Garbage) /\ readings \in Seq(Temps)
      /\ Len(medianlist) = IF Len(readings) < 5 THEN 0 ELSE Len(readings) - 4
      /\ Len(templist) = IF Len(readings) < 5 THEN Len(readings) ELSE 5
      /\ \A i \in 1..Len(templist) : templist[i] = readings[i]
  BY DEF IInv, TypeOK, Aligned, MEDIAN_WINDOW
<1>3. /\ DOMAIN medianlist = 1..Len(medianlist) /\ Len(medianlist) \in Nat
      /\ DOMAIN readings = 1..Len(readings) /\ Len(readings) \in Nat
  BY <1>2, LenProperties
<1>4. \A i \in DOMAIN medianlist : medianlist[i] \in Int
  BY <1>2, <1>3, ElementOfSeq, MonitorAssumption
<1>5. \A i \in DOMAIN readings : readings[i] \in Int
  BY <1>2, <1>3, ElementOfSeq, MonitorAssumption
<1>6. ASSUME Len(medianlist) > 0
      PROVE  /\ Len(readings) >= 5 /\ Len(templist) = 5
             /\ Len(medianlist) = Len(readings) - 4
  <2>1. ~(Len(readings) < 5)
    <3>1. Len(readings) < 5 => Len(medianlist) = 0
      BY <1>2
    <3> QED
      BY <3>1, <1>6
  <2>2. Len(templist) = 5 /\ Len(medianlist) = Len(readings) - 4
    BY <1>2, <2>1
  <2> QED
    BY <1>3, <2>1, <2>2
<1>7. \A i \in DOMAIN medianlist : SortedFor(i) \subseteq DOMAIN readings
  <2> SUFFICES ASSUME NEW i \in 1..Len(medianlist)
               PROVE  i..(i + 3) \subseteq 1..Len(readings)
    BY <1>3 DEF SortedFor, MEDIAN_WINDOW
  <2>1. i + 4 <= Len(readings) /\ i >= 1
    <3>1. i \in Int /\ 1 <= i /\ i <= Len(medianlist) /\ Len(medianlist) > 0
      BY <1>3
    <3>2. Len(medianlist) = Len(readings) - 4
      BY <3>1, <1>6
    <3> QED
      BY <3>1, <3>2, <1>3
  <2> QED
    BY <2>1, <1>3
<1>8. ASSUME Len(medianlist) > 0
      PROVE  templist[1] = readings[1] /\ 1 \in DOMAIN readings
  <2>1. Len(templist) = 5 /\ Len(readings) >= 5
    BY <1>8, <1>6
  <2>2. 1 \in 1..Len(templist) /\ 1 \in 1..Len(readings)
    BY <2>1, <1>3
  <2> QED
    BY <2>2, <1>2, <1>3
<1> QED
  BY <1>1, <1>3, <1>4, <1>5, <1>7, <1>8

LEMMA CallsAreDue == IInv => NoFalseAlarm
<1> SUFFICES ASSUME IInv PROVE NoFalseAlarm
  OBVIOUS
<1> DEFINE W == TEMPCHANGE_WINDOW
<1>1. ASSUME NEW c \in called
      PROVE  /\ Len(medianlist) = W
             /\ c = "fixed" => FixedTemp(medianlist)
             /\ c = "rise" => RateOfRise(templist, medianlist)
  <2>1. called = IF Len(templist) < 5 THEN {} ELSE Detect(templist, medianlist)
    BY DEF IInv, Aligned, MEDIAN_WINDOW
  <2>2. c \in Detect(templist, medianlist)
    BY <1>1, <2>1
  <2> QED
    BY <2>2 DEF Detect
<1>2. ASSUME "fixed" \in called PROVE 10 * Cardinality(HighWindows) >= 9 * W
  <2>1. Len(medianlist) = W /\ 10 * Cardinality(HighTemps(medianlist)) >= 9 * W
    BY <1>1, <1>2 DEF FixedTemp
  <2>2. HighTemps(medianlist) \subseteq HighWindows
    <3> SUFFICES ASSUME NEW i \in HighTemps(medianlist) PROVE i \in HighWindows
      OBVIOUS
    <3>1. i \in DOMAIN medianlist /\ medianlist[i] >= 58 /\ i \in 1..W
      BY <2>1, Lists DEF HighTemps
    <3>2. PICK j \in SortedFor(i), k \in SortedFor(i) :
            j # k /\ readings[j] >= medianlist[i] /\ readings[k] >= medianlist[i]
      BY <3>1 DEF IInv, MediansWithinReadings, AtLeastTwo
    <3>3. readings[j] >= 58 /\ readings[k] >= 58
      <4>1. readings[j] \in Int /\ readings[k] \in Int /\ medianlist[i] \in Int
        BY <3>1, Lists
      <4> QED
        BY <3>1, <3>2, <4>1
    <3> QED
      BY <3>1, <3>2, <3>3 DEF HighWindows, AtLeastTwo
  <2>3. IsFiniteSet(1..W)
    <3>1. 1 \in Int /\ W \in Int
      BY Lists
    <3> QED
      BY <3>1, FS_Interval, Zenon
  <2>4. IsFiniteSet(HighWindows)
    BY <2>3, FS_Subset DEF HighWindows
  <2>5. /\ Cardinality(HighTemps(medianlist)) <= Cardinality(HighWindows)
        /\ Cardinality(HighTemps(medianlist)) \in Nat
        /\ Cardinality(HighWindows) \in Nat
    BY <2>2, <2>4, FS_Subset, FS_CardinalityType
  <2> QED
    BY <2>1, <2>5, Lists
<1>3. ASSUME "rise" \in called
      PROVE  \E i \in DOMAIN readings : readings[1] - readings[i] >= 8
  <2>1. Len(medianlist) = W /\ templist[1] - medianlist[W] >= 8
    BY <1>1, <1>3 DEF RateOfRise
  <2>2. W \in DOMAIN medianlist /\ templist[1] = readings[1] /\ readings[1] \in Int
    BY <2>1, Lists
  <2>3. PICK j \in SortedFor(W) : readings[j] <= medianlist[W]
    BY <2>2 DEF IInv, MediansWithinReadings, AtLeastTwo
  <2>4. j \in DOMAIN readings /\ readings[j] \in Int /\ medianlist[W] \in Int
    BY <2>2, <2>3, Lists
  <2> QED
    BY <2>1, <2>2, <2>3, <2>4
<1> QED
  BY <1>2, <1>3 DEF NoFalseAlarm

\* Two samples at or below the median and three of 58 degrees or more have one in
\* common.
LEMMA ThreeOfFour ==
  ASSUME IInv, NEW i \in DOMAIN medianlist,
         AtLeastThree({j \in SortedFor(i) : readings[j] >= 58})
  PROVE  medianlist[i] >= 58
<1>1. PICK a, b \in SortedFor(i) :
        a # b /\ readings[a] <= medianlist[i] /\ readings[b] <= medianlist[i]
  BY DEF IInv, MediansWithinReadings, AtLeastTwo
<1>2. PICK j, k, l \in SortedFor(i) :
        /\ j # k /\ k # l /\ j # l
        /\ readings[j] >= 58 /\ readings[k] >= 58 /\ readings[l] >= 58
  BY DEF AtLeastThree
<1>3. /\ medianlist[i] \in Int /\ i \in Int
      /\ \A n \in SortedFor(i) : readings[n] \in Int
  BY Lists
<1>4. a = j \/ a = k \/ a = l \/ b = j \/ b = k \/ b = l
  <2>1. \A n \in SortedFor(i) : n \in Int /\ i <= n /\ n <= i + 3
    BY <1>3 DEF SortedFor, MEDIAN_WINDOW
  <2>2. /\ a \in Int /\ i <= a /\ a <= i + 3 /\ b \in Int /\ i <= b /\ b <= i + 3
        /\ j \in Int /\ i <= j /\ j <= i + 3 /\ k \in Int /\ i <= k /\ k <= i + 3
        /\ l \in Int /\ i <= l /\ l <= i + 3
    BY <2>1
  <2> QED
    BY <1>1, <1>2, <1>3, <2>2
<1>5. PICK n \in SortedFor(i) : readings[n] <= medianlist[i] /\ readings[n] >= 58
  BY <1>1, <1>2, <1>4
<1> QED
  BY <1>3, <1>5

LEMMA DueCallsAreMade == IInv => FiresAreCalled
<1> SUFFICES ASSUME IInv, Len(readings) = Horizon
             PROVE  /\ 10 * Cardinality(SurelyHigh) >= 9 * TEMPCHANGE_WINDOW
                         => "fixed" \in called
                    /\ (\A j \in SortedFor(TEMPCHANGE_WINDOW) :
                          readings[1] - readings[j] >= 8) => "rise" \in called
  BY DEF FiresAreCalled
<1> DEFINE W == TEMPCHANGE_WINDOW
<1>1. /\ Len(medianlist) = W /\ W \in DOMAIN medianlist /\ DOMAIN medianlist = 1..W
      /\ templist[1] = readings[1] /\ readings[1] \in Int
  <2>1. Len(medianlist) = W
    BY MonitorAssumption DEF IInv, Aligned, Horizon, MEDIAN_WINDOW
  <2> QED
    BY <2>1, Lists
<1>2. called = Detect(templist, medianlist)
  BY MonitorAssumption DEF IInv, Aligned, Horizon, MEDIAN_WINDOW
<1>3. ASSUME 10 * Cardinality(SurelyHigh) >= 9 * W
      PROVE  FixedTemp(medianlist)
  <2>1. SurelyHigh \subseteq HighTemps(medianlist)
    BY <1>1, ThreeOfFour DEF SurelyHigh, HighTemps
  <2>2. HighTemps(medianlist) \subseteq 1..W
    BY <1>1 DEF HighTemps
  <2>3. IsFiniteSet(HighTemps(medianlist))
    <3>1. IsFiniteSet(1..W)
      BY Lists, FS_Interval
    <3> QED
      BY <2>2, <3>1, FS_Subset
  <2>4. /\ Cardinality(SurelyHigh) <= Cardinality(HighTemps(medianlist))
        /\ Cardinality(SurelyHigh) \in Nat /\ Cardinality(HighTemps(medianlist)) \in Nat
    BY <2>1, <2>3, FS_Subset, FS_CardinalityType
  <2> QED
    BY <1>3, <2>4, MonitorAssumption DEF FixedTemp
<1>4. ASSUME \A j \in SortedFor(W) : readings[1] - readings[j] >= 8
      PROVE  RateOfRise(templist, medianlist)
  <2>1. PICK j \in SortedFor(W) : readings[j] >= medianlist[W]
    BY <1>1 DEF IInv, MediansWithinReadings, AtLeastTwo
  <2>2. readings[j] \in Int /\ medianlist[W] \in Int
    BY <1>1, <2>1, Lists
  <2> QED
    BY <1>1, <1>4, <2>1, <2>2 DEF RateOfRise
<1> QED
  BY <1>1, <1>2, <1>3, <1>4 DEF Detect, Calls

\* Every variable keeps its type.
THEOREM TypeCorrect == Spec => []TypeOK
<1>1. IInv => TypeOK
  BY DEF IInv
<1> QED
  BY <1>1, InvInit, InvStep, PTL DEF Spec

\* Whatever the uninitialised value is, every median has two of its four
\* samples on either side.
THEOREM MediansAreSound == Spec => []MediansWithinReadings
<1>1. IInv => MediansWithinReadings
  BY DEF IInv
<1> QED
  BY <1>1, InvInit, InvStep, PTL DEF Spec

\* The monitor calls a level hot or rising only with the samples to show for it.
THEOREM NoFalseAlarms == Spec => []NoFalseAlarm
BY InvInit, InvStep, CallsAreDue, PTL DEF Spec

\* Nine windows in ten that were hot for three of their four samples, or a rise
\* over all of the oldest median's samples, are called.
THEOREM NoFireMissed == Spec => []FiresAreCalled
BY InvInit, InvStep, DueCallsAreMade, PTL DEF Spec
=============================================================================
