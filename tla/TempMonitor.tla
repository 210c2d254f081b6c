----------------------------- MODULE TempMonitor -----------------------------
(***************************************************************************)
(* The fire alarm's monitor of one level (tempmonitor, firealarm.c): it    *)
(* samples the level's temperature, smooths the samples with a median and  *)
(* broadcasts alarm_condvar when the smoothed values stay high or the      *)
(* temperature has risen fast.  Lists are newest first, as in the code.    *)
(*                                                                         *)
(* The five samples are copied to sorttemp[1..5] and sorttemp[0..4] is     *)
(* sorted: what the heap held in sorttemp[0] takes the oldest one's place. *)
(***************************************************************************)
EXTENDS Integers, Sequences, FiniteSets

CONSTANTS
  Temps,              \* the temperatures a level can have
  Garbage,            \* what an uninitialised int can hold
  TEMPCHANGE_WINDOW,  \* medians kept
  MaxChanges          \* bound: how often the level's temperature changes

MEDIAN_WINDOW == 5

ASSUME MonitorAssumption ==
  /\ Temps \subseteq Int
  /\ Garbage \subseteq Int
  /\ TEMPCHANGE_WINDOW \in Nat \ {0}
  /\ MaxChanges \in Nat

VARIABLES temp,        \* shared: levels[level].temp
          changes,     \* bound: changes of temp so far
          alarm,       \* shared: levels[level].alarm
          pc,          \* where tempmonitor is
          templist,    \* the newest samples
          medianlist,  \* the newest medians
          called,      \* what the last sample broadcast the alarm for
          readings     \* history: the samples the kept medians come from

monitorVars == <<pc, templist, medianlist, called, readings>>
vars == <<temp, changes, alarm, monitorVars>>

Calls == {"fixed", "rise"}

\* The samples under the oldest kept median, the one that was not sorted
\* included.
Horizon == TEMPCHANGE_WINDOW + MEDIAN_WINDOW - 1

Init ==
  /\ temp \in Temps /\ changes = 0
  /\ alarm = "0"
  /\ pc = "sample"
  /\ templist = <<>> /\ medianlist = <<>> /\ called = {} /\ readings = <<>>

-----------------------------------------------------------------------------
(* The level: the simulator changes its temperature, somebody its alarm.   *)

ChangeTemp(t) ==
  /\ changes < MaxChanges
  /\ t # temp
  /\ temp' = t
  /\ changes' = changes + 1
  /\ UNCHANGED <<alarm, monitorVars>>

\* The fire alarm sets '1', the user of the simulator ends with 'e'.
ChangeAlarm(a) ==
  /\ alarm # a
  /\ alarm' = a
  /\ UNCHANGED <<temp, changes, monitorVars>>

-----------------------------------------------------------------------------
(* Smoothing.                                                              *)

\* Mutant: deletenodes deletes nothing.
PushKeepsAll(x, list, n) == <<x>> \o list

\* A node in front, and deletenodes(list, n).
Push(x, list, n) ==
  SubSeq(<<x>> \o list, 1, IF Len(list) < n THEN Len(list) + 1 ELSE n)

\* Mutant: the smallest of the sorted values, sorttemp[0].
Smallest(s) == {s[k] : k \in {i \in 1..MEDIAN_WINDOW :
                                \A j \in 1..MEDIAN_WINDOW : s[i] <= s[j]}}

\* The value that sorting s puts in the middle, in a set: as many of the
\* others can stand before it as behind it.
Middle(s) == {s[k] : k \in {i \in 1..MEDIAN_WINDOW :
  \E before \in SUBSET ((1..MEDIAN_WINDOW) \ {i}) :
    /\ Cardinality(before) = (MEDIAN_WINDOW - 1) \div 2
    /\ \A j \in before : s[j] <= s[i]
    /\ \A j \in (1..MEDIAN_WINDOW) \ (before \cup {i}) : s[j] >= s[i]}}

\* sorttemp[0..4]: what was there, and the samples but the oldest.
Sorted(list, g) == <<g>> \o SubSeq(list, 1, MEDIAN_WINDOW - 1)

-----------------------------------------------------------------------------
(* Detection.                                                              *)

\* Mutant: temperatures over 58 degrees only.
HighTempsOver(medians) == {i \in DOMAIN medians : medians[i] > 58}

HighTemps(medians) == {i \in DOMAIN medians : medians[i] >= 58}

FixedTemp(medians) ==
  10 * Cardinality(HighTemps(medians)) >= 9 * TEMPCHANGE_WINDOW

\* Mutant: the oldest temperature less the newest.
RiseFalls(samples, medians) == medians[TEMPCHANGE_WINDOW] - samples[1] >= 8

\* Mutant: more than 8 degrees.
RiseOver(samples, medians) == samples[1] - medians[TEMPCHANGE_WINDOW] > 8

\* The newest sample against the oldest median.
RateOfRise(samples, medians) == samples[1] - medians[TEMPCHANGE_WINDOW] >= 8

Detect(samples, medians) ==
  IF Len(medians) # TEMPCHANGE_WINDOW THEN {}
  ELSE {c \in Calls : \/ c = "fixed" /\ FixedTemp(medians)
                      \/ c = "rise" /\ RateOfRise(samples, medians)}

-----------------------------------------------------------------------------
(* The monitor.                                                            *)

Read ==
  /\ pc = "sample"
  /\ templist' = Push(temp, templist, MEDIAN_WINDOW)
  /\ readings' = Push(temp, readings, Horizon)
  /\ UNCHANGED <<temp, changes, alarm>>

\* Fewer than five samples: no sleep, and the alarm is not looked at.
SampleFew ==
  /\ Read
  /\ Len(templist') # MEDIAN_WINDOW
  /\ UNCHANGED <<pc, medianlist, called>>

SampleFull(g) ==
  /\ Read
  /\ Len(templist') = MEDIAN_WINDOW
  /\ \E m \in Middle(Sorted(templist', g)) :
       medianlist' = Push(m, medianlist, TEMPCHANGE_WINDOW)
  /\ called' = Detect(templist', medianlist')
  /\ pc' = "check"

\* alarm_active is set too: see FireAlarm.
Check ==
  /\ pc = "check"
  /\ pc' = IF alarm = "0" THEN "sample" ELSE "done"
  /\ UNCHANGED <<temp, changes, alarm, templist, medianlist, called, readings>>

MonitorStep ==
  \/ SampleFew
  \/ \E g \in Garbage : SampleFull(g)
  \/ Check

Next ==
  \/ \E t \in Temps : ChangeTemp(t)
  \/ \E a \in {"1", "e"} : ChangeAlarm(a)
  \/ MonitorStep

Spec == Init /\ [][Next]_vars

\* The monitor keeps running.
FairSpec == Spec /\ WF_vars(MonitorStep)

-----------------------------------------------------------------------------
(* Properties.                                                             *)

TypeOK ==
  /\ temp \in Temps /\ changes \in 0..MaxChanges
  /\ alarm \in {"0", "1", "e"}
  /\ pc \in {"sample", "check", "done"}
  /\ templist \in Seq(Temps) /\ Len(templist) <= MEDIAN_WINDOW
  /\ medianlist \in Seq(Temps \cup Garbage) /\ Len(medianlist) <= TEMPCHANGE_WINDOW
  /\ called \subseteq Calls
  /\ readings \in Seq(Temps) /\ Len(readings) <= Horizon

\* The samples that were sorted for the i-th kept median.
SortedFor(i) == i..(i + MEDIAN_WINDOW - 2)

AtLeastTwo(S) == \E j, k \in S : j # k

\* Whatever the uninitialised fifth value was, a median has two of the four
\* samples sorted with it at or below it, and two at or above it.
MediansWithinReadings ==
  \A i \in DOMAIN medianlist :
    /\ AtLeastTwo({j \in SortedFor(i) : readings[j] <= medianlist[i]})
    /\ AtLeastTwo({j \in SortedFor(i) : readings[j] >= medianlist[i]})

HighWindows ==
  {i \in 1..TEMPCHANGE_WINDOW :
     AtLeastTwo({j \in SortedFor(i) : readings[j] >= 58})}

\* No false alarm: a level is called hot only if for nine in ten of the medians
\* half of the samples were of 58 degrees or more, and called rising only if a
\* sample was 8 degrees below the newest.
NoFalseAlarm ==
  /\ "fixed" \in called => 10 * Cardinality(HighWindows) >= 9 * TEMPCHANGE_WINDOW
  /\ "rise" \in called => \E i \in DOMAIN readings : readings[1] - readings[i] >= 8

AtLeastThree(S) == \E j, k, l \in S : j # k /\ k # l /\ j # l

SurelyHigh ==
  {i \in 1..TEMPCHANGE_WINDOW :
     AtLeastThree({j \in SortedFor(i) : readings[j] >= 58})}

\* No fire is missed, whatever the uninitialised value was: a level is called hot
\* if for nine in ten of the medians three of the four samples that were sorted
\* were of 58 degrees or more, and called rising if it is 8 degrees hotter than in
\* all the samples under the oldest median.
FiresAreCalled ==
  pc = "check" /\ Len(readings) = Horizon =>
    /\ 10 * Cardinality(SurelyHigh) >= 9 * TEMPCHANGE_WINDOW => "fixed" \in called
    /\ (\A j \in SortedFor(TEMPCHANGE_WINDOW) : readings[1] - readings[j] >= 8)
         => "rise" \in called

\* A level that stays hot is called hot in the end, unless the alarm is on; and
\* once the alarm is on or the program ends, the monitor stops.
HeatIsNoticed ==
  /\ <>[](temp >= 58) => <>("fixed" \in called \/ alarm # "0")
  /\ <>[](alarm # "0") => <>(pc = "done")
=============================================================================
