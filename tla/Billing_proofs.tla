--------------------------- MODULE Billing_proofs ---------------------------
(***************************************************************************)
(* Proofs about Billing, for any cars, exits, readings of the clocks and   *)
(* number of visits.                                                       *)
(***************************************************************************)
EXTENDS Billing, SequenceTheorems, TLAPS

OneEach(s) == \A i, j \in 1..Len(s) : s[i] = s[j] => i = j

\* Who has which vehicle.
Owners ==
  /\ \A x \in Exits :
       /\ point[x] = "wait" <=> find[x] = NoCar
       /\ find[x] # NoCar => find[x] \in listed /\ place[find[x]] = "away"
  /\ \A x, y \in Exits : find[x] = find[y] /\ find[x] # NoCar => x = y
  /\ \A c \in Cars : place[c] # "away" => c \in listed
  /\ \A c \in listed : 1 <= visit[c] /\ visit[c] <= visits
  /\ \A c, d \in listed : visit[c] = visit[d] => c = d
  /\ \A i \in 1..Len(inside) : place[inside[i]] = "inside"
  /\ OneEach(inside)

\* A bill t for the stay s of a car that came at a: it is too high by the wraps
\* that the clock had made by then.
Right(t, s, a) == t = s + WRAP * (a \div WRAP)

\* The times that were cut to 16 bits, and the bill in the making.
Timed ==
  /\ \A c \in Cars : exitTime[c] = due[c] % WRAP /\ arrival[c] = came[c] % WRAP
  /\ curr <= elapsed["sim"]
  /\ \A x \in Exits : point[x] \in {"print", "close"} => Right(total[x], stay[x], came[find[x]])

\* The lines in the file and in fp's buffer.
Lines == file \o buffer

Printed == {"close", "delete"}

\* The car's bill has not been printed.
Unwritten(c) == c \in listed /\ \A x \in Exits : find[x] = c => point[x] \notin Printed

LinesRight ==
  /\ \A i \in 1..Len(Lines) :
       /\ Right(Lines[i].total, Lines[i].stay, Lines[i].came)
       /\ 1 <= Lines[i].visit /\ Lines[i].visit <= visits
  /\ \A i, j \in 1..Len(Lines) : Lines[i].visit = Lines[j].visit => i = j
  /\ \A c \in Cars : Unwritten(c) => \A i \in 1..Len(Lines) : Lines[i].visit # visit[c]

\* As long as no two exits have had the file at once, fp is the stream of the one
\* that has it, and every visit is either to be written or written.
OneHasFile ==
  ~mixed =>
    /\ ~crashed
    /\ \A x, y \in Exits : point[x] \in HasFile /\ point[y] \in HasFile => x = y
    /\ \A x \in Exits : point[x] \in HasFile => fpOpen
    /\ \A x \in Exits : point[x] = "close" => buffer = <<Line(x)>>
    /\ (\A x \in Exits : point[x] # "close") => buffer = <<>>
    /\ \A k \in 1..visits :
         \/ \E c \in Cars : visit[c] = k /\ Unwritten(c)
         \/ \E i \in 1..Len(Lines) : Lines[i].visit = k

IInv == TypeOK /\ Owners /\ Timed /\ LinesRight /\ OneHasFile

-----------------------------------------------------------------------------

LEMMA Cut ==
  ASSUME NEW n \in Nat
  PROVE  /\ n % WRAP \in Nat /\ n \div WRAP \in Nat
         /\ n = WRAP * (n \div WRAP) + (n % WRAP)
         /\ n < WRAP => n % WRAP = n
<1>1. n % 65536 \in Nat /\ n \div 65536 \in Nat
  OBVIOUS
<1>2. n = 65536 * (n \div 65536) + (n % 65536)
  OBVIOUS
<1>3. n < 65536 => n % 65536 = n
  OBVIOUS
<1> QED
  BY <1>1, <1>2, <1>3 DEF WRAP

LEMMA BillRight ==
  ASSUME NEW n \in Nat, NEW a \in Nat, NEW r, r = a % WRAP
  PROVE  Right(n - r, n - a, a)
<1>1. a % WRAP \in Nat /\ a \div WRAP \in Nat /\ a = WRAP * (a \div WRAP) + (a % WRAP)
  BY Cut
<1> QED
  BY <1>1 DEF Right, WRAP

LEMMA DueType ==
  ASSUME elapsed \in [Programs -> Nat], NEW leave_time \in LeaveTimes
  PROVE  elapsed["sim"] + leave_time \in Nat
<1>1. leave_time \in Nat
  BY BillingAssumption
<1>2. elapsed["sim"] \in Nat
  BY DEF Programs
<1> QED
  BY <1>1, <1>2

LEMMA Removed ==
  ASSUME NEW s \in Seq(Cars), NEW i \in 1..Len(s)
  PROVE  /\ Without(s, i) \in Seq(Cars) /\ Len(Without(s, i)) = Len(s) - 1
         /\ \A j \in 1..Len(s) - 1 : Without(s, i)[j] = IF j < i THEN s[j] ELSE s[j + 1]
<1>1. Len(s) \in Nat
  BY LenProperties
<1>2. \A j \in 1..i - 1 : s[j] \in Cars
  BY <1>1, ElementOfSeq
<1>3. \A j \in i + 1..Len(s) : s[j] \in Cars
  BY <1>1, ElementOfSeq
<1>4. SubSeq(s, 1, i - 1) \in Seq(Cars) /\ SubSeq(s, i + 1, Len(s)) \in Seq(Cars)
  <2>1. 1 \in Int /\ i - 1 \in Int /\ i + 1 \in Int /\ Len(s) \in Int
    BY <1>1
  <2>2. SubSeq(s, 1, i - 1) \in Seq(Cars)
    BY <2>1, <1>2, SubSeqProperties
  <2>3. SubSeq(s, i + 1, Len(s)) \in Seq(Cars)
    BY <2>1, <1>3, SubSeqProperties
  <2> QED
    BY <2>2, <2>3
<1>5. /\ Len(SubSeq(s, 1, i - 1)) = i - 1
      /\ \A j \in 1..i - 1 : SubSeq(s, 1, i - 1)[j] = s[j]
  <2>1. 1 \in Int /\ i - 1 \in Int
    BY <1>1
  <2>2. /\ Len(SubSeq(s, 1, i - 1)) = IF 1 <= i - 1 THEN (i - 1) - 1 + 1 ELSE 0
        /\ \A j \in 1..(i - 1) - 1 + 1 : SubSeq(s, 1, i - 1)[j] = s[1 + j - 1]
    BY <2>1, <1>2, SubSeqProperties
  <2> QED
    BY <2>2, <1>1
<1>6. /\ Len(SubSeq(s, i + 1, Len(s))) = Len(s) - i
      /\ \A j \in 1..Len(s) - i : SubSeq(s, i + 1, Len(s))[j] = s[i + j]
  <2>1. i + 1 \in Int /\ Len(s) \in Int
    BY <1>1
  <2>2. /\ Len(SubSeq(s, i + 1, Len(s)))
             = IF i + 1 <= Len(s) THEN Len(s) - (i + 1) + 1 ELSE 0
        /\ \A j \in 1..Len(s) - (i + 1) + 1 :
             SubSeq(s, i + 1, Len(s))[j] = s[(i + 1) + j - 1]
    BY <2>1, <1>3, SubSeqProperties
  <2> QED
    BY <2>2, <1>1
<1> DEFINE a == SubSeq(s, 1, i - 1)
           b == SubSeq(s, i + 1, Len(s))
<1>7. /\ a \o b \in Seq(Cars) /\ Len(a \o b) = Len(a) + Len(b)
      /\ \A j \in 1..Len(a) + Len(b) : (a \o b)[j] = IF j <= Len(a) THEN a[j] ELSE b[j - Len(a)]
  <2> HIDE DEF a, b
  <2>1. a \in Seq(Cars) /\ b \in Seq(Cars)
    BY <1>4 DEF a, b
  <2> QED
    BY <2>1, ConcatProperties
<1>8. Len(a) = i - 1 /\ Len(b) = Len(s) - i
  BY <1>5, <1>6
<1>9. ASSUME NEW j \in 1..Len(s) - 1
      PROVE  (a \o b)[j] = IF j < i THEN s[j] ELSE s[j + 1]
  <2> HIDE DEF a, b
  <2>1. j \in 1..Len(a) + Len(b)
    BY <1>1, <1>8
  <2>2. CASE j < i
    <3>1. j \in 1..i - 1 /\ j <= Len(a)
      BY <1>1, <1>8, <2>2
    <3>2. a[j] = s[j]
      BY <1>5, <3>1 DEF a
    <3> QED
      BY <1>7, <2>1, <2>2, <3>1, <3>2
  <2>3. CASE ~(j < i)
    <3>1. j - (i - 1) \in 1..Len(s) - i /\ ~(j <= Len(a)) /\ i + (j - (i - 1)) = j + 1
      BY <1>1, <1>8, <2>3
    <3>2. b[j - (i - 1)] = s[j + 1]
      BY <1>6, <3>1 DEF b
    <3> QED
      BY <1>7, <1>8, <2>1, <2>3, <3>1, <3>2
  <2> QED
    BY <2>2, <2>3
<1>10. Without(s, i) = a \o b
  BY DEF Without
<1> HIDE DEF a, b
<1> QED
  BY <1>1, <1>7, <1>8, <1>9, <1>10

LEMMA TakenOnce ==
  ASSUME NEW s \in Seq(Cars), NEW i \in 1..Len(s), OneEach(s)
  PROVE  /\ OneEach(Without(s, i))
         /\ \A j \in 1..Len(Without(s, i)) :
              \E k \in 1..Len(s) : k # i /\ Without(s, i)[j] = s[k]
<1>1. Len(s) \in Nat
  BY LenProperties
<1> DEFINE w == Without(s, i)
           from(j) == IF j < i THEN j ELSE j + 1
<1>3. /\ Len(w) = Len(s) - 1
      /\ \A j \in 1..Len(s) - 1 : w[j] = IF j < i THEN s[j] ELSE s[j + 1]
  BY Removed
<1> HIDE DEF w
<1>4. ASSUME NEW j \in 1..Len(w)
      PROVE  from(j) \in 1..Len(s) /\ from(j) # i /\ w[j] = s[from(j)]
  <2>1. CASE j < i
    BY <1>1, <1>3, <2>1
  <2>2. CASE ~(j < i)
    BY <1>1, <1>3, <2>2
  <2> QED
    BY <2>1, <2>2
<1>5. ASSUME NEW j \in 1..Len(w), NEW h \in 1..Len(w), w[j] = w[h] PROVE j = h
  <2>1. from(j) = from(h)
    <3>1. s[from(j)] = s[from(h)]
      BY <1>4, <1>5
    <3>2. from(j) \in 1..Len(s) /\ from(h) \in 1..Len(s)
      BY <1>4
    <3> HIDE DEF from
    <3> QED
      BY <3>1, <3>2 DEF OneEach
  <2>2. j \in Int /\ h \in Int /\ i \in Int
    BY <1>1, <1>3
  <2> QED
    BY <2>1, <2>2
<1>6. OneEach(w)
  BY <1>5 DEF OneEach
<1>7. \A j \in 1..Len(w) : \E k \in 1..Len(s) : k # i /\ w[j] = s[k]
  <2> HIDE DEF from
  <2> QED
    BY <1>4
<1> QED
  BY <1>6, <1>7 DEF w

LEMMA ParkedOnce ==
  ASSUME NEW s \in Seq(Cars), NEW c \in Cars, OneEach(s), \A i \in 1..Len(s) : s[i] # c
  PROVE  /\ OneEach(<<c>> \o s)
         /\ \A j \in 1..Len(<<c>> \o s) :
              \/ (<<c>> \o s)[j] = c
              \/ \E k \in 1..Len(s) : (<<c>> \o s)[j] = s[k]
<1> DEFINE one == <<c>>
           w == one \o s
<1>1. one \in Seq(Cars) /\ Len(one) = 1 /\ one[1] = c /\ Len(s) \in Nat
  BY LenProperties
<1> HIDE DEF one
<1>2. /\ Len(w) = 1 + Len(s)
      /\ \A j \in 1..1 + Len(s) : w[j] = IF j <= 1 THEN one[j] ELSE s[j - 1]
  <2>1. /\ Len(w) = Len(one) + Len(s)
        /\ \A j \in 1..Len(one) + Len(s) :
             w[j] = IF j <= Len(one) THEN one[j] ELSE s[j - Len(one)]
    BY <1>1, ConcatProperties
  <2> HIDE DEF w
  <2> QED
    BY <1>1, <2>1
<1> HIDE DEF w
<1>3. ASSUME NEW j \in 1..Len(w)
      PROVE  /\ j = 1 => w[j] = c
             /\ j # 1 => j - 1 \in 1..Len(s) /\ w[j] = s[j - 1]
  <2>1. CASE j = 1
    BY <1>1, <1>2, <2>1
  <2>2. CASE j # 1
    BY <1>1, <1>2, <2>2
  <2> QED
    BY <2>1, <2>2
<1>4. ASSUME NEW j \in 1..Len(w), NEW h \in 1..Len(w), w[j] = w[h] PROVE j = h
  <2>1. CASE j = 1 \/ h = 1
    BY <1>3, <1>4, <2>1
  <2>2. CASE j # 1 /\ h # 1
    <3>1. /\ j - 1 \in 1..Len(s) /\ h - 1 \in 1..Len(s)
          /\ s[j - 1] = s[h - 1]
      BY <1>3, <1>4, <2>2
    <3>2. j - 1 = h - 1
      BY <3>1 DEF OneEach
    <3> QED
      BY <1>1, <1>2, <3>2
  <2> QED
    BY <2>1, <2>2
<1>5. OneEach(w)
  BY <1>4 DEF OneEach
<1>6. \A j \in 1..Len(w) : w[j] = c \/ \E k \in 1..Len(s) : w[j] = s[k]
  BY <1>3
<1> QED
  BY <1>5, <1>6 DEF w, one

LEMMA LineIsBill ==
  ASSUME TypeOK, NEW x \in Exits, find[x] \in Cars
  PROVE  Line(x) \in Bill
BY DEF TypeOK, Line, Bill

-----------------------------------------------------------------------------
(* Types.                                                                  *)

LEMMA TypeInit == Init => TypeOK
<1> SUFFICES ASSUME Init PROVE TypeOK
  OBVIOUS
<1>1. <<>> \in Seq(Cars) /\ <<>> \in Seq(Bill)
  BY EmptySeq
<1>2. elapsed \in [Programs -> Nat] /\ curr \in Nat \cup {Unread}
  BY DEF Init
<1>3. /\ place \in [Cars -> Places]
      /\ exitTime \in [Cars -> Nat] /\ due \in [Cars -> Nat]
      /\ listed \subseteq Cars /\ arrival \in [Cars -> Nat] /\ came \in [Cars -> Nat]
      /\ visits \in Nat /\ visit \in [Cars -> Nat]
  BY DEF Init, Places
<1>4. /\ point \in [Exits -> Points] /\ find \in [Exits -> Cars \cup {NoCar}]
      /\ total \in [Exits -> Int] /\ stay \in [Exits -> Int]
  BY DEF Init, Points
<1>5. fpOpen \in BOOLEAN /\ crashed \in BOOLEAN /\ mixed \in BOOLEAN
  BY Zenon DEF Init
<1>6. inside \in Seq(Cars) /\ buffer \in Seq(Bill) /\ file \in Seq(Bill)
  BY <1>1 DEF Init
<1> QED
  BY <1>2, <1>3, <1>4, <1>5, <1>6 DEF TypeOK

LEMMA TypeStep == TypeOK /\ Owners /\ [Next]_vars => TypeOK'
<1> SUFFICES ASSUME TypeOK, Owners, [Next]_vars PROVE TypeOK'
  OBVIOUS
<1> USE DEF TypeOK, simVars, carVars, fileVars, exitVars, Places, Points, HasFile
<1>1. ASSUME NEW p \in Programs, NEW t \in Times, Tick(p, t) PROVE TypeOK'
  <2>1. t \in Nat
    BY BillingAssumption
  <2> QED
    BY <1>1, <2>1 DEF Tick
<1>2. ASSUME NEW c \in Cars, MgrRecord(c) PROVE TypeOK'
  <2>1. elapsed["mgr"] \in Nat
    BY DEF Programs
  <2>2. elapsed["mgr"] % WRAP \in Nat
    BY <2>1, Cut
  <2>3. /\ arrival' \in [Cars -> Nat] /\ came' \in [Cars -> Nat]
        /\ visits' \in Nat /\ visit' \in [Cars -> Nat]
    BY <1>2, <2>1, <2>2 DEF MgrRecord
  <2>4. /\ listed' \subseteq Cars /\ place' \in [Cars -> Places]
        /\ UNCHANGED <<elapsed, exitTime, inside, curr, due, fileVars, exitVars>>
    BY <1>2 DEF MgrRecord
  <2> QED
    BY <2>3, <2>4
<1>3. ASSUME NEW c \in Cars, NEW leave_time \in LeaveTimes, SimAssign(c, leave_time)
      PROVE  TypeOK'
  <2>1. elapsed["sim"] + leave_time \in Nat
    BY DueType
  <2>2. (elapsed["sim"] + leave_time) % WRAP \in Nat
    BY <2>1, Cut
  <2> QED
    BY <1>3, <2>1, <2>2 DEF SimAssign
<1>4. ASSUME NEW c \in Cars, SimPark(c) PROVE TypeOK'
  <2>1. <<c>> \o inside \in Seq(Cars)
    BY ConcatProperties
  <2> QED
    BY <1>4, <2>1 DEF SimPark
<1>5. CASE InsideRead
  BY <1>5 DEF InsideRead, Programs
<1>6. ASSUME NEW i \in 1..Len(inside), InsideTake(i) PROVE TypeOK'
  <2>1. inside' = Without(inside, i)
    BY <1>6 DEF InsideTake, Without
  <2>2. inside' \in Seq(Cars)
    BY <2>1, Removed
  <2> QED
    BY <1>6, <2>2 DEF InsideTake
<1>7. CASE InsideNobody
  BY <1>7 DEF InsideNobody
<1>8. ASSUME NEW x \in Exits, NEW c \in Cars, ExitLetOut(x, c) PROVE TypeOK'
  BY <1>8 DEF ExitLetOut
<1>9. ASSUME NEW x \in Exits, MoneyOpen(x) PROVE TypeOK'
  <2>1. <<>> \in Seq(Bill)
    BY EmptySeq
  <2>2. mixed' \in BOOLEAN
    BY <1>9, Zenon DEF MoneyOpen
  <2> QED
    BY <1>9, <2>1, <2>2 DEF MoneyOpen, Go
<1>10. ASSUME NEW x \in Exits, MoneyTime(x) PROVE TypeOK'
  <2>1. find[x] \in Cars /\ elapsed["mgr"] \in Nat
    BY <1>10 DEF MoneyTime, Go, Owners, Programs
  <2>2. arrival[find[x]] \in Nat /\ came[find[x]] \in Nat
    BY <2>1
  <2>3. /\ elapsed["mgr"] - arrival[find[x]] \in Int
        /\ elapsed["mgr"] - came[find[x]] \in Int
    BY <2>1, <2>2
  <2>4. total' \in [Exits -> Int] /\ stay' \in [Exits -> Int]
    BY <1>10, <2>3 DEF MoneyTime
  <2> QED
    BY <1>10, <2>4 DEF MoneyTime, Go
<1>11. ASSUME NEW x \in Exits, MoneyPrint(x) PROVE TypeOK'
  <2>1. find[x] \in Cars
    BY <1>11 DEF MoneyPrint, Go, Owners
  <2>2. Append(buffer, Line(x)) \in Seq(Bill)
    <3>1. Line(x) \in Bill /\ buffer \in Seq(Bill)
      BY <2>1, LineIsBill
    <3> HIDE DEF TypeOK
    <3> QED
      BY <3>1, AppendProperties
  <2> QED
    BY <1>11, <2>2 DEF MoneyPrint, Go
<1>12. ASSUME NEW x \in Exits, MoneyClose(x) PROVE TypeOK'
  <2>1. <<>> \in Seq(Bill) /\ file \o buffer \in Seq(Bill)
    BY EmptySeq, ConcatProperties
  <2> QED
    BY <1>12, <2>1 DEF MoneyClose, Go
<1>13. ASSUME NEW x \in Exits, MoneyOnClosed(x) PROVE TypeOK'
  BY <1>13 DEF MoneyOnClosed, Go
<1>14. ASSUME NEW x \in Exits, MgrDelete(x) PROVE TypeOK'
  <2>1. /\ listed' \subseteq Cars /\ find' \in [Exits -> Cars \cup {NoCar}]
        /\ point' \in [Exits -> Points]
    BY <1>14 DEF MgrDelete, Go
  <2>2. /\ arrival' \in [Cars -> Nat] /\ came' \in [Cars -> Nat] /\ visit' \in [Cars -> Nat]
        /\ total' \in [Exits -> Int] /\ stay' \in [Exits -> Int]
    <3>1. find[x] \in Cars
      BY <1>14 DEF MgrDelete, Go, Owners
    <3>2. arrival' \in [Cars -> Nat] /\ came' \in [Cars -> Nat]
      BY <1>14, <3>1 DEF MgrDelete
    <3>3. visit' \in [Cars -> Nat]
      BY <1>14, <3>1 DEF MgrDelete
    <3>4. total' \in [Exits -> Int] /\ stay' \in [Exits -> Int]
      BY <1>14 DEF MgrDelete
    <3> QED
      BY <3>2, <3>3, <3>4
  <2> QED
    BY <1>14, <2>1, <2>2 DEF MgrDelete
<1>15. CASE UNCHANGED vars
  BY <1>15 DEF vars
<1> QED
  BY <1>1, <1>2, <1>3, <1>4, <1>5, <1>6, <1>7, <1>8, <1>9, <1>10, <1>11, <1>12, <1>13, <1>14,
     <1>15 DEF Next, SimStep, MgrStep, Money

-----------------------------------------------------------------------------
(* Who has which vehicle.                                                  *)

\* What the four steps of money have in common.
LEMMA MoneyMoves ==
  ASSUME TypeOK, NEW x \in Exits, Money(x)
  PROVE  /\ point[x] \in {"open"} \cup HasFile
         /\ \E to \in HasFile \cup {"delete"} : point' = [point EXCEPT ![x] = to]
         /\ UNCHANGED <<elapsed, simVars, carVars, find>>
BY DEF Money, MoneyOpen, MoneyTime, MoneyPrint, MoneyClose, MoneyOnClosed, Go, HasFile

LEMMA OwnersInit == Init => Owners
BY DEF Init, Owners, OneEach

LEMMA OwnersStep == TypeOK /\ Owners /\ [Next]_vars => Owners'
<1> SUFFICES ASSUME TypeOK, Owners, [Next]_vars PROVE Owners'
  OBVIOUS
<1> DEFINE same == <<place, inside, listed, visits, visit, point, find>>
<1>1. UNCHANGED same => Owners'
  BY DEF Owners
<1>2. ASSUME NEW p \in Programs, NEW t \in Times, Tick(p, t) PROVE Owners'
  BY <1>1, <1>2 DEF Tick, simVars, carVars, exitVars
<1>3. CASE InsideRead \/ InsideNobody
  BY <1>1, <1>3 DEF InsideRead, InsideNobody, carVars, exitVars
<1>4. CASE UNCHANGED vars
  BY <1>1, <1>4 DEF vars, simVars, carVars, exitVars
<1>5. ASSUME NEW c \in Cars, MgrRecord(c) PROVE Owners'
  <2>1. /\ place[c] = "away" /\ c \notin listed /\ listed' = listed \cup {c}
        /\ visits' = visits + 1 /\ visit' = [visit EXCEPT ![c] = visits + 1]
        /\ place' = [place EXCEPT ![c] = "gate"] /\ UNCHANGED <<inside, point, find>>
    BY <1>5 DEF MgrRecord, exitVars
  <2>2. /\ place \in [Cars -> Places] /\ visit \in [Cars -> Nat] /\ visits \in Nat
        /\ listed \subseteq Cars
    BY DEF TypeOK
  <2>3. /\ \A x \in Exits :
             /\ point[x] = "wait" <=> find[x] = NoCar
             /\ find[x] # NoCar => find[x] \in listed' /\ place'[find[x]] = "away"
        /\ \A d \in Cars : place'[d] # "away" => d \in listed'
    BY <2>1, <2>2 DEF Owners
  <2>4. \A d \in listed : 1 <= visit[d] /\ visit[d] <= visits /\ visit'[d] = visit[d]
    BY <2>1, <2>2 DEF Owners
  <2>5. visit'[c] = visits + 1 /\ visits' = visits + 1
    BY <2>1, <2>2
  <2>6. \A d \in listed' : 1 <= visit'[d] /\ visit'[d] <= visits'
    BY <2>1, <2>2, <2>4, <2>5
  <2>7. ASSUME NEW d \in listed', NEW e \in listed', visit'[d] = visit'[e] PROVE d = e
    <3>1. d \in listed => visit'[d] <= visits /\ visit'[d] = visit[d] /\ visit[d] \in Nat
      BY <2>2, <2>4
    <3>2. e \in listed => visit'[e] <= visits /\ visit'[e] = visit[e] /\ visit[e] \in Nat
      BY <2>2, <2>4
    <3>3. CASE d = c \/ e = c
      BY <2>1, <2>2, <2>5, <2>7, <3>1, <3>2, <3>3
    <3>4. CASE d # c /\ e # c
      BY <2>1, <2>7, <3>1, <3>2, <3>4 DEF Owners
    <3> QED
      BY <3>3, <3>4
  <2>8. \A i \in 1..Len(inside) : place'[inside[i]] = "inside"
    BY <2>1, <2>2, ElementOfSeq DEF Owners, TypeOK
  <2> QED
    BY <2>1, <2>3, <2>6, <2>7, <2>8 DEF Owners
<1>6. ASSUME NEW c \in Cars, NEW leave_time \in LeaveTimes, SimAssign(c, leave_time)
      PROVE  Owners'
  <2>1. /\ place[c] = "gate" /\ place' = [place EXCEPT ![c] = "drive"]
        /\ UNCHANGED <<inside, listed, visits, visit, point, find>>
    BY <1>6 DEF SimAssign, carVars, exitVars
  <2>2. \A d \in Cars : place'[d] = IF d = c THEN "drive" ELSE place[d]
    BY <2>1 DEF TypeOK
  <2>3. \A i \in 1..Len(inside) : inside[i] \in Cars
    BY ElementOfSeq DEF TypeOK
  <2>4. \A i \in 1..Len(inside) : place'[inside[i]] = "inside"
    BY <2>1, <2>2, <2>3 DEF Owners
  <2>5. \A x \in Exits : find[x] # NoCar => find[x] \in Cars /\ place'[find[x]] = "away"
    BY <2>1, <2>2 DEF Owners, TypeOK
  <2>6. \A d \in Cars : place'[d] # "away" => d \in listed
    BY <2>1, <2>2 DEF Owners
  <2> QED
    BY <2>1, <2>4, <2>5, <2>6 DEF Owners
<1>7. ASSUME NEW c \in Cars, SimPark(c) PROVE Owners'
  <2>1. /\ place[c] = "drive" /\ place' = [place EXCEPT ![c] = "inside"]
        /\ inside' = <<c>> \o inside
        /\ UNCHANGED <<listed, visits, visit, point, find>>
    BY <1>7 DEF SimPark, carVars, exitVars
  <2>2. /\ inside \in Seq(Cars) /\ OneEach(inside)
        /\ \A i \in 1..Len(inside) : inside[i] \in Cars /\ inside[i] # c
    BY <2>1, ElementOfSeq DEF Owners, TypeOK
  <2>3. /\ OneEach(inside')
        /\ \A j \in 1..Len(inside') :
             inside'[j] = c \/ \E k \in 1..Len(inside) : inside'[j] = inside[k]
    BY <2>1, <2>2, ParkedOnce
  <2>4. \A d \in Cars : place'[d] = IF d = c THEN "inside" ELSE place[d]
    BY <2>1 DEF TypeOK
  <2>5. \A j \in 1..Len(inside') : place'[inside'[j]] = "inside"
    BY <2>2, <2>3, <2>4 DEF Owners
  <2>6. \A x \in Exits : find[x] # NoCar => find[x] \in Cars /\ place'[find[x]] = "away"
    BY <2>1, <2>4 DEF Owners, TypeOK
  <2>7. \A d \in Cars : place'[d] # "away" => d \in listed
    BY <2>1, <2>4 DEF Owners
  <2> QED
    BY <2>1, <2>3, <2>5, <2>6, <2>7 DEF Owners
<1>8. ASSUME NEW i \in 1..Len(inside), InsideTake(i) PROVE Owners'
  <2>1. /\ inside \in Seq(Cars) /\ OneEach(inside)
        /\ \A k \in 1..Len(inside) : inside[k] \in Cars /\ place[inside[k]] = "inside"
    BY ElementOfSeq DEF TypeOK, Owners
  <2>2. /\ inside' = Without(inside, i) /\ place' = [place EXCEPT ![inside[i]] = "exit"]
        /\ UNCHANGED <<listed, visits, visit, point, find>>
    BY <1>8 DEF InsideTake, carVars, exitVars, Without
  <2>3. /\ OneEach(inside')
        /\ \A j \in 1..Len(inside') :
             \E k \in 1..Len(inside) : k # i /\ inside'[j] = inside[k]
    <3>1. /\ OneEach(Without(inside, i))
          /\ \A j \in 1..Len(Without(inside, i)) :
               \E k \in 1..Len(inside) : k # i /\ Without(inside, i)[j] = inside[k]
      BY <2>1, TakenOnce
    <3>2. inside' = Without(inside, i)
      BY <2>2
    <3> QED
      BY <3>1, <3>2
  <2>4. \A d \in Cars : place'[d] = IF d = inside[i] THEN "exit" ELSE place[d]
    BY <2>1, <2>2 DEF TypeOK
  <2>5. ASSUME NEW j \in 1..Len(inside') PROVE place'[inside'[j]] = "inside"
    <3>1. PICK k \in 1..Len(inside) : k # i /\ inside'[j] = inside[k]
      BY <2>3
    <3>2. inside[k] # inside[i]
      BY <2>1, <3>1 DEF OneEach
    <3> QED
      BY <2>1, <2>4, <3>1, <3>2
  <2>6. \A x \in Exits : find[x] # NoCar => find[x] \in Cars /\ place'[find[x]] = "away"
    BY <2>1, <2>4 DEF Owners, TypeOK
  <2>7. \A d \in Cars : place'[d] # "away" => d \in listed
    BY <2>1, <2>4 DEF Owners
  <2> QED
    BY <2>2, <2>3, <2>5, <2>6, <2>7 DEF Owners
<1>9. ASSUME NEW x \in Exits, NEW c \in Cars, ExitLetOut(x, c) PROVE Owners'
  <2>1. /\ point[x] = "wait" /\ place[c] = "exit" /\ place' = [place EXCEPT ![c] = "away"]
        /\ find' = [find EXCEPT ![x] = c] /\ point' = [point EXCEPT ![x] = "open"]
        /\ UNCHANGED <<inside, listed, visits, visit>>
    BY <1>9 DEF ExitLetOut, carVars
  <2>2. /\ place \in [Cars -> Places] /\ find \in [Exits -> Cars \cup {NoCar}]
        /\ point \in [Exits -> Points]
        /\ \A i \in 1..Len(inside) : inside[i] \in Cars
    BY ElementOfSeq DEF TypeOK
  <2>3. c \in listed /\ c # NoCar /\ \A y \in Exits : find[y] # c
    BY <2>1, BillingAssumption DEF Owners
  <2>4. ASSUME NEW y \in Exits
        PROVE  /\ point'[y] = "wait" <=> find'[y] = NoCar
               /\ find'[y] # NoCar => find'[y] \in listed /\ place'[find'[y]] = "away"
    <3>1. CASE y = x
      BY <2>1, <2>2, <2>3, <3>1
    <3>2. CASE y # x
      BY <2>1, <2>2, <2>3, <3>2 DEF Owners
    <3> QED
      BY <3>1, <3>2
  <2>5. \A y, z \in Exits : find'[y] = find'[z] /\ find'[y] # NoCar => y = z
    BY <2>1, <2>2, <2>3 DEF Owners
  <2>6. /\ \A d \in Cars : place'[d] # "away" => d \in listed
        /\ \A i \in 1..Len(inside) : place'[inside[i]] = "inside"
    BY <2>1, <2>2 DEF Owners
  <2> QED
    BY <2>1, <2>4, <2>5, <2>6 DEF Owners
<1>10. ASSUME NEW x \in Exits, Money(x) PROVE Owners'
  <2>1. PICK to \in HasFile \cup {"delete"} : point' = [point EXCEPT ![x] = to]
    BY <1>10, MoneyMoves
  <2>2. /\ point[x] # "wait" /\ to # "wait"
        /\ UNCHANGED <<place, inside, listed, visits, visit, find>>
    BY <1>10, MoneyMoves DEF HasFile, simVars, carVars
  <2>3. \A y \in Exits : point'[y] = "wait" <=> point[y] = "wait"
    BY <2>1, <2>2 DEF TypeOK
  <2> QED
    BY <2>2, <2>3 DEF Owners
<1>11. ASSUME NEW x \in Exits, MgrDelete(x) PROVE Owners'
  <2>1. /\ point[x] = "delete" /\ point' = [point EXCEPT ![x] = "wait"]
        /\ listed' = listed \ {find[x]} /\ find' = [find EXCEPT ![x] = NoCar]
        /\ visit' = [visit EXCEPT ![find[x]] = 0] /\ UNCHANGED <<place, inside, visits>>
    BY <1>11 DEF MgrDelete, Go, simVars
  <2>2. /\ find \in [Exits -> Cars \cup {NoCar}] /\ point \in [Exits -> Points]
        /\ visit \in [Cars -> Nat] /\ listed \subseteq Cars
    BY DEF TypeOK
  <2>3. find[x] # NoCar /\ find[x] \in listed /\ place[find[x]] = "away"
    BY <2>1 DEF Owners
  <2>4. ASSUME NEW y \in Exits
        PROVE  /\ point'[y] = "wait" <=> find'[y] = NoCar
               /\ find'[y] # NoCar => find'[y] \in listed' /\ place'[find'[y]] = "away"
    <3>1. CASE y = x
      BY <2>1, <2>2, <3>1
    <3>2. CASE y # x
      BY <2>1, <2>2, <2>3, <3>2 DEF Owners
    <3> QED
      BY <3>1, <3>2
  <2>5. \A y, z \in Exits : find'[y] = find'[z] /\ find'[y] # NoCar => y = z
    BY <2>1, <2>2 DEF Owners
  <2>6. \A d \in Cars : place'[d] # "away" => d \in listed'
    BY <2>1, <2>3 DEF Owners
  <2>7. \A d \in listed' : d \in listed /\ visit'[d] = visit[d]
    BY <2>1, <2>2
  <2> QED
    BY <2>1, <2>4, <2>5, <2>6, <2>7 DEF Owners
<1> QED
  BY <1>2, <1>3, <1>4, <1>5, <1>6, <1>7, <1>8, <1>9, <1>10, <1>11 DEF Next, SimStep, MgrStep
-----------------------------------------------------------------------------
(* The times.                                                              *)

LEMMA TimedInit == Init => Timed
<1> SUFFICES ASSUME Init PROVE Timed
  OBVIOUS
<1>1. 0 % WRAP = 0
  BY Cut DEF WRAP
<1> QED
  BY <1>1 DEF Init, Timed, Unread, Programs

LEMMA TimedStep == TypeOK /\ Owners /\ Timed /\ [Next]_vars => Timed'
<1> SUFFICES ASSUME TypeOK, Owners, Timed, [Next]_vars PROVE Timed'
  OBVIOUS
<1> DEFINE Cuts == \A c \in Cars : exitTime[c] = due[c] % WRAP /\ arrival[c] = came[c] % WRAP
           Clock == curr <= elapsed["sim"]
           Billed(x) == Right(total[x], stay[x], came[find[x]])
           Bills == \A x \in Exits : point[x] \in {"print", "close"} => Billed(x)
<1>1. Cuts /\ Clock /\ Bills
  BY DEF Timed
<1>2. Cuts' /\ Clock' /\ Bills' => Timed'
  BY DEF Timed
<1>3. UNCHANGED <<exitTime, due, arrival, came>> => Cuts'
  BY <1>1
<1>4. UNCHANGED <<curr, elapsed>> => Clock'
  BY <1>1
<1>5. UNCHANGED <<total, stay, came, find, point>> => Bills'
  BY <1>1
<1>6. 0 % WRAP = 0
  BY Cut DEF WRAP
<1>7. ASSUME NEW p \in Programs, NEW t \in Times, Tick(p, t) PROVE Timed'
  <2>1. t \in Nat /\ t > elapsed[p] /\ elapsed' = [elapsed EXCEPT ![p] = t] /\ curr' = curr
    BY <1>7, BillingAssumption DEF Tick, simVars
  <2>2. elapsed \in [Programs -> Nat] /\ curr \in Nat \cup {Unread} /\ "sim" \in Programs
    BY DEF TypeOK, Programs
  <2>3. elapsed["sim"] <= elapsed'["sim"] /\ elapsed'["sim"] \in Nat /\ elapsed["sim"] \in Nat
    BY <2>1, <2>2
  <2>4. curr \in Int
    BY <2>2 DEF Unread
  <2>5. Clock'
    BY <1>1, <2>1, <2>3, <2>4
  <2> QED
    BY <1>2, <1>3, <1>5, <1>7, <2>5 DEF Tick, simVars, carVars, exitVars
<1>8. ASSUME NEW c \in Cars, MgrRecord(c) PROVE Timed'
  <2>1. /\ arrival' = [arrival EXCEPT ![c] = elapsed.mgr % WRAP]
        /\ came' = [came EXCEPT ![c] = elapsed.mgr]
        /\ UNCHANGED <<exitTime, due, curr, elapsed, total, stay, find, point>>
    BY <1>8 DEF MgrRecord, exitVars
  <2>2. Cuts'
    BY <1>1, <2>1 DEF TypeOK
  <2>3. \A x \in Exits : point[x] \in {"print", "close"} => came'[find[x]] = came[find[x]]
    BY <1>8, <2>1 DEF MgrRecord, Owners, TypeOK
  <2>4. Bills'
    BY <1>1, <2>1, <2>3
  <2> QED
    BY <1>2, <1>4, <2>1, <2>2, <2>4
<1>9. ASSUME NEW c \in Cars, NEW leave_time \in LeaveTimes, SimAssign(c, leave_time)
      PROVE  Timed'
  <2>1. Cuts'
    BY <1>1, <1>9 DEF SimAssign, TypeOK, carVars
  <2> QED
    BY <1>2, <1>4, <1>5, <1>9, <2>1 DEF SimAssign, carVars, exitVars
<1>10. ASSUME NEW c \in Cars, SimPark(c) PROVE Timed'
  BY <1>2, <1>3, <1>4, <1>5, <1>10 DEF SimPark, carVars, exitVars
<1>11. CASE InsideRead
  <2>1. curr' = elapsed["sim"] /\ elapsed' = elapsed /\ elapsed["sim"] \in Nat
    BY <1>11 DEF InsideRead, TypeOK, Programs
  <2>2. Clock'
    BY <2>1
  <2> QED
    BY <1>2, <1>3, <1>5, <1>11, <2>2 DEF InsideRead, carVars, exitVars
<1>12. ASSUME curr' = Unread, elapsed' = elapsed PROVE Clock'
  <2>1. elapsed["sim"] \in Nat
    BY DEF TypeOK, Programs
  <2> QED
    BY <1>12, <2>1 DEF Unread
<1>13. ASSUME NEW i \in 1..Len(inside), InsideTake(i) PROVE Timed'
  BY <1>2, <1>3, <1>5, <1>12, <1>13 DEF InsideTake, carVars, exitVars
<1>14. CASE InsideNobody
  BY <1>2, <1>3, <1>5, <1>12, <1>14 DEF InsideNobody, carVars, exitVars
<1>15. ASSUME NEW x \in Exits, NEW c \in Cars, ExitLetOut(x, c) PROVE Timed'
  <2>1. Cuts'
    BY <1>1, <1>6, <1>15 DEF ExitLetOut, TypeOK, carVars
  <2>2. Bills'
    BY <1>1, <1>15 DEF ExitLetOut, TypeOK, carVars
  <2> QED
    BY <1>2, <1>4, <1>15, <2>1, <2>2 DEF ExitLetOut
<1>16. ASSUME NEW x \in Exits, Money(x), Bills' PROVE Timed'
  BY <1>2, <1>3, <1>4, <1>16, MoneyMoves DEF simVars, carVars
<1>17. ASSUME NEW x \in Exits, MoneyOpen(x) PROVE Bills'
  BY <1>1, <1>17 DEF MoneyOpen, Go, TypeOK, carVars
<1>18. ASSUME NEW x \in Exits, MoneyTime(x) PROVE Bills'
  <2>1. /\ total' = [total EXCEPT ![x] = elapsed.mgr - arrival[find[x]]]
        /\ stay' = [stay EXCEPT ![x] = elapsed.mgr - came[find[x]]]
        /\ point' = [point EXCEPT ![x] = "print"] /\ UNCHANGED <<came, find>>
    BY <1>18 DEF MoneyTime, Go, carVars
  <2>2. find[x] \in Cars /\ elapsed["mgr"] \in Nat
    BY <1>18 DEF MoneyTime, Go, Owners, TypeOK, Programs
  <2>3. came[find[x]] \in Nat /\ arrival[find[x]] = came[find[x]] % WRAP
    BY <1>1, <2>2 DEF TypeOK
  <2>4. Right(elapsed["mgr"] - arrival[find[x]], elapsed["mgr"] - came[find[x]], came[find[x]])
    BY <2>2, <2>3, BillRight
  <2>5. total'[x] = elapsed["mgr"] - arrival[find[x]] /\ stay'[x] = elapsed["mgr"] - came[find[x]]
    BY <2>1 DEF TypeOK
  <2>6. ASSUME NEW y \in Exits, point'[y] \in {"print", "close"} PROVE Billed(y)'
    <3>1. CASE y = x
      BY <2>1, <2>4, <2>5, <3>1
    <3>2. CASE y # x
      <4>1. point[y] \in {"print", "close"} /\ total'[y] = total[y] /\ stay'[y] = stay[y]
        BY <2>1, <2>6, <3>2 DEF TypeOK
      <4> QED
        BY <1>1, <2>1, <4>1
    <3> QED
      BY <3>1, <3>2
  <2> QED
    BY <2>6
<1>19. ASSUME NEW x \in Exits, MoneyPrint(x) PROVE Bills'
  BY <1>1, <1>19 DEF MoneyPrint, Go, TypeOK, carVars
<1>20. ASSUME NEW x \in Exits, MoneyClose(x) PROVE Bills'
  BY <1>1, <1>20 DEF MoneyClose, Go, TypeOK, carVars
<1>21. ASSUME NEW x \in Exits, MoneyOnClosed(x) PROVE Bills'
  BY <1>1, <1>21 DEF MoneyOnClosed, Go, TypeOK, carVars
<1>22. ASSUME NEW x \in Exits, Money(x) PROVE Timed'
  BY <1>16, <1>17, <1>18, <1>19, <1>20, <1>21, <1>22 DEF Money
<1>23. ASSUME NEW x \in Exits, MgrDelete(x) PROVE Timed'
  <2>1. /\ point[x] = "delete" /\ point' = [point EXCEPT ![x] = "wait"]
        /\ find' = [find EXCEPT ![x] = NoCar]
        /\ arrival' = [arrival EXCEPT ![find[x]] = 0] /\ came' = [came EXCEPT ![find[x]] = 0]
        /\ total' = [total EXCEPT ![x] = 0] /\ stay' = [stay EXCEPT ![x] = 0]
        /\ UNCHANGED <<exitTime, due, curr, elapsed>>
    BY <1>23 DEF MgrDelete, Go, simVars
  <2>2. Cuts'
    BY <1>1, <1>6, <2>1 DEF TypeOK
  <2>3. ASSUME NEW y \in Exits, point'[y] \in {"print", "close"} PROVE Billed(y)'
    <3>1. y # x /\ point[y] \in {"print", "close"}
      BY <2>1, <2>3 DEF TypeOK
    <3>2. find[y] # find[x] /\ find[y] \in Cars
      BY <2>1, <3>1 DEF Owners, TypeOK
    <3>3. /\ find'[y] = find[y] /\ came'[find[y]] = came[find[y]]
          /\ total'[y] = total[y] /\ stay'[y] = stay[y]
      BY <2>1, <3>1, <3>2 DEF TypeOK
    <3> QED
      BY <1>1, <3>1, <3>3
  <2>4. Bills'
    BY <2>3
  <2> QED
    BY <1>2, <1>4, <2>1, <2>2, <2>4
<1>24. CASE UNCHANGED vars
  BY <1>2, <1>3, <1>4, <1>5, <1>24 DEF vars, simVars, carVars, exitVars
<1> QED
  BY <1>7, <1>8, <1>9, <1>10, <1>11, <1>13, <1>14, <1>15, <1>22, <1>23, <1>24
     DEF Next, SimStep, MgrStep

-----------------------------------------------------------------------------
(* What is written.                                                        *)

LEMMA Joined ==
  ASSUME NEW s \in Seq(Bill), NEW t \in Seq(Bill)
  PROVE  /\ s \o t \in Seq(Bill) /\ Len(s \o t) = Len(s) + Len(t)
         /\ Len(s) \in Nat /\ Len(t) \in Nat
         /\ \A i \in 1..Len(s) : (s \o t)[i] = s[i]
         /\ \A i \in 1..Len(t) : (s \o t)[Len(s) + i] = t[i]
<1> DEFINE w == s \o t
<1>1. /\ w \in Seq(Bill) /\ Len(w) = Len(s) + Len(t)
      /\ \A i \in 1..Len(s) + Len(t) : w[i] = IF i <= Len(s) THEN s[i] ELSE t[i - Len(s)]
  BY ConcatProperties
<1>2. Len(s) \in Nat /\ Len(t) \in Nat
  BY LenProperties
<1> HIDE DEF w
<1>3. \A i \in 1..Len(s) : w[i] = s[i]
  BY <1>1, <1>2
<1>4. ASSUME NEW i \in 1..Len(t) PROVE w[Len(s) + i] = t[i]
  <2>1. Len(s) + i \in 1..Len(s) + Len(t) /\ ~(Len(s) + i <= Len(s)) /\ (Len(s) + i) - Len(s) = i
    BY <1>2
  <2> QED
    BY <1>1, <2>1
<1> QED
  BY <1>1, <1>2, <1>3, <1>4 DEF w

LEMMA LinesType ==
  ASSUME TypeOK
  PROVE  /\ Lines \in Seq(Bill) /\ Len(Lines) \in Nat /\ Len(file) \in Nat /\ Len(buffer) \in Nat
         /\ Len(Lines) = Len(file) + Len(buffer)
         /\ \A i \in 1..Len(file) : i \in 1..Len(Lines) /\ Lines[i] = file[i]
         /\ \A i \in 1..Len(buffer) :
              Len(file) + i \in 1..Len(Lines) /\ Lines[Len(file) + i] = buffer[i]
<1>1. file \in Seq(Bill) /\ buffer \in Seq(Bill)
  BY DEF TypeOK
<1>2. /\ Lines \in Seq(Bill) /\ Len(Lines) = Len(file) + Len(buffer)
      /\ Len(file) \in Nat /\ Len(buffer) \in Nat
      /\ \A i \in 1..Len(file) : Lines[i] = file[i]
      /\ \A i \in 1..Len(buffer) : Lines[Len(file) + i] = buffer[i]
  BY <1>1, Joined DEF Lines
<1> QED
  BY <1>2

\* What a step of money does to the visits that are to be written.
LEMMA Writing ==
  ASSUME TypeOK, Owners, NEW x \in Exits, Money(x), NEW c \in Cars
  PROVE  Unwritten(c)' <=> Unwritten(c) /\ (find[x] = c => point'[x] \notin Printed)
<1>1. /\ listed' = listed /\ find' = find
      /\ \A y \in Exits : y # x => point'[y] = point[y]
      /\ point[x] \in Printed => point'[x] \in Printed
  BY DEF Money, MoneyOpen, MoneyTime, MoneyPrint, MoneyClose, MoneyOnClosed, Go, Printed, carVars,
         TypeOK
<1> QED
  BY <1>1 DEF Unwritten

LEMMA LettingOut ==
  ASSUME TypeOK, Owners, NEW x \in Exits, NEW d \in Cars, ExitLetOut(x, d), NEW c \in Cars
  PROVE  Unwritten(c)' <=> Unwritten(c)
<1>1. /\ find' = [find EXCEPT ![x] = d] /\ point' = [point EXCEPT ![x] = "open"]
      /\ listed' = listed /\ point[x] = "wait" /\ place[d] = "exit"
  BY DEF ExitLetOut, carVars
<1>2. find[x] = NoCar /\ NoCar # c
  BY <1>1, BillingAssumption DEF Owners
<1>3. \A y \in Exits : y # x => find'[y] = find[y] /\ point'[y] = point[y]
  BY <1>1 DEF TypeOK
<1>4. find'[x] = d /\ point'[x] = "open"
  BY <1>1 DEF TypeOK
<1> QED
  BY <1>1, <1>2, <1>3, <1>4 DEF Unwritten, Printed

LEMMA Deleting ==
  ASSUME TypeOK, Owners, NEW x \in Exits, MgrDelete(x), NEW c \in Cars
  PROVE  /\ Unwritten(c)' <=> Unwritten(c)
         /\ Unwritten(c) => visit'[c] = visit[c]
<1>1. /\ point[x] = "delete" /\ point' = [point EXCEPT ![x] = "wait"]
      /\ listed' = listed \ {find[x]} /\ find' = [find EXCEPT ![x] = NoCar]
      /\ visit' = [visit EXCEPT ![find[x]] = 0]
  BY DEF MgrDelete, Go
<1>2. \A y \in Exits : y # x => find'[y] = find[y] /\ point'[y] = point[y]
  BY <1>1 DEF TypeOK
<1>3. find'[x] = NoCar /\ NoCar # c
  BY <1>1, BillingAssumption DEF TypeOK
<1>4. Unwritten(c) => c # find[x]
  BY <1>1 DEF Unwritten, Printed
<1>5. Unwritten(c)' => c # find[x]
  BY <1>1 DEF Unwritten
<1>6. c # find[x] => visit'[c] = visit[c]
  BY <1>1 DEF TypeOK
<1> QED
  BY <1>1, <1>2, <1>3, <1>4, <1>5, <1>6 DEF Unwritten

LEMMA Recording ==
  ASSUME TypeOK, Owners, NEW d \in Cars, MgrRecord(d), NEW c \in Cars
  PROVE  /\ Unwritten(c)' <=> c = d \/ Unwritten(c)
         /\ c = d => visit'[c] = visits + 1 /\ ~Unwritten(c)
         /\ c # d => visit'[c] = visit[c]
<1>1. /\ d \notin listed /\ listed' = listed \cup {d} /\ visit' = [visit EXCEPT ![d] = visits + 1]
      /\ UNCHANGED <<find, point>>
  BY DEF MgrRecord, exitVars
<1>2. \A x \in Exits : find[x] # d
  BY <1>1, BillingAssumption DEF Owners
<1> QED
  BY <1>1, <1>2 DEF Unwritten, TypeOK

-----------------------------------------------------------------------------
(* The lines are right, and of a visit each.                               *)

LEMMA LinesInit == Init => LinesRight
<1> SUFFICES ASSUME Init PROVE LinesRight
  OBVIOUS
<1>1. Lines = <<>>
  BY DEF Init, Lines
<1>2. Len(Lines) = 0
  BY <1>1, EmptySeq
<1> QED
  BY <1>2 DEF LinesRight

\* A step that writes nothing.
LEMMA LinesKept ==
  ASSUME TypeOK, TypeOK', LinesRight, visits <= visits',
         Len(Lines') <= Len(Lines), \A i \in 1..Len(Lines') : Lines'[i] = Lines[i],
         \A c \in Cars : Unwritten(c)' => \/ visit'[c] = visits + 1
                                          \/ Unwritten(c) /\ visit'[c] = visit[c]
  PROVE  LinesRight'
<1>1. /\ Lines \in Seq(Bill) /\ Len(Lines) \in Nat /\ Len(Lines') \in Nat
      /\ visits \in Nat /\ visits' \in Nat
  <2>1. /\ file \in Seq(Bill) /\ buffer \in Seq(Bill) /\ visits \in Nat
        /\ file' \in Seq(Bill) /\ buffer' \in Seq(Bill) /\ visits' \in Nat
    BY DEF TypeOK
  <2>2. Lines \in Seq(Bill) /\ Lines' \in Seq(Bill)
    BY <2>1, ConcatProperties DEF Lines
  <2> QED
    BY <2>1, <2>2, LenProperties
<1>2. \A i \in 1..Len(Lines) : Lines[i] \in Bill
  BY <1>1, ElementOfSeq
<1>3. \A i \in 1..Len(Lines') : i \in 1..Len(Lines)
  BY <1>1
<1>4. ASSUME NEW i \in 1..Len(Lines')
      PROVE  /\ Right(Lines'[i].total, Lines'[i].stay, Lines'[i].came)
             /\ 1 <= Lines'[i].visit /\ Lines'[i].visit <= visits'
  <2>1. /\ Lines'[i] = Lines[i] /\ Right(Lines[i].total, Lines[i].stay, Lines[i].came)
        /\ 1 <= Lines[i].visit /\ Lines[i].visit <= visits
    BY <1>3 DEF LinesRight
  <2>2. Lines[i].visit \in Nat
    BY <1>2, <1>3 DEF Bill
  <2> QED
    BY <1>1, <2>1, <2>2
<1>5. \A i, j \in 1..Len(Lines') : Lines'[i].visit = Lines'[j].visit => i = j
  BY <1>3 DEF LinesRight
<1>6. ASSUME NEW c \in Cars, Unwritten(c)', NEW i \in 1..Len(Lines')
      PROVE  Lines'[i].visit # visit'[c]
  <2>1. /\ Lines'[i] = Lines[i] /\ Lines[i].visit \in Nat /\ Lines[i].visit <= visits
    BY <1>2, <1>3 DEF LinesRight, Bill
  <2>2. CASE visit'[c] = visits + 1
    BY <1>1, <2>1, <2>2
  <2>3. CASE Unwritten(c) /\ visit'[c] = visit[c]
    BY <1>3, <2>1, <2>3 DEF LinesRight
  <2> QED
    BY <1>6, <2>2, <2>3
<1> QED
  BY <1>4, <1>5, <1>6 DEF LinesRight

\* Money prints the car's line.
LEMMA Printing ==
  ASSUME TypeOK, Owners, NEW x \in Exits, MoneyPrint(x)
  PROVE  /\ find[x] \in Cars /\ Line(x) \in Bill /\ Line(x).visit = visit[find[x]]
         /\ Unwritten(find[x])
         /\ Lines' = Append(Lines, Line(x)) /\ Len(Lines') = Len(Lines) + 1
         /\ \A i \in 1..Len(Lines) : Lines'[i] = Lines[i]
         /\ Lines'[Len(Lines) + 1] = Line(x)
<1>1. point[x] = "print" /\ find[x] \in Cars /\ find[x] \in listed /\ find[x] # NoCar
  BY DEF MoneyPrint, Go, Owners, TypeOK
<1>2. Unwritten(find[x])
  BY <1>1 DEF Unwritten, Owners, Printed
<1>3. Line(x) \in Bill
  BY <1>1, LineIsBill
<1>4. Line(x).visit = visit[find[x]]
  BY DEF Line
<1>5. file \in Seq(Bill) /\ buffer \in Seq(Bill)
  BY DEF TypeOK
<1>6. Lines' = Append(Lines, Line(x))
  <2>1. file' = file /\ buffer' = Append(buffer, Line(x))
    BY DEF MoneyPrint
  <2>2. Append(buffer, Line(x)) = buffer \o <<Line(x)>>
    BY <1>3, <1>5, AppendIsConcat
  <2>3. <<Line(x)>> \in Seq(Bill)
    BY <1>3
  <2>4. file \o (buffer \o <<Line(x)>>) = (file \o buffer) \o <<Line(x)>>
    BY <1>5, <2>3, ConcatAssociative
  <2>5. Append(Lines, Line(x)) = (file \o buffer) \o <<Line(x)>>
    <3>1. Lines \in Seq(Bill)
      BY LinesType
    <3>2. Append(Lines, Line(x)) = Lines \o <<Line(x)>>
      BY <1>3, <3>1, AppendIsConcat
    <3> QED
      BY <3>2 DEF Lines
  <2>6. Lines' = file' \o buffer'
    BY DEF Lines
  <2> QED
    BY <2>1, <2>2, <2>4, <2>5, <2>6
<1>7. Lines \in Seq(Bill)
  BY LinesType
<1>8. /\ Len(Append(Lines, Line(x))) = Len(Lines) + 1
      /\ \A i \in 1..Len(Lines) : Append(Lines, Line(x))[i] = Lines[i]
      /\ Append(Lines, Line(x))[Len(Lines) + 1] = Line(x)
  BY <1>3, <1>7, AppendProperties
<1> QED
  BY <1>1, <1>2, <1>3, <1>4, <1>6, <1>8

LEMMA LinesPrint ==
  ASSUME TypeOK, Owners, Timed, LinesRight, NEW x \in Exits, MoneyPrint(x)
  PROVE  LinesRight'
<1> DEFINE n == Len(Lines)
           car == find[x]
<1>1. /\ car \in Cars /\ Line(x) \in Bill /\ Line(x).visit = visit[car] /\ Unwritten(car)
      /\ Len(Lines') = n + 1
      /\ \A i \in 1..n : Lines'[i] = Lines[i]
      /\ Lines'[n + 1] = Line(x)
  BY Printing
<1>2. n \in Nat /\ Lines \in Seq(Bill)
  BY LinesType
<1>3. Right(Line(x).total, Line(x).stay, Line(x).came)
  BY DEF MoneyPrint, Go, Timed, Line
<1>4. 1 <= visit[car] /\ visit[car] <= visits /\ visits' = visits /\ visit' = visit
  BY <1>1 DEF Unwritten, Owners, MoneyPrint, carVars
<1>5. \A i \in 1..n + 1 : i \in 1..n \/ i = n + 1
  BY <1>2
<1>6. \A i \in 1..n : Lines[i].visit # visit[car]
  BY <1>1 DEF LinesRight
<1>7. \A i \in 1..n + 1 :
        /\ Right(Lines'[i].total, Lines'[i].stay, Lines'[i].came)
        /\ 1 <= Lines'[i].visit /\ Lines'[i].visit <= visits'
  BY <1>1, <1>3, <1>4, <1>5 DEF LinesRight
<1>8. ASSUME NEW i \in 1..n + 1, NEW j \in 1..n + 1, Lines'[i].visit = Lines'[j].visit PROVE i = j
  <2>1. CASE i \in 1..n /\ j \in 1..n
    BY <1>1, <1>8, <2>1 DEF LinesRight
  <2>2. CASE i = n + 1 /\ j \in 1..n
    BY <1>1, <1>6, <1>8, <2>2
  <2>3. CASE i \in 1..n /\ j = n + 1
    BY <1>1, <1>6, <1>8, <2>3
  <2> QED
    BY <1>5, <2>1, <2>2, <2>3
<1>9. ASSUME NEW c \in Cars, Unwritten(c)', NEW i \in 1..n + 1 PROVE Lines'[i].visit # visit'[c]
  <2>1. point'[x] \in Printed
    BY DEF MoneyPrint, Go, Printed, TypeOK
  <2>2. Unwritten(c) /\ c # car
    BY <1>9, <2>1, Writing DEF Money
  <2>3. visit[c] # visit[car]
    BY <1>1, <2>2 DEF Unwritten, Owners
  <2> QED
    BY <1>1, <1>4, <1>5, <2>2, <2>3 DEF LinesRight
<1> HIDE DEF n
<1>10. Len(Lines') = n + 1
  BY <1>1
<1> QED
  BY <1>7, <1>8, <1>9, <1>10 DEF LinesRight

LEMMA LinesStep ==
  TypeOK /\ TypeOK' /\ Owners /\ Timed /\ LinesRight /\ [Next]_vars => LinesRight'
<1> SUFFICES ASSUME TypeOK, TypeOK', Owners, Timed, LinesRight, [Next]_vars PROVE LinesRight'
  OBVIOUS
<1> DEFINE Wrote == <<file, buffer>>
           To == <<visits, visit, listed, find, point>>
<1>1. Len(Lines) \in Nat /\ visits \in Nat
  BY LinesType DEF TypeOK
<1>2. UNCHANGED Wrote => Lines' = Lines
  BY DEF Lines
<1>3. ASSUME Lines' = Lines, visits' = visits,
             \A c \in Cars : Unwritten(c)' => Unwritten(c) /\ visit'[c] = visit[c]
      PROVE  LinesRight'
  BY <1>1, <1>3, LinesKept
<1>4. UNCHANGED To => \A c \in Cars : Unwritten(c)' => Unwritten(c) /\ visit'[c] = visit[c]
  BY DEF Unwritten
<1>5. UNCHANGED Wrote /\ UNCHANGED To => LinesRight'
  BY <1>2, <1>3, <1>4
<1>6. ASSUME NEW p \in Programs, NEW t \in Times, Tick(p, t) PROVE LinesRight'
  BY <1>5, <1>6 DEF Tick, carVars, fileVars, exitVars
<1>7. CASE SimStep
  BY <1>5, <1>7 DEF SimStep, SimAssign, SimPark, InsideRead, InsideNobody, InsideTake, carVars,
                    fileVars, exitVars
<1>8. ASSUME NEW d \in Cars, MgrRecord(d) PROVE LinesRight'
  <2>1. UNCHANGED Wrote /\ visits' = visits + 1
    BY <1>8 DEF MgrRecord, fileVars
  <2>2. \A c \in Cars : Unwritten(c)' => \/ visit'[c] = visits + 1
                                         \/ Unwritten(c) /\ visit'[c] = visit[c]
    BY <1>8, Recording
  <2> QED
    BY <1>1, <1>2, <2>1, <2>2, LinesKept
<1>9. ASSUME NEW x \in Exits, NEW d \in Cars, ExitLetOut(x, d) PROVE LinesRight'
  <2>1. UNCHANGED Wrote /\ UNCHANGED <<visits, visit>>
    BY <1>9 DEF ExitLetOut, fileVars, carVars
  <2> QED
    BY <1>2, <1>3, <1>9, <2>1, LettingOut
<1>10. ASSUME NEW x \in Exits, MgrDelete(x) PROVE LinesRight'
  <2>1. UNCHANGED Wrote /\ visits' = visits
    BY <1>10 DEF MgrDelete, fileVars
  <2> QED
    BY <1>2, <1>3, <1>10, <2>1, Deleting
<1>11. ASSUME NEW x \in Exits, Money(x)
       PROVE  /\ visits' = visits
              /\ \A c \in Cars : Unwritten(c)' => Unwritten(c) /\ visit'[c] = visit[c]
  BY <1>11, Writing, MoneyMoves DEF carVars
<1>12. ASSUME NEW x \in Exits, MoneyOpen(x) PROVE LinesRight'
  <2>1. Lines' = file
    <3>1. file' = file /\ buffer' = <<>> /\ file \in Seq(Bill)
      BY <1>12 DEF MoneyOpen, TypeOK
    <3>2. file \o <<>> = file
      BY <3>1, ConcatEmptySeq
    <3> QED
      BY <3>1, <3>2 DEF Lines
  <2>2. Len(file) <= Len(Lines) /\ \A i \in 1..Len(file) : Lines[i] = file[i]
    BY LinesType
  <2>3. Money(x)
    BY <1>12 DEF Money
  <2> QED
    BY <1>1, <1>11, <2>1, <2>2, <2>3, LinesKept
<1>13. ASSUME NEW x \in Exits, MoneyTime(x) \/ MoneyOnClosed(x) PROVE LinesRight'
  <2>1. UNCHANGED Wrote /\ Money(x)
    BY <1>13 DEF MoneyTime, MoneyOnClosed, Money, fileVars
  <2> QED
    BY <1>2, <1>3, <1>11, <2>1
<1>14. ASSUME NEW x \in Exits, MoneyClose(x) PROVE LinesRight'
  <2>1. Lines' = Lines
    <3>1. file' = file \o buffer /\ buffer' = <<>> /\ file \o buffer \in Seq(Bill)
      BY <1>14, LinesType DEF MoneyClose, Lines
    <3>2. (file \o buffer) \o <<>> = file \o buffer
      BY <3>1, ConcatEmptySeq
    <3> QED
      BY <3>1, <3>2 DEF Lines
  <2> QED
    BY <1>3, <1>11, <1>14, <2>1 DEF Money
<1>15. ASSUME NEW x \in Exits, Money(x) PROVE LinesRight'
  BY <1>12, <1>13, <1>14, <1>15, LinesPrint DEF Money
<1>16. CASE UNCHANGED vars
  BY <1>5, <1>16 DEF vars, carVars, fileVars, exitVars
<1> QED
  BY <1>6, <1>7, <1>8, <1>9, <1>10, <1>15, <1>16 DEF Next, MgrStep

-----------------------------------------------------------------------------
(* One exit at a time has the file.                                        *)

\* fp is the stream of the exit that has the file.
Stream ==
  /\ ~crashed
  /\ \A x, y \in Exits : point[x] \in HasFile /\ point[y] \in HasFile => x = y
  /\ \A x \in Exits : point[x] \in HasFile => fpOpen
  /\ \A x \in Exits : point[x] = "close" => buffer = <<Line(x)>>
  /\ (\A x \in Exits : point[x] # "close") => buffer = <<>>

Accounted ==
  \A k \in 1..visits :
    \/ \E c \in Cars : visit[c] = k /\ Unwritten(c)
    \/ \E i \in 1..Len(Lines) : Lines[i].visit = k

LEMMA FileParts == OneHasFile <=> (~mixed => Stream /\ Accounted)
BY DEF OneHasFile, Stream, Accounted

LEMMA FileInit == Init => OneHasFile
<1> SUFFICES ASSUME Init PROVE OneHasFile
  OBVIOUS
<1>1. visits = 0
  BY DEF Init
<1>2. Accounted
  BY <1>1 DEF Accounted
<1>3. Stream
  BY DEF Init, Stream, HasFile
<1> QED
  BY <1>2, <1>3, FileParts

LEMMA StreamStep ==
  TypeOK /\ Owners /\ Stream /\ [Next]_vars /\ ~mixed' => Stream'
<1> SUFFICES ASSUME TypeOK, Owners, Stream, [Next]_vars, ~mixed' PROVE Stream'
  OBVIOUS
<1> DEFINE Held(y) == <<point[y], visit[find[y]], came[find[y]], stay[y], total[y]>>
           Streams == <<crashed, fpOpen, buffer>>
<1>1. ASSUME UNCHANGED Streams, point' = point,
             \A y \in Exits : point[y] = "close" => Line(y)' = Line(y)
      PROVE  Stream'
  BY <1>1 DEF Stream
<1>2. UNCHANGED Streams /\ UNCHANGED <<point, visit, came, find, stay, total>> => Stream'
  BY <1>1 DEF Line
<1>3. ASSUME NEW p \in Programs, NEW t \in Times, Tick(p, t) PROVE Stream'
  BY <1>2, <1>3 DEF Tick, carVars, fileVars, exitVars
<1>4. CASE SimStep
  BY <1>2, <1>4 DEF SimStep, SimAssign, SimPark, InsideRead, InsideNobody, InsideTake, carVars,
                    fileVars, exitVars
<1>5. ASSUME NEW d \in Cars, MgrRecord(d) PROVE Stream'
  <2>1. /\ d \notin listed /\ visit' = [visit EXCEPT ![d] = visits + 1]
        /\ came' = [came EXCEPT ![d] = elapsed.mgr]
        /\ UNCHANGED Streams /\ UNCHANGED <<point, find, stay, total>>
    BY <1>5 DEF MgrRecord, fileVars, exitVars
  <2>2. \A y \in Exits : point[y] = "close" => find[y] \in Cars /\ find[y] # d
    BY <2>1 DEF Owners, TypeOK
  <2>3. \A y \in Exits : point[y] = "close" => Line(y)' = Line(y)
    BY <2>1, <2>2 DEF Line, TypeOK
  <2> QED
    BY <1>1, <2>1, <2>3
<1>6. ASSUME NEW x \in Exits, NEW from, NEW to,
             from \notin HasFile, to \notin HasFile,
             point[x] = from, point' = [point EXCEPT ![x] = to], UNCHANGED Streams,
             \A y \in Exits : y # x /\ point[y] = "close" => Line(y)' = Line(y)
      PROVE  Stream'
  <2>1. /\ point[x] \notin HasFile /\ point'[x] \notin HasFile
        /\ \A y \in Exits : y # x => point'[y] = point[y]
    BY <1>6 DEF TypeOK
  <2>2. \A y \in Exits : point'[y] \in HasFile <=> point[y] \in HasFile
    BY <2>1
  <2>3. \A y \in Exits : point'[y] = "close" <=> point[y] = "close" /\ y # x
    BY <2>1 DEF HasFile
  <2>4. /\ \A y \in Exits : point'[y] = "close" => buffer = <<Line(y)'>>
        /\ (\A y \in Exits : point'[y] # "close") => buffer = <<>>
    BY <1>6, <2>1, <2>3 DEF Stream, HasFile
  <2> QED
    BY <1>6, <2>2, <2>4 DEF Stream
<1>7. ASSUME NEW x \in Exits, NEW d \in Cars, ExitLetOut(x, d) PROVE Stream'
  <2>1. /\ point[x] = "wait" /\ point' = [point EXCEPT ![x] = "open"]
        /\ find' = [find EXCEPT ![x] = d]
        /\ UNCHANGED Streams /\ UNCHANGED <<visit, came, stay, total>>
    BY <1>7 DEF ExitLetOut, fileVars, carVars
  <2>2. \A y \in Exits : y # x => Line(y)' = Line(y)
    BY <2>1 DEF Line, TypeOK
  <2> QED
    BY <1>6, <2>1, <2>2 DEF HasFile
<1>8. ASSUME NEW x \in Exits, MgrDelete(x) PROVE Stream'
  <2>1. /\ point[x] = "delete" /\ point' = [point EXCEPT ![x] = "wait"]
        /\ find' = [find EXCEPT ![x] = NoCar] /\ UNCHANGED Streams
        /\ visit' = [visit EXCEPT ![find[x]] = 0] /\ came' = [came EXCEPT ![find[x]] = 0]
        /\ total' = [total EXCEPT ![x] = 0] /\ stay' = [stay EXCEPT ![x] = 0]
    BY <1>8 DEF MgrDelete, Go, fileVars
  <2>2. ASSUME NEW y \in Exits, y # x, point[y] = "close" PROVE Line(y)' = Line(y)
    <3>1. find[y] \in Cars /\ find[y] # find[x]
      BY <2>1, <2>2 DEF Owners, TypeOK
    <3>2. /\ find'[y] = find[y] /\ total'[y] = total[y] /\ stay'[y] = stay[y]
          /\ visit'[find[y]] = visit[find[y]] /\ came'[find[y]] = came[find[y]]
      BY <2>1, <2>2, <3>1 DEF TypeOK
    <3> QED
      BY <3>2 DEF Line
  <2> QED
    BY <1>6, <2>1, <2>2 DEF HasFile
<1>9. ASSUME NEW x \in Exits, MoneyOpen(x) PROVE Stream'
  <2>1. /\ point' = [point EXCEPT ![x] = "time"] /\ fpOpen' = TRUE /\ buffer' = <<>>
        /\ crashed' = crashed
        /\ \A y \in Exits : point[y] \notin HasFile
    BY <1>9 DEF MoneyOpen, Go
  <2>2. \A y \in Exits : y # x => point'[y] \notin HasFile
    BY <2>1 DEF TypeOK
  <2>3. \A y \in Exits : point'[y] # "close"
    BY <2>1, <2>2 DEF HasFile, TypeOK
  <2> QED
    BY <2>1, <2>2, <2>3 DEF Stream
<1>10. ASSUME NEW x \in Exits, point[x] \in HasFile
       PROVE  \A y \in Exits : y # x => point[y] \notin HasFile
  BY <1>10 DEF Stream
<1>11. ASSUME NEW x \in Exits, MoneyTime(x) PROVE Stream'
  <2>1. point[x] = "time" /\ point' = [point EXCEPT ![x] = "print"] /\ UNCHANGED Streams
    BY <1>11 DEF MoneyTime, Go, fileVars
  <2>2. \A y \in Exits : y # x => point[y] \notin HasFile
    BY <1>10, <2>1 DEF HasFile
  <2>3. \A y \in Exits : (point'[y] \in HasFile <=> y = x) /\ point[y] # "close" /\ point'[y] # "close"
    BY <2>1, <2>2 DEF HasFile, TypeOK
  <2>4. fpOpen /\ buffer = <<>> /\ ~crashed
    BY <2>1, <2>3 DEF Stream, HasFile
  <2> QED
    BY <2>1, <2>3, <2>4 DEF Stream
<1>12. ASSUME NEW x \in Exits, MoneyPrint(x) PROVE Stream'
  <2>1. /\ point[x] = "print" /\ point' = [point EXCEPT ![x] = "close"]
        /\ buffer' = Append(buffer, Line(x)) /\ fpOpen /\ UNCHANGED <<crashed, fpOpen>>
        /\ UNCHANGED <<find, total, stay, visit, came>>
    BY <1>12 DEF MoneyPrint, Go, carVars
  <2>2. \A y \in Exits : y # x => point[y] \notin HasFile
    BY <1>10, <2>1 DEF HasFile
  <2>3. \A y \in Exits : /\ point'[y] \in HasFile <=> y = x
                         /\ point[y] # "close" /\ (point'[y] = "close" <=> y = x)
    BY <2>1, <2>2 DEF HasFile, TypeOK
  <2>4. buffer = <<>> /\ ~crashed
    BY <2>3 DEF Stream
  <2>5. Line(x)' = Line(x)
    BY <2>1 DEF Line
  <2>6. buffer' = <<Line(x)>>
    BY <2>1, <2>4
  <2> QED
    BY <2>1, <2>3, <2>4, <2>5, <2>6 DEF Stream
<1>13. ASSUME NEW x \in Exits, MoneyClose(x) PROVE Stream'
  <2>1. /\ point[x] = "close" /\ point' = [point EXCEPT ![x] = "delete"]
        /\ buffer' = <<>> /\ crashed' = crashed
    BY <1>13 DEF MoneyClose, Go
  <2>2. \A y \in Exits : y # x => point[y] \notin HasFile
    BY <1>10, <2>1 DEF HasFile
  <2>3. \A y \in Exits : point'[y] \notin HasFile /\ point'[y] # "close"
    BY <2>1, <2>2 DEF HasFile, TypeOK
  <2> QED
    BY <2>1, <2>3 DEF Stream
<1>14. ASSUME NEW x \in Exits, MoneyOnClosed(x) PROVE Stream'
  BY <1>14 DEF MoneyOnClosed, Go, Stream, HasFile
<1>15. CASE UNCHANGED vars
  BY <1>2, <1>15 DEF vars, carVars, fileVars, exitVars
<1> QED
  BY <1>3, <1>4, <1>5, <1>7, <1>8, <1>9, <1>11, <1>12, <1>13, <1>14, <1>15
     DEF Next, MgrStep, Money

LEMMA AccountedStep ==
  TypeOK /\ Owners /\ Stream /\ Accounted /\ [Next]_vars /\ ~mixed' => Accounted'
<1> SUFFICES ASSUME TypeOK, Owners, Stream, Accounted, [Next]_vars, ~mixed' PROVE Accounted'
  OBVIOUS
<1> DEFINE Wrote == <<file, buffer>>
           To == <<visits, visit, listed, find, point>>
<1>1. ASSUME Lines' = Lines, visits' = visits,
             \A c \in Cars : Unwritten(c) => Unwritten(c)' /\ visit'[c] = visit[c]
      PROVE  Accounted'
  BY <1>1 DEF Accounted
<1>2. UNCHANGED Wrote => Lines' = Lines
  BY DEF Lines
<1>3. UNCHANGED Wrote /\ UNCHANGED To => Accounted'
  BY <1>1, <1>2 DEF Unwritten
<1>4. ASSUME NEW p \in Programs, NEW t \in Times, Tick(p, t) PROVE Accounted'
  BY <1>3, <1>4 DEF Tick, carVars, fileVars, exitVars
<1>5. CASE SimStep
  BY <1>3, <1>5 DEF SimStep, SimAssign, SimPark, InsideRead, InsideNobody, InsideTake, carVars,
                    fileVars, exitVars
<1>6. ASSUME NEW d \in Cars, MgrRecord(d) PROVE Accounted'
  <2>1. UNCHANGED Wrote /\ visits' = visits + 1 /\ visits \in Nat
    BY <1>6 DEF MgrRecord, fileVars, TypeOK
  <2>2. \A k \in 1..visits + 1 : k \in 1..visits \/ k = visits + 1
    BY <2>1
  <2>3. Unwritten(d)' /\ visit'[d] = visits + 1
    BY <1>6, Recording
  <2>4. \A c \in Cars : Unwritten(c) => Unwritten(c)' /\ visit'[c] = visit[c]
    BY <1>6, Recording
  <2> QED
    BY <1>2, <2>1, <2>2, <2>3, <2>4 DEF Accounted
<1>7. ASSUME NEW x \in Exits, NEW d \in Cars, ExitLetOut(x, d) PROVE Accounted'
  BY <1>1, <1>2, <1>7, LettingOut DEF ExitLetOut, fileVars, carVars
<1>8. ASSUME NEW x \in Exits, MgrDelete(x) PROVE Accounted'
  BY <1>1, <1>2, <1>8, Deleting DEF MgrDelete, fileVars
<1>9. ASSUME NEW x \in Exits, Money(x), point[x] \in Printed \/ point'[x] \notin Printed
      PROVE  /\ visits' = visits
             /\ \A c \in Cars : Unwritten(c) => Unwritten(c)' /\ visit'[c] = visit[c]
  <2>1. UNCHANGED <<visits, visit>>
    BY <1>9, MoneyMoves DEF carVars
  <2>2. \A c \in Cars : Unwritten(c) /\ find[x] = c => point'[x] \notin Printed
    BY <1>9 DEF Unwritten
  <2> QED
    BY <1>9, <2>1, <2>2, Writing
<1>10. ASSUME NEW x \in Exits, MoneyOpen(x) PROVE Accounted'
  <2>1. /\ file' = file /\ buffer' = <<>>
        /\ \A y \in Exits : point[y] \notin HasFile
        /\ point'[x] = "time"
    BY <1>10 DEF MoneyOpen, Go, TypeOK
  <2>2. buffer = <<>>
    BY <2>1 DEF Stream, HasFile
  <2> QED
    BY <1>1, <1>2, <1>9, <1>10, <2>1, <2>2 DEF Money, Printed
<1>11. ASSUME NEW x \in Exits, MoneyTime(x) PROVE Accounted'
  <2>1. UNCHANGED Wrote /\ point'[x] = "print"
    BY <1>11 DEF MoneyTime, Go, TypeOK, fileVars
  <2> QED
    BY <1>1, <1>2, <1>9, <1>11, <2>1 DEF Money, Printed
<1>12. ASSUME NEW x \in Exits, MoneyPrint(x) PROVE Accounted'
  <2>1. /\ Line(x).visit = visit[find[x]] /\ Len(Lines') = Len(Lines) + 1
        /\ \A i \in 1..Len(Lines) : Lines'[i] = Lines[i]
        /\ Lines'[Len(Lines) + 1] = Line(x)
    BY <1>12, Printing
  <2>2. Len(Lines) \in Nat
    BY LinesType
  <2>3. UNCHANGED <<visits, visit>>
    BY <1>12 DEF MoneyPrint, carVars
  <2>4. \A c \in Cars : Unwritten(c) => Unwritten(c)' \/ c = find[x]
    BY <1>12, Writing DEF Money
  <2>5. ASSUME NEW k \in 1..visits
        PROVE  \/ \E c \in Cars : visit'[c] = k /\ Unwritten(c)'
               \/ \E i \in 1..Len(Lines') : Lines'[i].visit = k
    <3>1. CASE \E i \in 1..Len(Lines) : Lines[i].visit = k
      <4>1. \A i \in 1..Len(Lines) : i \in 1..Len(Lines')
        BY <2>1, <2>2
      <4> QED
        BY <2>1, <3>1, <4>1
    <3>2. CASE visit[find[x]] = k
      <4>1. Len(Lines) + 1 \in 1..Len(Lines')
        BY <2>1, <2>2
      <4> QED
        BY <2>1, <3>2, <4>1
    <3>3. CASE \E c \in Cars : visit[c] = k /\ Unwritten(c) /\ c # find[x]
      BY <2>3, <2>4, <3>3
    <3> QED
      BY <3>1, <3>2, <3>3 DEF Accounted
  <2> QED
    BY <2>3, <2>5 DEF Accounted
<1>13. ASSUME NEW x \in Exits, MoneyClose(x) PROVE Accounted'
  <2>1. Lines' = Lines
    <3>1. file' = file \o buffer /\ buffer' = <<>> /\ file \o buffer \in Seq(Bill)
      BY <1>13, LinesType DEF MoneyClose, Lines
    <3>2. (file \o buffer) \o <<>> = file \o buffer
      BY <3>1, ConcatEmptySeq
    <3> QED
      BY <3>1, <3>2 DEF Lines
  <2>2. point[x] \in Printed
    BY <1>13 DEF MoneyClose, Go, Printed
  <2> QED
    BY <1>1, <1>9, <1>13, <2>1, <2>2 DEF Money
<1>14. ASSUME NEW x \in Exits, MoneyOnClosed(x) PROVE FALSE
  BY <1>14 DEF MoneyOnClosed, Go, Stream, HasFile
<1>15. CASE UNCHANGED vars
  BY <1>3, <1>15 DEF vars, carVars, fileVars, exitVars
<1> QED
  BY <1>4, <1>5, <1>6, <1>7, <1>8, <1>10, <1>11, <1>12, <1>13, <1>14, <1>15
     DEF Next, MgrStep, Money

LEMMA FileStep == TypeOK /\ Owners /\ OneHasFile /\ [Next]_vars => OneHasFile'
<1> SUFFICES ASSUME TypeOK, Owners, OneHasFile, [Next]_vars, ~mixed'
             PROVE  Stream' /\ Accounted'
  BY DEF OneHasFile, Stream, Accounted
<1>1. ~mixed
  BY Zenon DEF Next, SimStep, MgrStep, Money, Tick, MgrRecord, SimAssign, SimPark, InsideRead,
               InsideTake, InsideNobody, ExitLetOut, MoneyOpen, MoneyTime, MoneyPrint, MoneyClose,
               MoneyOnClosed, MgrDelete, vars, fileVars
<1>2. Stream /\ Accounted
  BY <1>1, FileParts
<1> QED
  BY <1>2, StreamStep, AccountedStep

-----------------------------------------------------------------------------

\* The invariant that the theorems below rest on is one.
THEOREM Invariance == Spec => []IInv
<1>1. Init => IInv
  BY TypeInit, OwnersInit, TimedInit, LinesInit, FileInit DEF IInv
<1>2. IInv /\ [Next]_vars => IInv'
  BY TypeStep, OwnersStep, TimedStep, LinesStep, FileStep DEF IInv
<1> QED
  BY <1>1, <1>2, PTL DEF Spec

\* Every variable keeps its type.
THEOREM TypeCorrect == Spec => []TypeOK
<1>1. IInv => TypeOK
  BY DEF IInv
<1> QED
  BY <1>1, Invariance, PTL

\* A bill in billing.txt is of a visit of its own, and the stay's unless the time
\* at which the car came did not fit in 16 bits, whatever the exits do to each
\* other's stream.
THEOREM BillsCorrect == Spec => []BillsAreRight
<1>1. IInv => BillsAreRight
  <2> SUFFICES ASSUME IInv PROVE BillsAreRight
    OBVIOUS
  <2>1. \A i \in 1..Len(file) : i \in 1..Len(Lines) /\ Lines[i] = file[i]
    BY LinesType DEF IInv
  <2>2. ASSUME NEW i \in 1..Len(file), file[i].came < WRAP PROVE file[i].total = file[i].stay
    <3>1. Right(file[i].total, file[i].stay, file[i].came)
      BY <2>1 DEF IInv, LinesRight
    <3>2. file[i].came \in Nat /\ file[i].stay \in Int
      <4>1. file \in Seq(Bill)
        BY DEF IInv, TypeOK
      <4>2. file[i] \in Bill
        BY <4>1
      <4> QED
        BY <4>2 DEF Bill
    <3>3. WRAP * (file[i].came \div WRAP) = 0
      BY <2>2, <3>2, Cut DEF WRAP
    <3> QED
      BY <3>1, <3>2, <3>3 DEF Right
  <2> QED
    BY <2>1, <2>2 DEF IInv, LinesRight, BillsAreRight
<1> QED
  BY <1>1, Invariance, PTL

\* As long as no two exits have billed at once, each visit is billed just once.
THEOREM Recorded == Spec => []BillsRecorded
<1>1. IInv => BillsRecorded
  <2> SUFFICES ASSUME IInv, ~mixed
               PROVE  /\ ~crashed
                      /\ \A k \in 1..visits :
                           IF Unpaid(k) THEN \A i \in 1..Len(file) : file[i].visit # k
                           ELSE \E i \in 1..Len(file) :
                                  \A j \in 1..Len(file) : file[j].visit = k <=> j = i
    BY DEF BillsRecorded
  <2>1. TypeOK /\ Owners /\ LinesRight /\ Stream /\ Accounted
    BY FileParts DEF IInv
  <2>2. /\ Len(Lines) \in Nat /\ Len(file) \in Nat /\ Len(buffer) \in Nat
        /\ Len(Lines) = Len(file) + Len(buffer)
        /\ \A i \in 1..Len(file) : i \in 1..Len(Lines) /\ Lines[i] = file[i]
        /\ \A i \in 1..Len(buffer) :
             Len(file) + i \in 1..Len(Lines) /\ Lines[Len(file) + i] = buffer[i]
    BY <2>1, LinesType
  <2>3. ASSUME NEW x \in Exits, point[x] = "close"
        PROVE  /\ Len(buffer) = 1 /\ Len(file) + 1 \in 1..Len(Lines)
               /\ Lines[Len(file) + 1].visit = visit[find[x]]
               /\ find[x] \in listed
    <3>1. buffer = <<Line(x)>>
      BY <2>1, <2>3 DEF Stream
    <3>2. Len(buffer) = 1 /\ buffer[1] = Line(x)
      BY <3>1
    <3>3. 1 \in 1..Len(buffer)
      BY <3>2
    <3>4. find[x] \in listed
      BY <2>1, <2>3 DEF Owners
    <3> QED
      BY <2>2, <3>2, <3>3, <3>4 DEF Line
  <2>4. ASSUME NEW k \in 1..visits, Unpaid(k), NEW i \in 1..Len(file) PROVE file[i].visit # k
    <3>1. PICK c \in listed : visit[c] = k /\ \A x \in Exits : find[x] = c => point[x] # "delete"
      BY <2>4 DEF Unpaid
    <3>2. CASE Unwritten(c)
      <4>1. c \in Cars
        BY <2>1 DEF TypeOK
      <4>2. Lines[i].visit # k /\ Lines[i] = file[i]
        BY <2>1, <2>2, <3>1, <3>2, <4>1 DEF LinesRight
      <4> QED
        BY <4>2
    <3>3. CASE ~Unwritten(c)
      <4>1. PICK x \in Exits : find[x] = c /\ point[x] = "close"
        BY <3>1, <3>3 DEF Unwritten, Printed
      <4>2. Lines[Len(file) + 1].visit = k /\ Len(file) + 1 \in 1..Len(Lines)
        BY <2>3, <3>1, <4>1
      <4>3. i \in 1..Len(Lines) /\ Lines[i] = file[i] /\ i # Len(file) + 1
        BY <2>2
      <4> QED
        BY <2>1, <4>2, <4>3 DEF LinesRight
    <3> QED
      BY <3>2, <3>3
  <2>5. ASSUME NEW k \in 1..visits, ~Unpaid(k)
        PROVE  \E i \in 1..Len(file) : \A j \in 1..Len(file) : file[j].visit = k <=> j = i
    <3>1. \A c \in Cars : visit[c] = k => ~Unwritten(c)
      BY <2>5 DEF Unpaid, Unwritten, Printed
    <3>2. PICK i \in 1..Len(Lines) : Lines[i].visit = k
      BY <2>1, <3>1 DEF Accounted
    <3>3. i \in 1..Len(file)
      <4> SUFFICES ASSUME i \notin 1..Len(file) PROVE FALSE
        OBVIOUS
      <4>1. Len(buffer) # 0
        BY <2>2
      <4>2. PICK x \in Exits : point[x] = "close"
        <5>1. buffer # <<>>
          BY <4>1
        <5> QED
          BY <2>1, <5>1 DEF Stream
      <4>3. i = Len(file) + 1
        BY <2>2, <2>3, <4>2
      <4>4. visit[find[x]] = k /\ find[x] \in listed
        BY <2>3, <3>2, <4>2, <4>3
      <4>5. \A y \in Exits : find[y] = find[x] => y = x
        BY <2>1, <4>2 DEF Owners
      <4> QED
        BY <2>5, <4>2, <4>4, <4>5 DEF Unpaid
    <3>4. \A j \in 1..Len(file) : file[j].visit = k <=> j = i
      BY <2>1, <2>2, <3>2, <3>3 DEF LinesRight
    <3> QED
      BY <3>3, <3>4
  <2> QED
    BY <2>1, <2>4, <2>5 DEF Stream
<1> QED
  BY <1>1, Invariance, PTL

\* A car is taken out of inside_list when its time has come, unless that time did
\* not fit in 16 bits.
THEOREM OnTime == Spec => LeavesOnTime
<1>1. IInv /\ [Next]_vars =>
        [\A c \in Cars : place[c] = "inside" /\ place'[c] # "inside" =>
           due[c] <= elapsed.sim \/ due[c] >= WRAP]_vars
  <2> SUFFICES ASSUME IInv, [Next]_vars, NEW c \in Cars,
                      place[c] = "inside", place'[c] # "inside"
               PROVE  due[c] <= elapsed["sim"] \/ due[c] >= WRAP
    OBVIOUS
  <2>1. TypeOK /\ Owners /\ Timed
    BY DEF IInv
  <2>2. PICK i \in 1..Len(inside) : InsideTake(i) /\ inside[i] = c
    <3>1. ASSUME ~\E i \in 1..Len(inside) : InsideTake(i) PROVE place'[c] = "inside"
      <4>1. CASE \E p \in Programs : \E t \in Times : Tick(p, t)
        BY <4>1 DEF Tick, simVars
      <4>2. CASE SimStep
        BY <2>1, <3>1, <4>2 DEF SimStep, SimAssign, SimPark, InsideRead, InsideNobody, TypeOK
      <4>3. CASE MgrStep
        <5>1. ASSUME NEW x \in Exits, Money(x) PROVE place' = place
          BY <2>1, <5>1, MoneyMoves DEF simVars
        <5> QED
          BY <2>1, <4>3, <5>1 DEF MgrStep, MgrRecord, ExitLetOut, MgrDelete, simVars, TypeOK
      <4> QED
        BY <4>1, <4>2, <4>3 DEF Next, vars, simVars
    <3>2. PICK i \in 1..Len(inside) : InsideTake(i)
      BY <3>1
    <3>3. place' = [place EXCEPT ![inside[i]] = "exit"]
      BY <3>2 DEF InsideTake
    <3>4. inside[i] = c
      BY <2>1, <3>3 DEF TypeOK
    <3> QED
      BY <3>2, <3>4
  <2>3. exitTime[c] <= curr /\ curr # Unread
    BY <2>2 DEF InsideTake, CompTimes
  <2>4. exitTime[c] = due[c] % WRAP /\ curr <= elapsed["sim"]
    BY <2>1 DEF Timed
  <2>5. /\ due[c] \in Nat /\ elapsed["sim"] \in Nat /\ curr \in Nat
        /\ exitTime[c] \in Nat /\ WRAP \in Nat
    BY <2>1, <2>3 DEF TypeOK, Programs, WRAP
  <2>6. due[c] < WRAP => due[c] % WRAP = due[c]
    BY <2>5, Cut
  <2> QED
    BY <2>3, <2>4, <2>5, <2>6
<1> QED
  BY <1>1, Invariance, PTL DEF LeavesOnTime, Spec

=============================================================================
