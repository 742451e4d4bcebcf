--------------------------- MODULE CardCycle_proofs ---------------------------
(***************************************************************************)
(* Proofs about CardCycle: for every closing and due day, every start date *)
(* and any number of installments and moves.                               *)
(***************************************************************************)
EXTENDS CardCycle, FiniteSetTheorems, TLAPS

-----------------------------------------------------------------------------
(* Dates                                                                   *)

\* A month has 28 to 31 days.
LEMMA DaysInRange ==
  ASSUME NEW m \in Int
  PROVE  DaysIn(m) \in 28 .. 31
BY DEF DaysIn

\* The month and the day of a date written down are those.
LEMMA DateParts ==
  ASSUME NEW m \in Int, NEW k \in 1 .. 31
  PROVE  Date(m, k) \in Int /\ Month(Date(m, k)) = m /\ Day(Date(m, k)) = k
BY DEF Date, Month, Day

\* A date is made of its month and its day.
LEMMA PartsOf ==
  ASSUME NEW d \in Int
  PROVE  /\ Month(d) \in Int /\ Day(d) \in 1 .. 31
         /\ d = 31 * Month(d) + Day(d) - 1
BY DEF Month, Day

\* Clamping keeps the month, never raises the day, and gives a date.
LEMMA Clamped ==
  ASSUME NEW m \in Int, NEW k \in 1 .. 31
  PROVE  /\ DateWithDay(m, k) \in Dates
         /\ Month(DateWithDay(m, k)) = m
         /\ Day(DateWithDay(m, k)) = IF k <= DaysIn(m) THEN k ELSE DaysIn(m)
<1> DEFINE j == IF k <= DaysIn(m) THEN k ELSE DaysIn(m)
<1>1. j \in 1 .. 31 /\ j <= DaysIn(m)
  BY DaysInRange
<1>2. DateWithDay(m, k) = Date(m, j)
  BY DEF DateWithDay
<1> HIDE DEF j
<1>3. Date(m, j) \in Int /\ Month(Date(m, j)) = m /\ Day(Date(m, j)) = j
  BY <1>1, DateParts
<1>4. Date(m, j) \in Dates
  BY <1>1, <1>3 DEF Dates
<1> QED
  BY <1>2, <1>3, <1>4 DEF j

\* A date of an earlier month is earlier.
LEMMA MonthOrder ==
  ASSUME NEW a \in Int, NEW b \in Int, Month(a) < Month(b)
  PROVE  a < b
<1>1. /\ Month(a) \in Int /\ Day(a) \in 1 .. 31 /\ a = 31 * Month(a) + Day(a) - 1
      /\ Month(b) \in Int /\ Day(b) \in 1 .. 31 /\ b = 31 * Month(b) + Day(b) - 1
  BY PartsOf
<1> QED
  BY <1>1

\* Within a month the day decides.
LEMMA DayOrder ==
  ASSUME NEW a \in Int, NEW b \in Int, Month(a) = Month(b), Day(a) <= Day(b)
  PROVE  a <= b
<1>1. /\ Month(a) \in Int /\ Day(a) \in 1 .. 31 /\ a = 31 * Month(a) + Day(a) - 1
      /\ Month(b) \in Int /\ Day(b) \in 1 .. 31 /\ b = 31 * Month(b) + Day(b) - 1
  BY PartsOf
<1> QED
  BY <1>1

-----------------------------------------------------------------------------
(* Cycles of a card                                                        *)

CardDays == closing \in 1 .. 31 /\ due \in 1 .. 31

LEMMA ShiftedEnd ==
  ASSUME CardDays, NEW e \in Int, NEW k \in Int
  PROVE  /\ ShiftPeriodEnd(e, k) \in Dates
         /\ Month(ShiftPeriodEnd(e, k)) = Month(e) + k
         /\ IsClosingDate(ShiftPeriodEnd(e, k))
<1>1. Month(e) + k \in Int
  BY PartsOf
<1>2. /\ ShiftPeriodEnd(e, k) \in Dates
      /\ Month(ShiftPeriodEnd(e, k)) = Month(e) + k
  BY <1>1, Clamped DEF ShiftPeriodEnd, CardDays
<1> QED
  BY <1>2 DEF IsClosingDate, ShiftPeriodEnd

LEMMA Previous ==
  ASSUME CardDays, NEW e \in Int
  PROVE  PreviousClose(e) \in Int /\ Month(PreviousClose(e)) = Month(e) - 1
<1>1. Month(e) \in Int
  BY PartsOf
<1>2. \A k \in Int : /\ ShiftPeriodEnd(e, k) \in Dates
                     /\ Month(ShiftPeriodEnd(e, k)) = Month(e) + k
  BY ShiftedEnd
<1>3. PreviousClose(e) \in Dates /\ Month(PreviousClose(e)) = Month(e) + (-1)
  BY <1>2 DEF PreviousClose
<1> QED
  BY <1>1, <1>3 DEF Dates

LEMMA AddedMonths ==
  ASSUME NEW d \in Int, NEW k \in Int
  PROVE  AddMonths(d, k) \in Dates /\ Month(AddMonths(d, k)) = Month(d) + k
<1>1. Month(d) + k \in Int /\ Day(d) \in 1 .. 31
  BY PartsOf
<1> QED
  BY <1>1, Clamped DEF AddMonths

LEMMA CycleEnd ==
  ASSUME CardDays, NEW d \in Int
  PROVE  /\ CyclePeriodEnd(d) \in Dates
         /\ MonthsBetween(d, CyclePeriodEnd(d)) \in {0, 1}
         /\ IsClosingDate(CyclePeriodEnd(d))
         /\ PreviousClose(CyclePeriodEnd(d)) < d
         /\ d <= CyclePeriodEnd(d)
<1> DEFINE e == CyclePeriodEnd(d)
           this == DateWithDay(Month(d), closing)
           next == DateWithDay(Month(d) + 1, closing)
<1>1. Month(d) \in Int /\ Month(d) + 1 \in Int /\ Month(d) - 1 \in Int
  BY PartsOf
<1>2. /\ this \in Dates /\ this \in Int /\ Month(this) = Month(d)
      /\ next \in Dates /\ next \in Int /\ Month(next) = Month(d) + 1
  BY <1>1, Clamped DEF CardDays, Dates
<1>3. CASE this >= d
  <2>1. e = this
    BY <1>3 DEF CyclePeriodEnd
  <2>2. PreviousClose(e) \in Int /\ Month(PreviousClose(e)) = Month(d) - 1
    BY <2>1, <1>2, Previous
  <2>3. PreviousClose(e) < d
    BY <2>2, <1>1, MonthOrder
  <2>4. IsClosingDate(e) /\ MonthsBetween(d, e) \in {0, 1}
    BY <2>1, <1>1, <1>2 DEF IsClosingDate, MonthsBetween
  <2> QED
    BY <2>1, <2>3, <2>4, <1>2, <1>3
<1>4. CASE ~(this >= d)
  <2>1. e = next
    BY <1>4 DEF CyclePeriodEnd
  <2>2. PreviousClose(e) = this
    BY <2>1, <1>1, <1>2 DEF PreviousClose, ShiftPeriodEnd
  <2>3. d <= next
    BY <1>1, <1>2, MonthOrder
  <2>4. IsClosingDate(e) /\ MonthsBetween(d, e) \in {0, 1}
    BY <2>1, <1>1, <1>2 DEF IsClosingDate, MonthsBetween
  <2> QED
    BY <2>1, <2>2, <2>3, <2>4, <1>2, <1>4
<1> QED
  BY <1>3, <1>4

LEMMA DueDate ==
  ASSUME CardDays, NEW e \in Dates, IsClosingDate(e)
  PROVE  e <= CycleDueDate(e) /\ CycleDueDate(e) <= AddMonths(e, 1)
<1> DEFINE this == DateWithDay(Month(e), due)
           next == DateWithDay(Month(e) + 1, due)
           bound == DateWithDay(Month(e) + 1, Day(e))
<1>1. e \in Int /\ Month(e) \in Int /\ Month(e) + 1 \in Int /\ Day(e) \in 1 .. 31
  BY PartsOf DEF Dates
<1>2. /\ this \in Int /\ Month(this) = Month(e)
      /\ next \in Int /\ Month(next) = Month(e) + 1
      /\ bound \in Int /\ Month(bound) = Month(e) + 1
      /\ bound = AddMonths(e, 1)
  BY <1>1, Clamped DEF CardDays, Dates, AddMonths
<1>3. CASE this >= e
  <2>1. CycleDueDate(e) = this
    BY <1>3 DEF CycleDueDate
  <2>2. this < bound
    BY <1>1, <1>2, MonthOrder
  <2> QED
    BY <2>1, <2>2, <1>2, <1>3
<1>4. CASE ~(this >= e)
  <2>1. CycleDueDate(e) = next
    BY <1>4 DEF CycleDueDate
  <2>2. e < next
    BY <1>1, <1>2, MonthOrder
  <2>3. DaysIn(Month(e)) \in 28 .. 31 /\ DaysIn(Month(e) + 1) \in 28 .. 31
    BY <1>1, DaysInRange
  <2>4. Day(this) = IF due <= DaysIn(Month(e)) THEN due ELSE DaysIn(Month(e))
    BY <1>1, Clamped DEF CardDays
  <2>5. Day(e) <= DaysIn(Month(e))
    BY DEF Dates
  <2>6. Day(this) < Day(e)
    <3>1. /\ Day(this) \in 1 .. 31 /\ this = 31 * Month(this) + Day(this) - 1
          /\ e = 31 * Month(e) + Day(e) - 1
      BY <1>1, <1>2, PartsOf
    <3> QED
      BY <3>1, <1>1, <1>2, <1>4
  <2>7. due < Day(e)
    BY <2>3, <2>4, <2>5, <2>6, <1>1 DEF CardDays
  <2>8. /\ Day(next) = IF due <= DaysIn(Month(e) + 1) THEN due ELSE DaysIn(Month(e) + 1)
        /\ Day(bound) = IF Day(e) <= DaysIn(Month(e) + 1)
                          THEN Day(e) ELSE DaysIn(Month(e) + 1)
    BY <1>1, Clamped DEF CardDays
  <2>9. Day(next) <= Day(bound)
    BY <2>3, <2>7, <2>8, <1>1 DEF CardDays
  <2> QED
    BY <2>1, <2>2, <2>9, <1>1, <1>2, DayOrder
<1> QED
  BY <1>3, <1>4

\* Every date falls in one cycle, whatever the days of the card.
LEMMA EveryDateInOneCycle ==
  ASSUME CardDays, NEW d \in Int
  PROVE  InOneCycle(d)
<1>1. CyclePeriodEnd(d) \in Dates /\ IsClosingDate(CyclePeriodEnd(d))
  BY CycleEnd
<1> QED
  BY <1>1, CycleEnd, DueDate DEF InOneCycle

\* The bills offered for a date are three closing dates in the server's window.
LEMMA EveryOptionAccepted ==
  ASSUME CardDays, NEW d \in Int
  PROVE  /\ \A end \in BillOptions(d) : end \in Dates /\ IsClosingDate(end) /\ InWindow(d, end)
         /\ Cardinality(BillOptions(d)) = 3
<1> DEFINE e == CyclePeriodEnd(d)
           a == ShiftPeriodEnd(e, -1)
           b == ShiftPeriodEnd(e, 0)
           c == ShiftPeriodEnd(e, 1)
<1>1. e \in Int /\ Month(e) \in Int
  BY CycleEnd, PartsOf DEF Dates
<1> HIDE DEF e
<1>2. /\ a \in Dates /\ b \in Dates /\ c \in Dates
      /\ a \in Int /\ b \in Int /\ c \in Int
      /\ Month(a) = Month(e) - 1 /\ Month(b) = Month(e) /\ Month(c) = Month(e) + 1
      /\ IsClosingDate(a) /\ IsClosingDate(b) /\ IsClosingDate(c)
  <2>1. \A k \in Int : /\ ShiftPeriodEnd(e, k) \in Dates
                       /\ Month(ShiftPeriodEnd(e, k)) = Month(e) + k
                       /\ IsClosingDate(ShiftPeriodEnd(e, k))
    BY <1>1, ShiftedEnd
  <2>2. \A x \in Dates : x \in Int
    BY DEF Dates
  <2>3. a \in Dates /\ Month(a) = Month(e) + (-1) /\ IsClosingDate(a)
    BY <2>1
  <2>4. b \in Dates /\ Month(b) = Month(e) + 0 /\ IsClosingDate(b)
    BY <2>1
  <2>5. c \in Dates /\ Month(c) = Month(e) + 1 /\ IsClosingDate(c)
    BY <2>1
  <2> HIDE DEF a, b, c
  <2> QED
    BY <2>2, <2>3, <2>4, <2>5, <1>1
<1> HIDE DEF a, b, c
<1>3. a < b /\ b < c
  BY <1>1, <1>2, MonthOrder
<1>4. BillOptions(d) = {a, b, c}
  BY DEF BillOptions, a, b, c, e
<1>5. \A end \in {a, b, c} : InWindow(d, end)
  BY <1>2, <1>3 DEF InWindow, a, b, c, e
<1>6. Cardinality({a, b, c}) = 3
  <2>1. IsFiniteSet({a}) /\ Cardinality({a}) = 1
    BY FS_Singleton
  <2>2. IsFiniteSet({a, b}) /\ Cardinality({a, b}) = 2
    <3>1. {a, b} = {a} \cup {b} /\ b \notin {a}
      BY <1>2, <1>3
    <3> QED
      BY <3>1, <2>1, FS_AddElement
  <2>3. {a, b, c} = {a, b} \cup {c} /\ c \notin {a, b}
    BY <1>2, <1>3
  <2> QED
    BY <2>2, <2>3, FS_AddElement
<1> QED
  BY <1>2, <1>4, <1>5, <1>6

-----------------------------------------------------------------------------
(* The plan                                                                *)

\* What TypeOK gives a step: a card, and dates once there is a plan.
LEMMA Typed ==
  ASSUME TypeOK
  PROVE  /\ CardDays
         /\ start # None => /\ start \in Dates /\ start \in Int
                            /\ date \in [Parts -> Dates]
                            /\ dueDate \in [Parts -> Dates]
                            /\ bill \in [Parts -> Dates]
                            /\ \A n \in Parts : /\ date[n] \in Int
                                                /\ dueDate[n] \in Int
                                                /\ bill[n] \in Int
BY CardCycleAssumption DEF TypeOK, CardDays, Dates

\* The bill a request resolves to is a date.
LEMMA TargetIsDate ==
  ASSUME CardDays, NEW d \in Int, NEW requested,
         requested \in BillOptions(d) \cup {None} \/ requested \in Dates
  PROVE  Target(d, requested) \in Dates /\ Target(d, requested) \in Int
<1>1. CyclePeriodEnd(d) \in Dates
  BY CycleEnd
<1>2. \A end \in BillOptions(d) : end \in Dates
  BY EveryOptionAccepted
<1>3. Target(d, requested) \in Dates
  BY <1>1, <1>2 DEF Target
<1> QED
  BY <1>3 DEF Dates

\* What creating a plan stores.
LEMMA Created ==
  ASSUME TypeOK, NEW d \in Starts, NEW requested \in BillOptions(d) \cup {None},
         Create(d, requested)
  PROVE  /\ start' \in Dates /\ IsClosingDate(start')
         /\ date' \in [Parts -> Dates] /\ dueDate' \in [Parts -> Dates]
         /\ bill' \in [Parts -> Dates]
         /\ \A n \in Parts : bill'[n] = ShiftPeriodEnd(start', n - 1)
         /\ \A n \in Parts : MonthsBetween(dueDate'[n], bill'[n]) \in {0, 1}
<1> DEFINE first == Target(d, requested)
           shift == MonthsBetween(CyclePeriodEnd(d), first)
<1>1. CardDays /\ d \in Dates /\ d \in Int
  BY Typed, CardCycleAssumption DEF Dates
<1>2. first \in Dates /\ first \in Int
  BY <1>1, TargetIsDate
<1>3. CyclePeriodEnd(d) \in Int /\ MonthsBetween(d, CyclePeriodEnd(d)) \in {0, 1}
  BY <1>1, CycleEnd DEF Dates
<1>4. Month(d) \in Int /\ Month(first) \in Int /\ Month(CyclePeriodEnd(d)) \in Int
  BY <1>1, <1>2, <1>3, PartsOf
<1>5. shift \in Int
  BY <1>4 DEF MonthsBetween
<1>6. /\ start' = first
      /\ dueDate' = Schedule(d, shift)
      /\ date' = [Schedule(d, shift) EXCEPT ![1] = d]
      /\ bill' = Bills(first)
      /\ IsClosingDate(first)
  BY DEF Create, Accepted
<1> HIDE DEF first, shift
<1>7. \A n \in Parts : n - 1 \in Int /\ n - 1 + shift \in Int
  BY <1>5 DEF Parts
<1>8. \A n \in Parts : /\ AddMonths(d, n - 1 + shift) \in Dates
                       /\ Month(AddMonths(d, n - 1 + shift)) = Month(d) + (n - 1 + shift)
  BY <1>1, <1>7, AddedMonths
<1>9. \A n \in Parts : /\ ShiftPeriodEnd(first, n - 1) \in Dates
                       /\ Month(ShiftPeriodEnd(first, n - 1)) = Month(first) + (n - 1)
  BY <1>1, <1>2, <1>7, ShiftedEnd
<1>10. dueDate' \in [Parts -> Dates] /\ date' \in [Parts -> Dates]
  BY <1>1, <1>6, <1>8 DEF Schedule
<1>11. ShiftPeriodEnd(first, 0) = first
  BY <1>4, <1>6 DEF ShiftPeriodEnd, IsClosingDate
<1>12. \A n \in Parts : bill'[n] = ShiftPeriodEnd(first, n - 1)
  BY <1>6, <1>11 DEF Bills
<1>13. bill' \in [Parts -> Dates]
  BY <1>2, <1>6, <1>9 DEF Bills
<1>14. ASSUME NEW n \in Parts
       PROVE  MonthsBetween(dueDate'[n], bill'[n]) \in {0, 1}
  <2>1. Month(dueDate'[n]) = Month(d) + (n - 1 + shift)
    BY <1>6, <1>8 DEF Schedule
  <2>2. Month(bill'[n]) = Month(first) + (n - 1)
    BY <1>9, <1>12
  <2>3. shift = Month(first) - Month(CyclePeriodEnd(d))
    BY DEF shift, MonthsBetween
  <2>4. Month(CyclePeriodEnd(d)) - Month(d) \in {0, 1}
    BY <1>3 DEF MonthsBetween
  <2>5. n \in Int
    BY DEF Parts
  <2> QED
    BY <2>1, <2>2, <2>3, <2>4, <2>5, <1>4 DEF MonthsBetween
<1> QED
  BY <1>2, <1>6, <1>10, <1>12, <1>13, <1>14

\* What an edit stores: a plan that stays, or one moved as a whole.
LEMMA Edited ==
  ASSUME TypeOK, start # None,
         NEW n \in Parts, NEW d \in Int, NEW requested,
         requested \in BillOptions(d) \cup {None} \/ requested \in Dates,
         Edit(n, d, requested)
  PROVE  \E end \in Dates :
           /\ IsClosingDate(end)
           /\ NotPaid(end, start)
           /\ \/ end = start /\ bill' = [bill EXCEPT ![n] = end]
                 /\ start' = start /\ dueDate' = dueDate
              \/ end # start /\ start' = end
                 /\ Movable([bill EXCEPT ![n] = end], end)
                 /\ bill' = [m \in Parts |-> ShiftPeriodEnd(end, m - 1)]
                 /\ dueDate' = MovedDue(MonthsBetween(start, end))
<1> DEFINE end == Target(d, requested)
<1>1. end \in Dates
  BY Typed, TargetIsDate
<1>2. IsClosingDate(end) /\ NotPaid(end, start)
  BY DEF Edit, Accepted
<1>3. \/ end = start /\ bill' = [bill EXCEPT ![n] = end]
         /\ start' = start /\ dueDate' = dueDate
      \/ end # start /\ start' = end
         /\ Movable([bill EXCEPT ![n] = end], end)
         /\ bill' = [m \in Parts |-> ShiftPeriodEnd(end, m - 1)]
         /\ dueDate' = MovedDue(MonthsBetween(start, end))
  BY DEF Edit, Move
<1> HIDE DEF end
<1> QED
  BY <1>1, <1>2, <1>3

\* A moved plan has dates for bills and due dates.
LEMMA MovedTypes ==
  ASSUME TypeOK, start # None, NEW end \in Dates
  PROVE  /\ MonthsBetween(start, end) \in Int
         /\ \A n \in Parts :
              /\ ShiftPeriodEnd(end, n - 1) \in Dates
              /\ Month(ShiftPeriodEnd(end, n - 1)) = Month(end) + (n - 1)
              /\ MovedDue(MonthsBetween(start, end))[n] \in Dates
              /\ Month(MovedDue(MonthsBetween(start, end))[n])
                   = Month(dueDate[n]) + MonthsBetween(start, end)
         /\ MovedDue(MonthsBetween(start, end)) \in [Parts -> Dates]
<1> DEFINE k == MonthsBetween(start, end)
<1>1. CardDays /\ start \in Int /\ end \in Int /\ \A n \in Parts : dueDate[n] \in Int
  BY Typed DEF Dates
<1>2. k \in Int
  BY <1>1, PartsOf DEF MonthsBetween
<1> HIDE DEF k
<1>3. \A n \in Parts : n - 1 \in Int
  BY DEF Parts
<1>4. \A n \in Parts : /\ ShiftPeriodEnd(end, n - 1) \in Dates
                       /\ Month(ShiftPeriodEnd(end, n - 1)) = Month(end) + (n - 1)
  BY <1>1, <1>3, ShiftedEnd
<1>5. \A n \in Parts : /\ AddMonths(dueDate[n], k) \in Dates
                       /\ Month(AddMonths(dueDate[n], k)) = Month(dueDate[n]) + k
  BY <1>1, <1>2, AddedMonths
<1>6. \A n \in Parts : MovedDue(k)[n] = AddMonths(dueDate[n], k)
  BY DEF MovedDue
<1>7. MovedDue(k) \in [Parts -> Dates]
  BY <1>5 DEF MovedDue
<1> QED
  BY <1>2, <1>4, <1>5, <1>6, <1>7 DEF k

\* The requests of Next, one by one; an edit is of an installment that may be
\* edited, to a date, for an offered bill, the one it has, or none.
LEMMA Requests ==
  ASSUME TypeOK, Next
  PROVE  \/ \E d \in Starts : \E requested \in BillOptions(d) \cup {None} : Create(d, requested)
         \/ start # None /\ \E n \in EditedParts, d \in Int : \E requested :
              /\ n \in Parts /\ d \in Dates
              /\ requested \in BillOptions(d) \cup {None} \/ requested \in Dates
              /\ Edit(n, d, requested)
         \/ \E n \in Parts : SettlePart(n)
         \/ \E n \in Parts : PayBill(n)
<1>1. CASE \E d \in Starts : \E requested \in BillOptions(d) \cup {None} : Create(d, requested)
  BY <1>1
<1>2. CASE \E n \in Parts : SettlePart(n) \/ PayBill(n)
  BY <1>2
<1>3. ASSUME NEW n \in EditedParts, NEW months \in Redates, start # None,
             \E requested \in BillOptions(AddMonths(date[n], months)) \cup {None, bill[n]} :
               Edit(n, AddMonths(date[n], months), requested)
      PROVE  \E d \in Int : \E requested :
               /\ n \in Parts /\ d \in Dates
               /\ requested \in BillOptions(d) \cup {None} \/ requested \in Dates
               /\ Edit(n, d, requested)
  <2>1. n \in Parts /\ months \in Int
    BY CardCycleAssumption
  <2>2. date[n] \in Int /\ bill[n] \in Dates
    BY <1>3, <2>1, Typed
  <2>3. AddMonths(date[n], months) \in Dates /\ AddMonths(date[n], months) \in Int
    BY <2>1, <2>2, AddedMonths DEF Dates
  <2>4. PICK requested \in BillOptions(AddMonths(date[n], months)) \cup {None, bill[n]} :
               Edit(n, AddMonths(date[n], months), requested)
    BY <1>3
  <2>5. \/ requested \in BillOptions(AddMonths(date[n], months)) \cup {None}
        \/ requested \in Dates
    BY <2>2, <2>4
  <2> QED
    BY <2>1, <2>3, <2>4, <2>5
<1> QED
  BY <1>1, <1>2, <1>3 DEF Next

-----------------------------------------------------------------------------
(* Theorems                                                                *)

LEMMA TypeInit == Init => TypeOK
BY CardCycleAssumption DEF Init, TypeOK

LEMMA TypeStep ==
  ASSUME TypeOK, [Next]_vars
  PROVE  TypeOK'
<1>1. CASE UNCHANGED vars
  BY <1>1 DEF TypeOK, vars
<1>2. ASSUME NEW d \in Starts, NEW requested \in BillOptions(d) \cup {None},
             Create(d, requested)
      PROVE  TypeOK'
  <2>1. /\ start' \in Dates
        /\ date' \in [Parts -> Dates] /\ dueDate' \in [Parts -> Dates]
        /\ bill' \in [Parts -> Dates]
    BY <1>2, Created
  <2>2. UNCHANGED <<closing, due, settled, paid>>
    BY <1>2 DEF Create
  <2> QED
    BY <2>1, <2>2, CardCycleAssumption DEF TypeOK, Dates
<1>3. ASSUME start # None, NEW n \in Parts, NEW d \in Dates, NEW requested,
             requested \in BillOptions(d) \cup {None} \/ requested \in Dates,
             Edit(n, d, requested)
      PROVE  TypeOK'
  <2>1. d \in Int
    BY DEF Dates
  <2>2. PICK end \in Dates :
           \/ end = start /\ bill' = [bill EXCEPT ![n] = end]
                 /\ start' = start /\ dueDate' = dueDate
           \/ end # start /\ start' = end
                 /\ bill' = [m \in Parts |-> ShiftPeriodEnd(end, m - 1)]
                 /\ dueDate' = MovedDue(MonthsBetween(start, end))
    BY <1>3, <2>1, Edited
  <2>3. /\ date \in [Parts -> Dates] /\ dueDate \in [Parts -> Dates]
        /\ bill \in [Parts -> Dates]
    BY <1>3, Typed
  <2>4. /\ \A m \in Parts : ShiftPeriodEnd(end, m - 1) \in Dates
        /\ MovedDue(MonthsBetween(start, end)) \in [Parts -> Dates]
    BY <1>3, MovedTypes
  <2>5. start' \in Dates /\ bill' \in [Parts -> Dates] /\ dueDate' \in [Parts -> Dates]
    BY <2>2, <2>3, <2>4
  <2>6. date' \in [Parts -> Dates] /\ UNCHANGED <<closing, due, settled, paid>>
    BY <1>3, <2>3 DEF Edit
  <2> QED
    BY <2>5, <2>6, CardCycleAssumption DEF TypeOK, Dates
<1>4. ASSUME NEW n \in Parts, SettlePart(n)
      PROVE  TypeOK'
  BY <1>4 DEF SettlePart, TypeOK
<1>5. ASSUME NEW n \in Parts, PayBill(n)
      PROVE  TypeOK'
  <2>1. start # None
    BY <1>5 DEF PayBill
  <2>2. bill[n] \in Dates
    BY <2>1, Typed
  <2> QED
    BY <1>5, <2>2 DEF PayBill, TypeOK
<1> QED
  BY <1>1, <1>2, <1>3, <1>4, <1>5, Requests

\* Whatever is created, edited, settled and paid, every stored date is a date of
\* the calendar, clamped to its month.
THEOREM TypeCorrect == Spec => []TypeOK
<1>1. TypeOK /\ [Next]_vars => TypeOK'
  BY TypeStep
<1> QED
  BY TypeInit, <1>1, PTL DEF Spec

\* Every installment's date and due date fall in one cycle, and the bill of that
\* cycle is due at or after its closing and within a month of it.
THEOREM CyclesTileTheMonths == Spec => []CyclesTile
<1>1. TypeOK => CyclesTile
  BY Typed, EveryDateInOneCycle DEF CyclesTile
<1> QED
  BY TypeCorrect, <1>1, PTL

\* The server takes every bill the form offers, for every card and date.
THEOREM ServerTakesOptions == Spec => []OptionsAccepted
<1>1. TypeOK => OptionsAccepted
  <2> SUFFICES ASSUME TypeOK, start # None
               PROVE  /\ \A end \in BillOptions(date[1]) :
                           IsClosingDate(end) /\ InWindow(date[1], end)
                      /\ Cardinality(BillOptions(date[1])) = 3
    BY DEF OptionsAccepted
  <2>1. 1 \in Parts
    BY CardCycleAssumption DEF Parts
  <2>2. CardDays /\ date[1] \in Int
    BY <2>1, Typed
  <2> QED
    BY <2>2, EveryOptionAccepted
<1> QED
  BY TypeCorrect, <1>1, PTL

\* One bill for each installment, and its due date beside it: an invariant while
\* only the first installment is edited.
AnchorCloses == start # None => IsClosingDate(start)
PlanInv == TypeOK /\ AnchorCloses /\ OneBillEach /\ DueWithBill

LEMMA PlanStep ==
  ASSUME EditedParts \subseteq {1}, PlanInv, [Next]_vars
  PROVE  AnchorCloses' /\ OneBillEach' /\ DueWithBill'
<1> USE DEF PlanInv
<1>1. CASE UNCHANGED vars
  BY <1>1 DEF AnchorCloses, OneBillEach, DueWithBill, vars, ShiftPeriodEnd, IsClosingDate
<1>2. ASSUME NEW d \in Starts, NEW requested \in BillOptions(d) \cup {None},
             Create(d, requested)
      PROVE  AnchorCloses' /\ OneBillEach' /\ DueWithBill'
  <2>1. /\ IsClosingDate(start')
        /\ \A n \in Parts : bill'[n] = ShiftPeriodEnd(start', n - 1)
        /\ \A n \in Parts : MonthsBetween(dueDate'[n], bill'[n]) \in {0, 1}
    BY <1>2, Created
  <2>2. closing' = closing
    BY <1>2 DEF Create
  <2> QED
    BY <2>1, <2>2 DEF AnchorCloses, OneBillEach, DueWithBill, ShiftPeriodEnd, IsClosingDate
<1>3. ASSUME start # None, NEW n \in EditedParts, n \in Parts, NEW d \in Int, NEW requested,
             requested \in BillOptions(d) \cup {None} \/ requested \in Dates,
             Edit(n, d, requested)
      PROVE  AnchorCloses' /\ OneBillEach' /\ DueWithBill'
  <2>1. n = 1 /\ closing' = closing
    BY <1>3 DEF Edit
  <2>2. PICK end \in Dates :
           /\ IsClosingDate(end)
           /\ \/ end = start /\ bill' = [bill EXCEPT ![n] = end]
                    /\ start' = start /\ dueDate' = dueDate
              \/ end # start /\ start' = end
                    /\ bill' = [m \in Parts |-> ShiftPeriodEnd(end, m - 1)]
                    /\ dueDate' = MovedDue(MonthsBetween(start, end))
    BY <1>3, Edited
  <2>3. CASE end = start /\ bill' = [bill EXCEPT ![n] = end]
             /\ start' = start /\ dueDate' = dueDate
    <3>1. start \in Int /\ Month(start) \in Int /\ bill \in [Parts -> Dates]
      BY <1>3, Typed, PartsOf
    <3>2. bill[1] = start
      BY <1>3, <2>1, <2>2, <2>3, <3>1 DEF OneBillEach, ShiftPeriodEnd, IsClosingDate
    <3>3. bill' = bill
      BY <2>1, <2>3, <3>1, <3>2
    <3> QED
      BY <2>1, <2>2, <2>3, <3>3
         DEF AnchorCloses, OneBillEach, DueWithBill, ShiftPeriodEnd, IsClosingDate
  <2>4. CASE /\ start' = end
             /\ bill' = [m \in Parts |-> ShiftPeriodEnd(end, m - 1)]
             /\ dueDate' = MovedDue(MonthsBetween(start, end))
    <3>1. AnchorCloses' /\ OneBillEach'
      BY <2>1, <2>2, <2>4 DEF AnchorCloses, OneBillEach, ShiftPeriodEnd, IsClosingDate
    <3>2. ASSUME NEW m \in Parts
          PROVE  MonthsBetween(dueDate'[m], bill'[m]) \in {0, 1}
      <4>1. /\ Month(bill'[m]) = Month(end) + (m - 1)
            /\ Month(dueDate'[m]) = Month(dueDate[m]) + MonthsBetween(start, end)
        BY <1>3, <2>4, MovedTypes
      <4>2. MonthsBetween(dueDate[m], bill[m]) \in {0, 1}
        BY <1>3 DEF DueWithBill
      <4>3. Month(bill[m]) = Month(start) + (m - 1)
        <5>1. CardDays /\ start \in Int /\ m - 1 \in Int
          BY <1>3, Typed DEF Parts
        <5>2. bill[m] = ShiftPeriodEnd(start, m - 1)
          BY <1>3 DEF OneBillEach
        <5> QED
          BY <5>1, <5>2, ShiftedEnd
      <4>4. /\ Month(end) \in Int /\ Month(start) \in Int /\ Month(dueDate[m]) \in Int
            /\ m \in Int
        BY <1>3, Typed, PartsOf DEF Dates, Parts
      <4> QED
        BY <4>1, <4>2, <4>3, <4>4 DEF MonthsBetween
    <3> QED
      BY <3>1, <3>2 DEF DueWithBill
  <2> QED
    BY <2>2, <2>3, <2>4
<1>4. ASSUME NEW n \in Parts, SettlePart(n) \/ PayBill(n)
      PROVE  AnchorCloses' /\ OneBillEach' /\ DueWithBill'
  BY <1>4 DEF SettlePart, PayBill, AnchorCloses, OneBillEach, DueWithBill, ShiftPeriodEnd,
              IsClosingDate
<1> QED
  BY <1>1, <1>2, <1>3, <1>4, Requests

LEMMA PlanAlways ==
  ASSUME EditedParts \subseteq {1}
  PROVE  Spec => []PlanInv
<1>1. Init => PlanInv
  BY TypeInit DEF Init, PlanInv, AnchorCloses, OneBillEach, DueWithBill
<1>2. PlanInv /\ [Next]_vars => PlanInv'
  BY PlanStep, TypeStep DEF PlanInv
<1> QED
  BY <1>1, <1>2, PTL DEF Spec

\* A plan moved through its first installment any number of times charges one
\* installment to each consecutive bill from its anchor on.
THEOREM OneInstallmentPerBill ==
  ASSUME EditedParts \subseteq {1}
  PROVE  Spec => []OneBillEach
<1>1. PlanInv => OneBillEach
  BY DEF PlanInv
<1> QED
  BY PlanAlways, <1>1, PTL

\* Due dates follow the bills: clamping the day again at each move never lets an
\* installment slip to another month.
THEOREM DueDatesFollowBills ==
  ASSUME EditedParts \subseteq {1}
  PROVE  Spec => []DueWithBill
<1>1. PlanInv => DueWithBill
  BY DEF PlanInv
<1> QED
  BY PlanAlways, <1>1, PTL

\* No move takes a charge off a paid bill or puts one on it, nor touches a plan
\* with a settled installment.
THEOREM PaidBillsAreFrozen ==
  ASSUME EditedParts \subseteq {1}
  PROVE  Spec => PaidIsFrozen
<1>1. ASSUME PlanInv, [Next]_vars, NEW m \in Parts, start # None, bill'[m] # bill[m]
      PROVE  bill[m] \notin paid /\ bill'[m] \notin paid /\ settled = {}
  <2>1. ~ UNCHANGED vars
    BY <1>1 DEF vars
  <2>2. ~ \E n \in Parts : SettlePart(n) \/ PayBill(n)
    BY <1>1 DEF SettlePart, PayBill
  <2>3. ~ \E d \in Starts : \E requested \in BillOptions(d) \cup {None} : Create(d, requested)
    BY <1>1 DEF Create
  <2>4. PICK n \in EditedParts, d \in Int :
          \E requested :
              /\ n \in Parts /\ d \in Dates
              /\ requested \in BillOptions(d) \cup {None} \/ requested \in Dates
              /\ Edit(n, d, requested)
    BY <1>1, <2>1, <2>2, <2>3, Requests DEF PlanInv
  <2>5. n = 1 /\ n \in Parts
    BY <2>4
  <2>6. PICK end \in Dates :
           /\ IsClosingDate(end)
           /\ NotPaid(end, start)
           /\ \/ end = start /\ bill' = [bill EXCEPT ![n] = end]
              \/ end # start
                 /\ Movable([bill EXCEPT ![n] = end], end)
                 /\ bill' = [k \in Parts |-> ShiftPeriodEnd(end, k - 1)]
    BY <1>1, <2>4, Edited DEF PlanInv
  <2>7. bill \in [Parts -> Dates] /\ start \in Int /\ Month(start) \in Int
    BY <1>1, Typed, PartsOf DEF PlanInv
  <2>8. bill[1] = start
    BY <1>1, <2>5, <2>7
       DEF PlanInv, AnchorCloses, OneBillEach, ShiftPeriodEnd, IsClosingDate
  <2>9. end # start
    <3>1. SUFFICES ASSUME end = start, bill' = [bill EXCEPT ![n] = end]
                   PROVE  FALSE
      BY <2>6
    <3> QED
      BY <1>1, <2>5, <2>7, <2>8, <3>1
  <2>10. /\ Movable([bill EXCEPT ![n] = end], end)
         /\ bill'[m] = ShiftPeriodEnd(end, m - 1)
    BY <2>6, <2>9
  <2>11. settled = {} /\ bill'[m] \notin paid
    BY <2>10 DEF Movable
  <2>12. CASE m # n
    <3>1. [bill EXCEPT ![n] = end][m] = bill[m]
      BY <2>7, <2>12
    <3> QED
      BY <1>1, <2>10, <2>11, <3>1 DEF Movable
  <2>13. CASE m = n
    <3>1. start \notin paid
      BY <2>6, <2>9 DEF NotPaid
    <3> QED
      BY <2>5, <2>8, <2>11, <2>13, <3>1
  <2> QED
    BY <2>12, <2>13
<1>2. PlanInv /\ [Next]_vars =>
        [\A n \in Parts :
           start # None /\ bill'[n] # bill[n] =>
             bill[n] \notin paid /\ bill'[n] \notin paid /\ settled = {}]_vars
  BY <1>1
<1> QED
  BY PlanAlways, <1>2, PTL DEF Spec, PaidIsFrozen

=============================================================================
