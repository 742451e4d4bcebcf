------------------------------ MODULE CardCycle ------------------------------
(***************************************************************************)
(* The calendar of a credit card and the installment plan charged to it:   *)
(* which cycle a date falls in, which bills the form offers and the server *)
(* accepts, and what moving a purchase to another bill does to its plan    *)
(* (lib/card-cycle.ts, routes/credit_cards.rs, routes/transactions.rs).    *)
(*                                                                         *)
(* A date is the number 31 * month + day - 1, its month counted from year  *)
(* 0: numbers order as dates do, and as the ISO strings the form compares. *)
(* Requests come one at a time here; CardBills interleaves them.           *)
(***************************************************************************)
EXTENDS Integers, FiniteSets

CONSTANTS
  ClosingDays, DueDays,  \* closing_day, due_day of the card
  Starts,        \* dates of the first installment
  Count,         \* installments of the plan
  EditedParts,   \* installments that are edited
  Redates,       \* an edit moves the date by so many months
  MaxEdits,      \* bound: edits
  None

Parts == 1 .. Count
Date(month, day) == 31 * month + day - 1
Month(d) == d \div 31
Day(d) == (d % 31) + 1

\* The Gregorian calendar; month 0 is a January.
IsLeap(month) == LET y == month \div 12 IN (y % 4 = 0 /\ y % 100 # 0) \/ y % 400 = 0
DaysIn(month) ==
  CASE month % 12 = 1 -> IF IsLeap(month) THEN 29 ELSE 28
    [] month % 12 \in {3, 5, 8, 10} -> 30
    [] OTHER -> 31

Dates == {d \in Int : Day(d) <= DaysIn(Month(d))}

ASSUME CardCycleAssumption ==
  /\ ClosingDays \subseteq 1 .. 31 /\ DueDays \subseteq 1 .. 31
  /\ Count \in Nat \ {0}
  /\ EditedParts \subseteq Parts
  /\ Redates \subseteq Int /\ MaxEdits \in Nat
  /\ None \notin Int
  /\ Starts \subseteq Dates

VARIABLES
  closing, due,  \* closing_day and due_day of the card
  start,         \* card_bill_period_end of the plan, None while there is no plan
  date,          \* date of each installment's transaction
  dueDate,       \* due_date of each schedule row
  bill,          \* card_bill_period_end of each transaction
  settled,       \* installments paid on their own
  paid,          \* closing dates of the bills paid
  edits          \* edits made

vars == <<closing, due, start, date, dueDate, bill, settled, paid, edits>>

-----------------------------------------------------------------------------
(* Arithmetic of cycles                                                    *)

\* The clamped day keeps the 31st of a short month a date.
Unclamped(month, day) == Date(month, day)       \* mutant: 31 February
DateWithDay(month, day) ==
  Date(month, IF day <= DaysIn(month) THEN day ELSE DaysIn(month))

\* Closing date of the cycle that contains d: on the closing day, that same day.
CycleEndAfter(d) ==                             \* mutant: the closing day is the next cycle's
  LET candidate == DateWithDay(Month(d), closing)
  IN IF candidate > d THEN candidate ELSE DateWithDay(Month(d) + 1, closing)
CyclePeriodEnd(d) ==
  LET candidate == DateWithDay(Month(d), closing)
  IN IF candidate >= d THEN candidate ELSE DateWithDay(Month(d) + 1, closing)

CycleDueDate(end) ==
  LET candidate == DateWithDay(Month(end), due)
  IN IF candidate >= end THEN candidate ELSE DateWithDay(Month(end) + 1, due)

\* add_months of the ledger: the day of the date itself, clamped.
AddMonths(d, months) == DateWithDay(Month(d) + months, Day(d))
\* A shifted closing date gets the closing day back after a short month.
ShiftedDate(end, months) == AddMonths(end, months)   \* mutant: 28 Feb closes on 28 March
ShiftPeriodEnd(end, months) == DateWithDay(Month(end) + months, closing)

MonthsBetween(from, to) == Month(to) - Month(from)

\* The form offers the derived cycle and its neighbours.
BillOptions(d) == {ShiftPeriodEnd(CyclePeriodEnd(d), offset) : offset \in {-1, 0, 1}}

\* The server's cycle_for_date starts the day after the previous closing.
PreviousClose(end) == ShiftPeriodEnd(end, -1)

IsClosingDate(end) == DateWithDay(Month(end), closing) = end
InWindow(d, end) ==
  LET derived == CyclePeriodEnd(d)
  IN ShiftPeriodEnd(derived, -1) <= end /\ end <= ShiftPeriodEnd(derived, 1)

\* resolve_bill_period_end: the requested cycle, or the derived one.
Target(d, requested) == IF requested # None THEN requested ELSE CyclePeriodEnd(d)
NotPaid(end, current) ==
  end # current => end \notin paid /\ current \notin paid
Accepted(d, end, current) ==
  IsClosingDate(end) /\ InWindow(d, end) /\ NotPaid(end, current)

\* Reporting date of a card purchase under the due_date preference.
Effective(n) == CycleDueDate(bill[n])
\* The bounds on t.date of a report of one month.
Scanned(d, month) == AddMonths(Date(month, 1), -3) <= d /\ d < Date(month + 1, 1)

-----------------------------------------------------------------------------
(* Requests                                                                *)

Init ==
  /\ closing \in ClosingDays /\ due \in DueDays
  /\ start = None
  /\ date = [n \in Parts |-> None]
  /\ dueDate = [n \in Parts |-> None]
  /\ bill = [n \in Parts |-> None]
  /\ settled = {} /\ paid = {}
  /\ edits = 0

\* create_transaction with installments: a pinned first bill shifts the expense
\* months and the bills of the rest; the first keeps its date.
FirstDueUnshifted(d, shift) ==                  \* mutant: the first due date is the date
  [n \in Parts |-> IF n = 1 THEN d ELSE AddMonths(d, n - 1 + shift)]
Schedule(d, shift) == [n \in Parts |-> AddMonths(d, n - 1 + shift)]
Bills(first) == [n \in Parts |-> IF n = 1 THEN first ELSE ShiftPeriodEnd(first, n - 1)]

Create(d, requested) ==
  /\ start = None
  /\ LET first == Target(d, requested)
         schedule == Schedule(d, MonthsBetween(CyclePeriodEnd(d), first))
     IN /\ Accepted(d, first, None)
        /\ start' = first
        /\ dueDate' = schedule
        /\ date' = [schedule EXCEPT ![1] = d]
        /\ bill' = Bills(first)
  /\ UNCHANGED <<closing, due, settled, paid, edits>>

\* shift_plan_bills, after the edited row has its new bill already: refused when
\* an installment is settled or a bill involved is paid.
MovableUnsettled(row, end) == settled = {}      \* mutant: no bill of the plan is looked up
Movable(row, end) ==
  /\ settled = {}
  /\ \A n \in Parts :
       LET new == ShiftPeriodEnd(end, n - 1)
       IN (row[n] # new => row[n] \notin paid) /\ new \notin paid

MovedDue(months) == [n \in Parts |-> AddMonths(dueDate[n], months)]

\* Every row is re-stamped and the plan anchored on its new first bill.
MoveForgetsPlan(end) ==                         \* mutant: the plan row keeps its anchor
  /\ start' = start
  /\ bill' = [n \in Parts |-> ShiftPeriodEnd(end, n - 1)]
  /\ dueDate' = MovedDue(MonthsBetween(start, end))
Move(end) ==
  /\ start' = end
  /\ bill' = [n \in Parts |-> ShiftPeriodEnd(end, n - 1)]
  /\ dueDate' = MovedDue(MonthsBetween(start, end))

\* update_transaction: the anchor of the plan stands for the current bill of any
\* of its installments; only the first may ask for another one.
Edit(n, d, requested) ==
  /\ start # None
  /\ edits < MaxEdits
  /\ n = 1 \/ requested \in {None, bill[n]}
  /\ LET end == Target(d, requested)
         row == [bill EXCEPT ![n] = end]
     IN /\ Accepted(d, end, start)
        /\ \/ /\ end = start
              /\ bill' = row
              /\ UNCHANGED <<start, dueDate>>
           \/ /\ end # start
              /\ Movable(row, end)
              /\ Move(end)
  /\ date' = [date EXCEPT ![n] = d]
  /\ edits' = edits + 1
  /\ UNCHANGED <<closing, due, settled, paid>>

\* pay_installment of an installment that has its transaction.
SettlePart(n) ==
  /\ start # None
  /\ settled' = settled \cup {n}
  /\ UNCHANGED <<closing, due, start, date, dueDate, bill, paid, edits>>

\* pay_card_bill, in full.
PayBill(n) ==
  /\ start # None
  /\ paid' = paid \cup {bill[n]}
  /\ UNCHANGED <<closing, due, start, date, dueDate, bill, settled, edits>>

Next ==
  \/ \E d \in Starts : \E requested \in BillOptions(d) \cup {None} : Create(d, requested)
  \/ \E n \in EditedParts, months \in Redates :
       /\ start # None
       /\ LET d == AddMonths(date[n], months)
          IN \E requested \in BillOptions(d) \cup {None, bill[n]} : Edit(n, d, requested)
  \/ \E n \in Parts : SettlePart(n) \/ PayBill(n)

Spec == Init /\ [][Next]_vars

-----------------------------------------------------------------------------
(* Properties                                                              *)

\* Whatever months a plan is moved across, what is stored as a date is one: no
\* installment is dated or due, and no bill closes, on a day its month lacks.
TypeOK ==
  /\ closing \in ClosingDays /\ due \in DueDays
  /\ start \in Dates \cup {None}
  /\ date \in [Parts -> Dates \cup {None}]
  /\ dueDate \in [Parts -> Dates \cup {None}]
  /\ bill \in [Parts -> Dates \cup {None}]
  /\ start # None => \A n \in Parts : date[n] # None /\ dueDate[n] # None /\ bill[n] # None
  /\ settled \subseteq Parts
  /\ paid \subseteq Dates

\* A date falls in one cycle: not after it closes, after the one before closed,
\* and the bill is due on or after it closes, before the next one closes twice.
InOneCycle(d) ==
  LET end == CyclePeriodEnd(d)
  IN /\ PreviousClose(end) < d /\ d <= end
     /\ IsClosingDate(end)
     /\ end <= CycleDueDate(end) /\ CycleDueDate(end) <= AddMonths(end, 1)
CyclesTile == start # None => \A n \in Parts : InOneCycle(date[n]) /\ InOneCycle(dueDate[n])

\* The bills the form offers for a date are different, and each is one the checks
\* of the server let through: a closing date within the window of the purchase.
OptionsAccepted ==
  start # None =>
    /\ \A end \in BillOptions(date[1]) : IsClosingDate(end) /\ InWindow(date[1], end)
    /\ Cardinality(BillOptions(date[1])) = 3

\* After any moves of the first installment, the plan charges one installment to
\* each of the consecutive bills from its anchor on.
OneBillEach == start # None => \A n \in Parts : bill[n] = ShiftPeriodEnd(start, n - 1)

\* After any moves, an installment is due in the month its bill closes or in the
\* month before, though each move clamps the day again.
DueWithBill ==
  start # None => \A n \in Parts : MonthsBetween(dueDate[n], bill[n]) \in {0, 1}

\* A charge on a paid bill, or one settled, stays on its bill, and no charge moves
\* to a paid bill ("the bill this transaction belongs to ... is already paid").
PaidIsFrozen ==
  [][\A n \in Parts :
       start # None /\ bill'[n] # bill[n] =>
         bill[n] \notin paid /\ bill'[n] \notin paid /\ settled = {}]_vars

\* Saving an installment as it is leaves the plan where it is: "A plan keeps its
\* anchor unless the caller proves a plan move" (transactions.rs:1136).
ResentPlanStays ==
  [][\A n \in Parts : Edit(n, date[n], bill[n]) => UNCHANGED <<start, bill, dueDate>>]_vars

\* The bounds of a report of the month a charge is reported in keep the charge:
\* they "keep the scan narrow without changing the result" (reports.rs:305).
ScanIsExact ==
  start # None => \A n \in Parts : Scanned(date[n], Month(Effective(n)))

=============================================================================
