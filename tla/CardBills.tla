------------------------------ MODULE CardBills ------------------------------
(***************************************************************************)
(* The bills of one credit card and one installment plan charged to it:    *)
(* purchases, split transactions, scheduled plans, generation, payment and *)
(* anticipation of installments, bill payments and deletions               *)
(* (routes/credit_cards.rs, installments.rs, transactions.rs).             *)
(*                                                                         *)
(* A handler reads from the pool, decides, and then writes in one database *)
(* transaction.  Its action is split there: "c" has read, and what it read *)
(* waits in req[c] while other requests commit.  Dates are months, and a   *)
(* month names the billing cycle that closes in it; amounts are cents.     *)
(***************************************************************************)
EXTENDS Integers, FiniteSets, FiniteSetsExt

CONSTANTS
  Clients,    \* requests in progress at once
  Ops,        \* requests made in this instance
  Prices,     \* amounts of purchases
  Payments,   \* amounts of bill payments
  Discounts,  \* discount_amount of an anticipation
  Total,      \* total amount of the plan
  Count,      \* its installments
  MaxMonth,   \* bound: the last month
  MaxTx,      \* bound: transactions ever created
  MaxRequests,\* bound: requests ever made
  None

Parts == 1 .. Count
Months == 0 .. (MaxMonth + Count + 1)
TxIds == 1 .. MaxTx

Transaction == [amount : Nat, month : Months, pin : Months \cup {None},
                part : Parts \cup {None}]
Row == [due : Months, tx : TxIds \cup {None}, status : {"pending", "generated", "paid"},
        anticipated : Months \cup {None}]
Plan == [amount : Int, start : Int]
Bill == [paid : Nat, status : {"open", "paid"}]

ASSUME CardBillsAssumption ==
  /\ Prices \subseteq Nat \ {0} /\ Payments \subseteq Nat \ {0}
  /\ Discounts \subseteq Nat
  /\ Total \in Nat \ {0} /\ Count \in Nat \ {0, 1} /\ 2 * Total >= Count
  /\ MaxMonth \in Nat /\ MaxTx \in Nat /\ MaxRequests \in Nat
  /\ None \notin Int \cup Transaction \cup Plan \cup Bill \cup Row

VARIABLES
  today,       \* the current month
  txs,         \* transactions: id -> Transaction or None
  nextTx,      \* next fresh id
  plan,        \* installment_plans row, or None
  rows,        \* installment_transactions: number -> Row or None
  bills,       \* card_bills: month -> Bill or None
  posted,      \* payments posted to the ledger, per bill
  req,         \* requests in progress
  made,        \* requests made so far
  \* History, read by the properties only
  overlapped,  \* installments two requests had in hand at once
  disturbed    \* bills paid by two requests at once, or whose total went down

vars == <<today, txs, nextTx, plan, rows, bills, posted, req, made, overlapped, disturbed>>

Idle == [pc |-> "idle"]
OpenBill == [paid |-> 0, status |-> "open"]

Init ==
  /\ today = 1
  /\ txs = [t \in TxIds |-> None]
  /\ nextTx = 1
  /\ plan = None
  /\ rows = [n \in Parts |-> None]
  /\ bills = [p \in Months |-> None]
  /\ posted = [p \in Months |-> 0]
  /\ req = [c \in Clients |-> Idle]
  /\ made = 0
  /\ overlapped = {}
  /\ disturbed = {}

-----------------------------------------------------------------------------
(* What the handlers compute                                               *)

\* Decimal::round_dp rounds half to even, a NUMERIC column half away from zero.
RoundEven(a, b) ==
  LET q == a \div b
      r == 2 * (a % b)
  IN IF r > b \/ (r = b /\ q % 2 = 1) THEN q + 1 ELSE q
RoundNumeric(a, b) == (2 * a + b) \div (2 * b)

\* installment_split: the last installment absorbs the rounding remainder.
PerPart == RoundEven(Total, Count)
LastPart == Total - PerPart * (Count - 1)
PartAmount(n) == IF n = Count THEN LastPart ELSE PerPart

\* card_bill_total: a pinned transaction counts in that bill, any other by date.
BillOf(x) == IF x.pin # None THEN x.pin ELSE x.month
OnBill(f, p) == {t \in TxIds : f[t] # None /\ BillOf(f[t]) = p}
TotalOf(f, p) == MapThenSumSet(LAMBDA t : f[t].amount, OnBill(f, p))

IsPaid(p) == bills[p] # None /\ bills[p].status = "paid"
\* resolve_bill_period_end without a current bill: one cycle around the derived.
Offered(p) == p \in (today - 1) .. (today + 1) /\ ~IsPaid(p)

\* upsert_bill_cycle
NotEnsured(S) == bills                          \* mutant: no bill is made
Ensured(S) == [p \in Months |-> IF p \in S /\ bills[p] = None THEN OpenBill ELSE bills[p]]

\* The schedule row of a part: UPDATE ... SET transaction_id, status, if it exists.
Unlinked(n, t, status) ==                       \* mutant: transaction_id is not set
  [rows EXCEPT ![n] = IF @ = None THEN None ELSE [@ EXCEPT !.status = status]]
Linked(n, t, status) ==
  [rows EXCEPT ![n] = IF @ = None THEN None ELSE [@ EXCEPT !.tx = t, !.status = status]]

Charge(amount, month, pin, part) ==
  [amount |-> amount, month |-> month, pin |-> pin, part |-> part]

-----------------------------------------------------------------------------
(* Requests                                                                *)

\* Installments a request has read and is about to write.
Holding(c) ==
  CASE req[c].pc \in {"generate", "create"} -> req[c].left
    [] req[c].pc = "payPart" -> {req[c].n}
    [] req[c].pc = "anticipate" -> DOMAIN req[c].picked
    [] req[c].pc = "delete" -> {n \in Parts : rows[n] # None /\ rows[n].tx = req[c].tx}
    [] OTHER -> {}

Overlaps(c, S) == overlapped \cup {n \in S : \E d \in Clients \ {c} : n \in Holding(d)}

Begin(c, op, r) ==
  /\ op \in Ops
  /\ req[c].pc = "idle"
  /\ made < MaxRequests
  /\ req' = [req EXCEPT ![c] = r]
  /\ made' = made + 1
Proceed(c, r) == req' = [req EXCEPT ![c] = r] /\ UNCHANGED made
Finish(c) == Proceed(c, Idle)

Planning == \E c \in Clients : req[c].pc \in {"split", "schedule"}

\* create_card_purchase, create_transaction
Buy(c, amount, pin) ==
  /\ Begin(c, "buy", [pc |-> "buy", amount |-> amount, month |-> today, pin |-> pin])
  /\ Offered(pin)
  /\ UNCHANGED <<today, txs, nextTx, plan, rows, bills, posted, overlapped, disturbed>>

BuyCommit(c) ==
  /\ req[c].pc = "buy"
  /\ nextTx <= MaxTx
  /\ txs' = [txs EXCEPT ![nextTx] = Charge(req[c].amount, req[c].month, req[c].pin, None)]
  /\ nextTx' = nextTx + 1
  /\ bills' = Ensured({req[c].pin})
  /\ Finish(c)
  /\ UNCHANGED <<today, plan, rows, posted, overlapped, disturbed>>

\* create_transaction with installments: every part is a dated expense at once.
\* (Bound: one plan.)
Split(c, pin) ==
  /\ Begin(c, "split", [pc |-> "split", month |-> today, pin |-> pin])
  /\ plan = None /\ ~Planning
  /\ PerPart > 0 /\ LastPart > 0
  /\ Offered(pin)
  /\ UNCHANGED <<today, txs, nextTx, plan, rows, bills, posted, overlapped, disturbed>>

SplitCommit(c) ==
  /\ req[c].pc = "split"
  /\ nextTx + Count - 1 <= MaxTx
  /\ LET pin == req[c].pin
         part(t) == t - nextTx + 1
         month(n) == IF n = 1 THEN req[c].month ELSE pin + n - 1
     IN /\ txs' = [t \in TxIds |->
                     IF part(t) \in Parts
                       THEN Charge(PartAmount(part(t)), month(part(t)), pin + part(t) - 1,
                                   part(t))
                       ELSE txs[t]]
        /\ rows' = [n \in Parts |-> [due |-> pin + n - 1, tx |-> nextTx + n - 1,
                                     status |-> "generated", anticipated |-> None]]
        /\ bills' = Ensured({pin + n - 1 : n \in Parts})
        /\ plan' = [amount |-> PerPart, start |-> pin]
  /\ nextTx' = nextTx + Count
  /\ Finish(c)
  /\ UNCHANGED <<today, posted, overlapped, disturbed>>

\* POST /api/installments: only the schedule.
Schedule(c, pin) ==
  /\ Begin(c, "schedule", [pc |-> "schedule", month |-> today, pin |-> pin])
  /\ plan = None /\ ~Planning
  /\ Offered(pin)
  /\ UNCHANGED <<today, txs, nextTx, plan, rows, bills, posted, overlapped, disturbed>>

ScheduleCommit(c) ==
  /\ req[c].pc = "schedule"
  /\ plan' = [amount |-> RoundNumeric(Total, Count), start |-> req[c].pin]
  /\ rows' = [n \in Parts |-> [due |-> req[c].pin + n - 1, tx |-> None,
                               status |-> "pending", anticipated |-> None]]
  /\ Finish(c)
  /\ UNCHANGED <<today, txs, nextTx, bills, posted, overlapped, disturbed>>

\* generate_installments: lists what is due, then takes one row after the other.
Pending(n) ==
  rows[n] # None /\ rows[n].status = "pending" /\ rows[n].anticipated = None
    /\ rows[n].due <= today
First(n, S) == \A m \in S : n <= m
After(n, S) == IF S = {n} THEN Idle ELSE [pc |-> "generate", left |-> S \ {n}]

Generate(c) ==
  /\ plan # None
  /\ LET due == {n \in Parts : Pending(n)}
     IN /\ due # {}
        /\ Begin(c, "generate", [pc |-> "generate", left |-> due])
        /\ overlapped' = Overlaps(c, due)
  /\ UNCHANGED <<today, txs, nextTx, plan, rows, bills, posted, disturbed>>

GenerateCheck(c) ==
  /\ req[c].pc = "generate"
  /\ \E n \in req[c].left :
       /\ First(n, req[c].left)
       /\ Proceed(c,
            IF rows[n] = None \/ rows[n].tx = None
              THEN [pc |-> "create", left |-> req[c].left]
              ELSE After(n, req[c].left))
  /\ UNCHANGED <<today, txs, nextTx, plan, rows, bills, posted, overlapped, disturbed>>

GenerateCreate(c) ==
  /\ req[c].pc = "create"
  /\ nextTx <= MaxTx
  /\ \E n \in req[c].left :
       LET due == plan.start + n - 1
       IN /\ First(n, req[c].left)
          /\ txs' = [txs EXCEPT ![nextTx] = Charge(plan.amount, due, due, n)]
          /\ rows' = Linked(n, nextTx, "generated")
          /\ bills' = Ensured({due})
          /\ Proceed(c, After(n, req[c].left))
  /\ nextTx' = nextTx + 1
  /\ UNCHANGED <<today, plan, posted, overlapped, disturbed>>

\* pay_installment: reuses the linked transaction, or creates one.
PayPart(c, n) ==
  /\ rows[n] # None
  /\ rows[n].anticipated = None
  /\ Begin(c, "payPart", [pc |-> "payPart", n |-> n, tx |-> rows[n].tx])
  /\ overlapped' = Overlaps(c, {n})
  /\ UNCHANGED <<today, txs, nextTx, plan, rows, bills, posted, disturbed>>

PayPartCommit(c) ==
  /\ req[c].pc = "payPart"
  /\ LET n == req[c].n
         linked == req[c].tx
     IN IF linked # None /\ txs[linked] # None
          THEN /\ rows' = Linked(n, linked, "paid")
               /\ UNCHANGED <<txs, nextTx>>
          ELSE /\ nextTx <= MaxTx
               /\ txs' = [txs EXCEPT ![nextTx] =
                            Charge(plan.amount, plan.start + n - 1, None, n)]
               /\ rows' = Linked(n, nextTx, "paid")
               /\ nextTx' = nextTx + 1
  /\ Finish(c)
  /\ UNCHANGED <<today, plan, bills, posted, overlapped, disturbed>>

\* anticipate_installments: only future parts that are neither paid nor
\* anticipated; the discount is less than the gross amount.
PartNow(n) == IF rows[n].tx = None THEN plan.amount ELSE txs[rows[n].tx].amount
When(n) == IF rows[n].tx = None THEN rows[n].due ELSE txs[rows[n].tx].month
Anticipable(n) ==
  rows[n] # None /\ rows[n].anticipated = None /\ rows[n].status # "paid" /\ When(n) > today

Anticipate(c, S, discount) ==
  /\ \A n \in S : Anticipable(n)
  /\ LET gross == MapThenSumSet(PartNow, S)
     IN /\ discount < gross
        /\ Begin(c, "anticipate",
             [pc |-> "anticipate", month |-> today, gross |-> gross, net |-> gross - discount,
              picked |-> [n \in S |-> [tx |-> rows[n].tx, amount |-> PartNow(n)]]])
  /\ overlapped' = Overlaps(c, S)
  /\ UNCHANGED <<today, txs, nextTx, plan, rows, bills, posted, disturbed>>

\* The existing transaction is re-dated and re-priced, its pin stays; a part
\* without one gets one.  A part or transaction that is gone, or an amount of
\* zero, fails a constraint and rolls everything back.
Discounted(c, n) == RoundEven(req[c].picked[n].amount * req[c].net, req[c].gross)
Fresh(c) == {n \in DOMAIN req[c].picked : req[c].picked[n].tx = None}
NewTx(c, n) == nextTx + Cardinality({m \in Fresh(c) : m < n})
AnticipatedTx(c, n) == IF n \in Fresh(c) THEN NewTx(c, n) ELSE req[c].picked[n].tx
Applies(c) ==
  \A n \in DOMAIN req[c].picked :
    /\ rows[n] # None
    /\ n \notin Fresh(c) => txs[req[c].picked[n].tx] # None
    /\ Discounted(c, n) > 0

AnticipateCommit(c) ==
  /\ req[c].pc = "anticipate"
  /\ Applies(c)
  /\ nextTx + Cardinality(Fresh(c)) - 1 <= MaxTx
  /\ LET S == DOMAIN req[c].picked
         month == req[c].month
         of(t) == {n \in S : AnticipatedTx(c, n) = t}
     IN /\ txs' = [t \in TxIds |->
             IF of(t) = {} THEN txs[t]
             ELSE LET n == CHOOSE m \in of(t) : TRUE
                  IN IF n \in Fresh(c)
                       THEN Charge(Discounted(c, n), month, None, n)
                       ELSE Charge(Discounted(c, n), month, txs[t].pin, txs[t].part)]
        /\ rows' = [n \in Parts |->
             IF n \in S THEN [rows[n] EXCEPT !.tx = AnticipatedTx(c, n), !.anticipated = month]
                        ELSE rows[n]]
        /\ bills' = Ensured({month})
  /\ nextTx' = nextTx + Cardinality(Fresh(c))
  /\ disturbed' = disturbed \cup {p \in Months : TotalOf(txs', p) < TotalOf(txs, p)}
  /\ Finish(c)
  /\ UNCHANGED <<today, plan, posted, overlapped>>

AnticipateFails(c) ==
  /\ req[c].pc = "anticipate"
  /\ ~Applies(c)
  /\ Finish(c)
  /\ UNCHANGED <<today, txs, nextTx, plan, rows, bills, posted, overlapped, disturbed>>

\* pay_card_bill: the amount is checked against, and added to, what was read.
TotalDue(p) == TotalOf(txs, p)                  \* mutant: earlier payments forgotten
Remaining(p) == TotalOf(txs, p) - bills[p].paid

PayBill(c, p, amount) ==
  /\ bills[p] # None
  /\ amount <= Remaining(p)
  /\ Begin(c, "payBill", [pc |-> "payBill", p |-> p, amount |-> amount,
                          paid |-> bills[p].paid, total |-> TotalOf(txs, p)])
  /\ disturbed' = IF \E d \in Clients : req[d].pc = "payBill" /\ req[d].p = p
                    THEN disturbed \cup {p} ELSE disturbed
  /\ UNCHANGED <<today, txs, nextTx, plan, rows, bills, posted, overlapped>>

InFull(r) == [paid |-> r.total, status |-> "paid"]   \* mutant: any payment settles
Settled(r) ==
  [paid |-> r.paid + r.amount,
   status |-> IF r.paid + r.amount >= r.total THEN "paid" ELSE "open"]

PayBillCommit(c) ==
  /\ req[c].pc = "payBill"
  /\ posted' = [posted EXCEPT ![req[c].p] = @ + req[c].amount]
  /\ bills' = [bills EXCEPT ![req[c].p] = Settled(req[c])]
  /\ Finish(c)
  /\ UNCHANGED <<today, txs, nextTx, plan, rows, overlapped, disturbed>>

\* delete_transaction removes the schedule rows of the transaction with it; the
\* audit item of an anticipated installment refers to its row and blocks that.
Delete(c, t) ==
  /\ txs[t] # None
  /\ Begin(c, "delete", [pc |-> "delete", tx |-> t])
  /\ overlapped' = Overlaps(c, {n \in Parts : rows[n] # None /\ rows[n].tx = t})
  /\ UNCHANGED <<today, txs, nextTx, plan, rows, bills, posted, disturbed>>

RowsKept(t) == rows                             \* mutant: the schedule keeps its rows
RowsWithout(t) ==
  [n \in Parts |-> IF rows[n] # None /\ rows[n].tx = t THEN None ELSE rows[n]]

DeleteCommit(c) ==
  /\ req[c].pc = "delete"
  /\ LET t == req[c].tx
         audited == \E n \in Parts :
           rows[n] # None /\ rows[n].tx = t /\ rows[n].anticipated # None
     IN IF txs[t] = None \/ audited
          THEN UNCHANGED <<txs, rows, disturbed>>
          ELSE /\ txs' = [txs EXCEPT ![t] = None]
               /\ rows' = RowsWithout(t)
               /\ disturbed' = disturbed \cup {BillOf(txs[t])}
  /\ Finish(c)
  /\ UNCHANGED <<today, nextTx, plan, bills, posted, overlapped>>

Tick ==
  /\ today < MaxMonth
  /\ today' = today + 1
  /\ UNCHANGED <<txs, nextTx, plan, rows, bills, posted, req, made, overlapped, disturbed>>

Request(c) ==
  \/ \E p \in Months : Split(c, p) \/ Schedule(c, p)
  \/ \E p \in Months, a \in Prices : Buy(c, a, p)
  \/ \E p \in Months, a \in Payments : PayBill(c, p, a)
  \/ Generate(c)
  \/ \E n \in Parts : PayPart(c, n)
  \/ \E S \in (SUBSET Parts) \ {{}}, d \in Discounts : Anticipate(c, S, d)
  \/ \E t \in TxIds : Delete(c, t)

Commit(c) ==
  \/ BuyCommit(c) \/ SplitCommit(c) \/ ScheduleCommit(c)
  \/ GenerateCheck(c) \/ GenerateCreate(c) \/ PayPartCommit(c)
  \/ AnticipateCommit(c) \/ AnticipateFails(c)
  \/ PayBillCommit(c) \/ DeleteCommit(c)

Next == Tick \/ \E c \in Clients : Request(c) \/ Commit(c)

Spec == Init /\ [][Next]_vars

-----------------------------------------------------------------------------
(* Properties                                                              *)

\* Rows, bills and transactions hold what their columns can hold; a schedule row
\* refers to a transaction that exists (the foreign key).
TypeOK ==
  /\ today \in Nat
  /\ txs \in [TxIds -> Transaction \cup {None}]
  /\ nextTx \in Nat \ {0}
  /\ plan \in Plan \cup {None}
  /\ rows \in [Parts -> Row \cup {None}]
  /\ \A n \in Parts : rows[n] # None /\ rows[n].tx # None => txs[rows[n].tx] # None
  /\ bills \in [Months -> Bill \cup {None}]
  /\ posted \in [Months -> Nat]

\* A bill never shows more paid than payments of it were posted to the ledger,
\* however payments of it overlap.
PaidWasPosted == \A p \in Months : bills[p] # None => bills[p].paid <= posted[p]

\* Payments one after the other, between purchases and anticipations, never pay a
\* bill beyond its total.
NeverOverpaid == \A p \in Months \ disturbed : posted[p] <= TotalOf(txs, p)

\* Whatever sequence of generating, paying, anticipating and deleting: a charge
\* for an installment is the one its schedule row names, so it is charged once,
\* unless two requests had the installment in hand at once.
ChargedOnce ==
  \A t \in TxIds :
    txs[t] # None /\ txs[t].part # None =>
      \/ txs[t].part \in overlapped
      \/ rows[txs[t].part] # None /\ rows[txs[t].part].tx = t

\* A charge pinned to a cycle has its bill, so some bill lists it.
PinnedIsBilled ==
  \A t \in TxIds : txs[t] # None /\ txs[t].pin # None => bills[txs[t].pin] # None

\* "Selected future installments are charged on the current bill"
\* (credit_cards.rs:1204).
AnticipatedOnCurrentBill ==
  \A n \in Parts :
    rows[n] # None /\ rows[n].anticipated # None =>
      BillOf(txs[rows[n].tx]) = rows[n].anticipated

=============================================================================
