--------------------------- MODULE CardBills_proofs ---------------------------
(***************************************************************************)
(* What a bill shows as paid was posted to the ledger, what is pinned to a *)
(* bill is billed, an installment is charged once, rows and charges hold   *)
(* what their columns can, and no bill is paid beyond its total, for any   *)
(* set of clients, any amounts and any bounds.                             *)
(*                                                                         *)
(* PaidWasPosted is not inductive: a payment writes bills[p].paid from     *)
(* what its request read before, so the invariant also says that what a    *)
(* request in progress has read was posted by then.  Payments are only     *)
(* ever added to posted, which keeps both facts under every overlap.       *)
(***************************************************************************)
EXTENDS CardBills, TLAPS, FiniteSetTheorems, WellFoundedInduction

ReqDomain == DOMAIN req = Clients
PostedNat == posted \in [Months -> Nat]
BillsNat == \A p \in Months : bills[p] # None => bills[p].paid \in Nat
BillsDomain == DOMAIN bills = Months

ReadWasPosted ==
  \A c \in Clients : req[c].pc = "payBill" =>
    /\ req[c].p \in Months
    /\ req[c].amount \in Nat
    /\ req[c].paid \in Nat
    /\ req[c].paid <= posted[req[c].p]

PaidInv ==
  /\ ReqDomain
  /\ PostedNat
  /\ BillsDomain
  /\ BillsNat
  /\ ReadWasPosted
  /\ PaidWasPosted

-----------------------------------------------------------------------------

\* At the start no bill exists and nothing is posted.
LEMMA PaidInit == Init => PaidInv
BY DEF Init, PaidInv, ReqDomain, PostedNat, BillsDomain, BillsNat, ReadWasPosted,
       PaidWasPosted, Idle

\* Making sure that bills exist pays none of them (upsert_bill_cycle).
LEMMA EnsuredKeepsPaid ==
  ASSUME PaidInv, NEW S, bills' = Ensured(S), UNCHANGED posted
  PROVE  BillsDomain' /\ BillsNat' /\ PaidWasPosted'
BY DEF PaidInv, BillsDomain, BillsNat, PaidWasPosted, PostedNat, Ensured, OpenBill

\* A request that is not a payment, or that finishes, leaves the others alone.
LEMMA ProceedKeepsRead ==
  ASSUME PaidInv, NEW c \in Clients, NEW r, r.pc # "payBill",
         req' = [req EXCEPT ![c] = r], UNCHANGED posted
  PROVE  ReqDomain' /\ ReadWasPosted'
BY DEF PaidInv, ReqDomain, ReadWasPosted

\* A step that writes neither bills nor posted keeps what they say.
LEMMA UnpaidKeeps ==
  ASSUME PaidInv, UNCHANGED <<bills, posted>>
  PROVE  PostedNat' /\ BillsDomain' /\ BillsNat' /\ PaidWasPosted'
BY DEF PaidInv, PostedNat, BillsDomain, BillsNat, PaidWasPosted

\* Every request reads before it writes: the invariant survives the reading step.
LEMMA RequestKeeps ==
  ASSUME PaidInv, NEW c \in Clients, Request(c)
  PROVE  PaidInv'
<1>1. ASSUME NEW p \in Months, Split(c, p) PROVE PaidInv'
  BY <1>1, ProceedKeepsRead, UnpaidKeeps DEF Split, Begin, PaidInv
<1>2. ASSUME NEW p \in Months, Schedule(c, p) PROVE PaidInv'
  BY <1>2, ProceedKeepsRead, UnpaidKeeps DEF Schedule, Begin, PaidInv
<1>3. ASSUME NEW p \in Months, NEW a \in Prices, Buy(c, a, p) PROVE PaidInv'
  BY <1>3, ProceedKeepsRead, UnpaidKeeps DEF Buy, Begin, PaidInv
<1>4. ASSUME NEW p \in Months, NEW a \in Payments, PayBill(c, p, a) PROVE PaidInv'
  <2>1. PostedNat' /\ BillsDomain' /\ BillsNat' /\ PaidWasPosted'
    BY <1>4, UnpaidKeeps DEF PayBill
  <2>2. ReqDomain' /\ ReadWasPosted'
    <3>1. bills[p].paid \in Nat /\ bills[p].paid <= posted[p] /\ a \in Nat
      BY <1>4, CardBillsAssumption DEF PayBill, PaidInv, BillsNat, PaidWasPosted
    <3> DEFINE r == [pc |-> "payBill", p |-> p, amount |-> a,
                     paid |-> bills[p].paid, total |-> TotalOf(txs, p)]
    <3>2. req' = [req EXCEPT ![c] = r] /\ UNCHANGED posted
      BY <1>4 DEF PayBill, Begin
    <3>3. r.p = p /\ r.amount = a /\ r.paid = bills[p].paid
      OBVIOUS
    <3> HIDE DEF r
    <3>4. QED
      BY <3>1, <3>2, <3>3 DEF PaidInv, ReqDomain, ReadWasPosted
  <2>3. QED
    BY <2>1, <2>2 DEF PaidInv
<1>5. ASSUME Generate(c) PROVE PaidInv'
  BY <1>5, ProceedKeepsRead, UnpaidKeeps DEF Generate, Begin, PaidInv
<1>6. ASSUME NEW n \in Parts, PayPart(c, n) PROVE PaidInv'
  BY <1>6, ProceedKeepsRead, UnpaidKeeps DEF PayPart, Begin, PaidInv
<1>7. ASSUME NEW S \in (SUBSET Parts) \ {{}}, NEW d \in Discounts, Anticipate(c, S, d)
      PROVE PaidInv'
  BY <1>7, ProceedKeepsRead, UnpaidKeeps DEF Anticipate, Begin, PaidInv
<1>8. ASSUME NEW t \in TxIds, Delete(c, t) PROVE PaidInv'
  BY <1>8, ProceedKeepsRead, UnpaidKeeps DEF Delete, Begin, PaidInv
<1>9. QED
  BY <1>1, <1>2, <1>3, <1>4, <1>5, <1>6, <1>7, <1>8 DEF Request

\* The commit of a payment adds to the ledger what it adds to the bill.
LEMMA PaymentKeeps ==
  ASSUME PaidInv, NEW c \in Clients, PayBillCommit(c)
  PROVE  PaidInv'
<1> DEFINE p == req[c].p
           a == req[c].amount
<1>1. p \in Months /\ a \in Nat /\ req[c].paid \in Nat /\ req[c].paid <= posted[p]
  BY DEF PayBillCommit, PaidInv, ReadWasPosted
<1>2. posted' = [posted EXCEPT ![p] = @ + a] /\ posted \in [Months -> Nat]
  BY DEF PayBillCommit, PaidInv, PostedNat
<1>3. PostedNat' /\ \A q \in Months : posted[q] <= posted'[q]
  BY <1>1, <1>2 DEF PostedNat
<1>4. posted'[p] = posted[p] + a
  BY <1>1, <1>2
<1>5. Settled(req[c]).paid = req[c].paid + a
  BY DEF Settled
<1>6. bills' = [bills EXCEPT ![p] = Settled(req[c])]
  BY DEF PayBillCommit
<1>7. BillsDomain' /\ BillsNat' /\ PaidWasPosted'
  BY <1>1, <1>2, <1>3, <1>4, <1>5, <1>6
     DEF PaidInv, PostedNat, BillsDomain, BillsNat, PaidWasPosted
<1>8. ReqDomain' /\ ReadWasPosted'
  <2>1. req' = [req EXCEPT ![c] = Idle] /\ Idle.pc # "payBill"
    BY DEF PayBillCommit, Finish, Proceed, Idle
  <2> HIDE DEF p, a
  <2>2. QED
    BY <1>2, <1>3, <2>1 DEF PaidInv, PostedNat, ReqDomain, ReadWasPosted
<1>9. QED
  BY <1>3, <1>7, <1>8 DEF PaidInv

\* Every other commit leaves payments alone; some make sure that bills exist.
LEMMA CommitKeeps ==
  ASSUME PaidInv, NEW c \in Clients, Commit(c)
  PROVE  PaidInv'
<1>0. Idle.pc # "payBill"
  BY DEF Idle
<1>1. CASE BuyCommit(c)
  BY <1>0, <1>1, ProceedKeepsRead, EnsuredKeepsPaid DEF BuyCommit, Finish, Proceed, PaidInv, PostedNat
<1>2. CASE SplitCommit(c)
  BY <1>0, <1>2, ProceedKeepsRead, EnsuredKeepsPaid DEF SplitCommit, Finish, Proceed, PaidInv, PostedNat
<1>3. CASE ScheduleCommit(c)
  BY <1>0, <1>3, ProceedKeepsRead, UnpaidKeeps DEF ScheduleCommit, Finish, Proceed, PaidInv
<1>4. CASE GenerateCheck(c)
  BY <1>0, <1>4, ProceedKeepsRead, UnpaidKeeps DEF GenerateCheck, Proceed, After, PaidInv
<1>5. CASE GenerateCreate(c)
  BY <1>0, <1>5, ProceedKeepsRead, EnsuredKeepsPaid DEF GenerateCreate, Proceed, After, PaidInv, PostedNat
<1>6. CASE PayPartCommit(c)
  BY <1>0, <1>6, ProceedKeepsRead, UnpaidKeeps DEF PayPartCommit, Finish, Proceed, PaidInv
<1>7. CASE AnticipateCommit(c)
  BY <1>0, <1>7, ProceedKeepsRead, EnsuredKeepsPaid DEF AnticipateCommit, Finish, Proceed, PaidInv, PostedNat
<1>8. CASE AnticipateFails(c)
  BY <1>0, <1>8, ProceedKeepsRead, UnpaidKeeps DEF AnticipateFails, Finish, Proceed, PaidInv
<1>9. CASE PayBillCommit(c)
  BY <1>9, PaymentKeeps
<1>10. CASE DeleteCommit(c)
  BY <1>0, <1>10, ProceedKeepsRead, UnpaidKeeps DEF DeleteCommit, Finish, Proceed, PaidInv
<1>11. QED
  BY <1>1, <1>2, <1>3, <1>4, <1>5, <1>6, <1>7, <1>8, <1>9, <1>10 DEF Commit

\* Every step of the specification keeps the invariant.
LEMMA PaidStep == PaidInv /\ [Next]_vars => PaidInv'
<1> SUFFICES ASSUME PaidInv, [Next]_vars PROVE PaidInv'
  OBVIOUS
<1>1. CASE Tick
  BY <1>1, UnpaidKeeps DEF Tick, PaidInv, ReqDomain, ReadWasPosted
<1>2. ASSUME NEW c \in Clients, Request(c) PROVE PaidInv'
  BY <1>2, RequestKeeps
<1>3. ASSUME NEW c \in Clients, Commit(c) PROVE PaidInv'
  BY <1>3, CommitKeeps
<1>4. CASE UNCHANGED vars
  BY <1>4, UnpaidKeeps DEF vars, PaidInv, ReqDomain, ReadWasPosted
<1>5. QED
  BY <1>1, <1>2, <1>3, <1>4 DEF Next

\* A bill never shows more paid than was posted to the ledger for it, for any
\* clients and however their payments overlap (pay_card_bill).
THEOREM PaidWasPostedHolds == Spec => []PaidWasPosted
<1>1. PaidInv => PaidWasPosted
  BY DEF PaidInv
<1>2. QED
  BY PaidInit, PaidStep, <1>1, PTL DEF Spec

-----------------------------------------------------------------------------
(* A pinned charge has its bill                                            *)

\* Every installment of a plan that starts at p falls in a month of the model.
Room(p) == p \in Months /\ p + Count - 1 \in Months

TodayBound == today \in Nat /\ today <= MaxMonth + 1
ReadPinHasRoom ==
  \A c \in Clients : req[c].pc \in {"buy", "split", "schedule"} => Room(req[c].pin)
PlanHasRoom == plan # None => Room(plan.start)
GenerationHasPlan ==
  \A c \in Clients : req[c].pc \in {"generate", "create"} =>
    plan # None /\ req[c].left \subseteq Parts
PinIsBilled(t) ==
  txs[t] # None /\ txs[t].pin # None => txs[t].pin \in Months /\ bills[txs[t].pin] # None

PinInv ==
  /\ PaidInv
  /\ TodayBound
  /\ ReadPinHasRoom
  /\ PlanHasRoom
  /\ GenerationHasPlan
  /\ DOMAIN txs = TxIds
  /\ \A t \in TxIds : PinIsBilled(t)

\* A cycle offered for a purchase leaves room for the installments after it.
LEMMA OfferedHasRoom ==
  ASSUME TodayBound, NEW p \in Months, Offered(p)
  PROVE  Room(p)
BY CardBillsAssumption DEF TodayBound, Offered, Room, Months

\* Every installment of such a plan has its month.
LEMMA RoomForParts ==
  ASSUME NEW p, Room(p), NEW n \in Parts
  PROVE  p + n - 1 \in Months
BY CardBillsAssumption DEF Room, Months, Parts

\* upsert_bill_cycle makes the bills asked for and keeps those there are.
LEMMA EnsuredBills ==
  ASSUME NEW S \in SUBSET Months
  PROVE  /\ DOMAIN Ensured(S) = Months
         /\ \A p \in S : Ensured(S)[p] # None
         /\ \A p \in Months : bills[p] # None => Ensured(S)[p] # None
<1>1. OpenBill # None
  BY CardBillsAssumption DEF OpenBill, Bill
<1>2. QED
  BY <1>1 DEF Ensured

\* At the start there is no charge, no plan and no request.
LEMMA PinInit == Init => PinInv
<1> SUFFICES ASSUME Init PROVE PinInv
  OBVIOUS
<1>1. TodayBound
  BY CardBillsAssumption DEF Init, TodayBound
<1>2. QED
  BY <1>1, PaidInit DEF Init, PinInv, ReadPinHasRoom, PlanHasRoom, GenerationHasPlan, PinIsBilled, Idle

\* A step that leaves the charges, the plan and the bills alone, and gives client
\* c a request r that has room and a plan where it needs them.
LEMMA RequestPins ==
  ASSUME PinInv, PaidInv', NEW c \in Clients, NEW r,
         req' = [req EXCEPT ![c] = r], UNCHANGED <<today, txs, plan, bills>>,
         r.pc \in {"buy", "split", "schedule"} => Room(r.pin),
         r.pc \in {"generate", "create"} => plan # None /\ r.left \subseteq Parts
  PROVE  PinInv'
<1>1. DOMAIN req = Clients
  BY DEF PinInv, PaidInv, ReqDomain
<1>2. ReadPinHasRoom' /\ GenerationHasPlan'
  BY <1>1 DEF PinInv, ReadPinHasRoom, GenerationHasPlan
<1>3. QED
  BY <1>2 DEF PinInv, TodayBound, PlanHasRoom, PinIsBilled

\* Requests only read: what they offer has room.
LEMMA RequestKeepsPins ==
  ASSUME PinInv, NEW c \in Clients, Request(c)
  PROVE  PinInv'
<1>0. PaidInv' /\ TodayBound
  BY RequestKeeps DEF PinInv
<1>1. ASSUME NEW p \in Months, Split(c, p) PROVE PinInv'
  BY <1>0, <1>1, OfferedHasRoom, RequestPins DEF Split, Begin
<1>2. ASSUME NEW p \in Months, Schedule(c, p) PROVE PinInv'
  BY <1>0, <1>2, OfferedHasRoom, RequestPins DEF Schedule, Begin
<1>3. ASSUME NEW p \in Months, NEW a \in Prices, Buy(c, a, p) PROVE PinInv'
  BY <1>0, <1>3, OfferedHasRoom, RequestPins DEF Buy, Begin
<1>4. ASSUME NEW p \in Months, NEW a \in Payments, PayBill(c, p, a) PROVE PinInv'
  BY <1>0, <1>4, RequestPins DEF PayBill, Begin
<1>5. ASSUME Generate(c) PROVE PinInv'
  BY <1>0, <1>5, RequestPins DEF Generate, Begin
<1>6. ASSUME NEW n \in Parts, PayPart(c, n) PROVE PinInv'
  BY <1>0, <1>6, RequestPins DEF PayPart, Begin
<1>7. ASSUME NEW S \in (SUBSET Parts) \ {{}}, NEW d \in Discounts, Anticipate(c, S, d)
      PROVE PinInv'
  BY <1>0, <1>7, RequestPins DEF Anticipate, Begin
<1>8. ASSUME NEW t \in TxIds, Delete(c, t) PROVE PinInv'
  BY <1>0, <1>8, RequestPins DEF Delete, Begin
<1>9. QED
  BY <1>1, <1>2, <1>3, <1>4, <1>5, <1>6, <1>7, <1>8 DEF Request

\* What a commit does to the bookkeeping: the client goes idle or on to its next
\* installment, and the plan, once there, stays.
LEMMA CommitKeepsReads ==
  ASSUME PinInv, NEW c \in Clients, NEW r,
         req' = [req EXCEPT ![c] = r], UNCHANGED today,
         r.pc \in {"idle", "generate", "create"},
         r.pc \in {"generate", "create"} => plan # None /\ r.left \subseteq Parts,
         PlanHasRoom', plan # None => plan' # None
  PROVE  TodayBound' /\ ReadPinHasRoom' /\ GenerationHasPlan'
<1>1. DOMAIN req = Clients
  BY DEF PinInv, PaidInv, ReqDomain
<1>2. TodayBound'
  BY DEF PinInv, TodayBound
<1>3. ReadPinHasRoom'
  BY <1>1 DEF PinInv, ReadPinHasRoom, Room
<1>4. GenerationHasPlan'
  BY <1>1 DEF PinInv, GenerationHasPlan
<1>5. QED
  BY <1>2, <1>3, <1>4

\* Charges that keep their pins, or vanish, beside bills that stay.
LEMMA OldPinsKeep ==
  ASSUME PinInv, DOMAIN txs' = TxIds,
         \A p \in Months : bills[p] # None => bills'[p] # None,
         \A t \in TxIds : \/ txs'[t] = None
                          \/ txs'[t].pin = None
                          \/ txs[t] # None /\ txs'[t].pin = txs[t].pin
                          \/ txs'[t].pin \in Months /\ bills'[txs'[t].pin] # None
  PROVE  DOMAIN txs' = TxIds /\ \A t \in TxIds : PinIsBilled(t)'
BY DEF PinInv, PinIsBilled

\* Every commit ensures the bill of each pin it writes, and none removes a bill.
LEMMA CommitKeepsPins ==
  ASSUME PinInv, NEW c \in Clients, Commit(c)
  PROVE  PinInv'
<1>0. /\ PaidInv' /\ DOMAIN bills = Months /\ DOMAIN txs = TxIds
      /\ Idle.pc = "idle" /\ PlanHasRoom
  BY CommitKeeps DEF PinInv, PaidInv, BillsDomain, Idle
<1>1. CASE BuyCommit(c)
  <2>1. req[c].pin \in Months
    BY <1>1 DEF BuyCommit, PinInv, ReadPinHasRoom, Room
  <2>2. /\ bills'[req[c].pin] # None
        /\ \A p \in Months : bills[p] # None => bills'[p] # None
    BY <1>1, <2>1, EnsuredBills DEF BuyCommit
  <2>3. DOMAIN txs' = TxIds /\ \A t \in TxIds : PinIsBilled(t)'
    BY <1>0, <1>1, <2>1, <2>2, OldPinsKeep DEF BuyCommit, Charge
  <2>4. TodayBound' /\ PlanHasRoom' /\ ReadPinHasRoom' /\ GenerationHasPlan'
    BY <1>0, <1>1, CommitKeepsReads DEF BuyCommit, Finish, Proceed, PlanHasRoom
  <2>5. QED
    BY <1>0, <2>3, <2>4 DEF PinInv
<1>2. CASE SplitCommit(c)
  <2> DEFINE pin == req[c].pin
             months == {pin + n - 1 : n \in Parts}
  <2>1. Room(pin)
    BY <1>2 DEF SplitCommit, PinInv, ReadPinHasRoom
  <2>2. months \in SUBSET Months
    BY <2>1, RoomForParts
  <2>3. bills' = Ensured(months)
    BY <1>2 DEF SplitCommit
  <2>4. /\ \A p \in months : bills'[p] # None
        /\ \A p \in Months : bills[p] # None => bills'[p] # None
    BY <2>2, <2>3, EnsuredBills
  <2>5. \A t \in TxIds :
          \/ txs'[t] = txs[t]
          \/ \E n \in Parts : txs'[t].pin = pin + n - 1
    BY <1>2 DEF SplitCommit, Charge
  <2>6. DOMAIN txs' = TxIds
    BY <1>2 DEF SplitCommit
  <2>7. \A t \in TxIds : \/ txs'[t] = None
                         \/ txs[t] # None /\ txs'[t].pin = txs[t].pin
                         \/ txs'[t].pin \in Months /\ bills'[txs'[t].pin] # None
    BY <2>2, <2>4, <2>5
  <2>8. \A t \in TxIds : PinIsBilled(t)'
    BY <2>4, <2>6, <2>7, OldPinsKeep
  <2>9. PlanHasRoom' /\ (plan # None => plan' # None)
    <3>0. PerPart \in Int
      BY CardBillsAssumption DEF PerPart, RoundEven
    <3>1. plan'.start = pin
      BY <1>2 DEF SplitCommit
    <3>2. plan' # None
      BY <1>2, <2>1, <3>0, CardBillsAssumption DEF SplitCommit, Plan, Room, Months
    <3>3. QED
      BY <2>1, <3>1, <3>2 DEF PlanHasRoom, Room
  <2>10. TodayBound' /\ ReadPinHasRoom' /\ GenerationHasPlan'
    BY <1>0, <1>2, <2>9, CommitKeepsReads DEF SplitCommit, Finish, Proceed
  <2>11. QED
    BY <1>0, <2>6, <2>8, <2>9, <2>10 DEF PinInv
<1>3. CASE ScheduleCommit(c)
  <2>1. Room(req[c].pin)
    BY <1>3 DEF ScheduleCommit, PinInv, ReadPinHasRoom
  <2>2. PlanHasRoom' /\ (plan # None => plan' # None)
    <3>1. RoundNumeric(Total, Count) \in Int
      BY CardBillsAssumption DEF RoundNumeric
    <3>2. plan'.start = req[c].pin /\ plan' # None
      BY <1>3, <2>1, <3>1, CardBillsAssumption DEF ScheduleCommit, Plan, Room, Months
    <3>3. QED
      BY <2>1, <3>2 DEF PlanHasRoom, Room
  <2>3. TodayBound' /\ ReadPinHasRoom' /\ GenerationHasPlan'
    BY <1>0, <1>3, <2>2, CommitKeepsReads DEF ScheduleCommit, Finish, Proceed
  <2>4. DOMAIN txs' = TxIds /\ \A t \in TxIds : PinIsBilled(t)'
    BY <1>3 DEF ScheduleCommit, PinInv, PinIsBilled
  <2>5. QED
    BY <1>0, <2>2, <2>3, <2>4 DEF PinInv
<1>4. CASE GenerateCheck(c)
  <2>1. PICK r : /\ req' = [req EXCEPT ![c] = r]
                 /\ r.pc \in {"idle", "generate", "create"}
                 /\ r.pc \in {"generate", "create"} => plan # None /\ r.left \subseteq Parts
    BY <1>0, <1>4 DEF GenerateCheck, Proceed, After, PinInv, GenerationHasPlan
  <2>2. UNCHANGED <<today, txs, plan, bills>>
    BY <1>4 DEF GenerateCheck
  <2>3. PlanHasRoom'
    BY <1>0, <2>2 DEF PlanHasRoom, Room
  <2>4. TodayBound' /\ ReadPinHasRoom' /\ GenerationHasPlan'
    BY <2>1, <2>2, <2>3, CommitKeepsReads
  <2>5. QED
    BY <1>0, <2>2, <2>3, <2>4 DEF PinInv, PinIsBilled
<1>5. CASE GenerateCreate(c)
  <2>1. plan # None /\ req[c].left \subseteq Parts
    BY <1>5 DEF GenerateCreate, PinInv, GenerationHasPlan
  <2>2. PICK n \in Parts :
          LET due == plan.start + n - 1
          IN /\ txs' = [txs EXCEPT ![nextTx] = Charge(plan.amount, due, due, n)]
             /\ bills' = Ensured({due})
             /\ Proceed(c, After(n, req[c].left))
    BY <1>5, <2>1 DEF GenerateCreate
  <2> DEFINE due == plan.start + n - 1
  <2>3. due \in Months
    BY <1>0, <2>1, RoomForParts DEF PlanHasRoom
  <2>4. /\ bills'[due] # None
        /\ \A p \in Months : bills[p] # None => bills'[p] # None
    BY <2>2, <2>3, EnsuredBills
  <2>5. DOMAIN txs' = TxIds /\ \A t \in TxIds : PinIsBilled(t)'
    BY <1>0, <2>2, <2>3, <2>4, OldPinsKeep DEF Charge
  <2>6. UNCHANGED <<today, plan>> /\ PlanHasRoom'
    BY <1>0, <1>5 DEF GenerateCreate, PlanHasRoom, Room
  <2>7. TodayBound' /\ ReadPinHasRoom' /\ GenerationHasPlan'
    BY <1>0, <2>1, <2>2, <2>6, CommitKeepsReads DEF Proceed, After
  <2>8. QED
    BY <1>0, <2>5, <2>6, <2>7 DEF PinInv
<1>6. CASE PayPartCommit(c)
  <2>1. /\ DOMAIN txs' = TxIds
        /\ \A t \in TxIds : txs'[t] = txs[t] \/ txs'[t].pin = None
    BY <1>0, <1>6 DEF PayPartCommit, Charge
  <2>2. UNCHANGED <<today, plan, bills>> /\ PlanHasRoom'
    BY <1>0, <1>6 DEF PayPartCommit, PlanHasRoom, Room
  <2>3. \A t \in TxIds : PinIsBilled(t)'
    BY <2>1, <2>2, OldPinsKeep
  <2>4. TodayBound' /\ ReadPinHasRoom' /\ GenerationHasPlan'
    BY <1>0, <1>6, <2>2, CommitKeepsReads DEF PayPartCommit, Finish, Proceed
  <2>5. QED
    BY <1>0, <2>1, <2>2, <2>3, <2>4 DEF PinInv
<1>7. CASE AnticipateCommit(c)
  <2>1. UNCHANGED <<today, plan>> /\ PlanHasRoom'
    BY <1>0, <1>7 DEF AnticipateCommit, PlanHasRoom, Room
  <2>2. DOMAIN txs' = TxIds
    BY <1>7 DEF AnticipateCommit
  <2>3. \A t \in TxIds : txs'[t].pin = None \/ txs'[t].pin = txs[t].pin
    BY <1>7 DEF AnticipateCommit, Charge
  <2>4. \A t \in TxIds : txs'[t] = txs[t] \/ txs'[t].pin = None \/ txs[t] # None
    BY <1>7 DEF AnticipateCommit, Applies, Charge, AnticipatedTx
  <2>5. \A p \in Months : bills[p] # None => bills'[p] # None
    <3>1. bills' = Ensured({req[c].month})
      BY <1>7 DEF AnticipateCommit
    <3>2. OpenBill # None
      BY CardBillsAssumption DEF OpenBill, Bill
    <3>3. QED
      BY <3>1, <3>2 DEF Ensured
  <2>6. \A t \in TxIds : PinIsBilled(t)'
    BY <2>2, <2>3, <2>4, <2>5, OldPinsKeep
  <2>7. TodayBound' /\ ReadPinHasRoom' /\ GenerationHasPlan'
    BY <1>0, <1>7, <2>1, CommitKeepsReads DEF AnticipateCommit, Finish, Proceed
  <2>8. QED
    BY <1>0, <2>1, <2>2, <2>6, <2>7 DEF PinInv
<1>8. CASE AnticipateFails(c)
  <2>1. UNCHANGED <<today, txs, plan, bills>> /\ PlanHasRoom'
    BY <1>0, <1>8 DEF AnticipateFails, PlanHasRoom, Room
  <2>2. TodayBound' /\ ReadPinHasRoom' /\ GenerationHasPlan'
    BY <1>0, <1>8, <2>1, CommitKeepsReads DEF AnticipateFails, Finish, Proceed
  <2>3. QED
    BY <1>0, <2>1, <2>2 DEF PinInv, PinIsBilled
<1>9. CASE PayBillCommit(c)
  <2>1. UNCHANGED <<today, txs, plan>> /\ PlanHasRoom'
    BY <1>0, <1>9 DEF PayBillCommit, PlanHasRoom, Room
  <2>2. TodayBound' /\ ReadPinHasRoom' /\ GenerationHasPlan'
    BY <1>0, <1>9, <2>1, CommitKeepsReads DEF PayBillCommit, Finish, Proceed
  <2>3. Settled(req[c]) # None
    <3>1. req[c].paid \in Nat /\ req[c].amount \in Nat
      BY <1>9 DEF PayBillCommit, PinInv, PaidInv, ReadWasPosted
    <3>2. Settled(req[c]) \in Bill
      BY <3>1 DEF Settled, Bill
    <3>3. QED
      BY <3>2, CardBillsAssumption
  <2>4. \A p \in Months : bills[p] # None => bills'[p] # None
    BY <1>0, <1>9, <2>3 DEF PayBillCommit
  <2>5. \A t \in TxIds : PinIsBilled(t)'
    BY <1>0, <2>1, <2>4, OldPinsKeep DEF PinInv, PinIsBilled
  <2>6. QED
    BY <1>0, <2>1, <2>2, <2>5 DEF PinInv
<1>10. CASE DeleteCommit(c)
  <2>1. UNCHANGED <<today, plan, bills>> /\ PlanHasRoom'
    BY <1>0, <1>10 DEF DeleteCommit, PlanHasRoom, Room
  <2>2. TodayBound' /\ ReadPinHasRoom' /\ GenerationHasPlan'
    BY <1>0, <1>10, <2>1, CommitKeepsReads DEF DeleteCommit, Finish, Proceed
  <2>3. /\ DOMAIN txs' = TxIds
        /\ \A t \in TxIds : txs'[t] = None \/ txs'[t] = txs[t]
    BY <1>0, <1>10 DEF DeleteCommit
  <2>4. \A t \in TxIds : PinIsBilled(t)'
    BY <2>1, <2>3, OldPinsKeep
  <2>5. QED
    BY <1>0, <2>1, <2>2, <2>3, <2>4 DEF PinInv
<1>11. QED
  BY <1>1, <1>2, <1>3, <1>4, <1>5, <1>6, <1>7, <1>8, <1>9, <1>10 DEF Commit

\* Every step of the specification keeps pins and bills together.
LEMMA PinStep == PinInv /\ [Next]_vars => PinInv'
<1> SUFFICES ASSUME PinInv, [Next]_vars PROVE PinInv'
  OBVIOUS
<1>0. PaidInv'
  BY PaidStep DEF PinInv
<1>1. CASE Tick
  <2>1. TodayBound'
    BY <1>1, CardBillsAssumption DEF Tick, PinInv, TodayBound
  <2>2. QED
    BY <1>0, <1>1, <2>1
       DEF Tick, PinInv, ReadPinHasRoom, PlanHasRoom, GenerationHasPlan, PinIsBilled
<1>2. ASSUME NEW c \in Clients, Request(c) PROVE PinInv'
  BY <1>2, RequestKeepsPins
<1>3. ASSUME NEW c \in Clients, Commit(c) PROVE PinInv'
  BY <1>3, CommitKeepsPins
<1>4. CASE UNCHANGED vars
  BY <1>0, <1>4
     DEF vars, PinInv, TodayBound, ReadPinHasRoom, PlanHasRoom, GenerationHasPlan, PinIsBilled
<1>5. QED
  BY <1>1, <1>2, <1>3, <1>4 DEF Next

\* A charge pinned to a billing cycle has a bill that lists it, whatever requests
\* overlap: every handler that writes the pin ensures the bill in the same
\* database transaction (ensure_bill_for_period).
THEOREM PinnedIsBilledHolds == Spec => []PinnedIsBilled
<1>1. PinInv => PinnedIsBilled
  BY DEF PinInv, PinIsBilled, PinnedIsBilled
<1>2. QED
  BY PinInit, PinStep, <1>1, PTL DEF Spec

-----------------------------------------------------------------------------
(* An installment is charged once unless two requests had it in hand at      *)
(* once.  The charge and its schedule row are written in one database        *)
(* transaction, but from what was read before it: the invariant says that    *)
(* what a request read of an installment only it has in hand still stands.   *)

\* Transactions created so far.
Used == {t \in TxIds : t < nextTx}
Links == Used \cup {None}

Books ==
  /\ nextTx \in Nat \ {0}
  /\ rows \in [Parts -> Row \cup {None}]
  /\ \A n \in Parts : rows[n] # None => rows[n].tx \in Links
  /\ \A t \in TxIds : txs[t] # None => t \in Used /\ txs[t].part \in Parts \cup {None}
  /\ plan = None => /\ \A n \in Parts : rows[n] = None
                    /\ \A t \in TxIds : txs[t] # None => txs[t].part = None

\* What a request carries from its reading step to its commit.
Carries(c) ==
  LET r == req[c]
  IN /\ r.pc \in {"split", "schedule"} => plan = None
     /\ r.pc \in {"payPart", "anticipate"} => plan # None
     /\ r.pc = "payPart" => r.n \in Parts /\ r.tx \in Links
     /\ r.pc = "anticipate" => /\ r.month \in Months
                               /\ DOMAIN r.picked \subseteq Parts
                               /\ \A n \in DOMAIN r.picked : r.picked[n].tx \in Links
     /\ r.pc = "delete" => r.tx \in Used

OnePlanner ==
  \A c, d \in Clients :
    {req[c].pc, req[d].pc} \subseteq {"split", "schedule"} => c = d

\* What a request has read of an installment that no other request has in hand
\* still stands.
Stands(c) ==
  LET r == req[c]
  IN \A n \in Holding(c) \ overlapped :
       /\ r.pc \in {"generate", "create", "payPart", "anticipate"} => rows[n] # None
       /\ r.pc = "create" /\ First(n, r.left) => rows[n].tx = None
       /\ r.pc = "payPart" => rows[n].tx = r.tx
       /\ r.pc = "anticipate" => rows[n].tx = r.picked[n].tx

Exclusive ==
  \A c, d \in Clients : c # d => Holding(c) \cap Holding(d) \subseteq overlapped

ChargeInv ==
  /\ Books
  /\ \A c \in Clients : Carries(c) /\ Stands(c)
  /\ OnePlanner
  /\ Exclusive
  /\ ChargedOnce

-----------------------------------------------------------------------------

LEMMA NoneApart ==
  /\ \A n \in Int : n # None
  /\ \A r \in Row : r # None
BY CardBillsAssumption

\* A row gets a transaction, and stays a row.
LEMMA RowMoved ==
  ASSUME NEW r \in Row, NEW t \in TxIds \cup {None}, NEW s \in {"pending", "generated", "paid"}
  PROVE  /\ [r EXCEPT !.tx = t, !.status = s] \in Row
         /\ [r EXCEPT !.tx = t, !.status = s].tx = t
BY DEF Row

\* Linked moves one row.
LEMMA LinkedRow ==
  ASSUME Books, NEW n \in Parts, NEW t \in TxIds, NEW s \in {"pending", "generated", "paid"},
         rows' = Linked(n, t, s)
  PROVE  /\ rows' \in [Parts -> Row \cup {None}]
         /\ \A m \in Parts : m # n => rows'[m] = rows[m]
         /\ rows[n] = None => rows'[n] = None
         /\ rows[n] # None => rows'[n] # None /\ rows'[n].tx = t
<1>1. rows \in [Parts -> Row \cup {None}]
  BY DEF Books
<1>2. rows[n] \in Row \cup {None}
  BY <1>1
<1>3. rows[n] # None => [rows[n] EXCEPT !.tx = t, !.status = s] \in Row
                        /\ [rows[n] EXCEPT !.tx = t, !.status = s].tx = t
  BY <1>2, RowMoved
<1> DEFINE v == IF rows[n] = None THEN None ELSE [rows[n] EXCEPT !.tx = t, !.status = s]
<1>4. rows' = [rows EXCEPT ![n] = v]
  BY DEF Linked
<1>5. v \in Row \cup {None}
  BY <1>3
<1>6. rows[n] # None => v # None /\ v.tx = t
  BY <1>3, NoneApart
<1>7. rows[n] = None => v = None
  OBVIOUS
<1> HIDE DEF v
<1> QED
  BY <1>1, <1>4, <1>5, <1>6, <1>7

LEMMA UsedGrows ==
  ASSUME Books, nextTx' \in Nat, nextTx <= nextTx'
  PROVE  Used \subseteq Used' /\ Links \subseteq Links'
BY DEF Books, Used, Links, TxIds

-----------------------------------------------------------------------------
(* What a step of one request does to the others                           *)

\* The others keep what they carry, and what they read of their installments,
\* when the step leaves the rows they have in hand alone.
LEMMA OthersStand ==
  ASSUME ChargeInv, DOMAIN req = Clients, NEW c \in Clients, NEW r,
         req' = [req EXCEPT ![c] = r],
         Used \subseteq Used', overlapped \subseteq overlapped',
         NEW d \in Clients, d # c,
         plan # None => plan' # None,
         plan = None /\ plan' # None => req[d].pc \notin {"split", "schedule"},
         \A n \in Holding(d) \ overlapped : rows'[n] = rows[n],
         \A n \in Parts \ overlapped :
           rows'[n] # None /\ rows'[n].tx = req[d].tx /\ req[d].pc = "delete" => n \in Holding(d)
  PROVE  /\ Carries(d)' /\ Stands(d)'
         /\ Holding(d)' \subseteq Holding(d) \cup overlapped
<1>1. req'[d] = req[d]
  OBVIOUS
<1>2. Carries(d)'
  <2>1. Carries(d)
    BY DEF ChargeInv
  <2>2. Links \subseteq Links'
    BY DEF Links
  <2> QED
    BY <1>1, <2>1, <2>2 DEF Carries
<1>3. Holding(d)' \subseteq Holding(d) \cup overlapped
  <2>1. CASE req[d].pc = "delete"
    <3>1. Holding(d)' = {n \in Parts : rows'[n] # None /\ rows'[n].tx = req[d].tx}
      BY <1>1, <2>1 DEF Holding
    <3> QED
      BY <3>1, <2>1
  <2>2. CASE req[d].pc # "delete"
    BY <1>1, <2>2 DEF Holding
  <2> QED
    BY <2>1, <2>2
<1>4. Stands(d)'
  <2> SUFFICES ASSUME NEW n \in Holding(d)' \ overlapped'
      PROVE  /\ req[d].pc \in {"generate", "create", "payPart", "anticipate"} => rows'[n] # None
             /\ req[d].pc = "create" /\ First(n, req[d].left) => rows'[n].tx = None
             /\ req[d].pc = "payPart" => rows'[n].tx = req[d].tx
             /\ req[d].pc = "anticipate" => rows'[n].tx = req[d].picked[n].tx
    BY <1>1 DEF Stands, First
  <2>1. n \in Holding(d) \ overlapped
    BY <1>3
  <2>2. rows'[n] = rows[n]
    BY <2>1
  <2>3. Stands(d)
    BY DEF ChargeInv
  <2> QED
    BY <2>1, <2>2, <2>3 DEF Stands
<1> QED
  BY <1>2, <1>3, <1>4

\* A reading step: c takes the installments of S in hand.
LEMMA Reads ==
  ASSUME ChargeInv, DOMAIN req = Clients, NEW c \in Clients, NEW r, NEW S,
         req' = [req EXCEPT ![c] = r], UNCHANGED <<txs, nextTx, plan, rows>>,
         overlapped \subseteq overlapped', Overlaps(c, S) \subseteq overlapped',
         Holding(c)' \subseteq S, Carries(c)', Stands(c)',
         r.pc \in {"split", "schedule"} => ~Planning
  PROVE  ChargeInv'
<1>1. Used' = Used /\ Links' = Links
  BY DEF Used, Links
<1>2. Books'
  BY <1>1 DEF ChargeInv, Books
<1>3. ASSUME NEW d \in Clients, d # c
      PROVE  Carries(d)' /\ Stands(d)' /\ Holding(d)' = Holding(d)
  <2>1. req'[d] = req[d]
    BY <1>3
  <2>2. Holding(d)' = Holding(d)
    BY <2>1 DEF Holding
  <2>3. Carries(d) /\ Stands(d)
    BY DEF ChargeInv
  <2> QED
    BY <1>1, <2>1, <2>2, <2>3 DEF Carries, Stands, First
<1>4. Exclusive'
  <2> SUFFICES ASSUME NEW d \in Clients, NEW e \in Clients, d # e,
                      NEW n, n \in Holding(d)', n \in Holding(e)'
               PROVE  n \in overlapped'
    BY DEF Exclusive
  <2>1. CASE d # c /\ e # c
    BY <2>1, <1>3 DEF ChargeInv, Exclusive
  <2>2. ASSUME NEW f \in Clients, f # c, n \in Holding(f)', n \in Holding(c)'
        PROVE  n \in overlapped'
    BY <2>2, <1>3 DEF Overlaps
  <2> QED
    BY <2>1, <2>2
<1>5. OnePlanner'
  <2>1. OnePlanner
    BY DEF ChargeInv
  <2>2. req'[c] = r /\ \A d \in Clients : d # c => req'[d] = req[d]
    OBVIOUS
  <2> QED
    BY <2>1, <2>2 DEF OnePlanner, Planning
<1>6. ChargedOnce'
  BY DEF ChargeInv, ChargedOnce
<1> QED
  BY <1>2, <1>3, <1>4, <1>5, <1>6 DEF ChargeInv

\* Without a plan nobody has an installment in hand.
LEMMA NothingHeld ==
  ASSUME ChargeInv, PinInv, plan = None, NEW d \in Clients
  PROVE  Holding(d) = {}
<1>1. \A n \in Parts : rows[n] = None
  BY DEF ChargeInv, Books
<1>2. req[d].pc \notin {"generate", "create", "payPart", "anticipate"}
  BY DEF ChargeInv, Carries, PinInv, GenerationHasPlan
<1> QED
  BY <1>1, <1>2 DEF Holding

\* A commit writes the rows that c has in hand, and links them to what they had or
\* to a transaction nobody has seen.
LEMMA Commits ==
  ASSUME ChargeInv, PinInv, NEW c \in Clients, NEW r,
         req' = [req EXCEPT ![c] = r], r.pc \notin {"split", "schedule"},
         UNCHANGED overlapped, Used \subseteq Used',
         plan' = plan \/ (req[c].pc \in {"split", "schedule"} /\ plan' # None),
         \/ plan = None
         \/ \A n \in Parts \ overlapped : n \in Holding(c) \/ rows'[n] = rows[n],
         \A n \in Parts \ overlapped :
           rows'[n] # None /\ rows'[n].tx \in Used => rows[n] # None /\ rows'[n].tx = rows[n].tx,
         Holding(c)' \subseteq Holding(c) \cup overlapped, Carries(c)', Stands(c)',
         Books', ChargedOnce'
  PROVE  ChargeInv'
<1>1. DOMAIN req = Clients
  BY DEF PinInv, PaidInv, ReqDomain
<1>2. OnePlanner /\ Exclusive
  BY DEF ChargeInv
<1>3. ASSUME NEW d \in Clients, d # c
      PROVE  /\ Carries(d)' /\ Stands(d)'
             /\ Holding(d)' \subseteq Holding(d) \cup overlapped
  <2>1. ASSUME NEW n \in Holding(d) \ overlapped
        PROVE  rows'[n] = rows[n]
    <3>1. plan # None
      BY <2>1, NothingHeld
    <3>2. n \notin Holding(c)
      BY <1>2, <1>3 DEF Exclusive
    <3>3. n \in Parts
      <4>1. GenerationHasPlan /\ Carries(d)
        BY DEF PinInv, ChargeInv
      <4> QED
        BY <4>1 DEF Holding, GenerationHasPlan, Carries
    <3> QED
      BY <3>1, <3>2, <3>3
  <2>2. ASSUME NEW n \in Parts \ overlapped,
               rows'[n] # None, rows'[n].tx = req[d].tx, req[d].pc = "delete"
        PROVE  n \in Holding(d)
    <3>1. req[d].tx \in Used
      BY <2>2 DEF ChargeInv, Carries
    <3>2. rows[n] # None /\ rows[n].tx = req[d].tx
      BY <2>2, <3>1
    <3> QED
      BY <2>2, <3>2 DEF Holding
  <2>3. req[c].pc \in {"split", "schedule"} => req[d].pc \notin {"split", "schedule"}
    BY <1>2, <1>3 DEF OnePlanner
  <2> QED
    BY <1>1, <1>3, <2>1, <2>2, <2>3, OthersStand
<1>4. Exclusive'
  <2>1. \A d \in Clients : Holding(d)' \subseteq Holding(d) \cup overlapped
    BY <1>3
  <2> QED
    BY <1>2, <2>1 DEF Exclusive
<1>5. OnePlanner'
  <2>1. req'[c] = r /\ \A d \in Clients : d # c => req'[d] = req[d]
    BY <1>1
  <2> QED
    BY <1>2, <2>1 DEF OnePlanner
<1> QED
  BY <1>3, <1>4, <1>5 DEF ChargeInv

-----------------------------------------------------------------------------
(* Reading steps                                                           *)

LEMMA ReadingSteps ==
  ASSUME ChargeInv, PinInv, NEW c \in Clients, Request(c)
  PROVE  ChargeInv'
<1>0. DOMAIN req = Clients
  BY DEF PinInv, PaidInv, ReqDomain
<1>1. ASSUME NEW r, Begin(c, r.pc, r),
             r.pc \in {"buy", "payBill"} \/ (r.pc \in {"split", "schedule"} /\ plan = None /\ ~Planning),
             UNCHANGED <<txs, nextTx, plan, rows, overlapped>>
      PROVE  ChargeInv'
  <2>1. req' = [req EXCEPT ![c] = r] /\ req'[c] = r
    BY <1>0, <1>1 DEF Begin
  <2>2. Holding(c)' = {}
    BY <1>1, <2>1 DEF Holding
  <2>3. Carries(c)' /\ Stands(c)'
    BY <1>1, <2>1, <2>2 DEF Carries, Stands
  <2>4. Overlaps(c, {}) \subseteq overlapped'
    BY <1>1 DEF Overlaps
  <2> QED
    BY <1>0, <1>1, <2>1, <2>2, <2>3, <2>4, Reads
<1>2. ASSUME NEW p \in Months, Split(c, p)
      PROVE  ChargeInv'
  BY <1>1, <1>2 DEF Split
<1>3. ASSUME NEW p \in Months, Schedule(c, p)
      PROVE  ChargeInv'
  BY <1>1, <1>3 DEF Schedule
<1>4. ASSUME NEW p \in Months, NEW a \in Prices, Buy(c, a, p)
      PROVE  ChargeInv'
  BY <1>1, <1>4 DEF Buy
<1>5. ASSUME NEW p \in Months, NEW a \in Payments, PayBill(c, p, a)
      PROVE  ChargeInv'
  BY <1>1, <1>5 DEF PayBill
<1>6. ASSUME Generate(c)
      PROVE  ChargeInv'
  <2> DEFINE due == {n \in Parts : Pending(n)}
             r == [pc |-> "generate", left |-> due]
  <2>1. req' = [req EXCEPT ![c] = r] /\ plan # None /\ overlapped' = Overlaps(c, due)
        /\ UNCHANGED <<txs, nextTx, plan, rows>>
    BY <1>6 DEF Generate, Begin
  <2>2. req'[c] = r
    BY <1>0, <2>1
  <2>3. \A n \in due : rows[n] # None
    BY DEF Pending
  <2>4. Holding(c)' = due
    BY <2>2 DEF Holding
  <2>5. Carries(c)' /\ Stands(c)'
    BY <2>1, <2>2, <2>3, <2>4 DEF Carries, Stands
  <2>6. overlapped \subseteq overlapped'
    BY <2>1 DEF Overlaps
  <2>7. r.pc \notin {"split", "schedule"}
    OBVIOUS
  <2> HIDE DEF r, due
  <2> QED
    BY <1>0, <2>1, <2>4, <2>5, <2>6, <2>7, Reads
<1>7. ASSUME NEW n \in Parts, PayPart(c, n)
      PROVE  ChargeInv'
  <2> DEFINE r == [pc |-> "payPart", n |-> n, tx |-> rows[n].tx]
  <2>1. req' = [req EXCEPT ![c] = r] /\ rows[n] # None /\ overlapped' = Overlaps(c, {n})
        /\ UNCHANGED <<txs, nextTx, plan, rows>>
    BY <1>7 DEF PayPart, Begin
  <2>2. req'[c] = r
    BY <1>0, <2>1
  <2>3. plan # None /\ rows[n].tx \in Links
    BY <2>1 DEF ChargeInv, Books
  <2>4. Holding(c)' = {n}
    BY <2>2 DEF Holding
  <2>5. Links' = Links
    BY <2>1 DEF Links, Used
  <2>6. Carries(c)' /\ Stands(c)'
    BY <2>1, <2>2, <2>3, <2>4, <2>5 DEF Carries, Stands
  <2>7. overlapped \subseteq overlapped'
    BY <2>1 DEF Overlaps
  <2>8. r.pc \notin {"split", "schedule"}
    OBVIOUS
  <2> HIDE DEF r
  <2> QED
    BY <1>0, <2>1, <2>4, <2>6, <2>7, <2>8, Reads
<1>8. ASSUME NEW S \in (SUBSET Parts) \ {{}}, NEW d \in Discounts, Anticipate(c, S, d)
      PROVE  ChargeInv'
  <2> DEFINE picked == [n \in S |-> [tx |-> rows[n].tx, amount |-> PartNow(n)]]
             gross == MapThenSumSet(PartNow, S)
             r == [pc |-> "anticipate", month |-> today, gross |-> gross, net |-> gross - d,
                   picked |-> picked]
  <2>1. req' = [req EXCEPT ![c] = r] /\ overlapped' = Overlaps(c, S)
        /\ UNCHANGED <<txs, nextTx, plan, rows, today>>
    BY <1>8 DEF Anticipate, Begin
  <2>2. req'[c] = r
    BY <1>0, <2>1
  <2>3. \A n \in S : rows[n] # None /\ n \in Parts
    BY <1>8 DEF Anticipate, Anticipable
  <2>4. plan # None /\ \A n \in S : rows[n].tx \in Links
    BY <2>3 DEF ChargeInv, Books
  <2>5. today \in Months
    BY CardBillsAssumption DEF PinInv, TodayBound, Months
  <2>6. DOMAIN picked = S /\ \A n \in S : picked[n].tx = rows[n].tx
    OBVIOUS
  <2>7. r.pc = "anticipate" /\ r.month = today /\ r.picked = picked
    OBVIOUS
  <2> HIDE DEF r, picked, gross
  <2>8. Holding(c)' = S
    BY <2>2, <2>6, <2>7 DEF Holding
  <2>9. Links' = Links
    BY <2>1 DEF Links, Used
  <2>10. Carries(c)'
    BY <2>1, <2>2, <2>3, <2>4, <2>5, <2>6, <2>7, <2>9 DEF Carries
  <2>11. Stands(c)'
    BY <2>1, <2>2, <2>3, <2>6, <2>7, <2>8 DEF Stands
  <2>12. overlapped \subseteq overlapped'
    BY <2>1 DEF Overlaps
  <2> QED
    BY <1>0, <2>1, <2>7, <2>8, <2>10, <2>11, <2>12, Reads
<1>9. ASSUME NEW t \in TxIds, Delete(c, t)
      PROVE  ChargeInv'
  <2> DEFINE r == [pc |-> "delete", tx |-> t]
             S == {n \in Parts : rows[n] # None /\ rows[n].tx = t}
  <2>1. req' = [req EXCEPT ![c] = r] /\ txs[t] # None /\ overlapped' = Overlaps(c, S)
        /\ UNCHANGED <<txs, nextTx, plan, rows>>
    BY <1>9 DEF Delete, Begin
  <2>2. req'[c] = r
    BY <1>0, <2>1
  <2>3. t \in Used
    BY <2>1 DEF ChargeInv, Books
  <2>4. Holding(c)' = S
    BY <2>1, <2>2 DEF Holding
  <2>5. Used' = Used
    BY <2>1 DEF Used
  <2>6. Carries(c)' /\ Stands(c)'
    BY <2>2, <2>3, <2>5 DEF Carries, Stands
  <2>7. overlapped \subseteq overlapped'
    BY <2>1 DEF Overlaps
  <2>8. r.pc \notin {"split", "schedule"}
    OBVIOUS
  <2> HIDE DEF r, S
  <2> QED
    BY <1>0, <2>1, <2>4, <2>6, <2>7, <2>8, Reads
<1> QED
  BY <1>2, <1>3, <1>4, <1>5, <1>6, <1>7, <1>8, <1>9 DEF Request

-----------------------------------------------------------------------------
(* Commits                                                                 *)

\* A request that ends has nothing in hand.
LEMMA Finishes ==
  ASSUME ChargeInv, PinInv, NEW c \in Clients, Finish(c), UNCHANGED overlapped,
         Used \subseteq Used',
         plan' = plan \/ (req[c].pc \in {"split", "schedule"} /\ plan' # None),
         \/ plan = None
         \/ \A n \in Parts \ overlapped : n \in Holding(c) \/ rows'[n] = rows[n],
         \A n \in Parts \ overlapped :
           rows'[n] # None /\ rows'[n].tx \in Used => rows[n] # None /\ rows'[n].tx = rows[n].tx,
         Books', ChargedOnce'
  PROVE  ChargeInv'
<1>1. req' = [req EXCEPT ![c] = Idle] /\ Idle.pc = "idle"
  BY DEF Finish, Proceed, Idle
<1>2. req'[c].pc = "idle"
  BY <1>1 DEF PinInv, PaidInv, ReqDomain
<1>3. Holding(c)' = {} /\ Carries(c)'
  BY <1>2 DEF Holding, Carries
<1>4. Stands(c)'
  BY <1>3 DEF Stands
<1> QED
  BY <1>1, <1>3, <1>4, Commits

\* A step that leaves the books alone.
LEMMA NothingWritten ==
  ASSUME ChargeInv, PinInv, NEW c \in Clients, Finish(c),
         UNCHANGED <<txs, nextTx, plan, rows, overlapped>>
  PROVE  ChargeInv'
<1>1. Used' = Used /\ Links' = Links
  BY DEF Used, Links
<1>2. Books' /\ ChargedOnce'
  BY <1>1 DEF ChargeInv, Books, ChargedOnce
<1> QED
  BY <1>1, <1>2, Finishes

\* The next id is not used yet, and is afterwards.
LEMMA NextIsFresh ==
  ASSUME Books, nextTx <= MaxTx, nextTx' = nextTx + 1
  PROVE  /\ nextTx \in TxIds /\ nextTx \notin Used /\ nextTx \in Used'
         /\ Used \subseteq Used' /\ Links \subseteq Links'
         /\ nextTx' \in Nat \ {0} /\ txs[nextTx] = None
BY CardBillsAssumption DEF Books, Used, Links, TxIds

LEMMA BuyKeepsCharges ==
  ASSUME ChargeInv, PinInv, NEW c \in Clients, BuyCommit(c)
  PROVE  ChargeInv'
<1>1. Books /\ ChargedOnce /\ DOMAIN txs = TxIds
  BY DEF ChargeInv, PinInv
<1> DEFINE x == Charge(req[c].amount, req[c].month, req[c].pin, None)
<1>2. /\ nextTx <= MaxTx /\ nextTx' = nextTx + 1
      /\ txs' = [txs EXCEPT ![nextTx] = x] /\ x.part = None
      /\ Finish(c) /\ UNCHANGED <<plan, rows, overlapped>>
  BY DEF BuyCommit, Charge
<1> HIDE DEF x
<1>3. \A t \in TxIds : txs'[t] = txs[t] \/ (t = nextTx /\ txs'[t] = x)
  BY <1>1, <1>2
<1>4. Books'
  BY <1>1, <1>2, <1>3, NextIsFresh DEF Books
<1>5. ChargedOnce'
  BY <1>1, <1>2, <1>3 DEF ChargedOnce
<1> QED
  BY <1>1, <1>2, <1>4, <1>5, NextIsFresh, Finishes

LEMMA ScheduleKeepsCharges ==
  ASSUME ChargeInv, PinInv, NEW c \in Clients, ScheduleCommit(c)
  PROVE  ChargeInv'
<1> DEFINE row(n) == [due |-> req[c].pin + n - 1, tx |-> None,
                      status |-> "pending", anticipated |-> None]
<1>1. /\ req[c].pc = "schedule" /\ plan' = [amount |-> RoundNumeric(Total, Count), start |-> req[c].pin]
      /\ rows' = [n \in Parts |-> row(n)]
      /\ Finish(c) /\ UNCHANGED <<txs, nextTx, overlapped>>
  BY DEF ScheduleCommit
<1>2. plan = None /\ Books /\ ChargedOnce
  BY <1>1 DEF ChargeInv, Carries
<1>3. ASSUME NEW n \in Parts
      PROVE  row(n) \in Row /\ row(n) # None /\ row(n).tx = None
  <2>1. req[c].pin + n - 1 \in Months
    BY <1>1, RoomForParts DEF PinInv, ReadPinHasRoom
  <2>2. row(n) \in Row
    BY <2>1 DEF Row
  <2> QED
    BY <2>2, NoneApart
<1>4. Used' = Used /\ Links' = Links
  BY <1>1 DEF Used, Links
<1>5. \A t \in TxIds : txs[t] # None => txs[t].part = None
  BY <1>2 DEF Books
<1>6. plan' # None
  <2>1. RoundNumeric(Total, Count) \in Int
    BY CardBillsAssumption DEF RoundNumeric
  <2>2. req[c].pin \in Int
    BY <1>1, CardBillsAssumption DEF PinInv, ReadPinHasRoom, Room, Months
  <2>3. plan' \in Plan
    BY <1>1, <2>1, <2>2 DEF Plan
  <2> QED
    BY <2>3, CardBillsAssumption
<1> HIDE DEF row
<1>7. \A n \in Parts : rows'[n] \in Row /\ rows'[n] # None /\ rows'[n].tx = None
  BY <1>1, <1>3
<1>8. rows' \in [Parts -> Row \cup {None}]
  BY <1>1, <1>3
<1>9. Books'
  BY <1>1, <1>2, <1>4, <1>6, <1>7, <1>8 DEF Books, Links
<1>10. ChargedOnce'
  BY <1>1, <1>5 DEF ChargedOnce
<1>11. None \notin Used
  BY NoneApart DEF Used, TxIds
<1> QED
  BY <1>1, <1>2, <1>4, <1>6, <1>7, <1>9, <1>10, <1>11, Finishes

\* All the parts at once: each row names the charge made with it.
LEMMA SplitKeepsCharges ==
  ASSUME ChargeInv, PinInv, NEW c \in Clients, SplitCommit(c)
  PROVE  ChargeInv'
<1> DEFINE pin == req[c].pin
           part(t) == t - nextTx + 1
           month(n) == IF n = 1 THEN req[c].month ELSE pin + n - 1
           x(t) == Charge(PartAmount(part(t)), month(part(t)), pin + part(t) - 1, part(t))
           row(n) == [due |-> pin + n - 1, tx |-> nextTx + n - 1,
                      status |-> "generated", anticipated |-> None]
<1>1. /\ req[c].pc = "split" /\ nextTx + Count - 1 <= MaxTx /\ nextTx' = nextTx + Count
      /\ txs' = [t \in TxIds |-> IF part(t) \in Parts THEN x(t) ELSE txs[t]]
      /\ rows' = [n \in Parts |-> row(n)]
      /\ plan' = [amount |-> PerPart, start |-> pin]
      /\ Finish(c) /\ UNCHANGED overlapped
  BY DEF SplitCommit
<1>2. plan = None /\ Books /\ nextTx \in Nat \ {0} /\ Count \in Nat \ {0} /\ MaxTx \in Nat
  BY <1>1, CardBillsAssumption DEF ChargeInv, Carries, Books
<1>3. ASSUME NEW n \in Parts
      PROVE  /\ nextTx + n - 1 \in TxIds /\ nextTx + n - 1 < nextTx' /\ nextTx + n - 1 >= nextTx
             /\ row(n) \in Row /\ row(n) # None /\ row(n).tx = nextTx + n - 1
  <2>1. pin + n - 1 \in Months
    BY <1>1, RoomForParts DEF PinInv, ReadPinHasRoom
  <2>2. /\ nextTx + n - 1 \in TxIds /\ nextTx + n - 1 < nextTx' /\ nextTx + n - 1 >= nextTx
    BY <1>1, <1>2 DEF Parts, TxIds
  <2>3. row(n) \in Row
    BY <2>1, <2>2 DEF Row
  <2> QED
    BY <2>2, <2>3, NoneApart
<1>4. nextTx' \in Nat \ {0} /\ Used \subseteq Used' /\ Links \subseteq Links'
  BY <1>1, <1>2 DEF Used, Links, TxIds
<1>5. \A t \in TxIds : x(t).part = part(t)
  BY DEF Charge
<1>6. plan' # None
  <2>1. PerPart \in Int
    BY CardBillsAssumption DEF PerPart, RoundEven
  <2>2. pin \in Int
    BY <1>1, CardBillsAssumption DEF PinInv, ReadPinHasRoom, Room, Months
  <2>3. plan' \in Plan
    BY <1>1, <2>1, <2>2 DEF Plan
  <2> QED
    BY <2>3, CardBillsAssumption
<1> HIDE DEF row, x
<1>7. \A n \in Parts : /\ rows'[n] \in Row /\ rows'[n] # None
                       /\ rows'[n].tx = nextTx + n - 1
                       /\ rows'[n].tx \in Used' /\ rows'[n].tx \notin Used
  <2> SUFFICES ASSUME NEW n \in Parts
      PROVE  /\ rows'[n] \in Row /\ rows'[n] # None
             /\ rows'[n].tx = nextTx + n - 1
             /\ rows'[n].tx \in Used' /\ rows'[n].tx \notin Used
    OBVIOUS
  <2>1. rows'[n] = row(n)
    BY <1>1
  <2>2. /\ row(n) \in Row /\ row(n) # None /\ row(n).tx = nextTx + n - 1
    BY <1>3
  <2>3. nextTx + n - 1 \in Used' /\ nextTx + n - 1 \notin Used
    <3>1. /\ nextTx + n - 1 \in TxIds /\ nextTx + n - 1 < nextTx' /\ nextTx + n - 1 >= nextTx
      BY <1>3
    <3> QED
      BY <1>2, <3>1 DEF Used, TxIds
  <2> QED
    BY <2>1, <2>2, <2>3
<1>8. rows' \in [Parts -> Row \cup {None}]
  BY <1>1, <1>3
<1>9. ASSUME NEW t \in TxIds, txs'[t] # None
      PROVE  \/ part(t) \in Parts /\ txs'[t].part = part(t) /\ t \in Used' /\ rows'[part(t)].tx = t
             \/ t \in Used /\ txs'[t].part = None
  <2>1. CASE part(t) \in Parts
    <3>1. rows'[part(t)].tx = nextTx + part(t) - 1 /\ rows'[part(t)].tx \in Used'
      BY <2>1, <1>7
    <3>2. nextTx + part(t) - 1 = t
      BY <1>2 DEF TxIds
    <3> QED
      BY <1>1, <1>5, <2>1, <3>1, <3>2
  <2>2. CASE part(t) \notin Parts
    BY <1>1, <1>2, <1>9, <2>2 DEF Books
  <2> QED
    BY <2>1, <2>2
<1>10. Books'
  <2>1. \A n \in Parts : rows'[n] # None => rows'[n].tx \in Links'
    BY <1>7 DEF Links
  <2>2. \A t \in TxIds : txs'[t] # None => t \in Used' /\ txs'[t].part \in Parts \cup {None}
    BY <1>4, <1>9
  <2> QED
    BY <1>4, <1>6, <1>8, <2>1, <2>2 DEF Books
<1>11. ChargedOnce'
  BY <1>7, <1>9 DEF ChargedOnce
<1> QED
  BY <1>1, <1>2, <1>4, <1>6, <1>7, <1>10, <1>11, Finishes

\* A request that generates goes on to the next installment it has in hand.
LEMMA GoesOn ==
  ASSUME ChargeInv, NEW c \in Clients, NEW n, NEW r,
         req[c].pc \in {"generate", "create"}, UNCHANGED overlapped,
         req'[c] = r, r = After(n, req[c].left),
         \A m \in req[c].left : m # n => rows'[m] = rows[m]
  PROVE  /\ Holding(c)' \subseteq Holding(c) /\ Carries(c)' /\ Stands(c)'
         /\ r.pc \notin {"split", "schedule"}
<1>1. req'[c] = r /\ Holding(c) = req[c].left
  BY DEF Holding
<1>2. \/ r.pc = "idle"
      \/ r.pc = "generate" /\ r.left = req[c].left \ {n}
  BY DEF After, Idle
<1>3. \A m \in Holding(c) \ overlapped : rows[m] # None
  BY DEF ChargeInv, Stands
<1>4. CASE r.pc = "idle"
  <2>1. Holding(c)' = {} /\ Carries(c)'
    BY <1>1, <1>4 DEF Holding, Carries
  <2> QED
    BY <1>4, <2>1 DEF Stands
<1>5. CASE r.pc = "generate" /\ r.left = req[c].left \ {n}
  <2>1. Holding(c)' = req[c].left \ {n} /\ Carries(c)'
    BY <1>1, <1>5 DEF Holding, Carries
  <2>2. Stands(c)'
    BY <1>1, <1>3, <1>5, <2>1 DEF Stands
  <2> QED
    BY <1>1, <1>5, <2>1, <2>2
<1> QED
  BY <1>2, <1>4, <1>5

LEMMA CheckKeepsCharges ==
  ASSUME ChargeInv, PinInv, NEW c \in Clients, GenerateCheck(c)
  PROVE  ChargeInv'
<1>1. /\ req[c].pc = "generate" /\ DOMAIN req = Clients /\ req[c].left \subseteq Parts
      /\ UNCHANGED <<txs, nextTx, plan, rows, overlapped>>
  BY DEF GenerateCheck, PinInv, PaidInv, ReqDomain, GenerationHasPlan
<1>2. PICK n \in req[c].left :
        /\ First(n, req[c].left)
        /\ Proceed(c, IF rows[n] = None \/ rows[n].tx = None
                        THEN [pc |-> "create", left |-> req[c].left]
                        ELSE After(n, req[c].left))
  BY DEF GenerateCheck
<1>3. Used' = Used /\ Links' = Links
  BY <1>1 DEF Used, Links
<1>4. Books' /\ ChargedOnce'
  BY <1>1, <1>3 DEF ChargeInv, Books, ChargedOnce
<1>5. CASE rows[n] = None \/ rows[n].tx = None
  <2> DEFINE r == [pc |-> "create", left |-> req[c].left]
  <2>1. req' = [req EXCEPT ![c] = r] /\ r.pc = "create" /\ r.left = req[c].left
    BY <1>2, <1>5 DEF Proceed
  <2> HIDE DEF r
  <2>2. req'[c] = r
    BY <1>1, <2>1
  <2>3. Holding(c)' = req[c].left /\ Holding(c) = req[c].left
    BY <1>1, <2>1, <2>2 DEF Holding
  <2>4. \A m \in req[c].left \ overlapped : rows[m] # None
    BY <1>1, <2>3 DEF ChargeInv, Stands
  <2>5. \A m \in req[c].left : First(m, req[c].left) => m = n
    BY <1>1, <1>2 DEF First, Parts
  <2>6. Carries(c)' /\ Stands(c)'
    BY <1>1, <1>5, <2>1, <2>2, <2>3, <2>4, <2>5 DEF Carries, Stands
  <2> QED
    BY <1>1, <1>3, <1>4, <2>1, <2>3, <2>6, Commits
<1>6. CASE ~(rows[n] = None \/ rows[n].tx = None)
  <2> DEFINE r == After(n, req[c].left)
  <2>1. req' = [req EXCEPT ![c] = r] /\ r = After(n, req[c].left)
    BY <1>2, <1>6 DEF Proceed
  <2> HIDE DEF r
  <2>2. /\ Holding(c)' \subseteq Holding(c) /\ Carries(c)' /\ Stands(c)'
        /\ r.pc \notin {"split", "schedule"}
    <3>1. req'[c] = r /\ overlapped' = overlapped /\ rows' = rows
      BY <1>1, <2>1
    <3>2. \A m \in req[c].left : m # n => rows'[m] = rows[m]
      BY <3>1
    <3> QED
      BY <1>1, <2>1, <3>1, <3>2, GoesOn
  <2> QED
    BY <1>1, <1>3, <1>4, <2>1, <2>2, Commits
<1> QED
  BY <1>5, <1>6

\* One charge and its row in one database transaction: no other charge for the
\* installment is lost sight of, unless the installment was already shared.
LEMMA ChargeAndRow ==
  ASSUME ChargeInv, PinInv, NEW n \in Parts, NEW x, x.part = n,
         NEW s \in {"pending", "generated", "paid"},
         plan # None, nextTx <= MaxTx, nextTx' = nextTx + 1,
         txs' = [txs EXCEPT ![nextTx] = x], rows' = Linked(n, nextTx, s),
         UNCHANGED <<plan, overlapped>>,
         n \notin overlapped =>
           /\ rows[n] # None
           /\ \A t \in TxIds : txs[t] # None /\ txs[t].part = n => rows[n].tx # t
  PROVE  /\ Books' /\ ChargedOnce' /\ Used \subseteq Used'
         /\ \A m \in Parts : m # n => rows'[m] = rows[m]
         /\ \A m \in Parts \ overlapped :
              rows'[m] # None /\ rows'[m].tx \in Used =>
                rows[m] # None /\ rows'[m].tx = rows[m].tx
<1>1. Books /\ ChargedOnce /\ DOMAIN txs = TxIds
  BY DEF ChargeInv, PinInv
<1>2. /\ nextTx \in TxIds /\ nextTx \notin Used /\ nextTx \in Used'
      /\ Used \subseteq Used' /\ Links \subseteq Links' /\ nextTx' \in Nat \ {0}
  BY <1>1, NextIsFresh
<1>3. /\ rows' \in [Parts -> Row \cup {None}]
      /\ \A m \in Parts : m # n => rows'[m] = rows[m]
      /\ rows[n] = None => rows'[n] = None
      /\ rows[n] # None => rows'[n] # None /\ rows'[n].tx = nextTx
  BY <1>1, <1>2, LinkedRow
<1>4. txs'[nextTx] = x /\ \A t \in TxIds : t # nextTx => txs'[t] = txs[t]
  BY <1>1, <1>2
<1>5. Books'
  <2>1. \A m \in Parts : rows'[m] # None => rows'[m].tx \in Links'
    BY <1>1, <1>2, <1>3 DEF Books, Links
  <2>2. \A t \in TxIds : txs'[t] # None => t \in Used' /\ txs'[t].part \in Parts \cup {None}
    BY <1>1, <1>2, <1>4 DEF Books
  <2> QED
    BY <1>2, <1>3, <2>1, <2>2 DEF Books
<1>6. ChargedOnce'
  <2> SUFFICES ASSUME NEW t \in TxIds, txs'[t] # None, txs'[t].part # None,
                      txs'[t].part \notin overlapped
               PROVE  rows'[txs'[t].part] # None /\ rows'[txs'[t].part].tx = t
    BY DEF ChargedOnce
  <2>1. CASE t = nextTx
    BY <1>3, <1>4, <2>1
  <2>2. CASE t # nextTx
    <3>1. txs'[t] = txs[t] /\ txs[t].part \in Parts
      BY <1>1, <1>4, <2>2 DEF Books
    <3>2. rows[txs[t].part] # None /\ rows[txs[t].part].tx = t
      BY <1>1, <3>1 DEF ChargedOnce
    <3>3. txs[t].part # n
      BY <3>1, <3>2
    <3> QED
      BY <1>3, <3>1, <3>2, <3>3
  <2> QED
    BY <2>1, <2>2
<1> QED
  BY <1>2, <1>3, <1>5, <1>6

LEMMA CreateKeepsCharges ==
  ASSUME ChargeInv, PinInv, NEW c \in Clients, GenerateCreate(c)
  PROVE  ChargeInv'
<1>1. /\ req[c].pc = "create" /\ DOMAIN req = Clients
      /\ plan # None /\ req[c].left \subseteq Parts
      /\ nextTx <= MaxTx /\ nextTx' = nextTx + 1 /\ UNCHANGED <<plan, overlapped>>
  BY DEF GenerateCreate, PinInv, PaidInv, ReqDomain, GenerationHasPlan
<1>2. PICK n \in req[c].left :
        /\ First(n, req[c].left)
        /\ txs' = [txs EXCEPT ![nextTx] =
                     Charge(plan.amount, plan.start + n - 1, plan.start + n - 1, n)]
        /\ rows' = Linked(n, nextTx, "generated")
        /\ Proceed(c, After(n, req[c].left))
  BY DEF GenerateCreate
<1> DEFINE x == Charge(plan.amount, plan.start + n - 1, plan.start + n - 1, n)
           r == After(n, req[c].left)
<1>3. n \in Parts /\ x.part = n /\ Holding(c) = req[c].left
  BY <1>1 DEF Charge, Holding
<1>4. n \notin overlapped => rows[n] # None /\ rows[n].tx = None
  BY <1>1, <1>2, <1>3 DEF ChargeInv, Stands
<1>5. \A t \in TxIds : t # None
  BY NoneApart DEF TxIds
<1> HIDE DEF x, r
<1>6. txs' = [txs EXCEPT ![nextTx] = x]
  BY <1>2 DEF x
<1>7. /\ Books' /\ ChargedOnce' /\ Used \subseteq Used'
      /\ \A m \in Parts : m # n => rows'[m] = rows[m]
      /\ \A m \in Parts \ overlapped :
           rows'[m] # None /\ rows'[m].tx \in Used =>
             rows[m] # None /\ rows'[m].tx = rows[m].tx
  <2>1. n \notin overlapped =>
          rows[n] # None /\ \A t \in TxIds : txs[t] # None /\ txs[t].part = n => rows[n].tx # t
    BY <1>4, <1>5
  <2>2. rows' = Linked(n, nextTx, "generated") /\ x.part = n /\ n \in Parts
    BY <1>2, <1>3
  <2> QED
    BY <1>1, <1>6, <2>1, <2>2, ChargeAndRow
<1>8. req' = [req EXCEPT ![c] = r] /\ r = After(n, req[c].left)
  BY <1>2 DEF Proceed, r
<1>9. /\ Holding(c)' \subseteq Holding(c) /\ Carries(c)' /\ Stands(c)'
      /\ r.pc \notin {"split", "schedule"}
  <2>1. \A m \in req[c].left : m # n => rows'[m] = rows[m]
    BY <1>1, <1>7
  <2>2. req'[c] = r /\ overlapped' = overlapped
    BY <1>1, <1>8
  <2> QED
    BY <1>1, <1>8, <2>1, <2>2, GoesOn
<1>10. \A m \in Parts \ overlapped : m \in Holding(c) \/ rows'[m] = rows[m]
  BY <1>3, <1>7
<1> QED
  BY <1>1, <1>7, <1>8, <1>9, <1>10, Commits

LEMMA PayPartKeepsCharges ==
  ASSUME ChargeInv, PinInv, NEW c \in Clients, PayPartCommit(c)
  PROVE  ChargeInv'
<1> DEFINE n == req[c].n
           linked == req[c].tx
<1>1. /\ req[c].pc = "payPart" /\ Finish(c) /\ UNCHANGED <<plan, overlapped>>
      /\ Books /\ ChargedOnce
  BY DEF PayPartCommit, ChargeInv
<1>2. plan # None /\ n \in Parts /\ linked \in Links /\ Holding(c) = {n}
  BY <1>1 DEF ChargeInv, Carries, Holding
<1>3. n \notin overlapped => rows[n] # None /\ rows[n].tx = linked
  BY <1>1, <1>2 DEF ChargeInv, Stands
<1>4. CASE linked # None /\ txs[linked] # None
  <2>1. rows' = Linked(n, linked, "paid") /\ UNCHANGED <<txs, nextTx>>
    BY <1>4 DEF PayPartCommit
  <2>2. linked \in TxIds /\ linked \in Used
    BY <1>2, <1>4 DEF Links, Used
  <2>3. Used' = Used /\ Links' = Links
    BY <2>1 DEF Used, Links
  <2> HIDE DEF n, linked
  <2>4. /\ rows' \in [Parts -> Row \cup {None}]
        /\ \A m \in Parts : m # n => rows'[m] = rows[m]
        /\ rows[n] = None => rows'[n] = None
        /\ rows[n] # None => rows'[n] # None /\ rows'[n].tx = linked
    BY <1>1, <1>2, <2>1, <2>2, LinkedRow
  <2>5. Books'
    BY <1>1, <1>2, <2>1, <2>2, <2>3, <2>4 DEF Books, Links
  <2>6. ChargedOnce'
    <3> SUFFICES ASSUME NEW t \in TxIds, txs[t] # None, txs[t].part # None,
                        txs[t].part \notin overlapped
                 PROVE  rows'[txs[t].part] # None /\ rows'[txs[t].part].tx = t
      BY <1>1, <2>1 DEF ChargedOnce
    <3>1. txs[t].part \in Parts
      BY <1>1 DEF Books
    <3>2. rows[txs[t].part] # None /\ rows[txs[t].part].tx = t
      BY <1>1 DEF ChargedOnce
    <3> QED
      BY <1>3, <2>4, <3>1, <3>2
  <2>7. \A m \in Parts \ overlapped :
          /\ m \in Holding(c) \/ rows'[m] = rows[m]
          /\ rows'[m] # None => rows[m] # None /\ rows'[m].tx = rows[m].tx
    BY <1>2, <1>3, <2>4
  <2> QED
    BY <1>1, <2>3, <2>5, <2>6, <2>7, Finishes
<1>5. CASE ~(linked # None /\ txs[linked] # None)
  <2> DEFINE x == Charge(plan.amount, plan.start + n - 1, None, n)
  <2>1. /\ nextTx <= MaxTx /\ nextTx' = nextTx + 1
        /\ txs' = [txs EXCEPT ![nextTx] = x] /\ rows' = Linked(n, nextTx, "paid")
    BY <1>5 DEF PayPartCommit
  <2>2. x.part = n
    BY DEF Charge
  <2>3. \A t \in TxIds : txs[t] # None => t # linked
    BY <1>5, NoneApart DEF TxIds
  <2> HIDE DEF n, linked, x
  <2>4. /\ Books' /\ ChargedOnce' /\ Used \subseteq Used'
        /\ \A m \in Parts : m # n => rows'[m] = rows[m]
        /\ \A m \in Parts \ overlapped :
             rows'[m] # None /\ rows'[m].tx \in Used =>
               rows[m] # None /\ rows'[m].tx = rows[m].tx
    BY <1>1, <1>2, <1>3, <2>1, <2>2, <2>3, ChargeAndRow
  <2> QED
    BY <1>1, <1>2, <2>4, Finishes
<1> QED
  BY <1>4, <1>5

LEMMA DeleteKeepsCharges ==
  ASSUME ChargeInv, PinInv, NEW c \in Clients, DeleteCommit(c)
  PROVE  ChargeInv'
<1> DEFINE t == req[c].tx
<1>1. /\ req[c].pc = "delete" /\ Finish(c) /\ UNCHANGED <<nextTx, plan, overlapped>>
      /\ Books /\ ChargedOnce /\ DOMAIN txs = TxIds
  BY DEF DeleteCommit, ChargeInv, PinInv
<1>2. CASE UNCHANGED <<txs, rows>>
  BY <1>1, <1>2, NothingWritten
<1>3. CASE txs' = [txs EXCEPT ![t] = None] /\ rows' = RowsWithout(t)
  <2>1. Used' = Used /\ Links' = Links
    BY <1>1 DEF Used, Links
  <2>2. Holding(c) = {n \in Parts : rows[n] # None /\ rows[n].tx = t}
    BY <1>1 DEF Holding
  <2> HIDE DEF t
  <2>3. \A n \in Parts : IF rows[n] # None /\ rows[n].tx = t THEN rows'[n] = None
                                                             ELSE rows'[n] = rows[n]
    BY <1>3 DEF RowsWithout
  <2>4. rows' \in [Parts -> Row \cup {None}]
    BY <1>1, <1>3 DEF RowsWithout, Books
  <2>5. \A u \in TxIds : txs'[u] # None => u # t /\ txs'[u] = txs[u]
    BY <1>1, <1>3
  <2>6. Books'
    <3>1. \A n \in Parts : rows'[n] # None => rows'[n].tx \in Links'
      BY <1>1, <2>1, <2>3 DEF Books
    <3>2. \A u \in TxIds : txs'[u] # None => u \in Used' /\ txs'[u].part \in Parts \cup {None}
      BY <1>1, <2>1, <2>5 DEF Books
    <3>3. plan' = None => /\ \A n \in Parts : rows'[n] = None
                          /\ \A u \in TxIds : txs'[u] # None => txs'[u].part = None
      BY <1>1, <2>3, <2>5 DEF Books
    <3>4. nextTx' \in Nat \ {0}
      BY <1>1 DEF Books
    <3> QED
      BY <2>4, <3>1, <3>2, <3>3, <3>4 DEF Books
  <2>7. ChargedOnce'
    <3> SUFFICES ASSUME NEW u \in TxIds, txs'[u] # None, txs'[u].part # None,
                        txs'[u].part \notin overlapped
                 PROVE  rows'[txs'[u].part] # None /\ rows'[txs'[u].part].tx = u
      BY <1>1 DEF ChargedOnce
    <3>1. u # t /\ txs'[u] = txs[u] /\ txs[u].part \in Parts
      BY <1>1, <2>5 DEF Books
    <3>2. rows[txs[u].part] # None /\ rows[txs[u].part].tx = u
      BY <1>1, <3>1 DEF ChargedOnce
    <3> QED
      BY <2>3, <3>1, <3>2
  <2>8. \A n \in Parts : /\ n \in Holding(c) \/ rows'[n] = rows[n]
                         /\ rows'[n] # None => rows[n] # None /\ rows'[n].tx = rows[n].tx
    BY <2>2, <2>3
  <2> QED
    BY <1>1, <2>1, <2>6, <2>7, <2>8, Finishes
<1> QED
  BY <1>2, <1>3 DEF DeleteCommit

\* The ids given to the parts without a transaction are new, and each exists
\* afterwards.
LEMMA NewIds ==
  ASSUME Books, NEW c \in Clients, Fresh(c) \subseteq Parts,
         nextTx + Cardinality(Fresh(c)) - 1 <= MaxTx,
         nextTx' = nextTx + Cardinality(Fresh(c))
  PROVE  /\ Used \subseteq Used' /\ Links \subseteq Links' /\ nextTx' \in Nat \ {0}
         /\ \A n \in Fresh(c) : /\ NewTx(c, n) \in TxIds /\ NewTx(c, n) \in Used'
                                /\ NewTx(c, n) \notin Used
<1> DEFINE F == Fresh(c)
           k == Cardinality(F)
<1>1. nextTx \in Nat \ {0} /\ MaxTx \in Nat /\ Count \in Nat
  BY CardBillsAssumption DEF Books
<1>2. IsFiniteSet(F) /\ k \in Nat
  <2>1. IsFiniteSet(Parts)
    BY <1>1, FS_Interval DEF Parts
  <2>2. IsFiniteSet(F)
    BY <2>1, FS_Subset
  <2> QED
    BY <2>2, FS_CardinalityType
<1>3. Used \subseteq Used' /\ Links \subseteq Links' /\ nextTx' \in Nat \ {0}
  BY <1>1, <1>2, UsedGrows
<1>4. ASSUME NEW n \in F
      PROVE  NewTx(c, n) \in TxIds /\ NewTx(c, n) \in Used' /\ NewTx(c, n) \notin Used
  <2> DEFINE before == {m \in F : m < n}
             j == Cardinality(before)
  <2>1. before \subseteq F /\ before # F
    BY <1>1 DEF Parts
  <2>2. IsFiniteSet(before) /\ j <= k /\ (j = k => before = F)
    BY <1>2, <2>1, FS_Subset
  <2>3. j \in Nat /\ j < k
    BY <1>2, <2>1, <2>2, FS_CardinalityType
  <2>4. NewTx(c, n) = nextTx + j
    BY DEF NewTx
  <2>5. nextTx + k - 1 <= MaxTx /\ nextTx' = nextTx + k
    OBVIOUS
  <2> HIDE DEF j, k
  <2> QED
    BY <1>1, <1>2, <2>3, <2>4, <2>5 DEF Used, TxIds
<1> QED
  BY <1>3, <1>4

LEMMA AnticipateKeepsCharges ==
  ASSUME ChargeInv, PinInv, NEW c \in Clients, AnticipateCommit(c)
  PROVE  ChargeInv'
<1> DEFINE S == DOMAIN req[c].picked
           F == Fresh(c)
           A(n) == AnticipatedTx(c, n)
           of(t) == {n \in S : A(n) = t}
           month == req[c].month
           row(n) == [rows[n] EXCEPT !.tx = A(n), !.anticipated = month]
<1>1. /\ req[c].pc = "anticipate" /\ Finish(c) /\ UNCHANGED <<plan, overlapped>>
      /\ Books /\ ChargedOnce
  BY DEF AnticipateCommit, ChargeInv
<1>2. /\ plan # None /\ S \subseteq Parts /\ month \in Months /\ Holding(c) = S
      /\ \A n \in S : req[c].picked[n].tx \in Links
  BY <1>1 DEF ChargeInv, Carries, Holding
<1>3. F \subseteq S /\ \A n \in S : n \in F <=> req[c].picked[n].tx = None
  BY DEF Fresh
<1>4. /\ Used \subseteq Used' /\ Links \subseteq Links' /\ nextTx' \in Nat \ {0}
      /\ \A n \in F : NewTx(c, n) \in TxIds /\ NewTx(c, n) \in Used' /\ NewTx(c, n) \notin Used
  BY <1>1, <1>2, <1>3, NewIds DEF AnticipateCommit
<1>5. /\ \A n \in F : A(n) \in TxIds /\ A(n) \in Used' /\ A(n) \notin Used
      /\ \A n \in S \ F : A(n) = req[c].picked[n].tx /\ A(n) \in Used /\ A(n) \in TxIds
  <2>1. \A n \in F : A(n) = NewTx(c, n)
    BY DEF AnticipatedTx
  <2>2. \A n \in S \ F : A(n) = req[c].picked[n].tx
    BY DEF AnticipatedTx
  <2> QED
    BY <1>2, <1>3, <1>4, <2>1, <2>2 DEF Links, Used
<1>6. \A n \in S : rows[n] # None /\ (n \notin F => txs[A(n)] # None)
  BY <1>5 DEF AnticipateCommit, Applies
<1>7. ASSUME NEW n \in S
      PROVE  rows'[n] \in Row /\ rows'[n] # None /\ rows'[n].tx = A(n)
  <2>1. rows[n] \in Row /\ n \in Parts
    BY <1>1, <1>2, <1>6 DEF Books
  <2>2. A(n) \in TxIds \cup {None}
    BY <1>5
  <2>3. rows'[n] = row(n)
    BY <2>1 DEF AnticipateCommit
  <2> HIDE DEF A
  <2>4. row(n) \in Row /\ row(n).tx = A(n)
    BY <1>2, <2>1, <2>2 DEF Row
  <2> QED
    BY <2>3, <2>4, NoneApart
<1>8. \A n \in Parts \ S : rows'[n] = rows[n]
  BY DEF AnticipateCommit
<1>9. rows' \in [Parts -> Row \cup {None}]
  <2>1. DOMAIN rows' = Parts /\ rows' = [n \in Parts |-> rows'[n]]
    BY DEF AnticipateCommit
  <2>2. \A n \in Parts : rows'[n] \in Row \cup {None}
    BY <1>1, <1>7, <1>8 DEF Books
  <2> QED
    BY <2>1, <2>2
<1>10. ASSUME NEW t \in TxIds, txs'[t] # None
       PROVE  \/ txs[t] # None /\ txs'[t].part = txs[t].part
              \/ \E n \in F : A(n) = t /\ txs'[t].part = n
  <2> DEFINE n == CHOOSE m \in of(t) : TRUE
  <2>1. txs'[t] = IF of(t) = {} THEN txs[t]
                  ELSE IF n \in F
                    THEN Charge(Discounted(c, n), month, None, n)
                    ELSE Charge(Discounted(c, n), month, txs[t].pin, txs[t].part)
    BY DEF AnticipateCommit
  <2>2. CASE of(t) = {}
    BY <1>10, <2>1, <2>2
  <2>3. CASE of(t) # {}
    <3>1. n \in S /\ A(n) = t
      BY <2>3
    <3>2. CASE n \in F
      BY <2>1, <2>3, <3>1, <3>2 DEF Charge
    <3>3. CASE n \notin F
      BY <1>6, <2>1, <2>3, <3>1, <3>3 DEF Charge
    <3> QED
      BY <3>2, <3>3
  <2> QED
    BY <2>2, <2>3
<1> HIDE DEF A, S, F, of, month, row
<1>11. Books'
  <2>1. \A n \in Parts : rows'[n] # None => rows'[n].tx \in Links'
    <3>1. \A n \in S : rows'[n].tx \in Links'
      BY <1>3, <1>4, <1>5, <1>7 DEF Links
    <3> QED
      BY <1>1, <1>4, <1>8, <3>1 DEF Books
  <2>2. \A t \in TxIds : txs'[t] # None => t \in Used' /\ txs'[t].part \in Parts \cup {None}
    <3> SUFFICES ASSUME NEW t \in TxIds, txs'[t] # None
                 PROVE  t \in Used' /\ txs'[t].part \in Parts \cup {None}
      OBVIOUS
    <3>1. CASE txs[t] # None /\ txs'[t].part = txs[t].part
      BY <1>1, <1>4, <3>1 DEF Books
    <3>2. CASE \E n \in F : A(n) = t /\ txs'[t].part = n
      BY <1>2, <1>3, <1>5, <3>2
    <3> QED
      BY <1>10, <3>1, <3>2
  <2>3. plan' # None
    BY <1>1, <1>2
  <2> QED
    BY <1>4, <1>9, <2>1, <2>2, <2>3 DEF Books
<1>12. \A n \in (S \ F) \ overlapped : rows[n].tx = A(n)
  <2>1. Stands(c)
    BY DEF ChargeInv
  <2> QED
    BY <1>1, <1>2, <1>5, <2>1 DEF Stands
<1>13. \A n \in F \ overlapped : rows[n].tx = None
  <2>1. Stands(c)
    BY DEF ChargeInv
  <2> QED
    BY <1>1, <1>2, <1>3, <2>1 DEF Stands
<1>14. ChargedOnce'
  <2> SUFFICES ASSUME NEW t \in TxIds, txs'[t] # None, txs'[t].part # None,
                      txs'[t].part \notin overlapped
               PROVE  rows'[txs'[t].part] # None /\ rows'[txs'[t].part].tx = t
    BY <1>1 DEF ChargedOnce
  <2>1. CASE \E n \in F : A(n) = t /\ txs'[t].part = n
    BY <1>3, <1>7, <2>1
  <2>2. CASE txs[t] # None /\ txs'[t].part = txs[t].part
    <3> DEFINE m == txs[t].part
    <3>1. m \in Parts /\ rows[m] # None /\ rows[m].tx = t
      BY <1>1, <2>2 DEF Books, ChargedOnce
    <3>2. t # None
      BY NoneApart DEF TxIds
    <3> HIDE DEF m
    <3>3. CASE m \notin S
      BY <1>8, <2>2, <3>1, <3>3 DEF m
    <3>4. CASE m \in S
      <4>1. m \notin overlapped
        BY <2>2 DEF m
      <4>2. m \notin F
        BY <1>13, <3>1, <3>2, <4>1
      <4>3. A(m) = t
        BY <1>12, <3>1, <3>4, <4>1, <4>2
      <4> QED
        BY <1>7, <2>2, <3>4, <4>3 DEF m
    <3> QED
      BY <3>3, <3>4
  <2> QED
    BY <1>10, <2>1, <2>2
<1>15. \A n \in Parts \ overlapped :
         /\ n \in Holding(c) \/ rows'[n] = rows[n]
         /\ rows'[n] # None /\ rows'[n].tx \in Used => rows[n] # None /\ rows'[n].tx = rows[n].tx
  BY <1>2, <1>5, <1>6, <1>7, <1>8, <1>12
<1> QED
  BY <1>1, <1>4, <1>11, <1>14, <1>15, Finishes

-----------------------------------------------------------------------------

LEMMA ChargeInit == Init => ChargeInv
<1> SUFFICES ASSUME Init PROVE ChargeInv
  OBVIOUS
<1>1. /\ nextTx = 1 /\ plan = None
      /\ \A t \in TxIds : txs[t] = None
      /\ rows = [n \in Parts |-> None]
      /\ \A c \in Clients : req[c].pc = "idle"
  BY DEF Init, Idle
<1>2. Books
  BY <1>1 DEF Books
<1>3. \A c \in Clients : Holding(c) = {}
  BY <1>1 DEF Holding
<1>4. \A c \in Clients : Carries(c) /\ Stands(c)
  BY <1>1, <1>3 DEF Carries, Stands
<1>5. OnePlanner
  BY <1>1 DEF OnePlanner
<1>6. Exclusive /\ ChargedOnce
  BY <1>1, <1>3 DEF Exclusive, ChargedOnce
<1> QED
  BY <1>2, <1>4, <1>5, <1>6 DEF ChargeInv

LEMMA CommitKeepsCharges ==
  ASSUME ChargeInv, PinInv, NEW c \in Clients, Commit(c)
  PROVE  ChargeInv'
<1>1. CASE AnticipateFails(c)
  BY <1>1, NothingWritten DEF AnticipateFails
<1>2. CASE PayBillCommit(c)
  BY <1>2, NothingWritten DEF PayBillCommit
<1> QED
  BY <1>1, <1>2, BuyKeepsCharges, SplitKeepsCharges, ScheduleKeepsCharges, CheckKeepsCharges,
     CreateKeepsCharges, PayPartKeepsCharges, AnticipateKeepsCharges, DeleteKeepsCharges
     DEF Commit

LEMMA ChargeStep == ChargeInv /\ PinInv /\ [Next]_vars => ChargeInv'
<1> SUFFICES ASSUME ChargeInv, PinInv, [Next]_vars PROVE ChargeInv'
  OBVIOUS
<1>1. ASSUME UNCHANGED <<txs, nextTx, plan, rows, req, overlapped>> PROVE ChargeInv'
  <2>1. Used' = Used /\ Links' = Links
    BY <1>1 DEF Used, Links
  <2>2. Books' /\ ChargedOnce'
    BY <1>1, <2>1 DEF ChargeInv, Books, ChargedOnce
  <2>3. \A c \in Clients : Holding(c)' = Holding(c)
    BY <1>1 DEF Holding
  <2>4. \A c \in Clients : Carries(c)' /\ Stands(c)'
    BY <1>1, <2>1, <2>3 DEF ChargeInv, Carries, Stands, First
  <2>5. OnePlanner' /\ Exclusive'
    BY <1>1, <2>3 DEF ChargeInv, OnePlanner, Exclusive
  <2> QED
    BY <2>2, <2>4, <2>5 DEF ChargeInv
<1>2. CASE Tick
  BY <1>1, <1>2 DEF Tick
<1>3. CASE UNCHANGED vars
  BY <1>1, <1>3 DEF vars
<1>4. ASSUME NEW c \in Clients, Request(c) PROVE ChargeInv'
  BY <1>4, ReadingSteps
<1>5. ASSUME NEW c \in Clients, Commit(c) PROVE ChargeInv'
  BY <1>5, CommitKeepsCharges
<1> QED
  BY <1>2, <1>3, <1>4, <1>5 DEF Next

\* Whatever requests overlap: a charge for an installment is the one its schedule
\* row names, so it is charged once, unless two requests had it in hand at once
\* (generate_installments, pay_installment, anticipate_installments,
\* delete_transaction).
THEOREM ChargedOnceHolds == Spec => []ChargedOnce
<1>1. ChargeInv => ChargedOnce
  BY DEF ChargeInv
<1> QED
  BY PinInit, PinStep, ChargeInit, ChargeStep, <1>1, PTL DEF Spec

-----------------------------------------------------------------------------
(* What a sum over a set is: MapThenSumSet takes the elements in the order   *)
(* in which CHOOSE names them, but the order makes no difference.            *)

\* g adds up w over every subset of S, in the order in which CHOOSE takes the elements.
Taken(s) == CHOOSE x \in s : TRUE
Adds(g, w, S) ==
  g = [s \in SUBSET S |-> IF s = {} THEN 0 ELSE w[Taken(s)] + g[s \ {Taken(s)}]]

\* A set of subsets of a finite set has a member no other one is strictly inside of:
\* what fails for some subset fails for one whose parts are all right.
LEMMA Smallest ==
  ASSUME NEW S, IsFiniteSet(S), NEW T \in SUBSET (SUBSET S), T # {}
  PROVE  \E x \in T : \A y \in SUBSET x : y # x => y \notin T
<1>1. T \subseteq FiniteSubsetsOf(S)
  BY FS_FiniteSubsetsOfFinite
<1>2. \E x \in T : \A y \in T : <<y, x>> \notin StrictSubsetOrdering(S)
  BY <1>1, WFMin, FS_StrictSubsetOrderingWellFounded
<1> QED
  BY <1>2 DEF StrictSubsetOrdering

\* What such a sum takes from a set is in it.
LEMMA TakenIn ==
  ASSUME NEW s, s # {}
  PROVE  Taken(s) \in s /\ s \ {Taken(s)} # s
  BY DEF Taken

\* One step of a sum.
LEMMA AddsUp ==
  ASSUME NEW g, NEW w, NEW S, Adds(g, w, S)
  PROVE  /\ g[{}] = 0
         /\ \A s \in SUBSET S : s # {} => g[s] = w[Taken(s)] + g[s \ {Taken(s)}]
<1>1. g = [s \in SUBSET S |-> IF s = {} THEN 0 ELSE w[Taken(s)] + g[s \ {Taken(s)}]]
  BY DEF Adds
<1>2. {} \in SUBSET S
  OBVIOUS
<1> QED
  BY <1>1, <1>2

\* Sums over two sets agree on what the sets share.
LEMMA AddsAgree ==
  ASSUME NEW w, NEW S, IsFiniteSet(S), NEW g, Adds(g, w, S), NEW T, NEW h, Adds(h, w, T)
  PROVE  \A s \in SUBSET (S \cap T) : g[s] = h[s]
<1> DEFINE Bad == {s \in SUBSET S : s \subseteq T /\ g[s] # h[s]}
<1>0. Bad \in SUBSET (SUBSET S)
  OBVIOUS
<1>1. CASE Bad # {}
  <2> HIDE DEF Bad
  <2>1. PICK s \in Bad : \A r \in SUBSET s : r # s => r \notin Bad
    BY <1>0, <1>1, Smallest
  <2> USE DEF Bad
  <2>2. s # {} /\ s \subseteq S /\ s \subseteq T
    BY <2>1, AddsUp
  <2>3. g[s \ {Taken(s)}] = h[s \ {Taken(s)}]
    BY <2>1, <2>2, TakenIn
  <2> QED
    BY <2>1, <2>2, <2>3, AddsUp
<1> QED
  BY <1>1

\* There is a sum over every finite set.
LEMMA AddsExists ==
  ASSUME NEW w, NEW S, IsFiniteSet(S)
  PROVE  \E g : Adds(g, w, S)
<1> DEFINE Bad == {s \in SUBSET S : ~\E g : Adds(g, w, s)}
<1>0. Bad \in SUBSET (SUBSET S)
  OBVIOUS
<1>1. CASE Bad # {}
  <2> HIDE DEF Bad
  <2>1. PICK s \in Bad : \A r \in SUBSET s : r # s => r \notin Bad
    BY <1>0, <1>1, Smallest
  <2> USE DEF Bad
  <2> DEFINE sum(r) == (CHOOSE g : Adds(g, w, r))[r]
             h == [r \in SUBSET s |-> IF r = {} THEN 0 ELSE w[Taken(r)] + sum(r \ {Taken(r)})]
  <2>2. \A r \in SUBSET s : r # s => Adds(CHOOSE g : Adds(g, w, r), w, r)
    BY <2>1
  <2>3. \A r \in SUBSET s : IsFiniteSet(r)
    BY <2>1, FS_Subset
  <2>4. ASSUME NEW q \in SUBSET s, q # s
        PROVE  h[q] = sum(q)
    <3> DEFINE a == CHOOSE g : Adds(g, w, q)
               p == q \ {Taken(q)}
               b == CHOOSE g : Adds(g, w, p)
    <3>1. Adds(a, w, q)
      BY <2>2, <2>4
    <3>2. CASE q = {}
      BY <3>1, <3>2, AddsUp
    <3>3. CASE q # {}
      <4>1. p \in SUBSET s /\ p # s /\ p \subseteq q /\ IsFiniteSet(q)
        BY <2>3, <2>4, <3>3, TakenIn
      <4>2. Adds(b, w, p)
        BY <2>2, <4>1
      <4> HIDE DEF a, b
      <4>3. a[p] = b[p]
        BY <3>1, <4>1, <4>2, AddsAgree
      <4>4. a[q] = w[Taken(q)] + a[p]
        BY <3>1, <3>3, AddsUp
      <4>5. h[q] = w[Taken(q)] + b[p]
        BY <3>3 DEF b
      <4> QED
        BY <4>3, <4>4, <4>5 DEF a
    <3> QED
      BY <3>2, <3>3
  <2> HIDE DEF sum
  <2>5. Adds(h, w, s)
    <3>1. \A r \in SUBSET s : r # {} => h[r \ {Taken(r)}] = sum(r \ {Taken(r)})
      BY <2>4, TakenIn
    <3>2. h = [r \in SUBSET s |-> IF r = {} THEN 0 ELSE w[Taken(r)] + h[r \ {Taken(r)}]]
      BY <3>1
    <3> QED
      BY <3>2 DEF Adds
  <2> QED
    BY <2>1, <2>5
<1> QED
  BY <1>1

\* A sum of natural numbers is one.
LEMMA AddsNat ==
  ASSUME NEW S, IsFiniteSet(S), NEW w, \A x \in S : w[x] \in Nat, NEW g, Adds(g, w, S)
  PROVE  \A s \in SUBSET S : g[s] \in Nat
<1> DEFINE Bad == {s \in SUBSET S : g[s] \notin Nat}
<1>0. Bad \in SUBSET (SUBSET S)
  OBVIOUS
<1>1. CASE Bad # {}
  <2> HIDE DEF Bad
  <2>1. PICK s \in Bad : \A r \in SUBSET s : r # s => r \notin Bad
    BY <1>0, <1>1, Smallest
  <2> USE DEF Bad
  <2>2. s # {} /\ s \subseteq S
    <3>1. g[{}] = 0
      BY AddsUp
    <3>2. g[s] \notin Nat /\ s \in SUBSET S
      BY <2>1
    <3> QED
      BY <3>1, <3>2
  <2>3. PICK c : c = Taken(s)
    OBVIOUS
  <2>4. c \in s /\ g[s] = w[c] + g[s \ {c}]
    <3>1. c \in s
      BY <2>2, <2>3, TakenIn
    <3>2. g[s] = w[Taken(s)] + g[s \ {Taken(s)}]
      BY <2>2, AddsUp
    <3> QED
      BY <2>3, <3>1, <3>2
  <2>5. s \ {c} \in SUBSET s /\ s \ {c} # s /\ s \ {c} \in SUBSET S
    BY <2>2, <2>4
  <2>6. g[s \ {c}] \in Nat
    BY <2>1, <2>5
  <2>7. w[c] \in Nat
    BY <2>2, <2>4
  <2>8. g[s] \in Nat
    BY <2>4, <2>6, <2>7
  <2> QED
    BY <2>1, <2>8
<1> QED
  BY <1>1

\* Any element can be taken first.
LEMMA AddsAny ==
  ASSUME NEW S, IsFiniteSet(S), NEW w, \A x \in S : w[x] \in Nat, NEW g, Adds(g, w, S)
  PROVE  \A s \in SUBSET S : \A x \in s : g[s] = w[x] + g[s \ {x}]
<1> DEFINE Bad == {s \in SUBSET S : \E x \in s : g[s] # w[x] + g[s \ {x}]}
<1>0. Bad \in SUBSET (SUBSET S)
  OBVIOUS
<1>1. CASE Bad # {}
  <2> HIDE DEF Bad
  <2>1. PICK s \in Bad : \A r \in SUBSET s : r # s => r \notin Bad
    BY <1>0, <1>1, Smallest
  <2> USE DEF Bad
  <2>2. PICK x \in s : g[s] # w[x] + g[s \ {x}]
    BY <2>1
  <2>3. PICK c : c = Taken(s)
    OBVIOUS
  <2>4. c \in s /\ s \subseteq S /\ g[s] = w[c] + g[s \ {c}]
    <3>1. c \in s /\ s \in SUBSET S /\ s # {}
      BY <2>1, <2>2, <2>3, TakenIn
    <3>2. g[s] = w[Taken(s)] + g[s \ {Taken(s)}]
      BY <3>1, AddsUp
    <3> QED
      BY <2>3, <3>1, <3>2
  <2>5. /\ c # x /\ s \ {c} \in SUBSET s /\ s \ {c} # s /\ x \in s \ {c}
        /\ s \ {x} \in SUBSET s /\ s \ {x} # s /\ c \in s \ {x}
        /\ s \ {c} \in SUBSET S /\ s \ {x} \in SUBSET S
    BY <2>2, <2>4
  <2>6. g[s \ {c}] = w[x] + g[(s \ {c}) \ {x}]
    BY <2>1, <2>5
  <2>7. g[s \ {x}] = w[c] + g[(s \ {x}) \ {c}]
    BY <2>1, <2>5
  <2>8. (s \ {c}) \ {x} = (s \ {x}) \ {c}
    OBVIOUS
  <2>9. w[c] \in Nat /\ w[x] \in Nat
    BY <2>2, <2>4
  <2>10. PICK rest \in Nat : rest = g[(s \ {x}) \ {c}]
    BY <2>4, AddsNat
  <2>11. g[s \ {c}] = w[x] + rest /\ g[s \ {x}] = w[c] + rest
    BY <2>6, <2>7, <2>8, <2>10
  <2>12. w[x] + g[s \ {x}] = w[c] + g[s \ {c}]
    BY <2>9, <2>11
  <2> QED
    BY <2>2, <2>4, <2>12
<1> QED
  BY <1>1

\* More elements, of larger amounts, make no smaller sum.
LEMMA AddsMore ==
  ASSUME NEW S, IsFiniteSet(S), NEW w, NEW g, Adds(g, w, S),
         NEW T, IsFiniteSet(T), NEW v, NEW h, Adds(h, v, T),
         S \subseteq T, \A x \in S : w[x] \in Nat /\ w[x] <= v[x], \A x \in T : v[x] \in Nat
  PROVE  g[S] <= h[T]
<1> DEFINE Bad == {s \in SUBSET S : \E t \in SUBSET T : s \subseteq t /\ ~(g[s] <= h[t])}
<1>0. Bad \in SUBSET (SUBSET S)
  OBVIOUS
<1>1. CASE Bad # {}
  <2> HIDE DEF Bad
  <2>1. PICK s \in Bad : \A r \in SUBSET s : r # s => r \notin Bad
    BY <1>0, <1>1, Smallest
  <2> USE DEF Bad
  <2>2. PICK t \in SUBSET T : s \subseteq t /\ ~(g[s] <= h[t])
    BY <2>1
  <2>3. g[s] \in Nat /\ h[t] \in Nat /\ g[{}] = 0
    BY <2>1, <2>2, AddsNat, AddsUp
  <2>4. PICK x : x \in s
    BY <2>2, <2>3
  <2>5. g[s] = w[x] + g[s \ {x}] /\ h[t] = v[x] + h[t \ {x}]
    BY <2>1, <2>2, <2>4, AddsAny
  <2>6. g[s \ {x}] <= h[t \ {x}]
    BY <2>1, <2>2, <2>4
  <2>7. /\ g[s \ {x}] \in Nat /\ h[t \ {x}] \in Nat
        /\ w[x] \in Nat /\ v[x] \in Nat /\ w[x] <= v[x]
    BY <2>1, <2>2, <2>4, AddsNat
  <2> QED
    BY <2>2, <2>5, <2>6, <2>7
<1> QED
  BY <1>1

\* What MapThenSumSet computes is such a sum.
LEMMA TotalIsSum ==
  ASSUME NEW f, NEW p, NEW S, S = OnBill(f, p), IsFiniteSet(S),
         NEW w, w = [t \in S |-> f[t].amount]
  PROVE  \E g : Adds(g, w, S) /\ TotalOf(f, p) = g[S]
<1> DEFINE Sums(g) == g = [s \in SUBSET S |-> IF s = {} THEN 0 ELSE f[Taken(s)].amount + g[s \ {Taken(s)}]]
<1>1. TotalOf(f, p) = (CHOOSE g : Sums(g))[S]
  BY DEF TotalOf, MapThenSumSet, MapThenFoldSet, Taken
<1>2. \A s \in SUBSET S : s # {} => f[Taken(s)].amount = w[Taken(s)]
  BY TakenIn
<1>3. ASSUME NEW g
      PROVE  Sums(g) <=> Adds(g, w, S)
  <2>1. [s \in SUBSET S |-> IF s = {} THEN 0 ELSE f[Taken(s)].amount + g[s \ {Taken(s)}]]
        = [s \in SUBSET S |-> IF s = {} THEN 0 ELSE w[Taken(s)] + g[s \ {Taken(s)}]]
    BY <1>2
  <2> QED
    BY <2>1 DEF Adds
<1>4. \E g : Sums(g)
  BY <1>3, AddsExists
<1> HIDE DEF Sums
<1> QED
  BY <1>1, <1>3, <1>4

\* So is the gross amount of an anticipation.
LEMMA GrossIsSum ==
  ASSUME NEW S, IsFiniteSet(S), NEW w, w = [n \in S |-> PartNow(n)]
  PROVE  \E g : Adds(g, w, S) /\ MapThenSumSet(PartNow, S) = g[S]
<1> DEFINE Sums(g) == g = [s \in SUBSET S |-> IF s = {} THEN 0 ELSE PartNow(Taken(s)) + g[s \ {Taken(s)}]]
<1>1. MapThenSumSet(PartNow, S) = (CHOOSE g : Sums(g))[S]
  BY DEF MapThenSumSet, MapThenFoldSet, Taken
<1>2. \A s \in SUBSET S : s # {} => PartNow(Taken(s)) = w[Taken(s)]
  BY TakenIn
<1>3. ASSUME NEW g
      PROVE  Sums(g) <=> Adds(g, w, S)
  <2>1. [s \in SUBSET S |-> IF s = {} THEN 0 ELSE PartNow(Taken(s)) + g[s \ {Taken(s)}]]
        = [s \in SUBSET S |-> IF s = {} THEN 0 ELSE w[Taken(s)] + g[s \ {Taken(s)}]]
    BY <1>2
  <2> QED
    BY <2>1 DEF Adds
<1>4. \E g : Sums(g)
  BY <1>3, AddsExists
<1> HIDE DEF Sums
<1> QED
  BY <1>1, <1>3, <1>4

\* There are finitely many charges, so every bill has finitely many.
LEMMA FewCharges ==
  ASSUME NEW f, NEW p
  PROVE  IsFiniteSet(OnBill(f, p))
<1>1. IsFiniteSet(TxIds)
  BY CardBillsAssumption, FS_Interval DEF TxIds
<1>2. OnBill(f, p) \subseteq TxIds
  BY DEF OnBill
<1> QED
  BY <1>1, <1>2, FS_Subset

\* The total of a bill is an amount.
LEMMA TotalNat ==
  ASSUME NEW f, NEW p, \A t \in TxIds : f[t] # None => f[t].amount \in Nat
  PROVE  TotalOf(f, p) \in Nat
<1>1. PICK S : S = OnBill(f, p)
  OBVIOUS
<1>2. PICK w : w = [t \in S |-> f[t].amount]
  OBVIOUS
<1>3. IsFiniteSet(S) /\ \A x \in S : w[x] \in Nat
  BY <1>1, <1>2, FewCharges DEF OnBill
<1>4. PICK g : Adds(g, w, S) /\ TotalOf(f, p) = g[S]
  BY <1>1, <1>2, <1>3, TotalIsSum
<1>5. \A s \in SUBSET S : g[s] \in Nat
  BY <1>3, <1>4, AddsNat
<1> QED
  BY <1>4, <1>5

\* A bill on which every charge stays, at no smaller amount, has no smaller total.
LEMMA TotalGrows ==
  ASSUME NEW f, NEW h, NEW p,
         \A t \in TxIds : f[t] # None => f[t].amount \in Nat,
         \A t \in TxIds : h[t] # None => h[t].amount \in Nat,
         \A t \in TxIds : f[t] # None /\ BillOf(f[t]) = p =>
           h[t] # None /\ BillOf(h[t]) = p /\ f[t].amount <= h[t].amount
  PROVE  TotalOf(f, p) <= TotalOf(h, p)
<1>1. PICK S : S = OnBill(f, p)
  OBVIOUS
<1>2. PICK T : T = OnBill(h, p)
  OBVIOUS
<1>3. PICK w : w = [t \in S |-> f[t].amount]
  OBVIOUS
<1>4. PICK v : v = [t \in T |-> h[t].amount]
  OBVIOUS
<1>5. IsFiniteSet(S) /\ IsFiniteSet(T)
  BY <1>1, <1>2, FewCharges
<1>6. S \subseteq T /\ \A x \in S : w[x] \in Nat /\ w[x] <= v[x]
  BY <1>1, <1>2, <1>3, <1>4 DEF OnBill
<1>7. \A x \in T : v[x] \in Nat
  BY <1>2, <1>4 DEF OnBill
<1>8. PICK g : Adds(g, w, S) /\ TotalOf(f, p) = g[S]
  BY <1>1, <1>3, <1>5, TotalIsSum
<1>9. PICK k : Adds(k, v, T) /\ TotalOf(h, p) = k[T]
  BY <1>2, <1>4, <1>5, TotalIsSum
<1>10. g[S] <= k[T]
  BY <1>5, <1>6, <1>7, <1>8, <1>9, AddsMore
<1> QED
  BY <1>8, <1>9, <1>10

\* It is an amount as well.
LEMMA GrossNat ==
  ASSUME NEW S, IsFiniteSet(S), \A n \in S : PartNow(n) \in Nat
  PROVE  MapThenSumSet(PartNow, S) \in Nat
<1>1. PICK w : w = [n \in S |-> PartNow(n)]
  OBVIOUS
<1>2. PICK g : Adds(g, w, S) /\ MapThenSumSet(PartNow, S) = g[S]
  BY <1>1, GrossIsSum
<1>3. \A x \in S : w[x] \in Nat
  BY <1>1
<1>4. \A s \in SUBSET S : g[s] \in Nat
  BY <1>2, <1>3, AddsNat
<1> QED
  BY <1>2, <1>4

-----------------------------------------------------------------------------
(* What the columns hold                                                     *)

\* What a request carries to its commit can be written.
Asks(r) ==
  /\ r.pc = "buy" => r.amount \in Nat /\ r.month \in Months
  /\ r.pc = "split" => r.month \in Months /\ PerPart > 0 /\ LastPart > 0
  /\ r.pc = "anticipate" => /\ r.gross \in Nat \ {0} /\ r.net \in Nat
                            /\ \A n \in DOMAIN r.picked : r.picked[n].amount \in Nat

ChargesTyped == txs \in [TxIds -> Transaction \cup {None}]
PlanTyped == plan # None => plan \in Plan /\ plan.amount \in Nat
BillsTyped == bills \in [Months -> Bill \cup {None}]
ForeignKey == \A n \in Parts : rows[n] # None /\ rows[n].tx # None => txs[rows[n].tx] # None

TypeInv ==
  /\ ChargesTyped /\ PlanTyped /\ BillsTyped /\ ForeignKey
  /\ \A c \in Clients : Asks(req[c])

\* Both roundings divide.
LEMMA Division ==
  ASSUME NEW a \in Nat, NEW b \in Nat \ {0}
  PROVE  a \div b \in Nat
  OBVIOUS

\* Rounding gives an amount.
LEMMA Rounded ==
  ASSUME NEW a \in Nat, NEW b \in Nat \ {0}
  PROVE  RoundEven(a, b) \in Nat /\ RoundNumeric(a, b) \in Nat
<1>1. a \div b \in Nat
  BY Division
<1>2. 2 * a + b \in Nat /\ 2 * b \in Nat \ {0}
  OBVIOUS
<1>3. (2 * a + b) \div (2 * b) \in Nat
  BY <1>2, Division
<1> QED
  BY <1>1, <1>3 DEF RoundEven, RoundNumeric

\* The parts of a plan that is allowed are amounts.
LEMMA PartsTyped ==
  ASSUME PerPart > 0, LastPart > 0, NEW n
  PROVE  PerPart \in Nat /\ PartAmount(n) \in Nat
<1>1. Total \in Nat /\ Count \in Nat \ {0} /\ Count - 1 \in Nat
  BY CardBillsAssumption
<1>2. PerPart \in Nat
  BY <1>1, Rounded DEF PerPart
<1>3. PerPart * (Count - 1) \in Int
  BY <1>1, <1>2
<1>4. LastPart \in Int
  BY <1>1, <1>3 DEF LastPart
<1> QED
  BY <1>2, <1>4 DEF PartAmount

\* A charge is a row of transactions.
LEMMA ChargeTyped ==
  ASSUME NEW a \in Nat, NEW m \in Months, NEW pin \in Months \cup {None},
         NEW part \in Parts \cup {None}
  PROVE  Charge(a, m, pin, part) \in Transaction /\ Charge(a, m, pin, part) # None
<1>1. Charge(a, m, pin, part) \in Transaction
  BY DEF Charge, Transaction
<1> QED
  BY <1>1, CardBillsAssumption

\* upsert_bill_cycle makes bills.
LEMMA EnsuredTyped ==
  ASSUME BillsTyped, NEW S
  PROVE  Ensured(S) \in [Months -> Bill \cup {None}]
<1>1. OpenBill \in Bill
  BY DEF OpenBill, Bill
<1> QED
  BY <1>1 DEF Ensured, BillsTyped

\* The other requests ask for what they asked.
LEMMA AsksStay ==
  ASSUME TypeInv, DOMAIN req = Clients, NEW c \in Clients, NEW r,
         req' = [req EXCEPT ![c] = r], Asks(r)
  PROVE  \A d \in Clients : Asks(req'[d])
BY DEF TypeInv

\* Requests that end, and those that generate, ask for nothing.
LEMMA IdleAsks ==
  /\ Asks(Idle)
  /\ \A n, S : Asks(After(n, S))
  /\ \A S : Asks([pc |-> "create", left |-> S])
BY DEF Asks, Idle, After

\* At the start there is nothing.
LEMMA TypeInit == Init => TypeInv
<1> SUFFICES ASSUME Init PROVE TypeInv
  OBVIOUS
<1>1. \A c \in Clients : req[c] = Idle
  BY DEF Init
<1>2. txs = [t \in TxIds |-> None] /\ plan = None /\ bills = [p \in Months |-> None]
      /\ rows = [n \in Parts |-> None]
  BY DEF Init
<1> QED
  BY <1>1, <1>2, IdleAsks DEF TypeInv, ChargesTyped, PlanTyped, BillsTyped, ForeignKey

\* A request is asked from what there is.
LEMMA TypeRequest ==
  ASSUME TypeInv, ChargeInv, PinInv, NEW c \in Clients, Request(c)
  PROVE  TypeInv'
<1>0. DOMAIN req = Clients /\ today \in Months
  BY CardBillsAssumption DEF PinInv, PaidInv, ReqDomain, TodayBound, Months
<1> DEFINE Rest == UNCHANGED <<txs, plan, bills, rows>>
<1>1. ASSUME NEW r, req' = [req EXCEPT ![c] = r], Asks(r), Rest
      PROVE  TypeInv'
  <2>1. \A d \in Clients : Asks(req'[d])
    BY <1>0, <1>1, AsksStay
  <2> QED
    BY <1>1, <2>1 DEF TypeInv, ChargesTyped, PlanTyped, BillsTyped, ForeignKey, Asks
<1>2. ASSUME NEW p \in Months, Split(c, p) PROVE TypeInv'
  BY <1>0, <1>1, <1>2 DEF Split, Begin, Asks
<1>3. ASSUME NEW p \in Months, Schedule(c, p) PROVE TypeInv'
  BY <1>1, <1>3 DEF Schedule, Begin, Asks
<1>4. ASSUME NEW p \in Months, NEW a \in Prices, Buy(c, a, p) PROVE TypeInv'
  BY <1>0, <1>1, <1>4, CardBillsAssumption DEF Buy, Begin, Asks
<1>5. ASSUME NEW p \in Months, NEW a \in Payments, PayBill(c, p, a) PROVE TypeInv'
  BY <1>1, <1>5 DEF PayBill, Begin, Asks
<1>6. ASSUME Generate(c) PROVE TypeInv'
  BY <1>1, <1>6 DEF Generate, Begin, Asks
<1>7. ASSUME NEW n \in Parts, PayPart(c, n) PROVE TypeInv'
  BY <1>1, <1>7 DEF PayPart, Begin, Asks
<1>8. ASSUME NEW S \in (SUBSET Parts) \ {{}}, NEW d \in Discounts, Anticipate(c, S, d)
      PROVE  TypeInv'
  <2> DEFINE picked == [n \in S |-> [tx |-> rows[n].tx, amount |-> PartNow(n)]]
             gross == MapThenSumSet(PartNow, S)
             r == [pc |-> "anticipate", month |-> today, gross |-> gross, net |-> gross - d,
                   picked |-> picked]
  <2>1. req' = [req EXCEPT ![c] = r] /\ Rest /\ d < gross
    BY <1>8 DEF Anticipate, Begin
  <2>2. ASSUME NEW n \in S
        PROVE  PartNow(n) \in Nat
    <3>1. rows[n] # None /\ n \in Parts
      BY <1>8, <2>2 DEF Anticipate, Anticipable
    <3>2. plan # None /\ rows[n].tx \in Links
      BY <3>1 DEF ChargeInv, Books
    <3>3. CASE rows[n].tx = None
      BY <3>2, <3>3 DEF PartNow, TypeInv, PlanTyped
    <3>4. CASE rows[n].tx # None
      <4>1. rows[n].tx \in TxIds /\ txs[rows[n].tx] # None
        BY <3>1, <3>2, <3>4 DEF Links, Used, TypeInv, ForeignKey
      <4>2. txs[rows[n].tx] \in Transaction
        BY <4>1 DEF TypeInv, ChargesTyped
      <4> QED
        BY <3>4, <4>2 DEF PartNow, Transaction
    <3> QED
      BY <3>3, <3>4
  <2>3. IsFiniteSet(S)
    <3>1. IsFiniteSet(Parts)
      BY CardBillsAssumption, FS_Interval DEF Parts
    <3> QED
      BY <3>1, FS_Subset
  <2>4. gross \in Nat
    BY <2>2, <2>3, GrossNat
  <2>5. d \in Nat
    BY CardBillsAssumption
  <2>6. /\ r.pc = "anticipate" /\ r.gross = gross /\ r.net = gross - d /\ r.picked = picked
        /\ DOMAIN picked = S /\ \A n \in S : picked[n].amount = PartNow(n)
    OBVIOUS
  <2> HIDE DEF r, picked, gross
  <2>7. Asks(r)
    BY <2>1, <2>2, <2>4, <2>5, <2>6 DEF Asks
  <2> QED
    BY <1>1, <2>1, <2>7
<1>9. ASSUME NEW t \in TxIds, Delete(c, t) PROVE TypeInv'
  BY <1>1, <1>9 DEF Delete, Begin, Asks
<1> QED
  BY <1>2, <1>3, <1>4, <1>5, <1>6, <1>7, <1>8, <1>9 DEF Request

-----------------------------------------------------------------------------

\* No charge is lost or changed.
Grows == \A t \in TxIds : txs[t] # None => txs'[t] = txs[t]

\* One charge more.
LEMMA OneCharge ==
  ASSUME TypeInv, Books, nextTx <= MaxTx, NEW x \in Transaction,
         txs' = [txs EXCEPT ![nextTx] = x]
  PROVE  ChargesTyped' /\ Grows /\ nextTx \in TxIds /\ txs'[nextTx] # None
<1>1. nextTx \in TxIds /\ txs[nextTx] = None
  BY CardBillsAssumption DEF Books, Used, TxIds
<1>2. txs \in [TxIds -> Transaction \cup {None}] /\ x # None
  BY CardBillsAssumption DEF TypeInv, ChargesTyped
<1>3. txs' \in [TxIds -> Transaction \cup {None}] /\ txs'[nextTx] = x
  BY <1>1, <1>2
<1>4. \A t \in TxIds : t # nextTx => txs'[t] = txs[t]
  BY <1>2
<1> QED
  BY <1>1, <1>2, <1>3, <1>4 DEF ChargesTyped, Grows

\* Rows keep naming charges that exist.
LEMMA RowsKeepCharges ==
  ASSUME TypeInv, Books, Grows,
         \A n \in Parts : rows'[n] # None /\ rows'[n].tx # None =>
           \/ rows[n] # None /\ rows'[n].tx = rows[n].tx
           \/ txs'[rows'[n].tx] # None
  PROVE  ForeignKey'
<1>1. ASSUME NEW n \in Parts, rows'[n] # None, rows'[n].tx # None
      PROVE  txs'[rows'[n].tx] # None
  <2>1. CASE rows[n] # None /\ rows'[n].tx = rows[n].tx
    <3>1. rows[n].tx \in TxIds
      BY <1>1, <2>1 DEF Books, Links, Used
    <3>2. txs[rows[n].tx] # None
      BY <1>1, <2>1 DEF TypeInv, ForeignKey
    <3> QED
      BY <2>1, <3>1, <3>2 DEF Grows
  <2>2. CASE txs'[rows'[n].tx] # None
    BY <2>2
  <2> QED
    BY <1>1, <2>1, <2>2
<1> QED
  BY <1>1 DEF ForeignKey

\* A row that is linked names the charge it is linked to.
LEMMA RowLinked ==
  ASSUME TypeInv, Books, Grows, NEW n \in Parts, NEW t \in TxIds,
         NEW s \in {"pending", "generated", "paid"}, rows' = Linked(n, t, s), txs'[t] # None
  PROVE  ForeignKey'
<1>1. /\ \A m \in Parts : m # n => rows'[m] = rows[m]
      /\ rows[n] = None => rows'[n] = None
      /\ rows[n] # None => rows'[n] # None /\ rows'[n].tx = t
  BY LinkedRow
<1> QED
  BY <1>1, RowsKeepCharges

\* Rows that stay name charges that stay.
LEMMA RowsStay ==
  ASSUME TypeInv, Books, Grows, UNCHANGED rows
  PROVE  ForeignKey'
BY RowsKeepCharges

\* The end of a request, or its next step.
LEMMA Asked ==
  ASSUME TypeInv, PinInv, NEW c \in Clients, NEW r, Proceed(c, r), Asks(r)
  PROVE  \A d \in Clients : Asks(req[d])'
<1>1. DOMAIN req = Clients /\ req' = [req EXCEPT ![c] = r]
  BY DEF PinInv, PaidInv, ReqDomain, Proceed
<1>2. \A d \in Clients : Asks(req'[d])
  BY <1>1, AsksStay
<1> QED
  BY <1>2 DEF Asks

\* Each commit writes rows, charges and bills that their columns can hold, and all but
\* two of them lose no charge.
LEMMA BuyTyped ==
  ASSUME TypeInv, ChargeInv, PinInv, NEW c \in Clients, BuyCommit(c)
  PROVE  TypeInv' /\ Grows
<1> DEFINE x == Charge(req[c].amount, req[c].month, req[c].pin, None)
<1>1. /\ req[c].pc = "buy" /\ nextTx <= MaxTx /\ txs' = [txs EXCEPT ![nextTx] = x]
      /\ bills' = Ensured({req[c].pin}) /\ Proceed(c, Idle) /\ UNCHANGED <<plan, rows>>
  BY DEF BuyCommit, Finish
<1>2. req[c].amount \in Nat /\ req[c].month \in Months /\ req[c].pin \in Months /\ Books
  BY <1>1 DEF TypeInv, Asks, PinInv, ReadPinHasRoom, Room, ChargeInv
<1>3. x \in Transaction
  BY <1>2, ChargeTyped
<1> HIDE DEF x
<1>4. ChargesTyped' /\ Grows
  BY <1>1, <1>2, <1>3, OneCharge
<1>5. BillsTyped'
  BY <1>1, EnsuredTyped DEF TypeInv, BillsTyped
<1>6. PlanTyped' /\ ForeignKey'
  BY <1>1, <1>2, <1>4, RowsStay DEF TypeInv, PlanTyped
<1> QED
  BY <1>1, <1>4, <1>5, <1>6, Asked, IdleAsks DEF TypeInv

LEMMA SplitTyped ==
  ASSUME TypeInv, ChargeInv, PinInv, NEW c \in Clients, SplitCommit(c)
  PROVE  TypeInv' /\ Grows
<1> DEFINE pin == req[c].pin
           part(t) == t - nextTx + 1
           month(n) == IF n = 1 THEN req[c].month ELSE pin + n - 1
           x(t) == Charge(PartAmount(part(t)), month(part(t)), pin + part(t) - 1, part(t))
           months == {pin + n - 1 : n \in Parts}
<1>1. /\ req[c].pc = "split" /\ nextTx + Count - 1 <= MaxTx
      /\ txs' = [t \in TxIds |-> IF part(t) \in Parts THEN x(t) ELSE txs[t]]
      /\ rows' = [n \in Parts |-> [due |-> pin + n - 1, tx |-> nextTx + n - 1,
                                   status |-> "generated", anticipated |-> None]]
      /\ bills' = Ensured(months)
      /\ plan' = [amount |-> PerPart, start |-> pin]
      /\ Proceed(c, Idle)
  BY DEF SplitCommit, Finish
<1>2. /\ req[c].month \in Months /\ PerPart > 0 /\ LastPart > 0 /\ Room(pin)
      /\ nextTx \in Nat \ {0} /\ Count \in Nat \ {0} /\ MaxTx \in Nat
  BY <1>1, CardBillsAssumption DEF TypeInv, Asks, PinInv, ReadPinHasRoom, ChargeInv, Books
<1>3. txs \in [TxIds -> Transaction \cup {None}]
  BY DEF TypeInv, ChargesTyped
<1>4. ASSUME NEW t \in TxIds, part(t) \in Parts
      PROVE  txs'[t] \in Transaction /\ txs'[t] # None
  <2>1. pin + part(t) - 1 \in Months
    BY <1>2, <1>4, RoomForParts
  <2>2. month(part(t)) \in Months
    BY <1>2, <2>1
  <2>3. PartAmount(part(t)) \in Nat
    BY <1>2, PartsTyped
  <2>4. txs'[t] = x(t)
    BY <1>1, <1>4
  <2> HIDE DEF part, month
  <2> QED
    BY <1>4, <2>1, <2>2, <2>3, <2>4, ChargeTyped
<1>5. \A t \in TxIds : part(t) \notin Parts => txs'[t] = txs[t]
  BY <1>1
<1>6. \A t \in TxIds : part(t) \in Parts => txs[t] = None
  <2> SUFFICES ASSUME NEW t \in TxIds, part(t) \in Parts, txs[t] # None
               PROVE  FALSE
    OBVIOUS
  <2>1. t \in Used
    BY DEF ChargeInv, Books
  <2> QED
    BY <1>2, <2>1 DEF Used, TxIds, Parts
<1>7. ChargesTyped' /\ Grows
  <2> DEFINE y(t) == IF part(t) \in Parts THEN x(t) ELSE txs[t]
  <2>1. txs' = [t \in TxIds |-> y(t)]
    BY <1>1
  <2> HIDE DEF y
  <2>2. \A t \in TxIds : txs'[t] \in Transaction \cup {None}
    BY <1>3, <1>4, <1>5
  <2>3. ChargesTyped'
    BY <2>1, <2>2 DEF ChargesTyped
  <2>4. Grows
    BY <1>5, <1>6 DEF Grows
  <2> QED
    BY <2>3, <2>4
<1>8. BillsTyped'
  BY <1>1, EnsuredTyped DEF TypeInv, BillsTyped
<1>9. PlanTyped'
  <2>1. PerPart \in Nat
    BY <1>2, PartsTyped
  <2> QED
    BY <1>1, <1>2, <2>1 DEF PlanTyped, Plan, Room, Months
<1>10. ForeignKey'
  <2> SUFFICES ASSUME NEW n \in Parts
               PROVE  txs'[rows'[n].tx] # None
    BY DEF ForeignKey
  <2>1. rows'[n].tx = nextTx + n - 1
    BY <1>1
  <2>2. nextTx + n - 1 \in TxIds /\ part(nextTx + n - 1) = n
    BY <1>1, <1>2 DEF TxIds, Parts
  <2> QED
    BY <1>4, <2>1, <2>2
<1> QED
  BY <1>1, <1>7, <1>8, <1>9, <1>10, Asked, IdleAsks DEF TypeInv

LEMMA ScheduleTyped ==
  ASSUME TypeInv, ChargeInv, PinInv, NEW c \in Clients, ScheduleCommit(c)
  PROVE  TypeInv' /\ UNCHANGED txs
<1>1. /\ req[c].pc = "schedule" /\ Proceed(c, Idle) /\ UNCHANGED <<txs, bills>>
      /\ plan' = [amount |-> RoundNumeric(Total, Count), start |-> req[c].pin]
      /\ \A n \in Parts : rows'[n].tx = None
  BY DEF ScheduleCommit, Finish
<1>2. RoundNumeric(Total, Count) \in Nat /\ req[c].pin \in Months
  BY <1>1, CardBillsAssumption, Rounded DEF PinInv, ReadPinHasRoom, Room
<1>3. PlanTyped'
  BY <1>1, <1>2 DEF PlanTyped, Plan, Months
<1>4. ChargesTyped' /\ BillsTyped' /\ ForeignKey'
  BY <1>1 DEF TypeInv, ChargesTyped, BillsTyped, ForeignKey
<1> QED
  BY <1>1, <1>3, <1>4, Asked, IdleAsks DEF TypeInv

\* What a step leaves alone keeps its type.
LEMMA StillTyped ==
  ASSUME TypeInv, PinInv, NEW c \in Clients, NEW r, Proceed(c, r), Asks(r),
         UNCHANGED <<txs, plan, rows>>, bills' \in [Months -> Bill \cup {None}]
  PROVE  TypeInv'
<1>1. ChargesTyped' /\ PlanTyped' /\ BillsTyped' /\ ForeignKey'
  BY DEF TypeInv, ChargesTyped, PlanTyped, BillsTyped, ForeignKey
<1> QED
  BY <1>1, Asked DEF TypeInv

LEMMA CheckTyped ==
  ASSUME TypeInv, PinInv, NEW c \in Clients, GenerateCheck(c)
  PROVE  TypeInv' /\ UNCHANGED txs
<1>1. PICK n \in req[c].left :
        Proceed(c, IF rows[n] = None \/ rows[n].tx = None
                     THEN [pc |-> "create", left |-> req[c].left]
                     ELSE After(n, req[c].left))
  BY DEF GenerateCheck
<1>2. PICK r : r = IF rows[n] = None \/ rows[n].tx = None
                     THEN [pc |-> "create", left |-> req[c].left]
                     ELSE After(n, req[c].left)
  OBVIOUS
<1>3. Proceed(c, r) /\ Asks(r)
  BY <1>1, <1>2, IdleAsks
<1>4. UNCHANGED <<txs, plan, rows>> /\ bills' \in [Months -> Bill \cup {None}]
  BY DEF GenerateCheck, TypeInv, BillsTyped
<1> QED
  BY <1>3, <1>4, StillTyped

LEMMA CreateTyped ==
  ASSUME TypeInv, ChargeInv, PinInv, NEW c \in Clients, GenerateCreate(c)
  PROVE  TypeInv' /\ Grows
<1>1. /\ req[c].pc = "create" /\ nextTx <= MaxTx /\ UNCHANGED plan
      /\ plan # None /\ req[c].left \subseteq Parts /\ Books
  BY DEF GenerateCreate, PinInv, GenerationHasPlan, ChargeInv
<1>2. PICK n \in req[c].left :
        /\ txs' = [txs EXCEPT ![nextTx] =
                     Charge(plan.amount, plan.start + n - 1, plan.start + n - 1, n)]
        /\ rows' = Linked(n, nextTx, "generated")
        /\ bills' = Ensured({plan.start + n - 1})
        /\ Proceed(c, After(n, req[c].left))
  BY DEF GenerateCreate
<1>3. n \in Parts /\ plan.amount \in Nat /\ plan.start + n - 1 \in Months
  BY <1>1, RoomForParts DEF TypeInv, PlanTyped, PinInv, PlanHasRoom
<1> DEFINE x == Charge(plan.amount, plan.start + n - 1, plan.start + n - 1, n)
<1>4. x \in Transaction
  BY <1>3, ChargeTyped
<1>5. txs' = [txs EXCEPT ![nextTx] = x]
  BY <1>2
<1> HIDE DEF x
<1>6. ChargesTyped' /\ Grows /\ nextTx \in TxIds /\ txs'[nextTx] # None
  BY <1>1, <1>4, <1>5, OneCharge
<1>7. ForeignKey'
  BY <1>1, <1>2, <1>3, <1>6, RowLinked
<1>8. BillsTyped' /\ PlanTyped'
  BY <1>1, <1>2, EnsuredTyped DEF TypeInv, BillsTyped, PlanTyped
<1>9. PICK r : r = After(n, req[c].left)
  OBVIOUS
<1>10. \A d \in Clients : Asks(req[d])'
  BY <1>2, <1>9, Asked, IdleAsks
<1> QED
  BY <1>6, <1>7, <1>8, <1>10 DEF TypeInv

LEMMA PayPartTyped ==
  ASSUME TypeInv, ChargeInv, PinInv, NEW c \in Clients, PayPartCommit(c)
  PROVE  TypeInv' /\ Grows
<1> DEFINE n == req[c].n
           linked == req[c].tx
<1>1. /\ req[c].pc = "payPart" /\ Proceed(c, Idle) /\ UNCHANGED <<plan, bills>> /\ Books
  BY DEF PayPartCommit, Finish, ChargeInv
<1>2. plan # None /\ n \in Parts /\ linked \in Links
  BY <1>1 DEF ChargeInv, Carries
<1>3. BillsTyped' /\ PlanTyped'
  BY <1>1 DEF TypeInv, BillsTyped, PlanTyped
<1>4. CASE linked # None /\ txs[linked] # None
  <2>1. rows' = Linked(n, linked, "paid") /\ UNCHANGED txs
    BY <1>4 DEF PayPartCommit
  <2>2. linked \in TxIds
    BY <1>2, <1>4 DEF Links, Used
  <2>3. Grows /\ ChargesTyped'
    BY <2>1 DEF Grows, TypeInv, ChargesTyped
  <2> HIDE DEF n, linked
  <2>4. ForeignKey'
    BY <1>1, <1>2, <1>4, <2>1, <2>2, <2>3, RowLinked
  <2> QED
    BY <1>1, <1>3, <2>3, <2>4, Asked, IdleAsks DEF TypeInv
<1>5. CASE ~(linked # None /\ txs[linked] # None)
  <2> DEFINE x == Charge(plan.amount, plan.start + n - 1, None, n)
  <2>1. /\ nextTx <= MaxTx /\ txs' = [txs EXCEPT ![nextTx] = x]
        /\ rows' = Linked(n, nextTx, "paid")
    BY <1>5 DEF PayPartCommit
  <2>2. plan.amount \in Nat /\ plan.start + n - 1 \in Months
    BY <1>2, RoomForParts DEF TypeInv, PlanTyped, PinInv, PlanHasRoom
  <2>3. x \in Transaction
    BY <1>2, <2>2, ChargeTyped
  <2> HIDE DEF x, n, linked
  <2>4. ChargesTyped' /\ Grows /\ nextTx \in TxIds /\ txs'[nextTx] # None
    BY <1>1, <2>1, <2>3, OneCharge
  <2>5. ForeignKey'
    BY <1>1, <1>2, <2>1, <2>4, RowLinked
  <2> QED
    BY <1>1, <1>3, <2>4, <2>5, Asked, IdleAsks DEF TypeInv
<1> QED
  BY <1>4, <1>5

LEMMA PayBillTyped ==
  ASSUME TypeInv, PinInv, NEW c \in Clients, PayBillCommit(c)
  PROVE  TypeInv' /\ UNCHANGED txs
<1>1. /\ req[c].p \in Months /\ req[c].paid \in Nat /\ req[c].amount \in Nat
  BY DEF PayBillCommit, PinInv, PaidInv, ReadWasPosted
<1>2. Settled(req[c]) \in Bill
  BY <1>1 DEF Settled, Bill
<1>3. bills' = [bills EXCEPT ![req[c].p] = Settled(req[c])] /\ UNCHANGED <<txs, plan, rows>>
      /\ Proceed(c, Idle)
  BY DEF PayBillCommit, Finish
<1>4. bills' \in [Months -> Bill \cup {None}]
  BY <1>1, <1>2, <1>3 DEF TypeInv, BillsTyped
<1> QED
  BY <1>3, <1>4, StillTyped, IdleAsks

LEMMA DeleteTyped ==
  ASSUME TypeInv, ChargeInv, PinInv, NEW c \in Clients, DeleteCommit(c)
  PROVE  TypeInv'
<1> DEFINE t == req[c].tx
<1>1. req[c].pc = "delete" /\ Proceed(c, Idle) /\ UNCHANGED <<plan, bills>> /\ Books
  BY DEF DeleteCommit, Finish, ChargeInv
<1>2. CASE UNCHANGED <<txs, rows>>
  BY <1>1, <1>2, StillTyped, IdleAsks DEF TypeInv, BillsTyped
<1>3. CASE txs' = [txs EXCEPT ![t] = None] /\ rows' = RowsWithout(t)
  <2> HIDE DEF t
  <2>1. ChargesTyped' /\ \A u \in TxIds : u # t => txs'[u] = txs[u]
    BY <1>3 DEF TypeInv, ChargesTyped
  <2>2. ForeignKey'
    <3> SUFFICES ASSUME NEW n \in Parts, rows'[n] # None, rows'[n].tx # None
                 PROVE  txs'[rows'[n].tx] # None
      BY DEF ForeignKey
    <3>1. rows'[n] = rows[n] /\ rows[n].tx # t
      BY <1>3 DEF RowsWithout
    <3>2. rows[n].tx \in TxIds
      BY <1>1, <3>1 DEF Books, Links, Used
    <3>3. txs[rows[n].tx] # None
      BY <3>1 DEF TypeInv, ForeignKey
    <3> QED
      BY <2>1, <3>1, <3>2, <3>3
  <2>3. BillsTyped' /\ PlanTyped'
    BY <1>1 DEF TypeInv, BillsTyped, PlanTyped
  <2> QED
    BY <1>1, <2>1, <2>2, <2>3, Asked, IdleAsks DEF TypeInv
<1> QED
  BY <1>2, <1>3 DEF DeleteCommit

LEMMA AnticipateTyped ==
  ASSUME TypeInv, ChargeInv, PinInv, NEW c \in Clients, AnticipateCommit(c)
  PROVE  TypeInv'
<1> DEFINE S == DOMAIN req[c].picked
           F == Fresh(c)
           A(n) == AnticipatedTx(c, n)
           of(t) == {n \in S : A(n) = t}
           month == req[c].month
<1>1. /\ req[c].pc = "anticipate" /\ Proceed(c, Idle) /\ UNCHANGED plan /\ Books
      /\ bills' = Ensured({month})
  BY DEF AnticipateCommit, Finish, ChargeInv
<1>2. /\ S \subseteq Parts /\ month \in Months
      /\ \A n \in S : req[c].picked[n].tx \in Links
  BY <1>1 DEF ChargeInv, Carries
<1>3. F \subseteq S /\ F \subseteq Parts /\ \A n \in S : n \in F <=> req[c].picked[n].tx = None
  BY <1>2 DEF Fresh
<1>4. \A n \in F : NewTx(c, n) \in TxIds
  BY <1>1, <1>3, NewIds DEF AnticipateCommit
<1>5. \A n \in S : A(n) \in TxIds
  <2>1. \A n \in F : A(n) = NewTx(c, n)
    BY DEF AnticipatedTx
  <2>2. \A n \in S \ F : A(n) = req[c].picked[n].tx
    BY DEF AnticipatedTx
  <2> QED
    BY <1>2, <1>3, <1>4, <2>1, <2>2 DEF Links, Used
<1>6. \A n \in S : /\ n \notin F => txs[A(n)] # None
                   /\ Discounted(c, n) > 0
  BY DEF AnticipateCommit, Applies, AnticipatedTx
<1>7. \A n \in S : Discounted(c, n) \in Nat
  <2> SUFFICES ASSUME NEW n \in S PROVE Discounted(c, n) \in Nat
    OBVIOUS
  <2>1. req[c].picked[n].amount \in Nat /\ req[c].net \in Nat /\ req[c].gross \in Nat \ {0}
    BY <1>1 DEF TypeInv, Asks
  <2>2. req[c].picked[n].amount * req[c].net \in Nat
    BY <2>1
  <2> QED
    BY <2>1, <2>2, Rounded DEF Discounted
<1> DEFINE y(t) ==
      IF of(t) = {} THEN txs[t]
      ELSE LET n == CHOOSE m \in of(t) : TRUE
           IN IF n \in F THEN Charge(Discounted(c, n), month, None, n)
                         ELSE Charge(Discounted(c, n), month, txs[t].pin, txs[t].part)
<1>8. txs' = [t \in TxIds |-> y(t)]
  BY DEF AnticipateCommit
<1>9. txs \in [TxIds -> Transaction \cup {None}]
  BY DEF TypeInv, ChargesTyped
<1>10. ASSUME NEW t \in TxIds
       PROVE  /\ of(t) = {} => y(t) = txs[t]
              /\ of(t) # {} => y(t) \in Transaction /\ y(t) # None
  <2>1. CASE of(t) = {}
    BY <2>1
  <2>2. CASE of(t) # {}
    <3>1. PICK n : n = CHOOSE m \in of(t) : TRUE
      OBVIOUS
    <3>2. n \in S /\ A(n) = t
      BY <2>2, <3>1
    <3>3. y(t) = IF n \in F THEN Charge(Discounted(c, n), month, None, n)
                            ELSE Charge(Discounted(c, n), month, txs[t].pin, txs[t].part)
      BY <2>2, <3>1
    <3> HIDE DEF y
    <3>4. CASE n \in F
      BY <1>2, <1>3, <1>7, <3>2, <3>3, <3>4, ChargeTyped
    <3>5. CASE n \notin F
      <4>1. txs[t] \in Transaction
        BY <1>6, <1>9, <3>2, <3>5
      <4>2. txs[t].pin \in Months \cup {None} /\ txs[t].part \in Parts \cup {None}
        BY <4>1 DEF Transaction
      <4> QED
        BY <1>2, <1>7, <3>2, <3>3, <3>5, <4>2, ChargeTyped
    <3> QED
      BY <2>2, <3>4, <3>5
  <2> QED
    BY <2>1, <2>2
<1> HIDE DEF y
<1>11. ChargesTyped'
  BY <1>8, <1>9, <1>10 DEF ChargesTyped
<1>12. \A t \in TxIds : txs[t] # None \/ of(t) # {} => txs'[t] # None
  BY <1>8, <1>10
<1>13. ForeignKey'
  <2> SUFFICES ASSUME NEW n \in Parts, rows'[n] # None, rows'[n].tx # None
               PROVE  txs'[rows'[n].tx] # None
    BY DEF ForeignKey
  <2>1. CASE n \in S
    <3>1. rows[n] \in Row
      BY <1>1, <2>1 DEF AnticipateCommit, Applies, Books
    <3>2. rows'[n] = [rows[n] EXCEPT !.tx = A(n), !.anticipated = month]
      BY <2>1 DEF AnticipateCommit
    <3>3. rows'[n].tx = A(n)
      BY <3>1, <3>2 DEF Row
    <3>4. of(A(n)) # {}
      BY <2>1
    <3> QED
      BY <1>5, <1>12, <2>1, <3>3, <3>4
  <2>2. CASE n \notin S
    <3>1. rows'[n] = rows[n]
      BY <2>2 DEF AnticipateCommit
    <3>2. rows[n].tx \in TxIds /\ txs[rows[n].tx] # None
      BY <1>1, <3>1 DEF Books, Links, Used, TypeInv, ForeignKey
    <3> QED
      BY <1>12, <3>1, <3>2
  <2> QED
    BY <2>1, <2>2
<1>14. BillsTyped' /\ PlanTyped'
  BY <1>1, EnsuredTyped DEF TypeInv, BillsTyped, PlanTyped
<1> QED
  BY <1>1, <1>11, <1>13, <1>14, Asked, IdleAsks DEF TypeInv

\* Every step keeps the types.
LEMMA TypeStep == TypeInv /\ ChargeInv /\ PinInv /\ [Next]_vars => TypeInv'
<1> SUFFICES ASSUME TypeInv, ChargeInv, PinInv, [Next]_vars PROVE TypeInv'
  OBVIOUS
<1>1. ASSUME UNCHANGED <<txs, plan, rows, bills, req>> PROVE TypeInv'
  BY <1>1 DEF TypeInv, ChargesTyped, PlanTyped, BillsTyped, ForeignKey, Asks
<1>2. CASE Tick
  BY <1>1, <1>2 DEF Tick
<1>3. CASE UNCHANGED vars
  BY <1>1, <1>3 DEF vars
<1>4. ASSUME NEW c \in Clients, Request(c) PROVE TypeInv'
  BY <1>4, TypeRequest
<1>5. ASSUME NEW c \in Clients, Commit(c) PROVE TypeInv'
  <2>1. CASE AnticipateFails(c)
    BY <2>1, StillTyped, IdleAsks DEF AnticipateFails, Finish, TypeInv, BillsTyped
  <2> QED
    BY <1>5, <2>1, BuyTyped, SplitTyped, ScheduleTyped, CheckTyped, CreateTyped, PayPartTyped,
       AnticipateTyped, PayBillTyped, DeleteTyped DEF Commit
<1> QED
  BY <1>2, <1>3, <1>4, <1>5 DEF Next

\* Rows, bills and transactions hold what their columns can hold, and a schedule row
\* names a transaction that exists, for any plan, amounts and clients.
THEOREM TypeCorrect == Spec => []TypeOK
<1>1. PinInv /\ ChargeInv /\ TypeInv => TypeOK
  BY DEF TypeInv, ChargesTyped, PlanTyped, BillsTyped, ForeignKey, TypeOK, PinInv, TodayBound,
         PaidInv, PostedNat, ChargeInv, Books
<1> QED
  BY PinInit, PinStep, ChargeInit, ChargeStep, TypeInit, TypeStep, <1>1, PTL DEF Spec

-----------------------------------------------------------------------------
(* No bill is paid beyond its total.  NeverOverpaid is not inductive: the    *)
(* commit of a payment relies on what its request read, so the invariant     *)
(* says that of a bill nothing disturbed this still stands: the bill shows   *)
(* what was posted, the payment in progress is the only one and fits in what *)
(* is owed, and what is owed does not go down.                               *)

\* What the charges of each bill add up to.
Owed == [p \in Months |-> TotalOf(txs, p)]
Shown(p) == IF bills[p] = None THEN 0 ELSE bills[p].paid

Paid(p) == p \notin disturbed => posted[p] = Shown(p) /\ posted[p] <= Owed[p]
Pays(c) ==
  LET r == req[c]
  IN r.pc = "payBill" =>
       /\ bills[r.p] # None
       /\ r.p \notin disturbed => r.paid = posted[r.p] /\ r.paid + r.amount <= Owed[r.p]
OnePayer ==
  \A c, d \in Clients :
    c # d /\ req[c].pc = "payBill" /\ req[d].pc = "payBill" /\ req[c].p = req[d].p =>
      req[c].p \in disturbed

PayInv ==
  /\ \A p \in Months : Paid(p)
  /\ \A c \in Clients : Pays(c)
  /\ OnePayer

\* What is owed after a step comes from the charges after it.
LEMMA OwedNext == Owed' = [p \in Months |-> TotalOf(txs', p)]
BY DEF Owed

\* What is owed is an amount, before a step and after it.
LEMMA AmountsTyped ==
  ASSUME NEW f, f \in [TxIds -> Transaction \cup {None}]
  PROVE  \A t \in TxIds : f[t] # None => f[t].amount \in Nat
BY DEF Transaction

LEMMA OwedNat ==
  ASSUME ChargesTyped
  PROVE  Owed \in [Months -> Nat]
<1>1. \A t \in TxIds : txs[t] # None => txs[t].amount \in Nat
  BY AmountsTyped DEF ChargesTyped
<1> QED
  BY <1>1, TotalNat DEF Owed

LEMMA OwedNatNext ==
  ASSUME ChargesTyped'
  PROVE  Owed' \in [Months -> Nat]
<1>1. PICK f : f = txs'
  OBVIOUS
<1>2. f \in [TxIds -> Transaction \cup {None}]
  BY <1>1 DEF ChargesTyped
<1>3. \A p \in Months : TotalOf(f, p) \in Nat
  BY <1>2, AmountsTyped, TotalNat
<1> QED
  BY <1>1, <1>3, OwedNext

\* A charge on a bill that stays keeps what is owed from going down.
LEMMA OwedGrows ==
  ASSUME ChargesTyped, ChargesTyped', NEW p \in Months,
         \A t \in TxIds : txs[t] # None /\ BillOf(txs[t]) = p => txs'[t] = txs[t]
  PROVE  Owed[p] <= Owed'[p]
<1>1. PICK f : f = txs
  OBVIOUS
<1>2. PICK h : h = txs'
  OBVIOUS
<1>3. /\ \A t \in TxIds : f[t] # None => f[t].amount \in Nat
      /\ \A t \in TxIds : h[t] # None => h[t].amount \in Nat
  BY <1>1, <1>2, AmountsTyped DEF ChargesTyped
<1>4. \A t \in TxIds : f[t] # None /\ BillOf(f[t]) = p =>
        h[t] # None /\ BillOf(h[t]) = p /\ f[t].amount <= h[t].amount
  BY <1>1, <1>2, <1>3
<1>5. TotalOf(f, p) <= TotalOf(h, p)
  BY <1>3, <1>4, TotalGrows
<1> QED
  BY <1>1, <1>2, <1>5, OwedNext DEF Owed

\* A step of c that is no payment: bills are kept or made, and what is owed on a bill
\* not disturbed does not go down.
LEMMA NotPaying ==
  ASSUME PayInv, PinInv, ChargesTyped, ChargesTyped', NEW c \in Clients, NEW r,
         req' = [req EXCEPT ![c] = r], r.pc # "payBill",
         UNCHANGED posted, disturbed \subseteq disturbed', NEW S, bills' = bills \/ bills' = Ensured(S),
         \A p \in Months \ disturbed' : Owed[p] <= Owed'[p]
  PROVE  PayInv'
<1>1. /\ DOMAIN req = Clients /\ DOMAIN bills = Months /\ posted \in [Months -> Nat]
      /\ Owed \in [Months -> Nat] /\ Owed' \in [Months -> Nat]
  BY OwedNat, OwedNatNext DEF PinInv, PaidInv, ReqDomain, BillsDomain, PostedNat
<1>2. \A p \in Months : /\ bills[p] # None => bills'[p] = bills[p]
                        /\ bills[p] = None => bills'[p] = None \/ bills'[p] = OpenBill
  BY <1>1 DEF Ensured
<1>3. OpenBill # None /\ OpenBill.paid = 0
  BY CardBillsAssumption DEF OpenBill, Bill
<1>4. ASSUME NEW p \in Months PROVE Paid(p)'
  <2>1. Paid(p) /\ posted[p] \in Nat /\ Owed[p] \in Nat /\ Owed'[p] \in Nat
    BY <1>1 DEF PayInv
  <2>2. IF bills'[p] = None THEN Shown(p) = 0 ELSE Shown(p) = bills'[p].paid
    BY <1>2, <1>3 DEF Shown
  <2>3. p \notin disturbed' => posted'[p] = Shown(p) /\ posted'[p] <= Owed'[p]
    BY <2>1 DEF Paid
  <2> QED
    BY <2>2, <2>3 DEF Paid, Shown
<1>5. ASSUME NEW d \in Clients PROVE Pays(d)'
  <2>1. CASE d = c
    BY <1>1, <2>1 DEF Pays
  <2>2. CASE d # c /\ req[d].pc = "payBill"
    <3>1. req'[d] = req[d] /\ Pays(d)
      BY <1>1, <2>2 DEF PayInv
    <3>2. req[d].p \in Months /\ req[d].paid \in Nat /\ req[d].amount \in Nat
      BY <2>2 DEF PinInv, PaidInv, ReadWasPosted
    <3>3. Owed[req[d].p] \in Nat /\ Owed'[req[d].p] \in Nat
      BY <1>1, <3>2
    <3>4. bills'[req[d].p] # None
      BY <1>2, <2>2, <3>1, <3>2 DEF Pays
    <3>5. req[d].p \notin disturbed' =>
            req[d].paid = posted[req[d].p] /\ req[d].paid + req[d].amount <= Owed'[req[d].p]
      BY <2>2, <3>1, <3>2, <3>3 DEF Pays
    <3> QED
      BY <3>1, <3>4, <3>5 DEF Pays
  <2>3. CASE d # c /\ req[d].pc # "payBill"
    BY <1>1, <2>3 DEF Pays
  <2> QED
    BY <2>1, <2>2, <2>3
<1>6. OnePayer'
  <2>1. \A d \in Clients : d # c => req'[d] = req[d]
    BY <1>1
  <2>2. req'[c].pc # "payBill"
    BY <1>1
  <2>3. OnePayer
    BY DEF PayInv
  <2> QED
    BY <2>1, <2>2, <2>3 DEF OnePayer
<1> QED
  BY <1>4, <1>5, <1>6 DEF PayInv

\* A step that leaves charges and bills alone.
LEMMA NothingCharged ==
  ASSUME PayInv, PinInv, TypeInv, NEW c \in Clients, NEW r,
         req' = [req EXCEPT ![c] = r], r.pc # "payBill",
         UNCHANGED <<txs, bills, posted, disturbed>>
  PROVE  PayInv'
<1>1. ChargesTyped /\ ChargesTyped'
  BY DEF TypeInv, ChargesTyped
<1>2. \A p \in Months : Owed[p] <= Owed'[p]
  BY <1>1, OwedGrows
<1> QED
  BY <1>1, <1>2, NotPaying

\* A step that only adds charges.
LEMMA Charging ==
  ASSUME PayInv, PinInv, TypeInv, TypeInv', NEW c \in Clients, NEW r,
         Proceed(c, r), r.pc # "payBill", Grows,
         UNCHANGED <<posted, disturbed>>, NEW S, bills' = bills \/ bills' = Ensured(S)
  PROVE  PayInv'
<1>1. ChargesTyped /\ ChargesTyped' /\ req' = [req EXCEPT ![c] = r]
  BY DEF TypeInv, Proceed
<1>2. \A p \in Months : Owed[p] <= Owed'[p]
  BY <1>1, OwedGrows DEF Grows
<1> QED
  BY <1>1, <1>2, NotPaying

\* pay_card_bill reads the bill and what is owed.
LEMMA PaymentRead ==
  ASSUME PayInv, PinInv, TypeInv, NEW c \in Clients, NEW p \in Months, NEW a \in Payments,
         PayBill(c, p, a)
  PROVE  PayInv'
<1> DEFINE r == [pc |-> "payBill", p |-> p, amount |-> a,
                 paid |-> bills[p].paid, total |-> TotalOf(txs, p)]
<1>1. /\ bills[p] # None /\ a <= Owed[p] - bills[p].paid
      /\ req' = [req EXCEPT ![c] = r] /\ req[c].pc = "idle"
      /\ disturbed' = IF \E d \in Clients : req[d].pc = "payBill" /\ req[d].p = p
                        THEN disturbed \cup {p} ELSE disturbed
      /\ UNCHANGED <<txs, bills, posted>>
  BY DEF PayBill, Begin, Remaining, Owed
<1>2. r.pc = "payBill" /\ r.p = p /\ r.amount = a /\ r.paid = bills[p].paid
  OBVIOUS
<1> HIDE DEF r
<1>3. /\ DOMAIN req = Clients /\ bills[p].paid \in Nat /\ a \in Nat
      /\ Owed \in [Months -> Nat] /\ Owed' = Owed
  <2>1. bills[p] # None /\ UNCHANGED txs
    BY <1>1
  <2>2. Owed \in [Months -> Nat]
    BY OwedNat DEF TypeInv
  <2>3. Owed' = Owed
    BY <2>1, OwedNext DEF Owed
  <2> QED
    BY <2>1, <2>2, <2>3, CardBillsAssumption DEF PinInv, PaidInv, ReqDomain, BillsNat
<1>4. req'[c] = r /\ \A d \in Clients : d # c => req'[d] = req[d]
  BY <1>1, <1>3
<1>5. disturbed \subseteq disturbed'
  BY <1>1
<1>6. \A q \in Months : Paid(q)'
  BY <1>1, <1>3, <1>5 DEF PayInv, Paid, Shown
<1>7. Pays(c)'
  <2>1. p \notin disturbed' => p \notin disturbed
    BY <1>5
  <2>2. p \notin disturbed => posted[p] = bills[p].paid
    BY <1>1 DEF PayInv, Paid, Shown
  <2>3. bills[p].paid + a <= Owed[p]
    BY <1>1, <1>3
  <2> QED
    BY <1>1, <1>2, <1>3, <1>4, <2>1, <2>2, <2>3 DEF Pays
<1>8. \A d \in Clients : d # c => Pays(d)'
  BY <1>1, <1>3, <1>4, <1>5 DEF PayInv, Pays
<1>9. OnePayer'
  <2>1. OnePayer
    BY DEF PayInv
  <2>2. \A d \in Clients : d # c /\ req[d].pc = "payBill" /\ req[d].p = p => p \in disturbed'
    BY <1>1
  <2> QED
    BY <1>2, <1>4, <1>5, <2>1, <2>2 DEF OnePayer
<1> QED
  BY <1>6, <1>7, <1>8, <1>9 DEF PayInv

\* It writes what it read plus the payment; a payment alone with its bill does not go
\* beyond what is owed.
LEMMA PaymentWritten ==
  ASSUME PayInv, PinInv, TypeInv, NEW c \in Clients, PayBillCommit(c)
  PROVE  PayInv'
<1> DEFINE p == req[c].p
           a == req[c].amount
<1>1. /\ req[c].pc = "payBill" /\ p \in Months /\ a \in Nat /\ req[c].paid \in Nat
      /\ DOMAIN req = Clients /\ DOMAIN bills = Months /\ posted \in [Months -> Nat]
  BY DEF PayBillCommit, PinInv, PaidInv, ReadWasPosted, ReqDomain, BillsDomain, PostedNat
<1>2. /\ posted' = [posted EXCEPT ![p] = @ + a] /\ bills' = [bills EXCEPT ![p] = Settled(req[c])]
      /\ req' = [req EXCEPT ![c] = Idle] /\ UNCHANGED <<txs, disturbed>>
  BY DEF PayBillCommit, Finish, Proceed
<1>3. Settled(req[c]).paid = req[c].paid + a /\ Settled(req[c]) # None
  <2>1. Settled(req[c]) \in Bill
    BY <1>1 DEF Settled, Bill
  <2> QED
    BY <2>1, CardBillsAssumption DEF Settled
<1>4. Owed \in [Months -> Nat] /\ Owed' = Owed
  <2>1. Owed \in [Months -> Nat]
    BY OwedNat DEF TypeInv
  <2>2. Owed' = Owed
    BY <1>2, OwedNext DEF Owed
  <2> QED
    BY <2>1, <2>2
<1>5. Pays(c)
  BY DEF PayInv
<1>6. p \notin disturbed => req[c].paid = posted[p] /\ req[c].paid + a <= Owed[p]
  BY <1>1, <1>5 DEF Pays
<1>7. /\ posted'[p] = posted[p] + a /\ \A q \in Months : q # p => posted'[q] = posted[q]
      /\ bills'[p] = Settled(req[c]) /\ \A q \in Months : q # p => bills'[q] = bills[q]
  BY <1>1, <1>2
<1>8. req'[c].pc = "idle" /\ \A d \in Clients : d # c => req'[d] = req[d]
  BY <1>1, <1>2 DEF Idle
<1> HIDE DEF p, a
<1>9. ASSUME NEW q \in Months PROVE Paid(q)'
  <2>1. CASE q = p
    <3>1. p \notin disturbed => posted'[p] = bills'[p].paid /\ posted'[p] <= Owed'[p]
      BY <1>1, <1>3, <1>4, <1>6, <1>7
    <3>2. bills'[p] # None /\ disturbed' = disturbed
      BY <1>2, <1>3, <1>7
    <3> QED
      BY <2>1, <3>1, <3>2 DEF Paid, Shown
  <2>2. CASE q # p
    BY <1>2, <1>4, <1>7, <2>2 DEF PayInv, Paid, Shown
  <2> QED
    BY <2>1, <2>2
<1>10. ASSUME NEW d \in Clients PROVE Pays(d)'
  <2>1. CASE d = c
    BY <1>8, <2>1 DEF Pays
  <2>2. CASE d # c /\ req[d].pc = "payBill"
    <3>1. req'[d] = req[d] /\ Pays(d) /\ disturbed' = disturbed
      BY <1>2, <1>8, <2>2 DEF PayInv
    <3>2. req[d].p \in Months
      BY <2>2 DEF PinInv, PaidInv, ReadWasPosted
    <3>3. CASE req[d].p = p
      <4>1. p \in disturbed
        BY <1>1, <2>2, <3>3 DEF PayInv, OnePayer, p
      <4>2. bills'[p] # None
        BY <1>3, <1>7
      <4> QED
        BY <3>1, <3>3, <4>1, <4>2 DEF Pays
    <3>4. CASE req[d].p # p
      BY <1>4, <1>7, <2>2, <3>1, <3>2, <3>4 DEF Pays
    <3> QED
      BY <3>3, <3>4
  <2>3. CASE d # c /\ req[d].pc # "payBill"
    BY <1>8, <2>3 DEF Pays
  <2> QED
    BY <2>1, <2>2, <2>3
<1>11. OnePayer'
  <2>1. OnePayer /\ disturbed' = disturbed
    BY <1>2 DEF PayInv
  <2> QED
    BY <1>8, <2>1 DEF OnePayer
<1> QED
  BY <1>9, <1>10, <1>11 DEF PayInv

\* An anticipation records the bills whose total it lowers.
LEMMA AnticipateOwed ==
  ASSUME PayInv, PinInv, TypeInv, TypeInv', NEW c \in Clients, AnticipateCommit(c)
  PROVE  PayInv'
<1>1. /\ disturbed' = disturbed \cup {p \in Months : TotalOf(txs', p) < TotalOf(txs, p)}
      /\ req' = [req EXCEPT ![c] = Idle] /\ UNCHANGED posted
      /\ bills' = Ensured({req[c].month})
  BY DEF AnticipateCommit, Finish, Proceed
<1>2. ChargesTyped /\ ChargesTyped' /\ Idle.pc # "payBill"
  BY DEF TypeInv, Idle
<1>3. Owed \in [Months -> Nat] /\ Owed' \in [Months -> Nat]
  BY <1>2, OwedNat, OwedNatNext
<1>4. \A p \in Months : TotalOf(txs', p) = Owed'[p] /\ TotalOf(txs, p) = Owed[p]
  BY OwedNext DEF Owed
<1>5. \A p \in Months \ disturbed' : Owed[p] <= Owed'[p]
  BY <1>1, <1>3, <1>4
<1>6. disturbed \subseteq disturbed'
  BY <1>1
<1> QED
  BY <1>1, <1>2, <1>5, <1>6, NotPaying

\* A deletion records the bill of the charge.
LEMMA DeleteOwed ==
  ASSUME PayInv, PinInv, TypeInv, TypeInv', NEW c \in Clients, DeleteCommit(c)
  PROVE  PayInv'
<1> DEFINE t == req[c].tx
<1>1. /\ req' = [req EXCEPT ![c] = Idle] /\ UNCHANGED <<posted, bills>> /\ Idle.pc # "payBill"
      /\ ChargesTyped /\ ChargesTyped'
  BY DEF DeleteCommit, Finish, Proceed, Idle, TypeInv
<1>2. CASE UNCHANGED <<txs, disturbed>>
  BY <1>1, <1>2, NothingCharged
<1>3. CASE /\ txs' = [txs EXCEPT ![t] = None]
           /\ disturbed' = disturbed \cup {BillOf(txs[t])}
  <2> HIDE DEF t
  <2>1. \A u \in TxIds : u # t => txs'[u] = txs[u]
    BY <1>1, <1>3 DEF ChargesTyped
  <2>2. ASSUME NEW p \in Months \ disturbed'
        PROVE  Owed[p] <= Owed'[p]
    <3>1. \A u \in TxIds : BillOf(txs[u]) = p => u # t
      BY <1>3, <2>2
    <3>2. p \in Months
      BY <2>2
    <3> QED
      BY <1>1, <2>1, <3>1, <3>2, OwedGrows
  <2>3. disturbed \subseteq disturbed'
    BY <1>3
  <2> QED
    BY <1>1, <2>2, <2>3, NotPaying
<1> QED
  BY <1>2, <1>3 DEF DeleteCommit

\* Other requests read, and change nothing that is owed or paid.
LEMMA PayRequest ==
  ASSUME PayInv, PinInv, TypeInv, NEW c \in Clients, Request(c)
  PROVE  PayInv'
<1>0. ASSUME NEW r, Begin(c, r.pc, r), r.pc # "payBill",
             UNCHANGED <<txs, bills, posted, disturbed>>
      PROVE  PayInv'
  BY <1>0, NothingCharged DEF Begin
<1>1. ASSUME NEW p \in Months, Split(c, p) PROVE PayInv'
  BY <1>1, <1>0 DEF Split
<1>2. ASSUME NEW p \in Months, Schedule(c, p) PROVE PayInv'
  BY <1>2, <1>0 DEF Schedule
<1>3. ASSUME NEW p \in Months, NEW a \in Prices, Buy(c, a, p) PROVE PayInv'
  BY <1>3, <1>0 DEF Buy
<1>4. ASSUME NEW p \in Months, NEW a \in Payments, PayBill(c, p, a) PROVE PayInv'
  BY <1>4, PaymentRead
<1>5. ASSUME Generate(c) PROVE PayInv'
  BY <1>5, <1>0 DEF Generate
<1>6. ASSUME NEW n \in Parts, PayPart(c, n) PROVE PayInv'
  BY <1>6, <1>0 DEF PayPart
<1>7. ASSUME NEW S \in (SUBSET Parts) \ {{}}, NEW d \in Discounts, Anticipate(c, S, d)
      PROVE PayInv'
  BY <1>7, <1>0 DEF Anticipate
<1>8. ASSUME NEW t \in TxIds, Delete(c, t) PROVE PayInv'
  BY <1>8, <1>0 DEF Delete
<1> QED
  BY <1>1, <1>2, <1>3, <1>4, <1>5, <1>6, <1>7, <1>8 DEF Request

\* Every commit but a payment leaves what was paid alone.
LEMMA PayCommit ==
  ASSUME PayInv, ChargeInv, PinInv, TypeInv, TypeInv', NEW c \in Clients, Commit(c)
  PROVE  PayInv'
<1>0. Idle.pc # "payBill" /\ \A n, S : After(n, S).pc # "payBill"
  BY DEF Idle, After
<1>1. CASE BuyCommit(c)
  BY <1>0, <1>1, BuyTyped, Charging DEF BuyCommit, Finish
<1>2. CASE SplitCommit(c)
  BY <1>0, <1>2, SplitTyped, Charging DEF SplitCommit, Finish
<1>3. CASE ScheduleCommit(c)
  BY <1>0, <1>3, NothingCharged DEF ScheduleCommit, Finish, Proceed
<1>4. CASE GenerateCheck(c)
  <2>1. PICK n \in req[c].left :
          Proceed(c, IF rows[n] = None \/ rows[n].tx = None
                       THEN [pc |-> "create", left |-> req[c].left]
                       ELSE After(n, req[c].left))
    BY <1>4 DEF GenerateCheck
  <2>2. PICK r : r = IF rows[n] = None \/ rows[n].tx = None
                       THEN [pc |-> "create", left |-> req[c].left]
                       ELSE After(n, req[c].left)
    OBVIOUS
  <2>3. r.pc # "payBill" /\ req' = [req EXCEPT ![c] = r]
    BY <1>0, <2>1, <2>2 DEF Proceed
  <2>4. UNCHANGED <<txs, bills, posted, disturbed>>
    BY <1>4 DEF GenerateCheck
  <2> QED
    BY <2>3, <2>4, NothingCharged
<1>5. CASE GenerateCreate(c)
  <2>1. PICK n \in req[c].left :
          bills' = Ensured({plan.start + n - 1}) /\ Proceed(c, After(n, req[c].left))
    BY <1>5 DEF GenerateCreate
  <2>2. UNCHANGED <<posted, disturbed>> /\ Grows
    BY <1>5, CreateTyped DEF GenerateCreate
  <2> QED
    BY <1>0, <2>1, <2>2, Charging
<1>6. CASE PayPartCommit(c)
  BY <1>0, <1>6, PayPartTyped, Charging DEF PayPartCommit, Finish
<1>7. CASE AnticipateFails(c)
  BY <1>0, <1>7, NothingCharged DEF AnticipateFails, Finish, Proceed
<1> QED
  BY <1>1, <1>2, <1>3, <1>4, <1>5, <1>6, <1>7, AnticipateOwed, DeleteOwed, PaymentWritten
     DEF Commit

\* At the start nothing is owed or paid.
LEMMA PayInit == Init => PayInv
<1> SUFFICES ASSUME Init PROVE PayInv
  OBVIOUS
<1>1. ChargesTyped
  BY TypeInit DEF TypeInv
<1>2. \A c \in Clients : req[c].pc = "idle"
  BY DEF Init, Idle
<1>3. \A p \in Months : bills[p] = None /\ posted[p] = 0 /\ Owed[p] \in Nat
  BY <1>1, OwedNat DEF Init
<1> QED
  BY <1>2, <1>3 DEF PayInv, Paid, Shown, Pays, OnePayer

\* Every step keeps what is paid within what is owed.
LEMMA PayStep ==
  PayInv /\ TypeInv /\ ChargeInv /\ PinInv /\ [Next]_vars => PayInv'
<1> SUFFICES ASSUME PayInv, TypeInv, ChargeInv, PinInv, [Next]_vars PROVE PayInv'
  OBVIOUS
<1>1. TypeInv'
  BY TypeStep
<1>2. ASSUME UNCHANGED <<txs, bills, posted, disturbed, req>> PROVE PayInv'
  <2>1. Owed' = Owed
    BY <1>2, OwedNext DEF Owed
  <2> QED
    BY <1>2, <2>1 DEF PayInv, Paid, Shown, Pays, OnePayer
<1>3. CASE Tick
  BY <1>2, <1>3 DEF Tick
<1>4. CASE UNCHANGED vars
  BY <1>2, <1>4 DEF vars
<1>5. ASSUME NEW c \in Clients, Request(c) PROVE PayInv'
  BY <1>5, PayRequest
<1>6. ASSUME NEW c \in Clients, Commit(c) PROVE PayInv'
  BY <1>1, <1>6, PayCommit
<1> QED
  BY <1>3, <1>4, <1>5, <1>6 DEF Next

\* A bill is never paid beyond what its charges add up to, whatever is bought,
\* generated and anticipated between the payments, unless two payments of it overlap
\* or its total goes down (pay_card_bill, card_bill_total).
THEOREM NeverOverpaidHolds == Spec => []NeverOverpaid
<1>1. PayInv => NeverOverpaid
  BY DEF PayInv, Paid, Owed, NeverOverpaid
<1> QED
  BY PinInit, PinStep, ChargeInit, ChargeStep, TypeInit, TypeStep, PayInit, PayStep, <1>1,
     PTL DEF Spec

=============================================================================
