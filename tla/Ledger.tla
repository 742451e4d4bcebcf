-------------------------------- MODULE Ledger --------------------------------
(***************************************************************************)
(* Transactions and the ledger pairs that mirror them                      *)
(* (transaction_ledger.rs and every handler that posts: transactions.rs,   *)
(* sync.rs, credit_cards.rs, installments.rs, ledger.rs), statement by     *)
(* statement under PostgreSQL's READ COMMITTED: a statement sees what was  *)
(* committed when it began, waits for the rows others have written, and    *)
(* then takes their newest version.  Most requests write one transaction;  *)
(* an edit that moves a plan re-stamps all of the plan, an anticipation    *)
(* replaces the entries of several installments, and both, like a charge,  *)
(* can write the current bill of the card.                                 *)
(*                                                                         *)
(* The two entries of a pair are one INSERT, so a pair is one value.  Its  *)
(* group (ledger_entries.transaction_id) is the transaction's own id, or   *)
(* for a migrated row a fresh uuid, named by the request that made it.     *)
(***************************************************************************)
EXTENDS Integers, FiniteSets

CONSTANTS
  Ids,         \* transactions: the installments of a plan, in their order
  Clients,     \* requests in progress at once
  Amounts,     \* amounts a client may send
  Ops,         \* requests made in this instance
  MaxRequests, \* bound: requests ever made, counting the earlier migration
  None

Own == 0       \* the group that has the transaction's own id
Groups == 0 .. MaxRequests
Row == [amount : Amounts, link : Groups \cup {None}]
Pair == [of : Ids, group : Groups, amount : Amounts, n : Groups]

ASSUME LedgerAssumption ==
  /\ MaxRequests \in Nat \ {0}
  /\ Ids \subseteq Nat
  /\ None \notin Row \cup Groups
  /\ Ops \subseteq {"create", "update", "move", "reprice", "delete", "migrate", "pay"}

VARIABLES
  row,      \* transactions, committed: amount and ledger_transaction_id, or None
  entries,  \* ledger_entries, committed: a set of pairs
  req,      \* requests in progress, with what they wrote and have not committed
  made,     \* requests made so far; numbers pairs and migration groups
  \* History, read by the properties only
  met,      \* requests that overlapped one they must not overlap
  raced     \* transactions such a request committed on

vars == <<row, entries, req, made, met, raced>>

Idle == [pc |-> "idle"]
Request ==
  [pc : {"row", "look", "clear", "wait", "bill", "shift", "commit"}, op : Ops,
   id : Ids, todo : SUBSET Ids,                 \* the row it is at, those to come
   rows : SUBSET Ids,                           \* those whose entries it replaces
   bill : {"no", "due", "held"},                \* whether it writes the current bill
   n : Groups, amount : Amounts, link : Groups \cup {None}, \* read or asked for
   held : SUBSET Ids, new : [Ids -> Row \cup {None}],       \* rows locked, their new versions
   hit : SUBSET Pair, dels : SUBSET Pair, adds : SUBSET Pair]

TypeOK ==
  /\ row \in [Ids -> Row \cup {None}]
  /\ entries \subseteq Pair
  /\ req \in [Clients -> Request \cup {Idle}]
  /\ made \in Groups
  /\ met \subseteq Clients
  /\ raced \subseteq Ids

-----------------------------------------------------------------------------
(* The ledger of a transaction                                             *)

PairOf(id, group, amount, n) == [of |-> id, group |-> group, amount |-> amount, n |-> n]
PostedFor(id) == {p \in entries : p.of = id}
Existing == {i \in Ids : row[i] # None}

\* delete_entries: both conventions, the transaction's id and its link.
OwnGroup(id, link) == {p \in entries : p.of = id /\ p.group = Own} \* mutant: the legacy group is not looked up
EntriesOf(id, link) == {p \in entries : p.of = id /\ p.group \in {Own, link}}

\* A row as the application keeps it: linked to its own pair, not posted yet
\* (older than unified posting), or migrated by an earlier request.
Init ==
  /\ row \in [Ids -> [amount : Amounts, link : {None, Own, 1}] \cup {None}]
  /\ entries = {PairOf(id, row[id].link, row[id].amount, 1) :
                  id \in {i \in Ids : row[i] # None /\ row[i].link # None}}
  /\ req = [c \in Clients |-> Idle]
  /\ made = 1
  /\ met = {}
  /\ raced = {}

-----------------------------------------------------------------------------
(* Requests                                                                *)

Busy(c) == req[c].pc # "idle"

\* Requests that hold the row of id, or its key in the unique index; the bill.
Holders(id) == {c \in Clients : Busy(c) /\ id \in req[c].held}
BillHolders == {c \in Clients : Busy(c) /\ req[c].bill = "held"}

\* Requests whose uncommitted deletes another delete_entries has to wait for.
Deleting(S) == {c \in Clients : Busy(c) /\ req[c].dels \cap S # {}}

\* Deleting, migrating and backfilling decide from what they read before the row
\* is theirs; two deletions of one row are the overlap the code provides for.
Fragile == {"delete", "migrate", "pay"}
Conflict(o, p) == (o \in Fragile \/ p \in Fragile) /\ ~(o = "delete" /\ p = "delete")

\* Handlers that remove the entries before they take the row.
EntriesFirstAlways == {"delete", "update"}       \* mutant: updates do so too
EntriesFirst == {"delete"}

\* An anticipation makes the current bill before it comes to any row.
Start(op) ==
  IF op \in EntriesFirst THEN "clear" ELSE IF op = "reprice" THEN "bill" ELSE "row"

Begin(c, op, rows, id, pc, bill, amount, link) ==
  LET others == {d \in Clients \ {c} : /\ Busy(d)
                                        /\ rows \cap req[d].rows # {}
                                        /\ Conflict(op, req[d].op)}
  IN /\ op \in Ops
     /\ ~Busy(c)
     /\ made < MaxRequests
     /\ made' = made + 1
     /\ req' = [req EXCEPT ![c] =
          [pc |-> pc, op |-> op, id |-> id, todo |-> rows \ {id}, rows |-> rows,
           bill |-> bill, n |-> made + 1, amount |-> amount, link |-> link,
           held |-> {}, new |-> [i \in Ids |-> None],
           hit |-> {}, dels |-> {}, adds |-> {}]]
     /\ met' = IF others = {} THEN met ELSE met \cup others \cup {c}
     /\ UNCHANGED <<row, entries, raced>>

BeginOne(c, op, id, pc, bill, amount, link) ==
  Begin(c, op, {id}, id, pc, bill, amount, link)

Proceed(c, r) == req' = [req EXCEPT ![c] = r] /\ UNCHANGED <<row, entries, made, met, raced>>

\* Nothing was committed: an early return, or the transaction is rolled back.
Finish(c) ==
  /\ req' = [req EXCEPT ![c] = Idle]
  /\ met' = met \ {c}
  /\ UNCHANGED <<row, entries, made, raced>>

\* Where a request turns when it is through with a row: to the bill, to the next
\* row of its loop, which runs in the order of the plan, or to its end.  A plan that
\* moves writes the bill of each of its rows, and any may be the current one.
GoOn(c, r) ==
  \/ r.bill = "due" /\ Proceed(c, [r EXCEPT !.pc = "bill"])
  \/ \E i \in r.todo :
       /\ \A j \in r.todo : i <= j
       /\ Proceed(c, [r EXCEPT !.pc = IF r.op = "move" THEN "shift" ELSE "row",
                               !.id = i, !.todo = @ \ {i}])
  \/ /\ r.bill # "due" /\ r.todo = {}
     /\ Proceed(c, [r EXCEPT !.pc = "commit"])

\* The idempotency check of a create, repeated by a retry that overtakes it.
Create(c, id, bill, amount) ==
  row[id] = None /\ BeginOne(c, "create", id, "row", bill, amount, None)

\* The reads of update_transaction and apply_transaction_update.
BeginEdit(c, op, id, bill, amount) ==
  row[id] # None /\ BeginOne(c, op, id, Start(op), bill, amount, row[id].link)

\* An edit of an installment that carries another bill than the plan starts with
\* moves the plan, else it writes no bill.
Update(c, id, amount) == BeginEdit(c, "update", id, "no", amount)
Move(c, id, bill, amount) == BeginEdit(c, "move", id, bill, amount)

\* anticipate_installments on charged installments reads their links later.
Reprice(c, rows, amount) ==
  /\ rows \subseteq Existing
  /\ \E id \in rows :
       /\ \A j \in rows : id <= j
       /\ Begin(c, "reprice", rows, id, Start("reprice"), "due", amount, None)

Delete(c, id) ==
  /\ row[id] # None
  /\ BeginOne(c, "delete", id, Start("delete"), "no", row[id].amount, row[id].link)

\* migrate_single_to_double lists the unlinked rows and then works on each in a
\* transaction of its own; here it is a request per row of the list.
Migrate(c, id) ==
  /\ row[id] # None
  /\ row[id].link = None
  /\ BeginOne(c, "migrate", id, "row", "no", row[id].amount, None)

\* pay_installment on a part that already has a transaction.
Pay(c, id) ==
  row[id] # None /\ BeginOne(c, "pay", id, "look", "no", row[id].amount, None)

-----------------------------------------------------------------------------
(* Statements                                                              *)

\* The statement that writes the row waits for whoever holds it.
AtRow(c, ops) ==
  /\ req[c].pc = "row"
  /\ req[c].op \in ops
  /\ Holders(req[c].id) = {}

InsertRow(c) ==
  LET r == req[c]
  IN /\ AtRow(c, {"create"})
     /\ IF row[r.id] # None
        THEN Finish(c)                           \* unique violation
        ELSE GoOn(c, [r EXCEPT !.held = {r.id},
                        !.new[r.id] = [amount |-> r.amount, link |-> Own],
                        !.adds = {PairOf(r.id, Own, r.amount, r.n)}])

\* UPDATE transactions ... RETURNING: no row is a 404, or a failed anticipation.
UpdateRow(c) ==
  LET r == req[c]
  IN /\ AtRow(c, {"update", "move", "reprice"})
     /\ IF row[r.id] = None
        THEN Finish(c)
        ELSE Proceed(c, [r EXCEPT !.pc = "clear", !.held = @ \cup {r.id},
                           !.link = IF r.op = "reprice" THEN row[r.id].link ELSE @])

\* delete_entries begins: what it sees is what is committed now ...
ClearStart(c) ==
  /\ req[c].pc = "clear"
  /\ Proceed(c, [req[c] EXCEPT !.pc = "wait",
                   !.hit = EntriesOf(req[c].id, req[c].link)])

\* ... and it ends when nobody else is deleting any of that.  An update then
\* posts the new pair and links it, and a plan that moves is listed.
ClearEnd(c) ==
  LET r == req[c]
      gone == r.hit \cap entries
  IN /\ r.pc = "wait"
     /\ Deleting(r.hit) \subseteq {c}
     /\ IF r.op \in EntriesFirst /\ r.held = {}
        THEN Proceed(c, [r EXCEPT !.pc = "row", !.dels = gone])
        ELSE GoOn(c, [r EXCEPT !.dels = @ \cup gone,
                        !.new[r.id] = [amount |-> r.amount, link |-> Own],
                        !.adds = @ \cup {PairOf(r.id, Own, r.amount, r.n)},
                        !.todo = IF r.op = "move" THEN Existing \ {r.id} ELSE @])

\* INSERT ... ON CONFLICT DO UPDATE locks the bill, or its key when it is new.
TakeBill(c) ==
  LET r == [req[c] EXCEPT !.bill = "held"]
  IN /\ req[c].pc = "bill"
     /\ BillHolders = {}
     /\ IF r.op = "reprice" THEN Proceed(c, [r EXCEPT !.pc = "row"]) ELSE GoOn(c, r)

\* shift_plan_bills writes the pin of a transaction of the plan, if it is there.
ShiftRow(c) ==
  LET r == req[c]
  IN /\ r.pc = "shift"
     /\ Holders(r.id) = {}
     /\ GoOn(c, IF row[r.id] = None THEN r
                ELSE [r EXCEPT !.held = @ \cup {r.id}, !.new[r.id] = row[r.id]])

\* DELETE FROM transactions: for HTTP no row is a 404, for sync it is a success.
DeleteRow(c) ==
  LET r == req[c]
  IN /\ AtRow(c, {"delete"})
     /\ \/ Proceed(c, [r EXCEPT !.pc = "commit", !.held = {r.id} \cap Existing])
        \/ row[r.id] = None /\ Finish(c)

\* INSERT of the pair and UPDATE of the link, of however many rows there are.
PostAndLink(c, ops, group) ==
  LET r == req[c]
  IN /\ AtRow(c, ops)
     /\ Proceed(c, [r EXCEPT !.pc = "commit", !.held = {r.id} \cap Existing,
                      !.new[r.id] = IF row[r.id] = None THEN None
                                    ELSE [amount |-> row[r.id].amount, link |-> group],
                      !.adds = {PairOf(r.id, group, r.amount, r.n)}])

MigrateRow(c) == PostAndLink(c, {"migrate"}, req[c].n)

LookPastLink(c) ==                               \* mutant: backfills a linked row too
  LET r == req[c]
  IN /\ r.pc = "look"
     /\ IF row[r.id] # None
        THEN Proceed(c, [r EXCEPT !.pc = "row", !.amount = row[r.id].amount])
        ELSE Finish(c)

\* pay_installment looks at the link inside its transaction.  Without the row it
\* creates a transaction under a new id, which is a create.
LookAtLink(c) ==
  LET r == req[c]
  IN /\ r.pc = "look"
     /\ IF row[r.id] # None /\ row[r.id].link = None
        THEN Proceed(c, [r EXCEPT !.pc = "row", !.amount = row[r.id].amount])
        ELSE Finish(c)

PayRow(c) == PostAndLink(c, {"pay"}, Own)

Commit(c) ==
  LET r == req[c]
  IN /\ r.pc = "commit"
     /\ row' = [i \in Ids |-> IF i \in r.held THEN r.new[i] ELSE row[i]]
     /\ entries' = (entries \ r.dels) \cup r.adds
     /\ raced' = IF c \in met /\ r.op \in Fragile THEN raced \cup {r.id} ELSE raced
     /\ req' = [req EXCEPT ![c] = Idle]
     /\ met' = met \ {c}
     /\ UNCHANGED made

\* A lost connection, a restart, the victim PostgreSQL picks in a deadlock, or a
\* plan that cannot move because a bill or a part of it is paid.
Abort(c) == Busy(c) /\ Finish(c)

Next ==
  \E c \in Clients :
    \/ \E a \in Amounts :
         \/ \E id \in Ids :
              \/ Update(c, id, a)
              \/ \E bill \in {"no", "due"} : Create(c, id, bill, a) \/ Move(c, id, bill, a)
         \/ \E rows \in SUBSET Ids : Reprice(c, rows, a)
    \/ \E id \in Ids : Delete(c, id) \/ Migrate(c, id) \/ Pay(c, id)
    \/ InsertRow(c) \/ UpdateRow(c) \/ ClearStart(c) \/ ClearEnd(c)
    \/ TakeBill(c) \/ ShiftRow(c)
    \/ DeleteRow(c) \/ MigrateRow(c) \/ LookAtLink(c) \/ PayRow(c)
    \/ Commit(c) \/ Abort(c)

Spec == Init /\ [][Next]_vars

-----------------------------------------------------------------------------
(* Properties                                                              *)

\* What the ledger must have of a transaction: nothing when it is gone or not
\* posted yet, else one pair of its amount under the group it links to.
MirrorOf(id) ==
  IF row[id] = None \/ row[id].link = None THEN {} ELSE {<<row[id].link, row[id].amount>>}

\* Whatever creates, updates, anticipations, retries and deletions of one row
\* overlap or fail, the ledger counts it exactly once.  Excepted is a row on which
\* a deletion, a migration or a payment's backfill committed that overlapped
\* another request: these act on what they read before they hold the row.
Mirrored ==
  \A id \in Ids \ raced :
    /\ {<<p.group, p.amount>> : p \in PostedFor(id)} = MirrorOf(id)
    /\ Cardinality(PostedFor(id)) <= 1

\* Requests that c waits for.
WaitsFor(c) ==
  CASE req[c].pc \in {"row", "shift"} -> Holders(req[c].id) \ {c}
    [] req[c].pc = "wait" -> Deleting(req[c].hit) \ {c}
    [] req[c].pc = "bill" -> BillHolders \ {c}
    [] OTHER -> {}

\* A request that reaches for a row while it holds another row, the bill or
\* entries: a deletion, which begins with the entries, a plan that moves, or an
\* anticipation.
OutOfOrder(c) ==
  /\ req[c].op \in {"delete", "move", "reprice"}
  /\ req[c].pc \in {"row", "shift"}
  /\ req[c].held # {} \/ req[c].bill = "held" \/ req[c].dels # {}

\* No circle of requests that wait for each other, of whatever length, without one
\* of these: charges, edits that move no plan, migrations and payments take their
\* row, then its entries, then the bill, and never deadlock among themselves.
\* The others do, with each other and with an edit, and PostgreSQL then fails one.
DeadlockOutOfOrder ==
  \A S \in (SUBSET Clients) \ {{}} :
    (\A c \in S : WaitsFor(c) \cap S # {}) => \E c \in S : OutOfOrder(c)

\* "Every transaction is mirrored into a balanced ledger_entries pair": there is
\* no pair whose transaction is gone (migrations/001_initial_schema.sql:134).
PairHasTransaction == \A p \in entries : row[p.of] # None

-----------------------------------------------------------------------------
(* The inductive invariant of Ledger_proofs                                 *)

Writes == {"update", "move", "reprice"}

\* Where a request is, and which rows and entries it can have taken by then.
RequestShape(r) ==
  /\ (r.pc = "look") => (r.op = "pay")
  /\ (r.pc \in {"clear", "wait"}) => (r.op \in Writes \cup {"delete"})
  /\ (r.pc = "bill") => (r.op \notin Fragile /\ r.bill = "due")
  /\ (r.pc = "shift") => (r.op = "move" /\ r.id \notin r.rows)
  /\ r.todo \cap (r.held \cup {r.id}) = {}
  /\ (r.pc \in {"row", "look", "shift"}) => (r.id \notin r.held)
  /\ (r.op \in Fragile \cup {"update"}) => (r.bill = "no")
  /\ (r.op \in Fragile) => (r.held = {} \/ r.pc = "commit")
  /\ (r.op \notin {"move", "reprice"}) =>
       r.rows = {r.id} /\ r.todo = {} /\ r.held \subseteq {r.id}
  /\ (r.op = "move") =>
       IF r.pc \in {"row", "clear", "wait"}
       THEN r.rows = {r.id} /\ r.todo = {} /\ r.held \subseteq {r.id}
       ELSE r.rows \subseteq r.held
  /\ (r.op = "reprice") =>
       /\ r.id \in r.rows /\ r.todo \subseteq r.rows /\ r.held \subseteq r.rows
       /\ (r.bill = "due") <=> (r.pc = "bill")
       /\ (r.pc = "bill") => (r.held = {})
  /\ (r.bill = "held" /\ r.op # "reprice") => (r.pc \notin {"row", "clear", "wait", "bill"})
  /\ (r.op \in Writes /\ r.pc \in {"clear", "wait"}) => (r.id \in r.held)
  /\ (r.op \in {"create", "update"} /\ r.pc \in {"bill", "commit"}) => (r.id \in r.held)

\* Whether a request that writes is through with row i.
Written(r, i) == i \in r.held /\ ~(r.pc \in {"clear", "wait"} /\ i = r.id)

\* What it has written of rows and entries and not committed.
RequestWrote(r) ==
  /\ \A i \in r.held : (row[i] = None) <=> (r.op = "create")
  /\ (r.pc = "wait") => \A p \in r.hit : p.of = r.id
  /\ (r.op \in {"create", "migrate", "pay"}) => (r.dels = {})
  /\ (r.op = "delete" /\ r.pc \in {"clear", "wait"}) => (r.dels = {})
  /\ (r.op = "delete") => (r.adds = {} /\ r.new[r.id] = None)
  /\ \A p \in r.dels \cup r.adds :
       IF r.op \in Fragile THEN p.of = r.id ELSE p.of \in r.rows /\ Written(r, p.of)
  /\ \A i \in r.held : (r.op \notin Fragile /\ Written(r, i)) =>
       IF i \in r.rows
       THEN /\ r.new[i] = [amount |-> r.amount, link |-> Own]
            /\ {p \in r.adds : p.of = i} = {PairOf(i, Own, r.amount, r.n)}
       ELSE r.new[i] = row[i]

\* A row has one holder, and requests that must not overlap are known to have.
OneHolder ==
  \A c, d \in Clients :
    (c # d /\ Busy(c) /\ Busy(d)) =>
      /\ req[c].held \cap req[d].held = {}
      /\ (req[c].rows \cap req[d].rows # {} /\ Conflict(req[c].op, req[d].op)) => c \in met

\* What a request that writes has read of rows no fragile overlap has touched.
WriteReads(r) ==
  /\ (r.id \notin raced /\ r.op \in Writes) =>
       /\ (r.pc = "clear" \/ (r.op # "reprice" /\ r.pc = "row")) =>
            row[r.id] = None \/ row[r.id].link \in {None, Own, r.link}
       /\ (r.pc = "wait") => (PostedFor(r.id) = r.hit)
  /\ \A i \in r.rows \ raced :
       (r.op \in Writes /\ Written(r, i)) => PostedFor(i) = {p \in r.dels : p.of = i}

\* What a request that acts on what it read before has read, when it met nobody.
FragileReads(r) ==
  /\ (r.op = "delete") =>
       /\ (r.pc = "clear") => (row[r.id] = None \/ row[r.id].link = r.link)
       /\ (r.pc = "wait") => (PostedFor(r.id) \subseteq r.hit)
       /\ (r.pc \in {"row", "commit"}) => (PostedFor(r.id) \subseteq r.dels)
       /\ (r.pc = "commit") => (r.id \in r.held \/ row[r.id] = None)
  /\ (r.op \in {"migrate", "pay"} /\ r.pc \in {"row", "commit"}) =>
       /\ row[r.id] # None
       /\ row[r.id].link = None
       /\ row[r.id].amount = r.amount
  /\ (r.op \in {"migrate", "pay"} /\ r.pc = "commit") =>
       \E g \in Groups : /\ r.id \in r.held
                         /\ r.new[r.id] = [amount |-> r.amount, link |-> g]
                         /\ r.adds = {PairOf(r.id, g, r.amount, r.n)}

\* Mirrored without cardinalities: the only pair of a posted transaction.
MirroredBy(id) ==
  IF row[id] = None \/ row[id].link = None
  THEN PostedFor(id) = {}
  ELSE \E p \in Pair : /\ PostedFor(id) = {p}
                       /\ p.group = row[id].link
                       /\ p.amount = row[id].amount

RequestHolds(c) ==
  Busy(c) => /\ RequestShape(req[c])
             /\ RequestWrote(req[c])
             /\ WriteReads(req[c])
             /\ (c \notin met /\ req[c].id \notin raced) => FragileReads(req[c])

IndInv ==
  /\ TypeOK
  /\ OneHolder
  /\ \A c \in Clients : RequestHolds(c)
  /\ \A id \in Ids \ raced : MirroredBy(id)
=============================================================================
