----------------------------- MODULE Ledger_proofs -----------------------------
(***************************************************************************)
(* Theorems about Ledger, for any installments, clients, amounts and       *)
(* number of requests.  IndInv is inductive: a request that does not       *)
(* commit changes nothing but itself (Stays), one that is through with a   *)
(* row (Settled) can turn to the bill, the next row or its commit, and a   *)
(* commit is the business of the transactions it wrote (CommitStep).       *)
(***************************************************************************)
EXTENDS Ledger, TLAPS, FiniteSetTheorems

USE DEF Own

LEMMA InitHolds == Init => IndInv
<1> SUFFICES ASSUME Init PROVE IndInv
    OBVIOUS
<1>1. /\ 1 \in Groups /\ Own \in Groups
    BY LedgerAssumption DEF Groups
<1>2. \A id \in Ids : row[id] # None =>
        row[id] \in Row /\ row[id].link \in {None, Own, 1}
    BY <1>1 DEF Init, Row
<1>3. row \in [Ids -> Row \cup {None}]
    BY <1>1 DEF Init, Row
<1>4. entries \subseteq Pair
    BY <1>1, <1>2, LedgerAssumption DEF Init, Pair, PairOf, Row
<1>5. TypeOK
    BY <1>1, <1>3, <1>4 DEF Init, TypeOK, Idle
<1>6. \A c \in Clients : ~Busy(c)
    BY DEF Init, Busy, Idle
<1>7. ASSUME NEW id \in Ids
      PROVE  MirroredBy(id)
  <2>1. CASE row[id] = None \/ row[id].link = None
    BY <2>1 DEF Init, MirroredBy, PostedFor, PairOf
  <2>2. CASE row[id] # None /\ row[id].link # None
    <3> DEFINE p == PairOf(id, row[id].link, row[id].amount, 1)
    <3>1. p \in Pair /\ p.of = id /\ p.group = row[id].link /\ p.amount = row[id].amount
        BY <1>1, <1>2, <2>2 DEF Pair, PairOf, Row
    <3>2. p \in entries
        BY <2>2 DEF Init
    <3>3. \A q \in entries : q.of = id => q = p
        BY DEF Init, PairOf
    <3>4. PostedFor(id) = {p}
        BY <3>1, <3>2, <3>3 DEF PostedFor
    <3> QED BY <2>2, <3>1, <3>4 DEF MirroredBy
  <2> QED BY <2>1, <2>2
<1> QED BY <1>5, <1>6, <1>7 DEF IndInv, OneHolder, RequestHolds

-----------------------------------------------------------------------------
(* Steps that commit nothing                                               *)

\* What a request read holds as long as nothing is committed.
LEMMA Unread ==
  ASSUME UNCHANGED <<row, entries, raced>>, NEW r
  PROVE  /\ RequestShape(r)' <=> RequestShape(r)
         /\ RequestWrote(r)' <=> RequestWrote(r)
         /\ WriteReads(r)' <=> WriteReads(r)
         /\ FragileReads(r)' <=> FragileReads(r)
<1>1. RequestShape(r)' <=> RequestShape(r)
    BY DEF RequestShape
<1>2. RequestWrote(r)' <=> RequestWrote(r)
    BY DEF RequestWrote, Written
<1>3. WriteReads(r)' <=> WriteReads(r)
    BY DEF WriteReads, Written, PostedFor
<1>4. FragileReads(r)' <=> FragileReads(r)
    BY DEF FragileReads, PostedFor
<1> QED BY <1>1, <1>2, <1>3, <1>4

\* A step of c that commits nothing disturbs nobody else.
LEMMA Stays ==
  ASSUME IndInv, NEW c \in Clients, NEW r \in Request \cup {Idle},
         req' = [req EXCEPT ![c] = r], UNCHANGED <<row, entries, raced>>,
         made' \in Groups, met' \subseteq Clients, met \ {c} \subseteq met',
         r # Idle => /\ RequestShape(r) /\ RequestWrote(r) /\ WriteReads(r)
                     /\ (c \notin met' /\ r.id \notin raced) => FragileReads(r)
                     /\ \A d \in Clients \ {c} : Busy(d) =>
                          /\ r.held \cap req[d].held = {}
                          /\ (r.rows \cap req[d].rows # {} /\ Conflict(r.op, req[d].op)) =>
                               {c, d} \subseteq met'
  PROVE  IndInv'
<1>1. TypeOK'
    BY DEF IndInv, TypeOK
<1>2. /\ req'[c] = r
      /\ \A d \in Clients \ {c} : req'[d] = req[d] /\ (d \notin met' => d \notin met)
    BY DEF IndInv, TypeOK
<1>3. (r = Idle) => ~Busy(c)'
    BY <1>2 DEF Busy, Idle
<1>4. ASSUME NEW d \in Clients, Busy(d)'
      PROVE  RequestHolds(d)'
  <2>1. CASE d = c
    <3>1. r # Idle
        BY <1>3, <1>4, <2>1
    <3>2. /\ RequestShape(r)' /\ RequestWrote(r)' /\ WriteReads(r)'
          /\ (c \notin met' /\ r.id \notin raced) => FragileReads(r)'
        BY <3>1, Unread
    <3> QED BY <1>2, <2>1, <3>2 DEF RequestHolds, RequestShape, RequestWrote, WriteReads,
                                    FragileReads, Written, PostedFor
  <2>2. CASE d # c
    <3>1. Busy(d) /\ req'[d] = req[d] /\ (d \notin met' => d \notin met)
        BY <1>2, <1>4, <2>2 DEF Busy
    <3>2. /\ RequestShape(req[d]) /\ RequestWrote(req[d]) /\ WriteReads(req[d])
          /\ (d \notin met' /\ req[d].id \notin raced) => FragileReads(req[d])
        BY <3>1 DEF IndInv, RequestHolds
    <3>3. RequestShape(req[d])' /\ RequestWrote(req[d])'
        BY <3>1, <3>2 DEF RequestShape, RequestWrote, Written
    <3>4. WriteReads(req[d])'
        BY <3>1, <3>2 DEF WriteReads, Written, PostedFor
    <3>5. ASSUME d \notin met', req'[d].id \notin raced'
          PROVE  FragileReads(req[d])'
      <4>1. FragileReads(req[d])
          BY <3>1, <3>2, <3>5
      <4> QED BY <3>1, <4>1 DEF FragileReads, PostedFor
    <3>6. req'[d] = req[d]
        BY <3>1
    <3> QED BY <3>3, <3>4, <3>5, <3>6, Zenon DEF RequestHolds
  <2> QED BY <2>1, <2>2
<1>5. OneHolder'
  <2> SUFFICES ASSUME NEW d \in Clients, NEW e \in Clients, d # e, Busy(d)', Busy(e)'
               PROVE  /\ req'[d].held \cap req'[e].held = {}
                      /\ (/\ req'[d].rows \cap req'[e].rows # {}
                          /\ Conflict(req'[d].op, req'[e].op)) => d \in met'
      BY DEF OneHolder, Conflict
  <2>1. CASE d # c /\ e # c
      BY <1>2, <2>1 DEF IndInv, OneHolder, Busy
  <2>2. CASE d = c
    <3>1. Busy(e) /\ req'[e] = req[e] /\ r # Idle
        BY <1>2, <1>3, <2>2 DEF Busy
    <3> QED BY <1>2, <2>2, <3>1
  <2>3. CASE e = c
    <3>1. Busy(d) /\ req'[d] = req[d] /\ r # Idle
        BY <1>2, <1>3, <2>3 DEF Busy
    <3>2. Conflict(req[d].op, r.op) => Conflict(r.op, req[d].op)
        BY DEF Conflict
    <3> QED BY <1>2, <2>3, <3>1, <3>2
  <2> QED BY <2>1, <2>2, <2>3
<1>6. \A id \in Ids \ raced' : MirroredBy(id)'
    BY DEF IndInv, MirroredBy, PostedFor
<1> QED BY <1>1, <1>4, <1>5, <1>6 DEF IndInv, RequestHolds

LEMMA FinishStep ==
  ASSUME IndInv, NEW c \in Clients, Finish(c)
  PROVE  IndInv'
<1>1. made' \in Groups /\ met' \subseteq Clients
    BY DEF IndInv, TypeOK, Finish
<1> QED BY <1>1, Stays DEF Finish

\* A request goes on: it keeps what it is about, and takes only rows that are free.
LEMMA ProceedStep ==
  ASSUME IndInv, NEW c \in Clients, Busy(c), NEW r \in Request, Proceed(c, r),
         r.op = req[c].op, r.rows = req[c].rows,
         RequestShape(r), RequestWrote(r), WriteReads(r),
         (c \notin met /\ r.id \notin raced) => FragileReads(r),
         \A i \in r.held : i \in req[c].held \/ Holders(i) = {}
  PROVE  IndInv'
<1>1. made' \in Groups /\ met' = met /\ met \subseteq Clients
    BY DEF IndInv, TypeOK, Proceed
<1>2. ASSUME NEW d \in Clients \ {c}, Busy(d)
      PROVE  /\ r.held \cap req[d].held = {}
             /\ (r.rows \cap req[d].rows # {} /\ Conflict(r.op, req[d].op)) =>
                  {c, d} \subseteq met
  <2>1. Conflict(r.op, req[d].op) => Conflict(req[d].op, r.op)
      BY DEF Conflict
  <2>2. \A i \in req[d].held : Holders(i) # {}
      BY <1>2 DEF Holders
  <2> QED BY <1>2, <2>1, <2>2 DEF IndInv, OneHolder
<1>3. r # Idle => \A d \in Clients \ {c} : Busy(d) =>
        /\ r.held \cap req[d].held = {}
        /\ (r.rows \cap req[d].rows # {} /\ Conflict(r.op, req[d].op)) =>
             {c, d} \subseteq met'
    BY <1>1, <1>2
<1> QED BY <1>1, <1>3, Stays DEF Proceed

LEMMA Typed ==
  ASSUME IndInv, NEW c \in Clients, Busy(c)
  PROVE  /\ req[c] \in Request
         /\ req[c].id \in Ids
         /\ row[req[c].id] # None => /\ row[req[c].id] \in Row
                                     /\ row[req[c].id].link \in Groups \cup {None}
                                     /\ row[req[c].id].amount \in Amounts
         /\ RequestShape(req[c]) /\ RequestWrote(req[c]) /\ WriteReads(req[c])
         /\ (c \notin met /\ req[c].id \notin raced) => FragileReads(req[c])
<1>1. req[c] \in Request
    BY DEF IndInv, TypeOK, Busy, Idle
<1>2. req[c].id \in Ids
    BY <1>1 DEF Request
<1>3. row[req[c].id] \in Row \cup {None}
    BY <1>2 DEF IndInv, TypeOK
<1>4. RequestHolds(c)
    BY DEF IndInv
<1> QED BY <1>1, <1>2, <1>3, <1>4 DEF RequestHolds, Row

\* The ledger of a row is found by either convention: nothing is missed.
LEMMA AllFound ==
  ASSUME IndInv, NEW id \in Ids \ raced, NEW link,
         row[id] = None \/ row[id].link \in {None, Own, link}
  PROVE  EntriesOf(id, link) = PostedFor(id)
<1>1. MirroredBy(id)
    BY DEF IndInv
<1>2. \A p \in PostedFor(id) : p.group \in {Own, link}
    BY <1>1 DEF MirroredBy
<1> QED BY <1>2 DEF EntriesOf, PostedFor

LEMMA BeginStep ==
  ASSUME IndInv, NEW c \in Clients, NEW op \in Ops, NEW rows \in SUBSET Ids, NEW id \in rows,
         NEW pc \in {"row", "look", "clear", "bill"}, NEW bill \in {"no", "due"},
         NEW amount \in Amounts, NEW link \in Groups \cup {None},
         Begin(c, op, rows, id, pc, bill, amount, link),
         pc = "look" <=> op = "pay", pc = "clear" <=> op = "delete", pc = "bill" <=> op = "reprice",
         op # "reprice" => rows = {id}, op = "reprice" => bill = "due",
         op \in Fragile \cup {"update"} => bill = "no",
         op \in {"update", "move", "delete"} => row[id] # None /\ row[id].link = link,
         op = "migrate" => row[id] # None /\ row[id].link = None /\ row[id].amount = amount
  PROVE  IndInv'
<1> DEFINE r == [pc |-> pc, op |-> op, id |-> id, todo |-> rows \ {id}, rows |-> rows,
                 bill |-> bill, n |-> made + 1, amount |-> amount, link |-> link,
                 held |-> {}, new |-> [i \in Ids |-> None],
                 hit |-> {}, dels |-> {}, adds |-> {}]
<1>1. made + 1 \in Groups /\ made' \in Groups
    BY LedgerAssumption DEF IndInv, TypeOK, Begin, Groups
<1>2. r \in Request
    BY <1>1 DEF Request
<1>3. met' \subseteq Clients /\ met \subseteq met'
    BY DEF IndInv, TypeOK, Begin
<1>4. req' = [req EXCEPT ![c] = r] /\ UNCHANGED <<row, entries, raced>>
    BY DEF Begin
<1>5. RequestShape(r)
    BY DEF RequestShape, Writes, Fragile
<1>6. RequestWrote(r)
    BY DEF RequestWrote, Fragile
<1>7. WriteReads(r) /\ FragileReads(r)
    BY DEF WriteReads, FragileReads, Written, Writes, Fragile
<1>8. \A d \in Clients \ {c} : Busy(d) =>
        /\ r.held \cap req[d].held = {}
        /\ (r.rows \cap req[d].rows # {} /\ Conflict(r.op, req[d].op)) => {c, d} \subseteq met'
  <2> DEFINE others == {d \in Clients \ {c} : /\ Busy(d) /\ rows \cap req[d].rows # {}
                                               /\ Conflict(op, req[d].op)}
  <2>1. met' = IF others = {} THEN met ELSE met \cup others \cup {c}
      BY DEF Begin
  <2>2. r.held = {} /\ r.rows = rows /\ r.op = op
      OBVIOUS
  <2> QED BY <2>1, <2>2
<1> HIDE DEF r
<1> QED BY <1>1, <1>2, <1>3, <1>4, <1>5, <1>6, <1>7, <1>8, Stays

\* What a request posts is a pair, and what it writes is a row.
LEMMA Posting ==
  ASSUME NEW r \in Request
  PROVE  /\ Own \in Groups /\ r.n \in Groups /\ r.amount \in Amounts /\ r.id \in Ids
         /\ \A i \in Ids : \A g \in Groups :
              /\ PairOf(i, g, r.amount, r.n) \in Pair
              /\ [amount |-> r.amount, link |-> g] \in Row
<1>1. Own \in Groups
    BY LedgerAssumption DEF Groups
<1>2. r.n \in Groups /\ r.amount \in Amounts /\ r.id \in Ids
    BY DEF Request
<1> QED BY <1>1, <1>2 DEF Pair, PairOf, Row

-----------------------------------------------------------------------------
(* Requests that are through with a row                                    *)

\* A charge, an edit or an anticipation with nothing under way: the entries of each
\* row it holds are replaced, or the row is only re-stamped.
Settled(s) ==
  /\ s.op \in Writes \cup {"create"}
  /\ (s.op \in {"create", "update"}) => (s.rows = {s.id} /\ s.todo = {} /\ s.held = {s.id})
  /\ (s.op = "update") => (s.bill = "no")
  /\ (s.op = "move") => (s.rows \subseteq s.held)
  /\ (s.op = "reprice") =>
       /\ s.id \in s.rows /\ s.todo \subseteq s.rows /\ s.held \subseteq s.rows
       /\ s.bill # "due"
  /\ s.todo \cap (s.held \cup {s.id}) = {}
  /\ \A i \in s.held : (row[i] = None) <=> (s.op = "create")
  /\ (s.op = "create") => (s.dels = {})
  /\ \A p \in s.dels \cup s.adds : p.of \in s.rows \cap s.held
  /\ \A i \in s.held :
       IF i \in s.rows
       THEN /\ s.new[i] = [amount |-> s.amount, link |-> Own]
            /\ {p \in s.adds : p.of = i} = {PairOf(i, Own, s.amount, s.n)}
       ELSE s.new[i] = row[i]
  /\ \A i \in (s.rows \cap s.held) \ raced :
       (s.op \in Writes) => (PostedFor(i) = {p \in s.dels : p.of = i})

\* Wherever a settled request turns, it is where the invariant expects it.
LEMMA Onward ==
  ASSUME NEW s, Settled(s), NEW t,
         t.op = s.op, t.rows = s.rows, t.bill = s.bill, t.n = s.n, t.amount = s.amount,
         t.held = s.held, t.new = s.new, t.dels = s.dels, t.adds = s.adds,
         \/ /\ t.pc = "commit" \/ (t.pc = "bill" /\ s.bill = "due")
            /\ t.id = s.id /\ t.todo = s.todo
         \/ /\ t.pc = IF s.op = "move" THEN "shift" ELSE "row"
            /\ t.id \in s.todo /\ t.todo = s.todo \ {t.id}
  PROVE  RequestShape(t) /\ RequestWrote(t) /\ WriteReads(t) /\ FragileReads(t)
<1>1. t.pc \in {"commit", "bill", "row", "shift"} /\ t.op \notin Fragile
    BY DEF Settled, Fragile, Writes
<1>2. RequestShape(t)
    BY <1>1 DEF Settled, RequestShape, Writes
<1>3. RequestWrote(t)
    BY <1>1 DEF Settled, RequestWrote, Written, Fragile, Writes
<1>4. WriteReads(t)
  <2>1. (t.op # "reprice") => (t.pc # "row")
      BY DEF Settled, Writes
  <2> QED BY <1>1, <2>1 DEF Settled, WriteReads, Written
<1>5. FragileReads(t)
    BY <1>1 DEF FragileReads, Fragile
<1> QED BY <1>2, <1>3, <1>4, <1>5

LEMMA GoOnStep ==
  ASSUME IndInv, NEW c \in Clients, Busy(c), NEW s \in Request, GoOn(c, s), Settled(s),
         s.op = req[c].op, s.rows = req[c].rows,
         \A i \in s.held : i \in req[c].held \/ Holders(i) = {}
  PROVE  IndInv'
<1>1. ASSUME NEW t \in Request, Proceed(c, t),
             t.op = s.op, t.rows = s.rows, t.bill = s.bill, t.n = s.n, t.amount = s.amount,
             t.held = s.held, t.new = s.new, t.dels = s.dels, t.adds = s.adds,
             \/ /\ t.pc = "commit" \/ (t.pc = "bill" /\ s.bill = "due")
                /\ t.id = s.id /\ t.todo = s.todo
             \/ /\ t.pc = IF s.op = "move" THEN "shift" ELSE "row"
                /\ t.id \in s.todo /\ t.todo = s.todo \ {t.id}
      PROVE  IndInv'
  <2>1. RequestShape(t) /\ RequestWrote(t) /\ WriteReads(t) /\ FragileReads(t)
      BY <1>1, Onward
  <2> QED BY <1>1, <2>1, ProceedStep
<1>2. CASE s.bill = "due" /\ Proceed(c, [s EXCEPT !.pc = "bill"])
  <2> DEFINE t == [s EXCEPT !.pc = "bill"]
  <2>1. /\ t \in Request
        /\ t.op = s.op /\ t.rows = s.rows /\ t.bill = s.bill /\ t.n = s.n
        /\ t.amount = s.amount /\ t.held = s.held /\ t.new = s.new /\ t.dels = s.dels
        /\ t.adds = s.adds /\ t.pc = "bill" /\ t.id = s.id /\ t.todo = s.todo
      BY DEF Request
  <2> HIDE DEF t
  <2> QED BY <1>1, <1>2, <2>1 DEF t
<1>3. CASE Proceed(c, [s EXCEPT !.pc = "commit"])
  <2> DEFINE t == [s EXCEPT !.pc = "commit"]
  <2>1. /\ t \in Request
        /\ t.op = s.op /\ t.rows = s.rows /\ t.bill = s.bill /\ t.n = s.n
        /\ t.amount = s.amount /\ t.held = s.held /\ t.new = s.new /\ t.dels = s.dels
        /\ t.adds = s.adds /\ t.pc = "commit" /\ t.id = s.id /\ t.todo = s.todo
      BY DEF Request
  <2> HIDE DEF t
  <2> QED BY <1>1, <1>3, <2>1 DEF t
<1>4. ASSUME NEW i \in s.todo,
             Proceed(c, [s EXCEPT !.pc = IF s.op = "move" THEN "shift" ELSE "row",
                                  !.id = i, !.todo = @ \ {i}])
      PROVE  IndInv'
  <2> DEFINE t == [s EXCEPT !.pc = IF s.op = "move" THEN "shift" ELSE "row",
                            !.id = i, !.todo = @ \ {i}]
  <2>1. /\ t \in Request
        /\ t.op = s.op /\ t.rows = s.rows /\ t.bill = s.bill /\ t.n = s.n
        /\ t.amount = s.amount /\ t.held = s.held /\ t.new = s.new /\ t.dels = s.dels
        /\ t.adds = s.adds /\ t.pc = (IF s.op = "move" THEN "shift" ELSE "row")
        /\ t.id = i /\ t.todo = s.todo \ {i}
      BY DEF Request
  <2>2. Proceed(c, t)
      BY <1>4
  <2> HIDE DEF t
  <2> QED BY <1>1, <1>4, <2>1, <2>2
<1> QED BY <1>2, <1>3, <1>4 DEF GoOn

\* At the bill and at a row to re-stamp nothing is under way.
LEMMA SettledAlready ==
  ASSUME NEW r \in Request, RequestShape(r), RequestWrote(r), WriteReads(r),
         r.pc \in {"bill", "shift"}, r.op # "reprice"
  PROVE  Settled(r)
<1>1. r.op \in Writes \cup {"create"} /\ r.op \notin Fragile
    BY LedgerAssumption DEF Request, RequestShape, Writes, Fragile
<1>2. \A i : Written(r, i) <=> i \in r.held
    BY DEF Written
<1>3. (r.op \in {"create", "update"}) => (r.rows = {r.id} /\ r.todo = {} /\ r.held = {r.id})
    BY DEF RequestShape
<1>4. (r.op = "move") => (r.rows \subseteq r.held)
    BY DEF RequestShape
<1>5. \A i \in (r.rows \cap r.held) \ raced :
        (r.op \in Writes) => (PostedFor(i) = {p \in r.dels : p.of = i})
    BY <1>2 DEF WriteReads
<1>6. r.todo \cap (r.held \cup {r.id}) = {} /\ ((r.op = "update") => (r.bill = "no"))
    BY DEF RequestShape
<1> QED BY <1>1, <1>2, <1>3, <1>4, <1>5, <1>6 DEF Settled, RequestWrote

-----------------------------------------------------------------------------
(* One step per statement                                                  *)

LEMMA InsertRowStep ==
  ASSUME IndInv, NEW c \in Clients, InsertRow(c)
  PROVE  IndInv'
<1> DEFINE r == req[c]
           s == [r EXCEPT !.held = {r.id},
                   !.new[r.id] = [amount |-> r.amount, link |-> Own],
                   !.adds = {PairOf(r.id, Own, r.amount, r.n)}]
<1>0. Busy(c) /\ r.pc = "row" /\ r.op = "create" /\ Holders(r.id) = {}
    BY DEF InsertRow, AtRow, Busy
<1>1. CASE row[r.id] # None
    BY <1>1, FinishStep DEF InsertRow
<1>2. CASE row[r.id] = None
  <2>1. GoOn(c, s)
      BY <1>2 DEF InsertRow
  <2>2. r \in Request /\ r.id \in Ids /\ RequestShape(r) /\ RequestWrote(r)
      BY <1>0, Typed
  <2>3. /\ [amount |-> r.amount, link |-> Own] \in Row
        /\ PairOf(r.id, Own, r.amount, r.n) \in Pair
      BY <2>2, Posting
  <2>4. s \in Request
      BY <2>2, <2>3 DEF Request
  <2>5. /\ s.op = "create" /\ s.rows = r.rows /\ s.todo = r.todo /\ s.id = r.id
        /\ s.bill = r.bill /\ s.dels = r.dels /\ s.amount = r.amount /\ s.n = r.n
        /\ s.held = {r.id}
        /\ s.new[r.id] = [amount |-> r.amount, link |-> Own]
        /\ s.adds = {PairOf(r.id, Own, r.amount, r.n)}
      BY <1>0, <2>2 DEF Request
  <2>6. r.rows = {r.id} /\ r.todo = {} /\ r.dels = {}
      BY <1>0, <2>2 DEF RequestShape, RequestWrote
  <2>7. Settled(s)
      BY <1>2, <2>5, <2>6 DEF Settled, PairOf, Writes
  <2> HIDE DEF s
  <2> QED BY <1>0, <2>1, <2>4, <2>5, <2>7, GoOnStep
<1> QED BY <1>1, <1>2

LEMMA UpdateRowStep ==
  ASSUME IndInv, NEW c \in Clients, UpdateRow(c)
  PROVE  IndInv'
<1> DEFINE r == req[c]
           s == [r EXCEPT !.pc = "clear", !.held = @ \cup {r.id},
                   !.link = IF r.op = "reprice" THEN row[r.id].link ELSE @]
<1>0. Busy(c) /\ r.pc = "row" /\ r.op \in Writes /\ Holders(r.id) = {}
    BY DEF UpdateRow, AtRow, Busy, Writes
<1>1. CASE row[r.id] = None
    BY <1>1, FinishStep DEF UpdateRow
<1>2. CASE row[r.id] # None
  <2>1. Proceed(c, s)
      BY <1>2 DEF UpdateRow
  <2>2. /\ r \in Request /\ r.id \in Ids /\ row[r.id].link \in Groups \cup {None}
        /\ RequestShape(r) /\ RequestWrote(r) /\ WriteReads(r)
      BY <1>0, <1>2, Typed
  <2>3. s \in Request
      BY <2>2 DEF Request
  <2>4. /\ s.op = r.op /\ s.pc = "clear" /\ s.held = r.held \cup {r.id} /\ s.id = r.id
        /\ s.rows = r.rows /\ s.todo = r.todo /\ s.bill = r.bill
        /\ s.amount = r.amount /\ s.n = r.n
        /\ s.hit = r.hit /\ s.dels = r.dels /\ s.adds = r.adds /\ s.new = r.new
        /\ s.link = IF r.op = "reprice" THEN row[r.id].link ELSE r.link
      BY <1>0, <2>2 DEF Request
  <2>5. r.id \notin r.held /\ r.op \notin Fragile /\ r.op # "create"
      BY <1>0, <2>2 DEF RequestShape, Writes, Fragile
  <2>6. \A i : Written(s, i) <=> i \in r.held
      BY <2>4, <2>5 DEF Written
  <2>7. \A i : Written(r, i) <=> i \in r.held
      BY <1>0 DEF Written
  <2>8. RequestShape(s)
      BY <1>0, <2>2, <2>4, <2>5 DEF RequestShape, Writes
  <2>9. RequestWrote(s)
      BY <1>0, <1>2, <2>2, <2>4, <2>5, <2>6, <2>7 DEF RequestWrote
  <2>10. WriteReads(s)
      BY <1>0, <2>2, <2>4, <2>6, <2>7 DEF WriteReads
  <2>11. FragileReads(s)
      BY <2>4, <2>5 DEF FragileReads, Fragile
  <2> HIDE DEF s
  <2> QED BY <1>0, <2>1, <2>3, <2>4, <2>8, <2>9, <2>10, <2>11, ProceedStep
<1> QED BY <1>1, <1>2

LEMMA ClearStartStep ==
  ASSUME IndInv, NEW c \in Clients, ClearStart(c)
  PROVE  IndInv'
<1> DEFINE r == req[c]
           found == EntriesOf(r.id, r.link)
           s == [r EXCEPT !.pc = "wait", !.hit = found]
<1>0. Busy(c) /\ r.pc = "clear" /\ Proceed(c, s)
    BY DEF ClearStart, Busy
<1>1. /\ r \in Request /\ r.id \in Ids
      /\ RequestShape(r) /\ RequestWrote(r) /\ WriteReads(r)
      /\ (c \notin met /\ r.id \notin raced) => FragileReads(r)
    BY <1>0, Typed
<1>2. found \subseteq Pair /\ \A p \in found : p.of = r.id
    BY DEF IndInv, TypeOK, EntriesOf
<1>3. s \in Request
    BY <1>1, <1>2 DEF Request
<1>4. /\ s.op = r.op /\ s.pc = "wait" /\ s.held = r.held /\ s.id = r.id
      /\ s.rows = r.rows /\ s.todo = r.todo /\ s.bill = r.bill
      /\ s.amount = r.amount /\ s.n = r.n /\ s.link = r.link
      /\ s.hit = found /\ s.dels = r.dels /\ s.adds = r.adds /\ s.new = r.new
    BY <1>1 DEF Request
<1>5. \A i : Written(s, i) <=> Written(r, i)
    BY <1>0, <1>4 DEF Written
<1>6. ASSUME r.id \notin raced, r.op = "delete" => c \notin met
      PROVE  found = PostedFor(r.id)
  <2>1. r.op \in Writes \cup {"delete"}
      BY <1>0, <1>1 DEF RequestShape
  <2>2. row[r.id] = None \/ row[r.id].link \in {None, Own, r.link}
      BY <1>0, <1>1, <1>6, <2>1 DEF WriteReads, FragileReads
  <2> QED BY <1>1, <1>6, <2>2, AllFound
<1> HIDE DEF found
<1>7. RequestShape(s)
    BY <1>0, <1>1, <1>4 DEF RequestShape
<1>8. RequestWrote(s)
    BY <1>0, <1>1, <1>2, <1>4, <1>5 DEF RequestWrote
<1>9. WriteReads(s)
    BY <1>1, <1>4, <1>5, <1>6 DEF WriteReads, Writes
<1>10. (c \notin met /\ s.id \notin raced) => FragileReads(s)
    BY <1>4, <1>6 DEF FragileReads
<1> HIDE DEF s
<1> QED BY <1>0, <1>3, <1>4, <1>7, <1>8, <1>9, <1>10, ProceedStep

LEMMA ClearEndStep ==
  ASSUME IndInv, NEW c \in Clients, ClearEnd(c)
  PROVE  IndInv'
<1> DEFINE r == req[c]
           gone == r.hit \cap entries
<1>0. Busy(c) /\ r.pc = "wait"
    BY DEF ClearEnd, Busy
<1>1. /\ r \in Request /\ r.id \in Ids
      /\ RequestShape(r) /\ RequestWrote(r) /\ WriteReads(r)
      /\ (c \notin met /\ r.id \notin raced) => FragileReads(r)
    BY <1>0, Typed
<1>2. gone \subseteq Pair /\ \A p \in gone : p.of = r.id
    BY <1>0, <1>1 DEF Request, RequestWrote
<1>3. r.op \in Writes \cup {"delete"}
    BY <1>0, <1>1 DEF RequestShape
<1>4. CASE r.op = "delete"
  <2> DEFINE s == [r EXCEPT !.pc = "row", !.dels = gone]
  <2>1. r.held = {} /\ Proceed(c, s)
    <3>1. r.held = {}
        BY <1>0, <1>1, <1>4 DEF RequestShape, Fragile
    <3> QED BY <1>4, <3>1 DEF ClearEnd, EntriesFirst
  <2>2. s \in Request
      BY <1>1, <1>2 DEF Request
  <2>3. /\ s.op = "delete" /\ s.pc = "row" /\ s.held = r.held /\ s.id = r.id
        /\ s.rows = r.rows /\ s.todo = r.todo /\ s.bill = r.bill
        /\ s.hit = r.hit /\ s.dels = gone /\ s.adds = r.adds /\ s.new = r.new
      BY <1>1, <1>4 DEF Request
  <2>4. \A p \in PostedFor(r.id) : p \in r.hit => p \in gone
      BY DEF PostedFor
  <2> HIDE DEF gone
  <2>5. RequestShape(s)
      BY <1>0, <1>1, <1>4, <2>1, <2>3 DEF RequestShape, Writes, Fragile
  <2>6. RequestWrote(s)
      BY <1>0, <1>1, <1>2, <1>4, <2>1, <2>3 DEF RequestWrote, Fragile
  <2>7. WriteReads(s)
      BY <2>1, <2>3 DEF WriteReads, Writes
  <2>8. (c \notin met /\ s.id \notin raced) => FragileReads(s)
      BY <1>0, <1>1, <1>4, <2>3, <2>4 DEF FragileReads
  <2> HIDE DEF s
  <2> QED BY <1>0, <1>4, <2>1, <2>2, <2>3, <2>5, <2>6, <2>7, <2>8, ProceedStep
<1>5. CASE r.op \in Writes
  <2> DEFINE new == [amount |-> r.amount, link |-> Own]
             pair == PairOf(r.id, Own, r.amount, r.n)
             s == [r EXCEPT !.dels = @ \cup gone, !.new[r.id] = new,
                     !.adds = @ \cup {pair},
                     !.todo = IF r.op = "move" THEN Existing \ {r.id} ELSE @]
  <2>1. GoOn(c, s)
      BY <1>5 DEF ClearEnd, EntriesFirst, Writes
  <2>2. new \in Row /\ pair \in Pair /\ pair.of = r.id
      BY <1>1, Posting DEF PairOf
  <2>3. s \in Request
      BY <1>1, <1>2, <2>2 DEF Request, Existing
  <2>4. /\ s.op = r.op /\ s.pc = "wait" /\ s.held = r.held /\ s.id = r.id
        /\ s.rows = r.rows /\ s.bill = r.bill /\ s.amount = r.amount /\ s.n = r.n
        /\ s.todo = IF r.op = "move" THEN Existing \ {r.id} ELSE r.todo
        /\ s.dels = r.dels \cup gone /\ s.adds = r.adds \cup {pair}
        /\ s.new[r.id] = new
        /\ \A i \in Ids \ {r.id} : s.new[i] = r.new[i]
      BY <1>0, <1>1 DEF Request
  <2>5. r.id \in r.held /\ r.held \subseteq Ids
      BY <1>0, <1>1, <1>5 DEF RequestShape, Request
  <2>6. r.id \notin raced => PostedFor(r.id) = gone
      BY <1>0, <1>1, <1>5 DEF WriteReads, PostedFor
  <2>7. \A i : Written(r, i) <=> i \in r.held \ {r.id}
      BY <1>0 DEF Written
  <2>8. r.op \notin Fragile /\ r.op # "create"
      BY <1>5 DEF Fragile, Writes
  <2>9. \A p \in r.dels \cup r.adds : p.of \in r.rows /\ p.of \in r.held \ {r.id}
      BY <1>1, <2>7, <2>8 DEF RequestWrote
  <2>10. r.id \in r.rows
      BY <1>0, <1>1, <1>5 DEF RequestShape, Writes
  <2> HIDE DEF new, gone, pair
  <2>11. /\ (s.op = "update") => (s.rows = {s.id} /\ s.todo = {} /\ s.held = {s.id} /\ s.bill = "no")
         /\ (s.op = "move") => (s.rows \subseteq s.held)
         /\ (s.op = "reprice") => /\ s.id \in s.rows /\ s.todo \subseteq s.rows
                                  /\ s.held \subseteq s.rows /\ s.bill # "due"
         /\ s.todo \cap (s.held \cup {s.id}) = {}
      BY <1>0, <1>1, <2>4, <2>5 DEF RequestShape
  <2>12. \A i \in s.held : row[i] # None
      BY <1>1, <2>4, <2>8 DEF RequestWrote
  <2>13. \A p \in s.dels \cup s.adds : p.of \in s.rows \cap s.held
      BY <1>2, <2>2, <2>4, <2>5, <2>9, <2>10
  <2>14. ASSUME NEW i \in s.held
         PROVE  IF i \in s.rows
                THEN /\ s.new[i] = [amount |-> s.amount, link |-> Own]
                     /\ {p \in s.adds : p.of = i} = {PairOf(i, Own, s.amount, s.n)}
                ELSE s.new[i] = row[i]
    <3>1. CASE i = r.id
        BY <2>2, <2>4, <2>9, <2>10, <3>1 DEF new, pair
    <3>2. CASE i # r.id
      <4>1. i \in r.held /\ Written(r, i) /\ s.new[i] = r.new[i]
          BY <2>4, <2>5, <2>7, <2>14, <3>2
      <4>2. {p \in s.adds : p.of = i} = {p \in r.adds : p.of = i}
          BY <2>2, <2>4, <3>2
      <4> QED BY <1>1, <2>4, <2>8, <4>1, <4>2 DEF RequestWrote
    <3> QED BY <3>1, <3>2
  <2>15. ASSUME NEW i \in (s.rows \cap s.held) \ raced
         PROVE  PostedFor(i) = {p \in s.dels : p.of = i}
    <3>1. CASE i = r.id
        BY <1>2, <2>4, <2>6, <2>9, <3>1
    <3>2. CASE i # r.id
      <4>1. PostedFor(i) = {p \in r.dels : p.of = i}
          BY <1>1, <1>5, <2>4, <2>7, <3>2 DEF WriteReads
      <4> QED BY <1>2, <2>4, <3>2, <4>1
    <3> QED BY <3>1, <3>2
  <2>16. Settled(s)
      BY <1>5, <2>4, <2>8, <2>11, <2>12, <2>13, <2>14, <2>15 DEF Settled
  <2> HIDE DEF s
  <2> QED BY <1>0, <2>1, <2>3, <2>4, <2>16, GoOnStep
<1> QED BY <1>3, <1>4, <1>5

LEMMA TakeBillStep ==
  ASSUME IndInv, NEW c \in Clients, TakeBill(c)
  PROVE  IndInv'
<1> DEFINE r == req[c]
           s == [r EXCEPT !.bill = "held"]
<1>0. Busy(c) /\ r.pc = "bill"
    BY DEF TakeBill, Busy
<1>1. /\ r \in Request /\ RequestShape(r) /\ RequestWrote(r) /\ WriteReads(r)
    BY <1>0, Typed
<1>2. r.op \notin Fragile
    BY <1>0, <1>1 DEF RequestShape
<1>3. CASE r.op = "reprice"
  <2> DEFINE t == [s EXCEPT !.pc = "row"]
  <2>1. s.op = r.op
      BY <1>1 DEF Request
  <2>2. Proceed(c, t)
      BY <1>3, <2>1 DEF TakeBill
  <2>3. t \in Request
      BY <1>1 DEF Request
  <2>4. /\ t.op = "reprice" /\ t.pc = "row" /\ t.held = r.held /\ t.id = r.id
        /\ t.rows = r.rows /\ t.todo = r.todo /\ t.bill = "held"
        /\ t.amount = r.amount /\ t.n = r.n
        /\ t.hit = r.hit /\ t.dels = r.dels /\ t.adds = r.adds /\ t.new = r.new
      BY <1>1, <1>3 DEF Request
  <2>5. r.held = {} /\ r.dels = {} /\ r.adds = {}
    <3>1. r.held = {}
        BY <1>0, <1>1, <1>3 DEF RequestShape
    <3> QED BY <1>1, <1>2, <3>1 DEF RequestWrote, Written
  <2>6. RequestShape(t)
      BY <1>0, <1>1, <1>3, <2>4, <2>5 DEF RequestShape, Writes, Fragile
  <2>7. RequestWrote(t)
      BY <2>4, <2>5 DEF RequestWrote, Fragile
  <2>8. WriteReads(t) /\ FragileReads(t)
      BY <2>4, <2>5 DEF WriteReads, Written, FragileReads
  <2> HIDE DEF t
  <2> QED BY <1>0, <1>3, <2>2, <2>3, <2>4, <2>5, <2>6, <2>7, <2>8, ProceedStep
<1>4. CASE r.op # "reprice"
  <2>1. s \in Request
      BY <1>1 DEF Request
  <2>2. /\ s.op = r.op /\ s.held = r.held /\ s.id = r.id
        /\ s.rows = r.rows /\ s.todo = r.todo /\ s.bill = "held"
        /\ s.amount = r.amount /\ s.n = r.n
        /\ s.dels = r.dels /\ s.adds = r.adds /\ s.new = r.new
      BY <1>1 DEF Request
  <2>3. GoOn(c, s)
      BY <1>4, <2>2 DEF TakeBill
  <2>4. Settled(r) /\ r.op # "update"
    <3>1. Settled(r)
        BY <1>0, <1>1, <1>4, SettledAlready
    <3> QED BY <1>0, <1>1, <3>1 DEF RequestShape
  <2>5. Settled(s)
      BY <1>4, <2>2, <2>4 DEF Settled
  <2> HIDE DEF s
  <2> QED BY <1>0, <2>1, <2>2, <2>3, <2>5, GoOnStep
<1> QED BY <1>3, <1>4

LEMMA ShiftRowStep ==
  ASSUME IndInv, NEW c \in Clients, ShiftRow(c)
  PROVE  IndInv'
<1> DEFINE r == req[c]
           s == [r EXCEPT !.held = @ \cup {r.id}, !.new[r.id] = row[r.id]]
<1>0. Busy(c) /\ r.pc = "shift" /\ Holders(r.id) = {}
    BY DEF ShiftRow, Busy
<1>1. /\ r \in Request /\ r.id \in Ids
      /\ RequestShape(r) /\ RequestWrote(r) /\ WriteReads(r)
      /\ row[r.id] # None => row[r.id] \in Row
    BY <1>0, Typed
<1>2. r.op = "move" /\ r.id \notin r.rows /\ r.id \notin r.held
    BY <1>0, <1>1 DEF RequestShape
<1>3. Settled(r)
    BY <1>0, <1>1, <1>2, SettledAlready
<1>4. CASE row[r.id] = None
  <2>1. GoOn(c, r)
      BY <1>4 DEF ShiftRow
  <2> QED BY <1>0, <1>1, <1>3, <2>1, GoOnStep
<1>5. CASE row[r.id] # None
  <2>1. GoOn(c, s)
      BY <1>5 DEF ShiftRow
  <2>2. s \in Request
      BY <1>1, <1>5 DEF Request
  <2>3. /\ s.op = r.op /\ s.held = r.held \cup {r.id} /\ s.id = r.id
        /\ s.rows = r.rows /\ s.todo = r.todo /\ s.bill = r.bill
        /\ s.amount = r.amount /\ s.n = r.n /\ s.dels = r.dels /\ s.adds = r.adds
        /\ s.new[r.id] = row[r.id]
        /\ \A i \in Ids \ {r.id} : s.new[i] = r.new[i]
      BY <1>1 DEF Request
  <2>4. r.held \subseteq Ids
      BY <1>1 DEF Request
  <2>5. \A i \in s.held : (row[i] = None) <=> (s.op = "create")
      BY <1>2, <1>3, <1>5, <2>3 DEF Settled
  <2>6. \A i \in s.held :
          IF i \in s.rows
          THEN /\ s.new[i] = [amount |-> s.amount, link |-> Own]
               /\ {p \in s.adds : p.of = i} = {PairOf(i, Own, s.amount, s.n)}
          ELSE s.new[i] = row[i]
      BY <1>2, <1>3, <2>3, <2>4 DEF Settled
  <2>7. \A i \in (s.rows \cap s.held) \ raced : PostedFor(i) = {p \in s.dels : p.of = i}
      BY <1>2, <1>3, <2>3 DEF Settled
  <2>8. Settled(s)
      BY <1>2, <1>3, <2>3, <2>5, <2>6, <2>7 DEF Settled
  <2> HIDE DEF s
  <2> QED BY <1>0, <2>1, <2>2, <2>3, <2>8, GoOnStep
<1> QED BY <1>4, <1>5

LEMMA DeleteRowStep ==
  ASSUME IndInv, NEW c \in Clients, DeleteRow(c)
  PROVE  IndInv'
<1> DEFINE r == req[c]
           s == [r EXCEPT !.pc = "commit", !.held = {r.id} \cap Existing]
<1>0. Busy(c) /\ r.pc = "row" /\ r.op = "delete" /\ Holders(r.id) = {}
    BY DEF DeleteRow, AtRow, Busy
<1>1. CASE Finish(c)
    BY <1>1, FinishStep
<1>2. CASE Proceed(c, s)
  <2>1. /\ r \in Request /\ r.id \in Ids
        /\ RequestShape(r) /\ RequestWrote(r) /\ WriteReads(r)
        /\ (c \notin met /\ r.id \notin raced) => FragileReads(r)
      BY <1>0, Typed
  <2>2. s \in Request
      BY <2>1 DEF Request
  <2>3. /\ s.op = "delete" /\ s.pc = "commit" /\ s.held = {r.id} \cap Existing
        /\ s.id = r.id /\ s.rows = r.rows /\ s.todo = r.todo /\ s.bill = r.bill
        /\ s.hit = r.hit /\ s.dels = r.dels /\ s.adds = r.adds /\ s.new = r.new
      BY <1>0, <2>1 DEF Request
  <2>4. r.id \in s.held <=> row[r.id] # None
      BY <2>1, <2>3 DEF Existing
  <2>5. RequestShape(s)
      BY <1>0, <2>1, <2>3 DEF RequestShape, Writes, Fragile
  <2>6. RequestWrote(s)
      BY <1>0, <2>1, <2>3, <2>4 DEF RequestWrote, Fragile
  <2>7. WriteReads(s)
      BY <2>3 DEF WriteReads, Writes
  <2>8. (c \notin met /\ s.id \notin raced) => FragileReads(s)
      BY <1>0, <2>1, <2>3, <2>4 DEF FragileReads
  <2>9. \A i \in s.held : Holders(i) = {}
      BY <1>0, <2>3
  <2> HIDE DEF s
  <2> QED BY <1>0, <1>2, <2>2, <2>3, <2>5, <2>6, <2>7, <2>8, <2>9, ProceedStep
<1> QED BY <1>1, <1>2 DEF DeleteRow

LEMMA PostAndLinkStep ==
  ASSUME IndInv, NEW c \in Clients, NEW group \in Groups,
         PostAndLink(c, {"migrate"}, group) \/ PostAndLink(c, {"pay"}, group)
  PROVE  IndInv'
<1> DEFINE r == req[c]
           new == IF row[r.id] = None THEN None
                  ELSE [amount |-> row[r.id].amount, link |-> group]
           adds == {PairOf(r.id, group, r.amount, r.n)}
           s == [r EXCEPT !.pc = "commit", !.held = {r.id} \cap Existing,
                   !.new[r.id] = new, !.adds = adds]
<1>0. Busy(c) /\ r.pc = "row" /\ r.op \in {"migrate", "pay"} /\ Holders(r.id) = {}
    BY DEF PostAndLink, AtRow, Busy
<1>1. Proceed(c, s)
    BY DEF PostAndLink
<1>2. /\ r \in Request /\ r.id \in Ids
      /\ RequestShape(r) /\ RequestWrote(r) /\ WriteReads(r)
      /\ (c \notin met /\ r.id \notin raced) => FragileReads(r)
      /\ row[r.id] # None => row[r.id].amount \in Amounts
    BY <1>0, Typed
<1>3. adds \subseteq Pair /\ new \in Row \cup {None} /\ \A p \in adds : p.of = r.id
    BY <1>2, Posting DEF Row, PairOf
<1>4. s \in Request
    BY <1>2, <1>3 DEF Request
<1>5. /\ s.op = r.op /\ s.pc = "commit" /\ s.held = {r.id} \cap Existing
      /\ s.id = r.id /\ s.rows = r.rows /\ s.todo = r.todo /\ s.bill = r.bill
      /\ s.hit = r.hit /\ s.dels = r.dels /\ s.adds = adds /\ s.new[r.id] = new
      /\ s.amount = r.amount /\ s.n = r.n
    BY <1>2 DEF Request
<1>6. r.dels = {}
    BY <1>0, <1>2 DEF RequestWrote
<1>7. r.id \in s.held <=> row[r.id] # None
    BY <1>2, <1>5 DEF Existing
<1> HIDE DEF adds, new
<1>8. RequestShape(s)
    BY <1>0, <1>2, <1>5 DEF RequestShape, Writes, Fragile
<1>9. RequestWrote(s)
    BY <1>0, <1>3, <1>5, <1>6, <1>7 DEF RequestWrote, Fragile
<1>10. WriteReads(s)
    BY <1>0, <1>5 DEF WriteReads, Writes
<1>11. (r.id \notin raced /\ c \notin met) =>
         /\ row[r.id] # None /\ row[r.id].link = None /\ row[r.id].amount = r.amount
         /\ new = [amount |-> r.amount, link |-> group]
    BY <1>0, <1>2 DEF FragileReads, new
<1>12. (c \notin met /\ s.id \notin raced) => FragileReads(s)
    BY <1>0, <1>5, <1>7, <1>11 DEF FragileReads, adds
<1>13. \A i \in s.held : Holders(i) = {}
    BY <1>0, <1>5
<1> HIDE DEF s
<1> QED BY <1>0, <1>1, <1>4, <1>5, <1>8, <1>9, <1>10, <1>12, <1>13, ProceedStep

LEMMA LookAtLinkStep ==
  ASSUME IndInv, NEW c \in Clients, LookAtLink(c)
  PROVE  IndInv'
<1> DEFINE r == req[c]
           s == [r EXCEPT !.pc = "row", !.amount = row[r.id].amount]
<1>0. Busy(c) /\ r.pc = "look"
    BY DEF LookAtLink, Busy
<1>1. CASE ~(row[r.id] # None /\ row[r.id].link = None)
    BY <1>1, FinishStep DEF LookAtLink
<1>2. CASE row[r.id] # None /\ row[r.id].link = None
  <2>1. /\ r \in Request /\ row[r.id].amount \in Amounts
        /\ RequestShape(r) /\ RequestWrote(r)
      BY <1>0, <1>2, Typed
  <2>2. Proceed(c, s)
      BY <1>2 DEF LookAtLink
  <2>3. s \in Request
      BY <2>1 DEF Request
  <2>4. /\ s.op = r.op /\ s.pc = "row" /\ s.held = r.held /\ s.id = r.id
        /\ s.rows = r.rows /\ s.todo = r.todo /\ s.bill = r.bill
        /\ s.hit = r.hit /\ s.dels = r.dels /\ s.adds = r.adds /\ s.new = r.new
        /\ s.amount = row[r.id].amount
      BY <2>1 DEF Request
  <2>5. r.op = "pay" /\ r.held = {}
      BY <1>0, <2>1 DEF RequestShape, Fragile
  <2>6. RequestShape(s)
      BY <1>0, <2>1, <2>4, <2>5 DEF RequestShape, Writes, Fragile
  <2>7. RequestWrote(s)
      BY <2>1, <2>4, <2>5 DEF RequestWrote, Fragile
  <2>8. WriteReads(s) /\ FragileReads(s)
      BY <1>2, <2>4, <2>5 DEF WriteReads, FragileReads, Writes
  <2> HIDE DEF s
  <2> QED BY <1>0, <2>2, <2>3, <2>4, <2>5, <2>6, <2>7, <2>8, ProceedStep
<1> QED BY <1>1, <1>2

-----------------------------------------------------------------------------
(* Commits                                                                 *)

\* The rows whose entries a commit changes, or that it puts in or takes away.
Touched(r) == IF r.op \in Fragile THEN {r.id} ELSE r.rows \cap r.held

LEMMA CommitElsewhere ==
  ASSUME IndInv, NEW c \in Clients, Commit(c), NEW id \in Ids \ Touched(req[c])
  PROVE  row'[id] = row[id] /\ PostedFor(id)' = PostedFor(id)
<1> DEFINE r == req[c]
<1>1. Busy(c) /\ r.pc = "commit"
    BY DEF Commit, Busy
<1>2. RequestShape(r) /\ RequestWrote(r)
    BY <1>1, Typed
<1>3. \A i : Written(r, i) <=> i \in r.held
    BY <1>1 DEF Written
<1>4. \A p \in r.dels \cup r.adds : p.of # id
    BY <1>2, <1>3 DEF RequestWrote, Touched
<1>5. id \in r.held => r.new[id] = row[id]
  <2>1. CASE r.op \in Fragile
      BY <1>2, <2>1 DEF RequestShape, Touched, Fragile
  <2>2. CASE r.op \notin Fragile
      BY <1>2, <1>3, <2>2 DEF RequestWrote, Touched
  <2> QED BY <2>1, <2>2
<1>6. row'[id] = IF id \in r.held THEN r.new[id] ELSE row[id]
    BY DEF Commit
<1>7. entries' = (entries \ r.dels) \cup r.adds
    BY DEF Commit
<1> QED BY <1>4, <1>5, <1>6, <1>7 DEF PostedFor

\* The row a commit wrote mirrors its pairs, if what the request read still held.
LEMMA CommitMirrors ==
  ASSUME IndInv, NEW c \in Clients, Commit(c), NEW id \in Ids \ raced', id \in Touched(req[c])
  PROVE  MirroredBy(id)'
<1> DEFINE r == req[c]
<1>1. Busy(c) /\ r.pc = "commit"
    BY DEF Commit, Busy
<1>2. /\ r \in Request /\ RequestShape(r) /\ RequestWrote(r) /\ WriteReads(r)
      /\ (c \notin met /\ r.id \notin raced) => FragileReads(r)
    BY <1>1, Typed
<1>3. id \notin raced /\ (r.op \in Fragile => c \notin met /\ id = r.id)
    BY DEF Commit, Touched
<1>4. MirroredBy(id)
    BY <1>3 DEF IndInv
<1>5. entries' = (entries \ r.dels) \cup r.adds
    BY DEF Commit
<1>6. row'[id] = IF id \in r.held THEN r.new[id] ELSE row[id]
    BY DEF Commit
<1>7. PostedFor(id)' = (PostedFor(id) \ {p \in r.dels : p.of = id}) \cup {p \in r.adds : p.of = id}
    BY <1>5 DEF PostedFor
<1>8. ASSUME NEW g \in Groups, id \in r.held, PostedFor(id) \subseteq {p \in r.dels : p.of = id},
             r.new[id] = [amount |-> r.amount, link |-> g],
             {p \in r.adds : p.of = id} = {PairOf(id, g, r.amount, r.n)}
      PROVE  MirroredBy(id)'
  <2> DEFINE p == PairOf(id, g, r.amount, r.n)
  <2>1. p \in Pair /\ p.group = g /\ p.amount = r.amount
      BY <1>2, Posting DEF PairOf
  <2>2. row'[id] # None /\ row'[id].link = g /\ row'[id].amount = r.amount
    <3>1. r.new[id] \in Row
        BY <1>2, <1>8, Posting
    <3> QED BY <1>6, <1>8, <3>1, LedgerAssumption
  <2>3. g # None
      BY LedgerAssumption
  <2>4. PostedFor(id)' = {p}
      BY <1>7, <1>8
  <2> QED BY <2>1, <2>2, <2>3, <2>4 DEF MirroredBy, PostedFor
<1>9. Own \in Groups
    BY <1>2, Posting
<1>10. CASE r.op \notin Fragile
  <2>1. id \in r.rows /\ id \in r.held /\ Written(r, id)
      BY <1>1, <1>10 DEF Touched, Written
  <2>2. /\ r.new[id] = [amount |-> r.amount, link |-> Own]
        /\ {p \in r.adds : p.of = id} = {PairOf(id, Own, r.amount, r.n)}
      BY <1>2, <1>10, <2>1 DEF RequestWrote
  <2>3. CASE r.op \in Writes
    <3>1. PostedFor(id) = {p \in r.dels : p.of = id}
        BY <1>2, <1>3, <2>1, <2>3 DEF WriteReads
    <3> QED BY <1>8, <1>9, <2>1, <2>2, <3>1
  <2>4. CASE r.op = "create"
    <3>1. row[id] = None
        BY <1>2, <2>1, <2>4 DEF RequestWrote
    <3>2. PostedFor(id) = {}
        BY <1>4, <3>1 DEF MirroredBy
    <3> QED BY <1>8, <1>9, <2>1, <2>2, <3>2
  <2>5. r.op \in Writes \cup {"create"}
      BY <1>2, <1>10, LedgerAssumption DEF Request, Writes, Fragile
  <2> QED BY <2>3, <2>4, <2>5
<1>11. CASE r.op = "delete"
  <2>1. id = r.id /\ FragileReads(r)
      BY <1>2, <1>3, <1>11 DEF Fragile
  <2>2. r.adds = {} /\ r.new[id] = None
      BY <1>2, <1>11, <2>1 DEF RequestWrote
  <2>3. PostedFor(id) \subseteq r.dels /\ (id \in r.held \/ row[id] = None)
      BY <1>1, <1>11, <2>1 DEF FragileReads
  <2>4. PostedFor(id)' = {}
      BY <1>7, <2>2, <2>3 DEF PostedFor
  <2>5. row'[id] = None
      BY <1>6, <2>2, <2>3
  <2> QED BY <2>4, <2>5 DEF MirroredBy, PostedFor
<1>12. CASE r.op \in {"migrate", "pay"}
  <2>1. id = r.id /\ FragileReads(r)
      BY <1>2, <1>3, <1>12 DEF Fragile
  <2>2. row[id] # None /\ row[id].link = None
      BY <1>1, <1>12, <2>1 DEF FragileReads
  <2>3. PICK g \in Groups : /\ id \in r.held
                            /\ r.new[id] = [amount |-> r.amount, link |-> g]
                            /\ r.adds = {PairOf(id, g, r.amount, r.n)}
      BY <1>1, <1>12, <2>1 DEF FragileReads
  <2>4. PostedFor(id) = {}
      BY <1>4, <2>2 DEF MirroredBy
  <2>5. {p \in r.adds : p.of = id} = {PairOf(id, g, r.amount, r.n)}
      BY <2>3 DEF PairOf
  <2> QED BY <1>8, <2>3, <2>4, <2>5
<1> QED BY <1>10, <1>11, <1>12 DEF Fragile

\* A commit leaves what another request d that writes has read as d needs it: a row d
\* holds is not the other's, and one d is at has its own group, or the commit raced.
LEMMA CommitWriteReads ==
  ASSUME IndInv, NEW c \in Clients, Commit(c), NEW d \in Clients \ {c}, Busy(d)
  PROVE  WriteReads(req[d])'
<1> DEFINE r == req[c]
           e == req[d]
<1>1. Busy(c) /\ r.pc = "commit"
    BY DEF Commit, Busy
<1>2. /\ r \in Request /\ r.id \in Ids /\ e \in Request /\ e.id \in Ids
      /\ RequestShape(r) /\ RequestWrote(r) /\ RequestShape(e) /\ WriteReads(e)
    BY <1>1, Typed
<1>3. req'[d] = e /\ raced \subseteq raced'
    BY DEF Commit, IndInv, TypeOK
<1>4. /\ r.held \cap e.held = {}
      /\ (r.rows \cap e.rows # {} /\ Conflict(r.op, e.op)) => c \in met
    BY <1>1 DEF IndInv, OneHolder
<1>5. Touched(r) \subseteq r.rows /\ e.rows \subseteq Ids
    BY <1>2 DEF Touched, RequestShape, Fragile, Request
<1>6. ASSUME NEW i \in (e.rows \cap Touched(r)) \ raced', e.op \in Writes
      PROVE  i \in r.held /\ i \notin e.held /\ row'[i].link = Own
  <2>1. r.op \notin Fragile
    <3>1. r.op \in Fragile => c \in met /\ i = r.id
        BY <1>4, <1>5, <1>6 DEF Conflict, Touched, Fragile, Writes
    <3> QED BY <1>6, <3>1 DEF Commit
  <2>2. i \in r.rows /\ i \in r.held /\ Written(r, i)
      BY <1>1, <1>6, <2>1 DEF Touched, Written
  <2>3. r.new[i] = [amount |-> r.amount, link |-> Own]
      BY <1>2, <2>1, <2>2 DEF RequestWrote
  <2>4. row'[i] = r.new[i]
      BY <1>5, <1>6, <2>2 DEF Commit
  <2> QED BY <1>4, <2>2, <2>3, <2>4
<1>7. ASSUME e.id \notin raced', e.op \in Writes,
             e.pc = "clear" \/ (e.op # "reprice" /\ e.pc = "row")
      PROVE  row'[e.id] = None \/ row'[e.id].link \in {None, Own, e.link}
  <2>1. e.id \in e.rows
      BY <1>2, <1>7 DEF RequestShape, Writes
  <2>2. CASE e.id \in Touched(r)
      BY <1>6, <1>7, <2>1, <2>2
  <2>3. CASE e.id \notin Touched(r)
    <3>1. row'[e.id] = row[e.id]
        BY <1>2, <2>3, CommitElsewhere
    <3> QED BY <1>2, <1>3, <1>7, <3>1 DEF WriteReads
  <2> QED BY <2>2, <2>3
<1>8. ASSUME e.id \notin raced', e.op \in Writes, e.pc = "wait"
      PROVE  PostedFor(e.id)' = e.hit
  <2>1. e.id \in e.rows /\ e.id \in e.held
      BY <1>2, <1>8 DEF RequestShape, Writes
  <2>2. e.id \notin Touched(r)
      BY <1>6, <1>8, <2>1
  <2>3. \A i \in Ids \ Touched(r) : PostedFor(i)' = PostedFor(i)
      BY CommitElsewhere
  <2>4. PostedFor(e.id)' = PostedFor(e.id)
      BY <1>2, <1>3, <2>2, <2>3 DEF PostedFor
  <2> QED BY <1>2, <1>3, <1>8, <2>4 DEF WriteReads
<1>9. ASSUME NEW i \in e.rows \ raced', e.op \in Writes, Written(e, i)
      PROVE  PostedFor(i)' = {p \in e.dels : p.of = i}
  <2>1. i \in e.held
      BY <1>9 DEF Written
  <2>2. i \notin Touched(r)
      BY <1>6, <1>9, <2>1
  <2>3. PostedFor(i)' = PostedFor(i)
      BY <1>5, <1>9, <2>2, CommitElsewhere
  <2> QED BY <1>2, <1>3, <1>9, <2>3 DEF WriteReads
<1> HIDE DEF e
<1>10. /\ (e.id \notin raced' /\ e.op \in Writes) =>
            /\ (e.pc = "clear" \/ (e.op # "reprice" /\ e.pc = "row")) =>
                 row'[e.id] = None \/ row'[e.id].link \in {None, Own, e.link}
            /\ (e.pc = "wait") => (PostedFor(e.id)' = e.hit)
       /\ \A i \in e.rows \ raced' :
            (e.op \in Writes /\ Written(e, i)) => PostedFor(i)' = {p \in e.dels : p.of = i}
    BY <1>7, <1>8, <1>9
<1> QED BY <1>3, <1>10 DEF e, WriteReads, Written, PostedFor

\* The same for a fragile request that met nobody: only another deletion can have
\* committed on its row, which leaves it with nothing to do.
LEMMA CommitFragileReads ==
  ASSUME IndInv, NEW c \in Clients, Commit(c), NEW d \in Clients \ {c}, Busy(d),
         d \notin met', req[d].id \notin raced'
  PROVE  FragileReads(req[d])'
<1> DEFINE r == req[c]
           e == req[d]
<1>1. Busy(c) /\ r.pc = "commit"
    BY DEF Commit, Busy
<1>2. /\ r \in Request /\ e \in Request /\ e.id \in Ids
      /\ RequestShape(r) /\ RequestWrote(r) /\ RequestShape(e)
      /\ (c \notin met /\ r.id \notin raced) => FragileReads(r)
      /\ (d \notin met /\ e.id \notin raced) => FragileReads(e)
    BY <1>1, Typed
<1>3. req'[d] = e /\ raced \subseteq raced' /\ d \notin met
    BY DEF Commit, IndInv, TypeOK
<1>4. FragileReads(e)
    BY <1>2, <1>3
<1>5. CASE e.op \notin Fragile
    BY <1>3, <1>5 DEF FragileReads, Fragile
<1>6. CASE e.op \in Fragile /\ e.id \notin Touched(r)
  <2>1. \A i \in Ids \ Touched(r) : row'[i] = row[i] /\ PostedFor(i)' = PostedFor(i)
      BY CommitElsewhere
  <2>2. row'[e.id] = row[e.id] /\ PostedFor(e.id)' = PostedFor(e.id)
      BY <1>2, <1>3, <1>6, <2>1 DEF PostedFor
  <2> QED BY <1>3, <1>4, <2>2 DEF FragileReads, PostedFor
<1>7. CASE e.op \in Fragile /\ e.id \in Touched(r)
  <2>1. r.rows \cap e.rows # {}
      BY <1>2, <1>7 DEF RequestShape, Touched, Fragile
  <2>2. Conflict(r.op, e.op) => d \in met
    <3>1. Conflict(r.op, e.op) => Conflict(e.op, r.op)
        BY DEF Conflict
    <3> QED BY <1>1, <2>1, <3>1 DEF IndInv, OneHolder
  <2>3. r.op = "delete" /\ e.op = "delete"
      BY <1>3, <1>7, <2>2 DEF Conflict
  <2>4. r.id = e.id /\ c \notin met
      BY <1>7, <2>3 DEF Touched, Fragile, Commit
  <2>5. r.new[e.id] = None /\ r.adds = {} /\ (e.id \in r.held \/ row[e.id] = None)
      BY <1>1, <1>2, <1>3, <2>3, <2>4 DEF RequestWrote, FragileReads
  <2>6. row'[e.id] = None
      BY <1>2, <2>5 DEF Commit
  <2>7. PostedFor(e.id)' \subseteq PostedFor(e.id)
      BY <2>5 DEF Commit, PostedFor
  <2> QED BY <1>3, <1>4, <2>3, <2>6, <2>7 DEF FragileReads, PostedFor
<1> QED BY <1>5, <1>6, <1>7

LEMMA CommitStep ==
  ASSUME IndInv, NEW c \in Clients, Commit(c)
  PROVE  IndInv'
<1> DEFINE r == req[c]
<1>1. Busy(c) /\ r.pc = "commit"
    BY DEF Commit, Busy
<1>2. r \in Request /\ r.id \in Ids
    BY <1>1, Typed
<1>3. r.new \in [Ids -> Row \cup {None}] /\ r.adds \subseteq Pair
    BY <1>2 DEF Request
<1>4. TypeOK'
  <2>1. row' \in [Ids -> Row \cup {None}]
      BY <1>3 DEF IndInv, TypeOK, Commit
  <2>2. req' \in [Clients -> Request \cup {Idle}]
      BY DEF IndInv, TypeOK, Commit
  <2> QED BY <1>2, <1>3, <2>1, <2>2 DEF IndInv, TypeOK, Commit
<1>5. /\ req'[c] = Idle /\ ~Busy(c)'
      /\ \A d \in Clients \ {c} : req'[d] = req[d] /\ (d \in met' <=> d \in met)
    BY DEF Commit, IndInv, TypeOK, Busy, Idle
<1>6. OneHolder'
    BY <1>5 DEF IndInv, OneHolder, Busy
<1>7. ASSUME NEW d \in Clients
      PROVE  RequestHolds(d)'
  <2>1. CASE d = c
      BY <1>5, <2>1 DEF RequestHolds
  <2>2. CASE d # c /\ ~Busy(d)
      BY <1>5, <2>2 DEF RequestHolds, Busy
  <2>3. CASE d # c /\ Busy(d)
    <3>1. req[d].held \subseteq Ids /\ \A i \in req[d].held : row'[i] = row[i]
      <4>1. r.held \cap req[d].held = {}
          BY <1>1, <2>3 DEF IndInv, OneHolder
      <4>2. req[d] \in Request
          BY <2>3, Typed
      <4> QED BY <4>1, <4>2 DEF Commit, Request
    <3>2. RequestShape(req[d])'
        BY <1>5, <2>3, Typed DEF RequestShape
    <3>3. RequestWrote(req[d])
        BY <2>3, Typed
    <3>4. RequestWrote(req[d])'
        BY <1>5, <2>3, <3>1, <3>3 DEF RequestWrote, Written
    <3>5. WriteReads(req[d])'
        BY <2>3, CommitWriteReads
    <3>6. (d \notin met' /\ req[d].id \notin raced') => FragileReads(req[d])'
        BY <2>3, CommitFragileReads
    <3>7. req'[d] = req[d]
        BY <1>5, <2>3
    <3> QED BY <3>2, <3>4, <3>5, <3>6, <3>7, Zenon DEF RequestHolds
  <2> QED BY <2>1, <2>2, <2>3
<1>8. ASSUME NEW id \in Ids \ raced'
      PROVE  MirroredBy(id)'
  <2>1. CASE id \in Touched(r)
      BY <1>8, <2>1, CommitMirrors
  <2>2. CASE id \notin Touched(r)
    <3>1. id \notin raced
        BY <1>8 DEF Commit
    <3>2. MirroredBy(id)
        BY <3>1 DEF IndInv
    <3>3. row'[id] = row[id] /\ PostedFor(id)' = PostedFor(id)
        BY <2>2, CommitElsewhere
    <3> QED BY <3>2, <3>3 DEF MirroredBy, PostedFor
  <2> QED BY <2>1, <2>2
<1> QED BY <1>4, <1>6, <1>7, <1>8 DEF IndInv

-----------------------------------------------------------------------------
(* Theorems                                                                *)

LEMMA Inductive == IndInv /\ [Next]_vars => IndInv'
<1> SUFFICES ASSUME IndInv, [Next]_vars PROVE IndInv'
    OBVIOUS
<1>1. CASE UNCHANGED vars
  <2> USE <1>1 DEF vars
  <2>1. TypeOK'
      BY DEF IndInv, TypeOK
  <2>2. OneHolder'
      BY DEF IndInv, OneHolder, Busy
  <2>3. ASSUME NEW c \in Clients
        PROVE  RequestHolds(c)'
    <3>1. RequestHolds(c)
        BY DEF IndInv
    <3>2. /\ RequestShape(req[c])' <=> RequestShape(req[c])
          /\ RequestWrote(req[c])' <=> RequestWrote(req[c])
        BY DEF RequestShape, RequestWrote, Written
    <3>3. /\ WriteReads(req[c])' <=> WriteReads(req[c])
          /\ FragileReads(req[c])' <=> FragileReads(req[c])
        BY DEF WriteReads, FragileReads, Written, PostedFor
    <3>4. (Busy(c)' <=> Busy(c)) /\ req' = req /\ met' = met /\ raced' = raced
        BY DEF Busy
    <3> QED BY <3>1, <3>2, <3>3, <3>4, Zenon DEF RequestHolds
  <2>4. \A id \in Ids \ raced' : MirroredBy(id)'
      BY DEF IndInv, MirroredBy, PostedFor
  <2> QED BY <2>1, <2>2, <2>3, <2>4 DEF IndInv
<1>2. ASSUME NEW c \in Clients, NEW id \in Ids, NEW a \in Amounts, NEW bill \in {"no", "due"},
             Create(c, id, bill, a) \/ Update(c, id, a) \/ Move(c, id, bill, a)
      PROVE  IndInv'
  <2>1. row[id] # None => row[id].link \in Groups \cup {None}
      BY DEF IndInv, TypeOK, Row
  <2>2. {id} \in SUBSET Ids /\ id \in {id}
      OBVIOUS
  <2>3. CASE Create(c, id, bill, a)
    <3>1. "create" \in Ops /\ Begin(c, "create", {id}, id, "row", bill, a, None)
        BY <2>3 DEF Create, BeginOne, Begin
    <3> QED BY <2>2, <3>1, BeginStep DEF Fragile
  <2>4. CASE Update(c, id, a)
    <3>1. /\ "update" \in Ops /\ row[id] # None
          /\ Begin(c, "update", {id}, id, "row", "no", a, row[id].link)
        BY <2>4 DEF Update, BeginEdit, BeginOne, Begin, Start, EntriesFirst
    <3> QED BY <2>1, <2>2, <3>1, BeginStep DEF Fragile
  <2>5. CASE Move(c, id, bill, a)
    <3>1. /\ "move" \in Ops /\ row[id] # None
          /\ Begin(c, "move", {id}, id, "row", bill, a, row[id].link)
        BY <2>5 DEF Move, BeginEdit, BeginOne, Begin, Start, EntriesFirst
    <3> QED BY <2>1, <2>2, <3>1, BeginStep DEF Fragile
  <2> QED BY <1>2, <2>3, <2>4, <2>5
<1>3. ASSUME NEW c \in Clients, NEW rows \in SUBSET Ids, NEW a \in Amounts, Reprice(c, rows, a)
      PROVE  IndInv'
  <2>1. PICK id \in rows : Begin(c, "reprice", rows, id, "bill", "due", a, None)
      BY <1>3 DEF Reprice, Start, EntriesFirst
  <2>2. "reprice" \in Ops
      BY <2>1 DEF Begin
  <2> QED BY <2>1, <2>2, BeginStep DEF Fragile
<1>4. ASSUME NEW c \in Clients, NEW id \in Ids, Delete(c, id) \/ Migrate(c, id) \/ Pay(c, id)
      PROVE  IndInv'
  <2>1. row[id] # None => /\ row[id].link \in Groups \cup {None}
                          /\ row[id].amount \in Amounts
      BY DEF IndInv, TypeOK, Row
  <2>2. {id} \in SUBSET Ids /\ id \in {id}
      OBVIOUS
  <2>3. CASE Delete(c, id)
    <3>1. /\ row[id].link \in Groups \cup {None} /\ row[id].amount \in Amounts
          /\ row[id] # None /\ "delete" \in Ops
          /\ Begin(c, "delete", {id}, id, "clear", "no", row[id].amount, row[id].link)
        BY <2>1, <2>3 DEF Delete, BeginOne, Begin, Start, EntriesFirst
    <3> QED BY <2>2, <3>1, BeginStep
  <2>4. CASE Migrate(c, id)
    <3>1. /\ row[id].amount \in Amounts /\ None \in Groups \cup {None}
          /\ row[id] # None /\ row[id].link = None /\ "migrate" \in Ops
          /\ Begin(c, "migrate", {id}, id, "row", "no", row[id].amount, None)
        BY <2>1, <2>4 DEF Migrate, BeginOne, Begin
    <3> QED BY <2>2, <3>1, BeginStep
  <2>5. CASE Pay(c, id)
    <3>1. /\ row[id].amount \in Amounts /\ None \in Groups \cup {None} /\ "pay" \in Ops
          /\ Begin(c, "pay", {id}, id, "look", "no", row[id].amount, None)
        BY <2>1, <2>5 DEF Pay, BeginOne, Begin
    <3> QED BY <2>2, <3>1, BeginStep
  <2> QED BY <1>4, <2>3, <2>4, <2>5
<1>5. ASSUME NEW c \in Clients, MigrateRow(c) \/ PayRow(c)
      PROVE  IndInv'
  <2>1. Own \in Groups
      BY LedgerAssumption DEF Groups
  <2>2. CASE MigrateRow(c)
    <3>1. Busy(c)
        BY <2>2 DEF MigrateRow, PostAndLink, AtRow, Busy
    <3>2. req[c].n \in Groups
        BY <3>1, Typed, Posting
    <3> QED BY <2>2, <3>2, PostAndLinkStep DEF MigrateRow
  <2>3. CASE PayRow(c)
      BY <2>1, <2>3, PostAndLinkStep DEF PayRow
  <2> QED BY <1>5, <2>2, <2>3
<1>6. ASSUME NEW c \in Clients, Abort(c)
      PROVE  IndInv'
    BY <1>6, FinishStep DEF Abort
<1> QED BY <1>1, <1>2, <1>3, <1>4, <1>5, <1>6, InsertRowStep, UpdateRowStep, ClearStartStep,
           ClearEndStep, TakeBillStep, ShiftRowStep, DeleteRowStep, LookAtLinkStep, CommitStep DEF Next

\* What every handler of transactions.rs and its callers keeps between two statements:
\* the state is typed, a lock has one holder, only fragile requests race for a row,
\* postings belong to rows that exist, and a row is linked to exactly the pair posted
\* for it, whatever overlaps, fails or deadlocks.
THEOREM IndInvHolds == Spec => []IndInv
<1> QED BY InitHolds, Inductive, PTL DEF Spec

LEMMA MirroredFollows == IndInv => Mirrored
<1> SUFFICES ASSUME IndInv, NEW id \in Ids \ raced
             PROVE  /\ {<<p.group, p.amount>> : p \in PostedFor(id)} = MirrorOf(id)
                    /\ Cardinality(PostedFor(id)) <= 1
    BY DEF Mirrored
<1>1. MirroredBy(id)
    BY DEF IndInv
<1>2. CASE row[id] = None \/ row[id].link = None
  <2>1. PostedFor(id) = {}
      BY <1>1, <1>2 DEF MirroredBy
  <2> QED BY <1>2, <2>1, FS_EmptySet DEF MirrorOf
<1>3. CASE row[id] # None /\ row[id].link # None
  <2>1. PICK p \in Pair : /\ PostedFor(id) = {p}
                          /\ p.group = row[id].link /\ p.amount = row[id].amount
      BY <1>1, <1>3 DEF MirroredBy
  <2>2. Cardinality({p}) = 1
      BY FS_Singleton
  <2> QED BY <1>3, <2>1, <2>2 DEF MirrorOf
<1> QED BY <1>2, <1>3

\* Every transaction that no fragile overlap committed on has exactly the pair that
\* mirrors it, whatever creates, edits, anticipations, retries, deletions, failures
\* and deadlocks happen around it (transaction_ledger.rs and its callers).
THEOREM MirroredHolds == Spec => []Mirrored
<1> QED BY IndInvHolds, MirroredFollows, PTL

\* In every circle of requests that wait for each other, however long, there is a
\* deletion that has removed entries, a plan that moves and holds a row, or an
\* anticipation that holds the bill, reaching for a row: shift_plan_bills
\* (transactions.rs:647) and anticipate_installments (credit_cards.rs:1407) take
\* several rows one after the other, delete_transaction (transactions.rs:1378) takes
\* entries before the row.  Charges, other edits, migrations and payments alone
\* never deadlock.
THEOREM DeadlocksOutOfOrder == Spec => []DeadlockOutOfOrder
<1>1. IndInv => DeadlockOutOfOrder
  <2> SUFFICES ASSUME IndInv, NEW S \in (SUBSET Clients) \ {{}},
                      \A c \in S : WaitsFor(c) \cap S # {},
                      \A c \in S : ~OutOfOrder(c)
               PROVE  FALSE
      BY DEF DeadlockOutOfOrder
  <2>1. ASSUME NEW c \in S
        PROVE  /\ Busy(c) /\ req[c].pc \in {"row", "shift", "wait", "bill"}
               /\ RequestShape(req[c]) /\ RequestWrote(req[c]) /\ req[c] \in Request
    <3>1. req[c].pc \in {"row", "shift", "wait", "bill"}
        BY <2>1 DEF WaitsFor
    <3>2. Busy(c)
        BY <3>1 DEF Busy
    <3> QED BY <3>1, <3>2, Typed
  <2>2. ASSUME NEW c \in S, req[c].pc \in {"row", "shift"}
        PROVE  req[c].held = {} /\ req[c].bill # "held" /\ req[c].dels = {}
    <3> DEFINE r == req[c]
    <3>1. CASE r.op \in {"delete", "move", "reprice"}
        BY <2>2, <3>1 DEF OutOfOrder
    <3>2. CASE r.op \in {"create", "migrate", "pay", "update"}
      <4>1. r.held = {} /\ r.bill # "held"
          BY <2>1, <2>2, <3>2 DEF RequestShape, Fragile
      <4>2. r.dels = {}
          BY <2>1, <3>2, <4>1 DEF RequestWrote, Written, Fragile
      <4> QED BY <4>1, <4>2
    <3> QED BY <2>1, <3>1, <3>2, LedgerAssumption DEF Request
  <2>3. ASSUME NEW c \in S, NEW d \in S, c # d, req[c].pc = "wait",
               req[d].dels \cap req[c].hit # {}
        PROVE  req[c].op = "delete" /\ req[d].pc = "bill"
    <3>1. PICK p \in req[d].dels : p.of = req[c].id
        BY <2>1, <2>3 DEF RequestWrote
    <3>2. req[d].pc \in {"wait", "bill"}
        BY <2>1, <2>2, <3>1
    <3>3. req[d].op \notin Fragile
        BY <2>1, <3>1, <3>2 DEF RequestWrote, RequestShape, Fragile
    <3>4. req[c].id \in req[d].held
        BY <2>1, <3>1, <3>3 DEF RequestWrote, Written
    <3>5. req[c].id \notin req[c].held
        BY <2>1, <2>3, <3>4 DEF IndInv, OneHolder
    <3>6. req[c].op = "delete"
        BY <2>1, <2>3, <3>5 DEF RequestShape
    <3>7. req[d].pc # "wait"
      <4>1. SUFFICES ASSUME req[d].pc = "wait" PROVE FALSE
          OBVIOUS
      <4>2. PICK e \in S : e # d /\ req[e].dels \cap req[d].hit # {}
          BY <4>1 DEF WaitsFor, Deleting
      <4>3. PICK q \in req[e].dels : q.of = req[d].id
          BY <2>1, <4>1, <4>2 DEF RequestWrote
      <4>4. req[e].pc \in {"wait", "bill"}
          BY <2>1, <2>2, <4>3
      <4>5. req[e].op \notin Fragile
          BY <2>1, <4>3, <4>4 DEF RequestWrote, RequestShape, Fragile
      <4>6. req[d].id \in req[e].held
          BY <2>1, <4>3, <4>5 DEF RequestWrote, Written
      <4>7. req[d].id \in req[d].held
          BY <2>1, <3>3, <4>1 DEF RequestShape, Fragile
      <4> QED BY <2>1, <4>2, <4>6, <4>7 DEF IndInv, OneHolder
    <3> QED BY <3>2, <3>6, <3>7
  <2>4. ASSUME NEW c \in S, req[c].pc = "bill"
        PROVE  FALSE
    <3>1. PICK d \in S : d # c /\ req[d].bill = "held"
        BY <2>4 DEF WaitsFor, BillHolders
    <3>2. req[d].pc = "wait" /\ req[d].op = "reprice"
        BY <2>1, <2>2, <3>1 DEF RequestShape
    <3>3. PICK e \in S : e # d /\ req[e].dels \cap req[d].hit # {}
        BY <3>2 DEF WaitsFor, Deleting
    <3> QED BY <2>3, <3>2, <3>3
  <2>5. ASSUME NEW c \in S, req[c].pc = "wait"
        PROVE  FALSE
    <3>1. PICK d \in S : d # c /\ req[d].dels \cap req[c].hit # {}
        BY <2>5 DEF WaitsFor, Deleting
    <3> QED BY <2>3, <2>4, <2>5, <3>1
  <2>6. PICK c \in S : TRUE
      OBVIOUS
  <2>7. req[c].pc \in {"row", "shift"}
      BY <2>1, <2>4, <2>5
  <2>8. PICK d \in S : req[d].held # {}
      BY <2>7 DEF WaitsFor, Holders
  <2> QED BY <2>1, <2>2, <2>4, <2>5, <2>8
<1> QED BY <1>1, IndInvHolds, PTL
=============================================================================
