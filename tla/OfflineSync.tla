---------------------------- MODULE OfflineSync ----------------------------
(***************************************************************************)
(* The offline-first client of PudimFinance: the IndexedDB mirror and      *)
(* mutation queue (offline/database.ts), the mutators of the UI            *)
(* (lib/api.ts), and the foreground engine (offline/sync-engine.ts),       *)
(* against the server's push and pull handlers (backend routes/sync.rs).   *)
(*                                                                         *)
(* JavaScript runs to the next await, so every action below is the code    *)
(* between two awaits that touch shared state.  Two activities interleave: *)
(* one user operation (ui) and one sync pass (pc); syncInFlight makes the  *)
(* pass single.  The Android worker is in NativeSync.                      *)
(***************************************************************************)
EXTENDS SyncServer, FiniteSets

CONSTANTS
  Initial,            \* rows already on the server and in the mirror
  UiOps,              \* what the user does in this instance
  Faults,             \* what goes wrong: "loss", "reject", "crash", "other"
  MAX_PUSH_ATTEMPTS,  \* rejections before an operation parks
  MaxOps,             \* bound: queued operations in a behaviour
  MaxClock,           \* bound: server writes after which the UI stays offline
  MaxFaults           \* bound: lost requests, crashes, foreign writes, retries

MirrorRow == [val : Vals, synced : BOOLEAN, linked : BOOLEAN]

ASSUME OfflineSyncAssumption ==
  /\ None \notin MirrorRow
  /\ Initial \subseteq Ids
  /\ MAX_PUSH_ATTEMPTS \in Nat \ {0}
  /\ MaxOps \in Nat
  /\ MaxClock \in Nat
  /\ MaxFaults \in Nat

VARIABLES
  db,        \* server table: Ids -> ServerRow or None
  clock,     \* server time
  queue,     \* pending_operations
  nextOp,    \* next autoincrement key of pending_operations
  mirror,    \* local rows: Ids -> MirrorRow or None
  lastSync,  \* last_synced_at
  pc,        \* where the sync pass is
  sent,      \* operations of the batch in flight
  todo,      \* those the server has not run yet
  results,   \* results not handled yet
  later,     \* updates and deletes held back behind the creates
  failed,    \* a result of this batch was not ok
  held,      \* what the pass read and is about to write back
  pulled,    \* response of /api/sync/pull
  stamp,     \* server_time of that response
  store,     \* object store being replaced
  ui,        \* the user operation in progress
  faults,    \* faults so far
  \* History, read by the properties only
  born,      \* ids ever created
  intent,    \* what the user last asked each row to be
  stored,    \* ids the server ever held
  accepted,  \* operations the server executed with "ok"
  waived,    \* ids the user gave a change of up or took back, or others wrote
  doubled    \* ids with two operations in one batch

serverVars == <<db, clock>>
idbVars == <<queue, nextOp, mirror, lastSync>>
passVars == <<pc, sent, todo, results, later, failed, held, pulled, stamp, store>>
ghostVars == <<born, intent, stored, accepted, waived, doubled>>
vars == <<db, clock, queue, nextOp, mirror, lastSync, pc, sent, todo, results, later,
          failed, held, pulled, stamp, store, ui, faults, born, intent, stored,
          accepted, waived, doubled>>

PendingOperation ==
  {o \in [n : Nat, type : OpTypes, cid : Ids, val : Vals \cup {None}, attempts : Nat] :
     o.type # "delete" => o.val \in Vals}
Result == [n : Nat, cid : Ids, status : {"ok", "conflict", "error"}]

UiState == [pc : {"idle", "create", "update", "rewrite", "delete", "withdraw", "discard",
                  "settle", "remove", "http", "reply", "retry"},
            type : OpTypes, id : Ids \cup {None}, val : Vals \cup {None},
            row : MirrorRow \cup {None}, ops : SUBSET PendingOperation]

Settled(v) == [val |-> v, synced |-> TRUE, linked |-> TRUE]
LocalOnly(v) == [val |-> v, synced |-> FALSE, linked |-> FALSE]

NoRows == [id \in Ids |-> None]
IdleUi == [pc |-> "idle", type |-> "create", id |-> None, val |-> None, row |-> None,
           ops |-> {}]

isOperationFailed(op) == op.attempts >= MAX_PUSH_ATTEMPTS
Numbered(n) == {o \in queue : o.n = n}
AckedUpTo(n) == {o \in queue : o.n > n}        \* mutant: clears the queue up to n
Without(n) == {o \in queue : o.n # n}

Put(f, id, x) == [f EXCEPT ![id] = x]

Init ==
  /\ db = [id \in Ids |->
             IF id \in Initial THEN [val |-> CHOOSE v \in Vals : TRUE, upd |-> 1]
                               ELSE None]
  /\ clock = 1
  /\ queue = {}
  /\ nextOp = 1
  /\ mirror = [id \in Ids |->
                 IF id \in Initial THEN Settled(CHOOSE v \in Vals : TRUE) ELSE None]
  /\ lastSync = 1
  /\ pc = "idle"
  /\ sent = {} /\ todo = {} /\ results = {} /\ later = {}
  /\ failed = FALSE
  /\ held = None
  /\ pulled = NoRows
  /\ stamp = 0
  /\ store = "transaction"
  /\ ui = IdleUi
  /\ faults = 0
  /\ born = Initial
  /\ intent = [id \in Ids |-> IF id \in Initial THEN CHOOSE v \in Vals : TRUE ELSE None]
  /\ stored = Initial
  /\ accepted = {}
  /\ waived = {}
  /\ doubled = {}

-----------------------------------------------------------------------------
(* The user: mutators of lib/api.ts on their offline path                  *)

\* addPendingOperation
Enqueue(type, id, v) ==
  /\ nextOp <= MaxOps
  /\ queue' = queue \cup
       {[n |-> nextOp, type |-> type, cid |-> id, val |-> v, attempts |-> 0]}
  /\ nextOp' = nextOp + 1

\* createTransaction, createCategory, createAccount: queue the create under a
\* fresh UUID, then write the optimistic mirror row.
Create(id, v) ==
  /\ "create" \in UiOps
  /\ ui.pc = "idle"
  /\ id \notin born
  /\ Enqueue("create", id, v)
  /\ ui' = [IdleUi EXCEPT !.pc = "create", !.id = id, !.val = v]
  /\ born' = born \cup {id}
  /\ intent' = Put(intent, id, v)
  /\ UNCHANGED <<serverVars, mirror, lastSync, passVars, faults, stored, accepted,
                 waived, doubled>>

CreateRow ==
  /\ ui.pc = "create"
  /\ mirror' = Put(mirror, ui.id, LocalOnly(ui.val))
  /\ ui' = IdleUi
  /\ UNCHANGED <<serverVars, queue, nextOp, lastSync, passVars, faults, ghostVars>>

\* An edit of a row the user had deleted, which a pull brought back, is no wish
\* to have it again.
Wish(id, v) == intent' = IF intent[id] = None THEN intent ELSE Put(intent, id, v)

\* updateTransaction and its siblings: queue the edit, read the row, write it
\* back with the new fields.  synced and server_id are carried over as read.
Update(id, v) ==
  /\ "update" \in UiOps
  /\ ui.pc = "idle"
  /\ mirror[id] # None
  /\ mirror[id].val # v
  /\ Enqueue("update", id, v)
  /\ ui' = [IdleUi EXCEPT !.pc = "update", !.id = id, !.val = v]
  /\ Wish(id, v)
  /\ UNCHANGED <<serverVars, mirror, lastSync, passVars, faults, born, stored, accepted,
                 waived, doubled>>

UpdateRead ==
  /\ ui.pc = "update"
  /\ ui' = IF mirror[ui.id] = None
             THEN IdleUi
             ELSE [ui EXCEPT !.pc = "rewrite", !.row = mirror[ui.id]]
  /\ UNCHANGED <<serverVars, idbVars, passVars, faults, ghostVars>>

UpdateRow ==
  /\ ui.pc = "rewrite"
  /\ mirror' = Put(mirror, ui.id, [ui.row EXCEPT !.val = ui.val])
  /\ ui' = IdleUi
  /\ UNCHANGED <<serverVars, queue, nextOp, lastSync, passVars, faults, ghostVars>>

\* deleteTransaction reads the row first: one that was never synced only loses
\* its queued operations.  Categories and accounts always queue the delete.
NeverSynced(id) ==
  /\ Kind[id] = "transaction"
  /\ ~mirror[id].synced
  /\ ~mirror[id].linked

Delete(id) ==
  /\ "delete" \in UiOps
  /\ ui.pc = "idle"
  /\ mirror[id] # None
  /\ ui' = [IdleUi EXCEPT !.pc = IF NeverSynced(id) THEN "withdraw" ELSE "delete",
                          !.id = id]
  /\ UNCHANGED <<serverVars, idbVars, passVars, faults, ghostVars>>

DeleteQueue ==
  /\ ui.pc = "delete"
  /\ Enqueue("delete", ui.id, None)
  /\ ui' = [ui EXCEPT !.pc = "remove"]
  /\ intent' = Put(intent, ui.id, None)
  /\ UNCHANGED <<serverVars, mirror, lastSync, passVars, faults, born, stored, accepted,
                 waived, doubled>>

WithdrawRead ==
  /\ ui.pc = "withdraw"
  /\ ui' = [ui EXCEPT !.pc = "discard", !.ops = {o \in queue : o.cid = ui.id}]
  /\ UNCHANGED <<serverVars, idbVars, passVars, faults, ghostVars>>

DeleteRow ==
  /\ ui.pc = "remove"
  /\ mirror' = Put(mirror, ui.id, None)
  /\ intent' = Put(intent, ui.id, None)
  /\ ui' = IdleUi
  /\ UNCHANGED <<serverVars, queue, nextOp, lastSync, passVars, faults, born, stored,
                 accepted, waived, doubled>>

-----------------------------------------------------------------------------
(* The user: the same mutators on their online path                        *)

\* isOnline said yes, the HTTP request leaves.  The id of a create is the one
\* the server will assign.
Online(type, id, v) ==
  /\ "online" \in UiOps
  /\ type \in UiOps
  /\ clock < MaxClock
  /\ ui.pc = "idle"
  /\ IF type = "create" THEN id \notin born
                        ELSE mirror[id] # None /\ intent[id] # None
  /\ type = "delete" => ~NeverSynced(id)
  /\ ui' = [IdleUi EXCEPT !.pc = "http", !.type = type, !.id = id, !.val = v]
  /\ born' = born \cup {id}
  /\ UNCHANGED <<serverVars, idbVars, passVars, faults, intent, stored, accepted, waived,
                 doubled>>

\* The route handler commits; an error reply ends the operation.
HttpRun ==
  /\ ui.pc = "http"
  /\ LET op  == [n |-> 0, type |-> ui.type, cid |-> ui.id, val |-> ui.val, attempts |-> 0]
         out == Applied(op, db[ui.id], clock + 1)
     IN /\ db' = Put(db, ui.id, out.row)
        /\ clock' = IF out.row # None THEN clock + 1 ELSE clock
        /\ ui' = IF out.status = "ok" THEN [ui EXCEPT !.pc = "reply"] ELSE IdleUi
        /\ stored' = IF out.row # None THEN stored \cup {ui.id} ELSE stored
        /\ intent' = IF out.status # "ok" THEN intent
                      ELSE Put(intent, ui.id, IF ui.type = "delete" THEN None ELSE ui.val)
  /\ UNCHANGED <<idbVars, passVars, faults, born, accepted, waived, doubled>>

\* The reply is written to the mirror.
HttpReply ==
  /\ ui.pc = "reply"
  /\ mirror' = Put(mirror, ui.id, IF ui.type = "delete" THEN None ELSE Settled(ui.val))
  /\ ui' = IdleUi
  /\ UNCHANGED <<serverVars, queue, nextOp, lastSync, passVars, faults, ghostVars>>

-----------------------------------------------------------------------------
(* The user: the banner's discard and retry                                *)

\* The review sheet lists the parked operations; each can be discarded.
Discard(o) ==
  /\ "discard" \in UiOps
  /\ ui.pc = "idle"
  /\ o \in queue
  /\ isOperationFailed(o)
  /\ ui' = [IdleUi EXCEPT !.pc = "discard", !.ops = {o}]
  /\ waived' = waived \cup {o.cid}
  /\ UNCHANGED <<serverVars, idbVars, passVars, faults, born, intent, stored, accepted,
                 doubled>>

\* Deleting a row that was never synced takes it back, whatever a push in flight
\* may already have done with it.
TakenBack ==
  IF ui.id = None
    THEN UNCHANGED <<intent, waived>>
    ELSE /\ intent' = Put(intent, ui.id, None)
         /\ waived' = waived \cup {ui.id}

\* discardPendingOperations: drop the operation, then settle its row.  A create
\* takes its row along, an update marks it synced, a delete leaves it gone.
DiscardOp(o) ==
  /\ ui.pc = "discard"
  /\ o \in ui.ops
  /\ \A p \in ui.ops : o.n <= p.n
  /\ queue' = Without(o.n)
  /\ ui' = [ui EXCEPT !.pc = "settle"]
  /\ TakenBack
  /\ UNCHANGED <<serverVars, nextOp, mirror, lastSync, passVars, faults, born, stored,
                 accepted, doubled>>

DiscardRow(o) ==
  /\ ui.pc = "settle"
  /\ o \in ui.ops
  /\ \A p \in ui.ops : o.n <= p.n
  /\ mirror' = CASE o.type = "create" -> Put(mirror, o.cid, None)
                 [] o.type = "update" /\ mirror[o.cid] # None ->
                      Put(mirror, o.cid, Settled(mirror[o.cid].val))
                 [] OTHER -> mirror
  /\ ui' = [ui EXCEPT !.pc = "discard", !.ops = @ \ {o}]
  /\ UNCHANGED <<serverVars, queue, nextOp, lastSync, passVars, faults, ghostVars>>

DiscardDone ==
  /\ ui.pc = "discard"
  /\ ui.ops = {}
  /\ ui' = IF ui.id = None THEN IdleUi ELSE [ui EXCEPT !.pc = "remove"]
  /\ TakenBack
  /\ UNCHANGED <<serverVars, idbVars, passVars, faults, born, stored, accepted, doubled>>

\* retryFailedOperations: resetPendingOperationFailures reads the queue once and
\* writes every operation that ever failed back with a fresh budget.
Retry ==
  /\ "retry" \in UiOps
  /\ ui.pc = "idle"
  /\ faults < MaxFaults
  /\ \E o \in queue : isOperationFailed(o)
  /\ ui' = [IdleUi EXCEPT !.pc = "retry", !.ops = {o \in queue : o.attempts > 0}]
  /\ faults' = faults + 1
  /\ UNCHANGED <<serverVars, idbVars, passVars, ghostVars>>

RetryOp(o) ==
  /\ ui.pc = "retry"
  /\ o \in ui.ops
  /\ \A p \in ui.ops : o.n <= p.n
  /\ queue' = Without(o.n) \cup {[o EXCEPT !.attempts = 0]}
  /\ ui' = IF ui.ops = {o} THEN IdleUi ELSE [ui EXCEPT !.ops = @ \ {o}]
  /\ UNCHANGED <<serverVars, nextOp, mirror, lastSync, passVars, faults, ghostVars>>

-----------------------------------------------------------------------------
(* The sync pass: push                                                     *)

\* A batch holding two operations of one id confuses the results (see Answer).
Doubles(ops) ==
  {id \in Ids : \E o, p \in ops : o.cid = id /\ p.cid = id /\ o.n # p.n}

SendBatch(ops) ==
  /\ pc' = "push"
  /\ sent' = ops
  /\ todo' = ops
  /\ doubled' = doubled \cup Doubles(ops)

\* performSync, pushPending: operations with attempts left, creates first.
OneBatch(creates, rest) == creates \cup rest    \* mutant: everything at once
FirstBatch(creates, rest) == IF creates = {} THEN rest ELSE creates

StartSync ==
  /\ pc = "idle"
  /\ LET pending == {o \in queue : ~isOperationFailed(o)}
         creates == {o \in pending : o.type = "create"}
         rest    == pending \ creates
     IN IF pending = {}
          THEN /\ pc' = "pull"
               /\ UNCHANGED <<sent, todo, later, doubled>>
          ELSE /\ SendBatch(FirstBatch(creates, rest))
               /\ later' = IF creates = {} THEN {} ELSE rest
  /\ UNCHANGED <<serverVars, idbVars, results, failed, held, pulled, stamp, store, ui,
                 faults, born, intent, stored, accepted, waived>>

\* push handler: one operation after the other, each in its own transaction.
ServerApply(op) ==
  /\ pc = "push"
  /\ op \in todo
  /\ \A p \in todo : op.n <= p.n
  /\ \E out \in {Applied(op, db[op.cid], clock + 1)} \cup
                (IF "reject" \in Faults THEN Rejections(op, db[op.cid]) ELSE {}) :
       /\ db' = Put(db, op.cid, out.row)
       /\ clock' = IF out.row # None /\ out.row # db[op.cid] THEN clock + 1 ELSE clock
       /\ results' = results \cup {[n |-> op.n, cid |-> op.cid, status |-> out.status]}
       /\ stored' = IF out.row # None THEN stored \cup {op.cid} ELSE stored
       /\ accepted' = IF out.status = "ok" THEN accepted \cup {op.n} ELSE accepted
  /\ todo' = todo \ {op}
  /\ UNCHANGED <<idbVars, pc, sent, later, failed, held, pulled, stamp, store, ui, faults,
                 born, intent, waived, doubled>>

PushReply ==
  /\ pc = "push"
  /\ todo = {}
  /\ pc' = "ack"
  /\ UNCHANGED <<serverVars, idbVars, sent, todo, results, later, failed, held, pulled,
                 stamp, store, ui, faults, ghostVars>>

\* pushBatch looks the operation up in a Map keyed by client id, which keeps the
\* last operation of each id.
Answers(r, op) ==
  /\ r \in results
  /\ \A q \in results : r.n <= q.n
  /\ op \in sent
  /\ op.cid = r.cid
  /\ \A p \in sent : p.cid = r.cid => p.n <= op.n

\* What recordPendingOperationFailure writes back.
FailureDrops(op) == {}                          \* mutant: a rejection is final
FailureUncounted(op) == {op}                    \* mutant: retries have no budget
Failure(op) == {[op EXCEPT !.attempts = @ + 1]}

\* recordPendingOperationFailure: read the operation, write it back.
AckRejected(r, op) ==
  /\ pc = "ack"
  /\ Answers(r, op)
  /\ r.status # "ok"
  /\ failed' = TRUE
  /\ \/ /\ Numbered(op.n) = {}
        /\ results' = results \ {r}
        /\ UNCHANGED <<pc, held>>
     \/ \E o \in Numbered(op.n) :
          /\ held' = o
          /\ pc' = "fail"
          /\ UNCHANGED results
  /\ UNCHANGED <<serverVars, idbVars, sent, todo, later, pulled, stamp, store, ui, faults,
                 ghostVars>>

RecordFailure(r) ==
  /\ pc = "fail"
  /\ r \in results
  /\ \A q \in results : r.n <= q.n
  /\ queue' = Without(held.n) \cup Failure(held)
  /\ results' = results \ {r}
  /\ held' = None
  /\ pc' = "ack"
  /\ UNCHANGED <<serverVars, nextOp, mirror, lastSync, sent, todo, later, failed, pulled,
                 stamp, store, ui, faults, ghostVars>>

\* markTransactionSynced and its siblings: read the row, write it back linked.
NoRowCheck(id) == "mark"                        \* mutant: writes a row it did not find
MarkOrDrop(id) == IF mirror[id] = None THEN "drop" ELSE "mark"

AckCreated(r, op) ==
  /\ pc = "ack"
  /\ Answers(r, op)
  /\ r.status = "ok"
  /\ op.type = "create"
  /\ held' = mirror[op.cid]
  /\ pc' = MarkOrDrop(op.cid)
  /\ UNCHANGED <<serverVars, idbVars, sent, todo, results, later, failed, pulled, stamp,
                 store, ui, faults, ghostVars>>

MarkSynced(r, op) ==
  /\ pc = "mark"
  /\ Answers(r, op)
  /\ mirror' = Put(mirror, op.cid, Settled(held.val))
  /\ held' = None
  /\ pc' = "drop"
  /\ UNCHANGED <<serverVars, queue, nextOp, lastSync, sent, todo, results, later, failed,
                 pulled, stamp, store, ui, faults, ghostVars>>

\* removePendingOperation, at once for an update or a delete.
AckDone(r, op) ==
  /\ \/ pc = "drop"
     \/ pc = "ack" /\ op.type # "create" /\ r.status = "ok"
  /\ Answers(r, op)
  /\ queue' = Without(op.n)
  /\ results' = results \ {r}
  /\ pc' = "ack"
  /\ UNCHANGED <<serverVars, nextOp, mirror, lastSync, sent, todo, later, failed, held,
                 pulled, stamp, store, ui, faults, ghostVars>>

\* pushPending: the rest follows only when every create of the pass was ok.
RestAnyway == later = {}                        \* mutant: a failed create stops nothing
PushOver == failed \/ later = {}

BatchDone ==
  /\ pc = "ack"
  /\ results = {}
  /\ IF PushOver
       THEN /\ pc' = "pull"
            /\ sent' = {}
            /\ UNCHANGED <<todo, doubled>>
       ELSE SendBatch(later)
  /\ later' = {}
  /\ failed' = FALSE
  /\ UNCHANGED <<serverVars, idbVars, results, held, pulled, stamp, store, ui, faults,
                 born, intent, stored, accepted, waived>>

-----------------------------------------------------------------------------
(* The sync pass: pull                                                     *)

\* pull handler: rows newer than last_synced_at, and every account.
PullQuery ==
  /\ pc = "pull"
  /\ pulled' = [id \in Ids |->
                  IF db[id] # None /\ (db[id].upd > lastSync \/ Kind[id] = "account")
                    THEN db[id].val ELSE None]
  /\ pc' = "stamp"
  /\ UNCHANGED <<serverVars, idbVars, sent, todo, results, later, failed, held, stamp,
                 store, ui, faults, ghostVars>>

\* Stores of this instance, in the order pullChanges replaces them.
Position == [k \in Kinds |->
               IF k = "transaction" THEN 1 ELSE IF k = "category" THEN 2 ELSE 3]
StoresAfter(i) == {Kind[id] : id \in {j \in Ids : Position[Kind[j]] > i}}
Nearest(stores) == CHOOSE k \in stores : \A l \in stores : Position[k] <= Position[l]

\* server_time is taken after the queries.
PullReply ==
  /\ pc = "stamp"
  /\ stamp' = clock
  /\ store' = Nearest(StoresAfter(0))
  /\ pc' = "merge"
  /\ UNCHANGED <<serverVars, idbVars, sent, todo, results, later, failed, held, pulled, ui,
                 faults, ghostVars>>

\* pullChanges reads the store and merges the response over it in memory ...
PulledOnly(id) ==                               \* mutant: drops rows not pulled
  IF pulled[id] # None THEN Settled(pulled[id]) ELSE None
MergedRow(id) == IF pulled[id] # None THEN Settled(pulled[id]) ELSE mirror[id]

Merge ==
  /\ pc = "merge"
  /\ held' = [id \in Ids |-> IF Kind[id] = store THEN MergedRow(id) ELSE None]
  /\ pc' = "clear"
  /\ UNCHANGED <<serverVars, idbVars, sent, todo, results, later, failed, pulled, stamp,
                 store, ui, faults, ghostVars>>

\* ... replaceLocal*: clears the store in one IndexedDB transaction ...
ClearStore ==
  /\ pc = "clear"
  /\ mirror' = [id \in Ids |-> IF Kind[id] = store THEN None ELSE mirror[id]]
  /\ pc' = "fill"
  /\ UNCHANGED <<serverVars, queue, nextOp, lastSync, sent, todo, results, later, failed,
                 held, pulled, stamp, store, ui, faults, ghostVars>>

\* ... and fills it in another.
FillStore ==
  /\ pc = "fill"
  /\ mirror' = [id \in Ids |-> IF held[id] # None THEN held[id] ELSE mirror[id]]
  /\ held' = None
  /\ LET next == StoresAfter(Position[store])
     IN IF next = {}
          THEN pc' = "save" /\ store' = "transaction"
          ELSE pc' = "merge" /\ store' = Nearest(next)
  /\ UNCHANGED <<serverVars, queue, nextOp, lastSync, sent, todo, results, later, failed,
                 pulled, stamp, ui, faults, ghostVars>>

SaveLastSync ==
  /\ pc = "save"
  /\ lastSync' = stamp
  /\ pc' = "idle"
  /\ pulled' = NoRows
  /\ stamp' = 0
  /\ UNCHANGED <<serverVars, queue, nextOp, mirror, sent, todo, results, later, failed,
                 held, store, ui, faults, ghostVars>>

-----------------------------------------------------------------------------
(* Faults                                                                  *)

PassReset ==
  /\ pc' = "idle"
  /\ sent' = {} /\ todo' = {} /\ results' = {} /\ later' = {}
  /\ failed' = FALSE
  /\ held' = None
  /\ pulled' = NoRows
  /\ stamp' = 0
  /\ store' = "transaction"

Fault(f) ==
  /\ f \in Faults
  /\ faults < MaxFaults
  /\ faults' = faults + 1

\* A request of the pass fails in transport or times out, before, during or
\* after its execution; performSync's catch ends the pass.
Loss ==
  /\ Fault("loss")
  /\ pc \in {"push", "pull", "stamp"}
  /\ PassReset
  /\ UNCHANGED <<serverVars, idbVars, ui, ghostVars>>

\* isNetworkError: the request of a mutator got no answer, whether or not the
\* server ran it, and the mutator falls back to queueAndStore.  A create falls
\* back under a UUID of its own.
FallbackDropped(id) == UNCHANGED <<queue, nextOp>>   \* mutant: the write is gone
Fallback(id) == Enqueue(ui.type, id, ui.val)

HttpLoss(id) ==
  /\ Fault("loss")
  /\ ui.pc \in {"http", "reply"}
  /\ IF ui.type = "create" THEN id \notin born ELSE id = ui.id
  /\ Fallback(id)
  /\ ui' = [ui EXCEPT !.pc = IF ui.type = "delete" THEN "remove" ELSE ui.type, !.id = id]
  /\ born' = born \cup {id}
  /\ intent' = CASE ui.type = "create" -> Put(Put(intent, ui.id, None), id, ui.val)
                 [] ui.type = "update" -> Put(intent, id, ui.val)
                 [] ui.type = "delete" -> Put(intent, id, None)
  /\ UNCHANGED <<serverVars, mirror, lastSync, passVars, stored, accepted, waived, doubled>>

\* The WebView or the app goes away; IndexedDB stays.
Crash ==
  /\ Fault("crash")
  /\ pc # "idle" \/ ui.pc # "idle"
  /\ PassReset
  /\ ui' = IdleUi
  /\ UNCHANGED <<serverVars, idbVars, ghostVars>>

\* Another client of the same account writes or deletes a row.
OtherWrite(id, v) ==
  /\ Fault("other")
  /\ db[id] # None
  /\ clock' = clock + 1
  /\ db' = Put(db, id, [val |-> v, upd |-> clock + 1])
  /\ waived' = waived \cup {id}
  /\ UNCHANGED <<idbVars, passVars, ui, born, intent, stored, accepted, doubled>>

OtherDelete(id) ==
  /\ Fault("other")
  /\ db[id] # None
  /\ db' = Put(db, id, None)
  /\ waived' = waived \cup {id}
  /\ UNCHANGED <<clock, idbVars, passVars, ui, born, intent, stored, accepted, doubled>>

-----------------------------------------------------------------------------

Ui ==
  \/ \E id \in Ids, v \in Vals : Create(id, v) \/ Update(id, v)
  \/ \E id \in Ids : Delete(id)
  \/ \E id \in Ids, v \in Vals : Online("create", id, v) \/ Online("update", id, v)
  \/ \E id \in Ids : Online("delete", id, None)
  \/ HttpRun \/ HttpReply
  \/ CreateRow \/ UpdateRead \/ UpdateRow \/ DeleteQueue \/ WithdrawRead \/ DeleteRow
  \/ \E o \in queue : Discard(o)
  \/ \E o \in ui.ops : DiscardOp(o) \/ DiscardRow(o) \/ RetryOp(o)
  \/ DiscardDone
  \/ Retry

Pass ==
  \/ \E op \in todo : ServerApply(op)
  \/ PushReply
  \/ \E r \in results : RecordFailure(r)
  \/ \E r \in results, op \in sent :
       AckRejected(r, op) \/ AckCreated(r, op) \/ MarkSynced(r, op) \/ AckDone(r, op)
  \/ BatchDone
  \/ PullQuery \/ PullReply \/ Merge \/ ClearStore \/ FillStore \/ SaveLastSync

Environment ==
  \/ Loss
  \/ \E id \in Ids : HttpLoss(id)
  \/ Crash
  \/ \E id \in Ids : OtherDelete(id) \/ \E v \in Vals : OtherWrite(id, v)

Next == Ui \/ StartSync \/ Pass \/ Environment

Spec == Init /\ [][Next]_vars

\* A started pass and a started user operation run to their end, and the
\* scheduler starts another pass while an operation can still be pushed.
Syncable == \E o \in queue : ~isOperationFailed(o)
FairSpec == Spec /\ WF_vars(Pass) /\ WF_vars(Syncable /\ StartSync)

-----------------------------------------------------------------------------
(* Properties                                                              *)

\* Every variable holds what its store can hold: rows, keys handed out so far,
\* and in "held" what the pass has read for the step it is at.
ServerOK ==
  /\ db \in [Ids -> ServerRow \cup {None}]
  /\ clock \in Nat
IdbOK ==
  /\ queue \subseteq PendingOperation
  /\ nextOp \in Nat \ {0}
  /\ mirror \in [Ids -> MirrorRow \cup {None}]
  /\ lastSync \in Nat
BatchOK ==
  /\ pc \in {"idle", "push", "ack", "fail", "mark", "drop", "pull", "stamp", "merge",
             "clear", "fill", "save"}
  /\ sent \subseteq PendingOperation
  /\ todo \subseteq sent
  /\ pc # "push" => todo = {}
  /\ later \subseteq PendingOperation
  /\ results \subseteq Result
  /\ failed \in BOOLEAN
PullOK ==
  /\ pc = "fail" => held \in PendingOperation
  /\ pc = "mark" => held \in MirrorRow
  /\ pc \in {"clear", "fill"} => held \in [Ids -> MirrorRow \cup {None}]
  /\ pulled \in [Ids -> Vals \cup {None}]
  /\ stamp \in Nat
  /\ store \in Kinds
GhostOK ==
  /\ faults \in Nat
  /\ born \subseteq Ids
  /\ intent \in [Ids -> Vals \cup {None}]
  /\ stored \subseteq Ids
  /\ accepted \subseteq Nat
  /\ waived \subseteq Ids
  /\ doubled \subseteq Ids

TypeOK == ServerOK /\ IdbOK /\ BatchOK /\ PullOK /\ ui \in UiState /\ GhostOK

Queued(id) == \E o \in queue : o.cid = id
CreateQueued(id) == \E o \in queue : o.cid = id /\ o.type = "create"

\* A row created offline and still wanted is never lost, whatever requests are
\* lost or rejected and wherever the app dies: the server has held it or its
\* create is still queued (docs/overview.md: never dropped until discarded).
NoCreateLost ==
  \A id \in born \ waived : intent[id] # None => id \in stored \/ CreateQueued(id)

\* The queue, the pass, crashes and lost requests implement what Delivery says of
\* created rows, step by step: a creation leaves the queue only when the server
\* has had the row, or the user gave it up.
Creates == INSTANCE Delivery WITH
  asked <- born,
  wanted <- {id \in Ids : intent[id] # None},
  pending <- {id \in Ids : CreateQueued(id)}
CreatesDelivered == Creates!Spec

\* An operation leaves the queue only when the server accepted it or the user
\* withdrew it, unless a batch held two operations of its id.
OnlySettledLeave ==
  [][\A o \in queue :
       (\A p \in queue' : p.n # o.n) =>
         \/ o.n \in accepted
         \/ ui.pc = "discard"
         \/ o.cid \in doubled]_vars

\* The create of a row is queued, but not sent by this pass: it was parked when the
\* pass began.
CreateLeftOut(id) ==
  \E c \in queue : /\ c.cid = id
                   /\ c.type = "create"
                   /\ IF pc = "idle" THEN isOperationFailed(c) ELSE \A s \in sent : s.n # c.n

\* Creates go first: when a batch leaves, every edit or delete in it of a row that is
\* still wanted is of a row the server has already held, whose create was withdrawn, or
\* whose create the pass left out (sync-engine.ts, performSync).
ParentsFirst ==
  [][pc # "push" /\ pc' = "push" =>
       \A o \in sent' : o.type # "create" /\ intent[o.cid] # None =>
         o.cid \in stored \cup waived \/ CreateLeftOut(o.cid)]_vars

\* When everything has been pushed, the server holds what the user asked for.
Converged ==
  queue = {} /\ pc = "idle" /\ ui.pc = "idle" =>
    \A id \in born \ (waived \cup doubled) :
      IF intent[id] = None THEN db[id] = None
                           ELSE db[id] # None /\ db[id].val = intent[id]

\* The incremental pull misses nothing: between passes, a server row not newer
\* than last_synced_at is mirrored with its value, or a change of it is queued.
MirrorCovers ==
  pc = "idle" /\ ui.pc = "idle" =>
    \A id \in Ids \ (waived \cup doubled) :
      db[id] # None /\ db[id].upd <= lastSync =>
        Queued(id) \/ (mirror[id] # None /\ mirror[id].val = db[id].val)

\* Every operation that can still be pushed is eventually settled or parked.
EveryOpSettles ==
  \A n \in 1 .. MaxOps :
    (\E o \in queue : o.n = n /\ ~isOperationFailed(o)) ~>
      ~(\E o \in queue : o.n = n /\ ~isOperationFailed(o))

-----------------------------------------------------------------------------
(* What makes NoCreateLost inductive                                       *)

\* A user operation has a row in hand, and a value where it is about to write one.
Writing == \/ ui.pc \in {"create", "update", "rewrite"}
           \/ ui.pc \in {"http", "reply"} /\ ui.type # "delete"
UiHolds ==
  /\ Writing \/ ui.pc \in {"delete", "withdraw", "remove", "http", "reply"} => ui.id \in Ids
  /\ Writing => ui.val \in Vals
  /\ ui.pc = "rewrite" => ui.row \in MirrorRow

\* Operations anyone still refers to: a key names one mutation of one row.
Referred == queue \cup sent \cup later \cup ui.ops \cup {o \in {held} : pc = "fail"}

KeysFresh == \A o \in Referred : o.n < nextOp
KeysName == \A o, p \in Referred : o.n = p.n => o.cid = p.cid /\ o.type = p.type
KeysUnique ==
  /\ \A o, p \in queue : o.n = p.n => o = p
  /\ \A o, p \in sent : o.n = p.n => o = p
  /\ \A o, p \in later : o.n = p.n => o = p

\* A batch is all creates or none, and results answer it one by one.
BatchUniform ==
  /\ \A o, p \in sent : o.type = "create" => p.type = "create"
  /\ \A o \in later : o.type # "create"
ResultsAnswer ==
  /\ pc \notin {"push", "ack", "fail", "mark", "drop"} => results = {}
  /\ \A r \in results : \E o \in sent :
       o.n = r.n /\ o.cid = r.cid /\ (r.status = "ok" /\ o.type = "create" => r.cid \in stored)
  /\ \A r, q \in results : r.n = q.n => r = q
  /\ \A r \in results, o \in todo : r.n # o.n
  /\ pc \in {"mark", "drop"} =>
       \A r \in results, op \in sent : Answers(r, op) => r.status = "ok" /\ op.type = "create"

\* Only withdrawn operations are discarded, and only wanted rows are born.
DiscardsWithdrawn ==
  ui.pc \in {"discard", "settle"} =>
    \A o \in ui.ops : IF ui.id = None THEN o.cid \in waived ELSE o.cid = ui.id
WishesBorn ==
  /\ \A id \in Ids : intent[id] # None => id \in born
  /\ ui.pc \in {"http", "reply"} => ui.id \in born
  /\ ui.pc \in {"http", "reply"} /\ ui.type = "update" => intent[ui.id] # None

\* The inductive invariant of NoCreateLost (OfflineSync_proofs).
IndInv ==
  /\ TypeOK
  /\ UiHolds
  /\ KeysFresh /\ KeysName /\ KeysUnique
  /\ BatchUniform /\ ResultsAnswer
  /\ DiscardsWithdrawn /\ WishesBorn
  /\ NoCreateLost

-----------------------------------------------------------------------------
(* What comments, tests and documents of the repository say of this part,  *)
(* which the code does not keep.  Each is checked by a run of its own that *)
(* finds the behaviour.                                                    *)

\* "Drop only the acknowledged operations.  Failed ones (conflict/error) stay
\* queued" (sync-engine.ts:173): OnlySettledLeave without its exception.
FailedStayQueued ==
  [][\A o \in queue :
       (\A p \in queue' : p.n # o.n) => o.n \in accepted \/ ui.pc = "discard"]_vars

\* "updates/deletes are re-marked as synced so the next pull restores the server
\* state" (sync-engine.ts:364): with passes running, a row whose change was
\* discarded shows the server's value again.
DiscardRestores ==
  \A id \in Ids :
    (id \in waived /\ ui.pc = "idle" /\ ~Queued(id) /\ db[id] # None) ~>
      (Queued(id) \/ db[id] = None \/ (mirror[id] # None /\ mirror[id].val = db[id].val))

\* "A row that only exists on this device has no server counterpart"
\* (api.ts:554), said of a row that is neither synced nor linked.
NeverSyncedIsLocal == ui.pc = "withdraw" => db[ui.id] = None

\* Passes keep running even when nothing is queued.
PollingSpec == Spec /\ WF_vars(Pass) /\ WF_vars(StartSync)

=============================================================================
