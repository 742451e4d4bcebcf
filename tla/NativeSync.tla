------------------------------ MODULE NativeSync ------------------------------
(***************************************************************************)
(* The offline client on Android: OfflineSync composed with the encrypted  *)
(* SyncOutbox, the WorkManager job that pushes it while the app is closed  *)
(* (SyncWorker, SyncResultPolicy), the captures the notification listener  *)
(* imports without the WebView, and reconcileNativeSyncResults, which      *)
(* applies the worker's results to IndexedDB (offline/native-outbox.ts).   *)
(*                                                                         *)
(* A step of the mutators or of the pass that ends in a plugin call leaves *)
(* that call in "bridge"; the activity goes on once the plugin has run it. *)
(* SyncOutbox is @Synchronized, so each of its functions is one step.      *)
(***************************************************************************)
EXTENDS OfflineSync, Sequences

CONSTANTS
  Imports,       \* transactions the notification listener may import
  Workers,       \* jobs that run SyncWorker: the immediate and the periodic one
  MAX_ATTEMPTS,  \* SyncResultPolicy.MAX_ATTEMPTS
  MAX_RESULTS    \* SyncOutbox.MAX_RESULTS

ASSUME NativeSyncAssumption ==
  /\ Imports \subseteq {id \in Ids : Kind[id] = "transaction"}
  /\ Workers # {}
  /\ MAX_ATTEMPTS \in Nat \ {0}
  /\ MAX_RESULTS \in Nat \ {0}
  /\ None \notin PendingOperation

VARIABLES
  outbox,    \* SyncOutbox operations: at most one per client id
  journal,   \* SyncOutbox results not drained yet
  worker,    \* SyncWorker.doWork in progress, per job
  bridge,    \* plugin call each activity of the WebView is about to make
  recon,     \* reconcileNativeSyncResults in progress, per caller
  captured,  \* native imports the WebView has not acknowledged yet
  adopting,  \* the one it is adopting, and whether its row is to be written
  \* History, read by the properties only
  imported,  \* ids imported natively
  parked,    \* ids the worker gave up after MAX_ATTEMPTS rejections
  mixed      \* ids changed again before an earlier mutation was reconciled

captureVars == <<captured, adopting, imported>>
nativeVars == <<outbox, journal, worker, bridge, recon, captureVars, parked, mixed>>
allVars == <<db, clock, queue, nextOp, mirror, lastSync, pc, sent, todo, results, later,
             failed, held, pulled, stamp, store, ui, faults, born, intent, stored,
             accepted, waived, doubled, outbox, journal, worker, bridge, recon, captureVars, parked, mixed>>

Activities == {"ui", "pass"}
Callers == {"pass", "capture"}  \* who reconciles: performSync, adoptNativeImport

NativeResult == [n : Nat, cid : Ids, status : {"ok", "conflict", "error", "failed"}]

NoOperations == [id \in Ids |-> None]
IdleWorker == [pc |-> "idle", batch |-> NoOperations, todo |-> {}, results |-> {}]
IdleRecon == [pc |-> "idle", results |-> <<>>, known |-> {}, held |-> None]
PutCall(op) == [call |-> "put", cid |-> op.cid, op |-> op]
RemoveCall(id) == [call |-> "remove", cid |-> id, op |-> None]

NativeInit ==
  /\ Init
  /\ outbox = NoOperations
  /\ journal = <<>>
  /\ worker = [w \in Workers |-> IdleWorker]
  /\ bridge = [a \in Activities |-> None]
  /\ recon = [c \in Callers |-> IdleRecon]
  /\ captured = NoRows
  /\ adopting = None
  /\ imported = {} /\ parked = {} /\ mixed = {}

-----------------------------------------------------------------------------
(* The WebView: OfflineSync with its plugin calls                          *)

\* queueLocalMutation mirrors the operation it queued, discardPendingOperations
\* removes the mirrored operation of the one it dropped.
NewOp == CHOOSE o \in queue' : o.n = nextOp
DroppedOp == CHOOSE o \in ui.ops : \A p \in ui.ops : o.n <= p.n
UiCall ==
  CASE nextOp' # nextOp -> PutCall(NewOp)
    [] ui.pc = "discard" /\ ui'.pc = "settle" -> RemoveCall(DroppedOp.cid)
    [] OTHER -> None

\* Operations read by a handler that is about to write them back.
InHand == {o \in {held} : pc = "fail"}
            \cup {recon[c].held : c \in {d \in Callers : recon[d].pc = "fail"}}

\* An earlier mutation of the row is queued, or something of it on its way.
Outstanding(id) ==
  \/ \E o \in queue \cup InHand : o.cid = id
  \/ outbox[id] # None
  \/ \E w \in Workers : worker[w].batch[id] # None
  \/ \E i \in 1 .. Len(journal) : journal[i].cid = id
  \/ \E c \in Callers : \E i \in 1 .. Len(recon[c].results) : recon[c].results[i].cid = id

UiStep ==
  /\ bridge["ui"] = None
  /\ Ui \/ \E id \in Ids : HttpLoss(id)
  /\ bridge' = [bridge EXCEPT !["ui"] = UiCall]
  /\ mixed' = mixed \cup
       {o.cid : o \in {q \in queue' : nextOp' # nextOp /\ q.n = nextOp /\ Outstanding(q.cid)}}
  /\ UNCHANGED <<outbox, journal, worker, recon, captureVars, parked>>

\* pushBatch removes the mirrored operation of every result it has handled.
PassCall ==
  IF pc \in {"ack", "fail", "drop"} /\ results' # results
    THEN RemoveCall((CHOOSE r \in results \ results' : TRUE).cid)
    ELSE None

PassStep ==
  /\ bridge["pass"] = None
  /\ Pass
  /\ bridge' = [bridge EXCEPT !["pass"] = PassCall]
  /\ UNCHANGED <<outbox, journal, worker, recon, captureVars, parked, mixed>>

PassLoss ==
  /\ Loss
  /\ UNCHANGED nativeVars

\* performSync reconciles first; it goes on to push only when it is online.
StartStep ==
  /\ recon["pass"].pc = "ready"
  /\ StartSync
  /\ recon' = [recon EXCEPT !["pass"] = IdleRecon]
  /\ UNCHANGED <<outbox, journal, worker, bridge, captureVars, parked, mixed>>

NotOnline ==
  /\ recon["pass"].pc = "ready"
  /\ recon' = [recon EXCEPT !["pass"] = IdleRecon]
  /\ UNCHANGED <<vars, outbox, journal, worker, bridge, captureVars, parked, mixed>>

\* sync_outbox_put: SyncOutbox.enqueue replaces the operation of that client id.
PluginPut(a) ==
  /\ bridge[a] # None
  /\ bridge[a].call = "put"
  /\ outbox' = Put(outbox, bridge[a].cid, bridge[a].op)
  /\ bridge' = [bridge EXCEPT ![a] = None]
  /\ UNCHANGED <<vars, journal, worker, recon, captureVars, parked, mixed>>

\* sync_outbox_remove: SyncOutbox.acknowledge.
PluginRemove(a) ==
  /\ bridge[a] # None
  /\ bridge[a].call = "remove"
  /\ outbox' = Put(outbox, bridge[a].cid, None)
  /\ bridge' = [bridge EXCEPT ![a] = None]
  /\ UNCHANGED <<vars, journal, worker, recon, captureVars, parked, mixed>>

-----------------------------------------------------------------------------
(* Captures imported while the WebView is not running                      *)

WebViewIdle ==
  /\ pc = "idle" /\ ui.pc = "idle"
  /\ \A a \in Activities : bridge[a] = None
  /\ \A c \in Callers : recon[c].pc = "idle"
  /\ adopting = None

\* importAuto: enqueue the create under a fresh UUID, journal it for the WebView.
Import(id, v) ==
  /\ WebViewIdle
  /\ id \in Imports \ born
  /\ outbox' = Put(outbox, id,
       [n |-> 0, type |-> "create", cid |-> id, val |-> v, attempts |-> 0])
  /\ captured' = Put(captured, id, v)
  /\ imported' = imported \cup {id}
  /\ born' = born \cup {id}
  /\ intent' = Put(intent, id, v)
  /\ UNCHANGED <<serverVars, idbVars, passVars, ui, faults, stored, accepted, waived,
                 doubled, journal, worker, bridge, recon, adopting, parked, mixed>>

\* adoptNativeImport: mirror the row unless it is there, or the dedup journal
\* holds the capture; reconcile; then acknowledge the event (ackCaptureActions).
AdoptRead(id) ==
  /\ captured[id] # None
  /\ adopting = None
  /\ \E known \in BOOLEAN :
       adopting' = [id |-> id, row |-> ~known /\ mirror[id] = None]
  /\ UNCHANGED <<vars, outbox, journal, worker, bridge, recon, captured, imported, parked,
                 mixed>>

AdoptRow ==
  /\ adopting # None
  /\ adopting.row
  /\ mirror' = Put(mirror, adopting.id, LocalOnly(captured[adopting.id]))
  /\ adopting' = [adopting EXCEPT !.row = FALSE]
  /\ UNCHANGED <<serverVars, queue, nextOp, lastSync, passVars, ui, faults, ghostVars,
                 outbox, journal, worker, bridge, recon, captured, imported, parked, mixed>>

AdoptAck ==
  /\ recon["capture"].pc = "ready"
  /\ captured' = Put(captured, adopting.id, None)
  /\ adopting' = None
  /\ recon' = [recon EXCEPT !["capture"] = IdleRecon]
  /\ UNCHANGED <<vars, outbox, journal, worker, bridge, imported, parked, mixed>>

-----------------------------------------------------------------------------
(* SyncWorker                                                              *)

WorkStart(w) ==
  /\ worker[w].pc = "idle"
  /\ outbox # NoOperations
  /\ worker' = [worker EXCEPT ![w] =
       [pc |-> "push", batch |-> outbox, todo |-> {id \in Ids : outbox[id] # None},
        results |-> {}]]
  /\ UNCHANGED <<vars, outbox, journal, bridge, recon, captureVars, parked, mixed>>

\* The push handler runs the snapshot, creates first.
WorkApply(w, id) ==
  /\ worker[w].pc = "push"
  /\ id \in worker[w].todo
  /\ LET op == worker[w].batch[id]
     IN /\ op.type # "create" =>
             \A j \in worker[w].todo : worker[w].batch[j].type # "create"
        /\ \E out \in {Applied(op, db[id], clock + 1)} \cup
                      (IF "reject" \in Faults THEN Rejections(op, db[id]) ELSE {}) :
             /\ db' = Put(db, id, out.row)
             /\ clock' = IF out.row # None /\ out.row # db[id] THEN clock + 1 ELSE clock
             /\ stored' = IF out.row # None THEN stored \cup {id} ELSE stored
             /\ accepted' = IF out.status = "ok" THEN accepted \cup {op.n} ELSE accepted
             /\ worker' = [worker EXCEPT
                  ![w].todo = @ \ {id},
                  ![w].pc = IF worker[w].todo = {id} THEN "settle" ELSE @,
                  ![w].results = @ \cup {[n |-> op.n, cid |-> id, status |-> out.status]}]
  /\ UNCHANGED <<idbVars, passVars, ui, faults, born, intent, waived, doubled, outbox,
                 journal, bridge, recon, captureVars, parked, mixed>>

\* A 4xx answer rejects the whole batch (recordBatchError).
WorkRefused(w) ==
  /\ Fault("refuse")
  /\ worker[w].pc = "push"
  /\ \A id \in Ids : worker[w].batch[id] # None => id \in worker[w].todo
  /\ worker' = [worker EXCEPT
       ![w].pc = "settle",
       ![w].todo = {},
       ![w].results = {[n |-> worker[w].batch[id].n, cid |-> id, status |-> "error"] :
                         id \in worker[w].todo}]
  /\ UNCHANGED <<serverVars, idbVars, passVars, ui, ghostVars, outbox, journal, bridge,
                 recon, captureVars, parked, mixed>>

\* recordResult, which makes room for the newest result.
Recorded(r) == Append(IF Len(journal) < MAX_RESULTS THEN journal ELSE Tail(journal), r)

\* applyResults on one result: acknowledge what is done, count a rejection on
\* whatever the outbox holds for that client id (bumpAttempt), park at the limit.
Done(status) == status \in {"ok", "conflict"}
Attempts(id) == IF outbox[id] = None THEN 0 ELSE outbox[id].attempts + 1
Parks(id) == Attempts(id) >= MAX_ATTEMPTS

OutboxAcked(r) == Put(outbox, r.cid, None)      \* mutant: one rejection deletes it
OutboxAfter(r) ==
  IF Done(r.status) \/ Parks(r.cid) \/ outbox[r.cid] = None
    THEN Put(outbox, r.cid, None)
    ELSE [outbox EXCEPT ![r.cid].attempts = @ + 1]
DropsStatus(r) == [r EXCEPT !.status = "ok"]    \* mutant: a rejection is journalled as done
Journalled(r) ==
  IF ~Done(r.status) /\ Parks(r.cid) THEN [r EXCEPT !.status = "failed"] ELSE r

Handled(w, r) ==
  [worker EXCEPT ![w] = IF worker[w].results = {r}
                          THEN IdleWorker
                          ELSE [worker[w] EXCEPT !.results = @ \ {r}]]

GivenUp(r) == IF ~Done(r.status) /\ Parks(r.cid) THEN parked \cup {r.cid} ELSE parked

WorkSettle(w, r) ==
  /\ worker[w].pc = "settle"
  /\ r \in worker[w].results
  /\ outbox' = OutboxAfter(r)
  /\ journal' = Recorded(Journalled(r))
  /\ parked' = GivenUp(r)
  /\ worker' = Handled(w, r)
  /\ UNCHANGED <<vars, bridge, recon, captureVars, mixed>>

\* The request gets no answer, or one that is retried later without counting.
WorkLoss(w) ==
  /\ Fault("loss")
  /\ worker[w].pc = "push"
  /\ worker' = [worker EXCEPT ![w] = IdleWorker]
  /\ UNCHANGED <<serverVars, idbVars, passVars, ui, ghostVars, outbox, journal, bridge,
                 recon, captureVars, parked, mixed>>

\* The process dies, between two results or after an operation was acknowledged
\* or counted and before its result was recorded.
WorkDie(w) ==
  /\ Fault("die")
  /\ worker[w].pc = "settle"
  /\ \/ UNCHANGED <<outbox, parked>>
     \/ \E r \in worker[w].results : outbox' = OutboxAfter(r) /\ parked' = GivenUp(r)
  /\ worker' = [worker EXCEPT ![w] = IdleWorker]
  /\ UNCHANGED <<serverVars, idbVars, passVars, ui, ghostVars, journal, bridge, recon,
                 captureVars, mixed>>

-----------------------------------------------------------------------------
(* reconcileNativeSyncResults, from performSync and adoptNativeImport      *)

Over == [IdleRecon EXCEPT !.pc = "ready"]

Drain(c) ==
  /\ recon[c].pc = "idle"
  /\ IF c = "pass" THEN pc = "idle" ELSE adopting # None /\ ~adopting.row
  /\ recon' = [recon EXCEPT ![c] =
       IF journal = <<>> THEN Over
                         ELSE [IdleRecon EXCEPT !.pc = "read", !.results = journal]]
  /\ journal' = <<>>
  /\ UNCHANGED <<vars, outbox, worker, bridge, captureVars, parked, mixed>>

\* byClientId keeps the last operation of each client id.
Snapshot(c) ==
  /\ recon[c].pc = "read"
  /\ recon' = [recon EXCEPT
       ![c].pc = "next",
       ![c].known = {o \in queue : \A p \in queue : p.cid = o.cid => p.n <= o.n}]
  /\ UNCHANGED <<vars, outbox, journal, worker, bridge, captureVars, parked, mixed>>

Current(c) == Head(recon[c].results)
Matching(c) == {o \in recon[c].known : o.cid = Current(c).cid}
GoOn(c) ==                                      \* the loop has another result to apply
  [recon EXCEPT ![c].pc = "next", ![c].results = Tail(@), ![c].held = None]
NextResult(c) ==
  IF Len(recon[c].results) = 1 THEN [recon EXCEPT ![c] = Over] ELSE GoOn(c)

\* markTransactionSynced and its siblings run for a create, and for a result
\* with no queued operation, which is taken for a native import.
Marks(c) ==
  /\ Current(c).status = "ok"
  /\ mirror[Current(c).cid] # None
  /\ IF Matching(c) = {} THEN Kind[Current(c).cid] = "transaction"
                         ELSE \E o \in Matching(c) : o.type = "create"

ReadRow(c) ==
  /\ recon[c].pc = "next"
  /\ Marks(c)
  /\ recon' = [recon EXCEPT ![c].pc = "mark", ![c].held = mirror[Current(c).cid]]
  /\ UNCHANGED <<vars, outbox, journal, worker, bridge, captureVars, parked, mixed>>

MarkRow(c) ==
  /\ recon[c].pc = "mark"
  /\ mirror' = Put(mirror, Current(c).cid, Settled(recon[c].held.val))
  /\ recon' = IF Matching(c) = {} THEN NextResult(c)
                                  ELSE [recon EXCEPT ![c].pc = "drop", ![c].held = None]
  /\ UNCHANGED <<serverVars, queue, nextOp, lastSync, passVars, ui, faults, ghostVars,
                 outbox, journal, worker, bridge, captureVars, parked, mixed>>

\* removePendingOperation.
DropOp(c) ==
  /\ \/ recon[c].pc = "drop"
     \/ recon[c].pc = "next" /\ Current(c).status = "ok" /\ ~Marks(c)
  /\ \E o \in Matching(c) : queue' = Without(o.n)
  /\ recon' = NextResult(c)
  /\ UNCHANGED <<serverVars, nextOp, mirror, lastSync, passVars, ui, faults, ghostVars,
                 outbox, journal, worker, bridge, captureVars, parked, mixed>>

\* recordPendingOperationFailure, read and write.
ReadOp(c) ==
  /\ recon[c].pc = "next"
  /\ Current(c).status # "ok"
  /\ \E o \in Matching(c) : \E p \in Numbered(o.n) :
       recon' = [recon EXCEPT ![c].pc = "fail", ![c].held = p]
  /\ UNCHANGED <<vars, outbox, journal, worker, bridge, captureVars, parked, mixed>>

CountFailure(c) ==
  /\ recon[c].pc = "fail"
  /\ queue' = Without(recon[c].held.n) \cup Failure(recon[c].held)
  /\ recon' = NextResult(c)
  /\ UNCHANGED <<serverVars, nextOp, mirror, lastSync, passVars, ui, faults, ghostVars,
                 outbox, journal, worker, bridge, captureVars, parked, mixed>>

\* A native import that is not in the mirror yet or was rejected, or a result
\* whose operation is gone.
PassOver(c) ==
  /\ recon[c].pc = "next"
  /\ ~Marks(c)
  /\ IF Current(c).status = "ok" THEN Matching(c) = {}
                                 ELSE \A o \in Matching(c) : Numbered(o.n) = {}
  /\ recon' = NextResult(c)
  /\ UNCHANGED <<vars, outbox, journal, worker, bridge, captureVars, parked, mixed>>

-----------------------------------------------------------------------------

\* The WebView goes away with everything it had in hand.
WebViewDies ==
  /\ Fault("crash")
  /\ ~WebViewIdle
  /\ PassReset
  /\ ui' = IdleUi
  /\ bridge' = [a \in Activities |-> None]
  /\ recon' = [c \in Callers |-> IdleRecon]
  /\ adopting' = None
  /\ UNCHANGED <<serverVars, idbVars, ghostVars, outbox, journal, worker, captured,
                 imported, parked, mixed>>

Work ==
  \E w \in Workers :
    \/ WorkStart(w)
    \/ \E id \in Ids : WorkApply(w, id)
    \/ \E r \in worker[w].results : WorkSettle(w, r)

Reconcile(c) ==
  Snapshot(c) \/ ReadRow(c) \/ MarkRow(c) \/ DropOp(c) \/ ReadOp(c) \/ CountFailure(c)
    \/ PassOver(c)

NativeNext ==
  \/ UiStep \/ StartStep \/ PassStep \/ PassLoss \/ NotOnline
  \/ \E a \in Activities : PluginPut(a) \/ PluginRemove(a)
  \/ \E id \in Ids : AdoptRead(id) \/ \E v \in Vals : Import(id, v)
  \/ AdoptRow \/ AdoptAck
  \/ Work
  \/ \E w \in Workers : WorkRefused(w) \/ WorkLoss(w) \/ WorkDie(w)
  \/ \E c \in Callers : Drain(c) \/ Reconcile(c)
  \/ WebViewDies

NativeSpec == NativeInit /\ [][NativeNext]_allVars

-----------------------------------------------------------------------------
(* Properties                                                              *)

NativeTypeOK ==
  /\ TypeOK
  /\ outbox \in [Ids -> PendingOperation \cup {None}]
  /\ \A id \in Ids : outbox[id] # None => outbox[id].cid = id
  /\ journal \in Seq(NativeResult)
  /\ \A w \in Workers :
       /\ worker[w].pc \in {"idle", "push", "settle"}
       /\ worker[w].batch \in [Ids -> PendingOperation \cup {None}]
       /\ worker[w].todo \subseteq {id \in Ids : worker[w].batch[id] # None}
       /\ worker[w].results \subseteq NativeResult
  /\ \A c \in Callers :
       /\ recon[c].pc \in {"idle", "read", "next", "mark", "drop", "fail", "ready"}
       /\ recon[c].results \in Seq(NativeResult)
       /\ recon[c].known \subseteq PendingOperation
       /\ recon[c].pc \in {"read", "next", "mark", "drop", "fail"} =>
            recon[c].results # <<>>
  /\ imported \subseteq Imports
  /\ recon["capture"].pc # "idle" => adopting # None /\ ~adopting.row

\* A created row that is still wanted has reached the server or its create is
\* queued, also with the worker pushing and settling the same operations.
NativeNoCreateLost ==
  \A id \in born \ (waived \cup imported) :
    intent[id] # None => id \in stored \/ CreateQueued(id)

\* A capture imported while the app was closed is on the server or in the outbox
\* until the server has rejected it MAX_ATTEMPTS times, wherever the process or
\* the WebView dies, unless the row was edited before it was uploaded.
CapturesSurvive ==
  \A id \in imported \ (waived \cup mixed) :
    intent[id] # None =>
      \/ id \in stored \cup parked
      \/ outbox[id] # None /\ outbox[id].type = "create"

\* Whoever settles it, an operation leaves the queue accepted or withdrawn,
\* unless a second change of its row was queued before the first was settled.
NativeOnlySettledLeave ==
  [][\A o \in queue :
       (\A p \in queue' : p.n # o.n) =>
         \/ o.n \in accepted
         \/ ui.pc = "discard"
         \/ o.cid \in mixed]_allVars

\* "The native outbox already owns the upload, so only the local row is written
\* here" (native-outbox.ts:123): the outbox keeps the create of a capture until it
\* is uploaded, whatever the user does with the adopted row.
OutboxOwnsUpload ==
  \A id \in imported :
    intent[id] # None =>
      \/ id \in stored \cup parked
      \/ outbox[id] # None /\ outbox[id].type = "create"

=============================================================================
