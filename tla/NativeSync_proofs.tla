-------------------------- MODULE NativeSync_proofs --------------------------
(***************************************************************************)
(* Proofs about NativeSync, for every number of rows, imports, jobs,       *)
(* attempts and faults.  Where a step is one of OfflineSync, the lemmas of *)
(* OfflineSync_proofs say what it keeps.                                   *)
(***************************************************************************)
EXTENDS NativeSync, OfflineSync_proofs

USE SyncServerAssumption, OfflineSyncAssumption, NativeSyncAssumption

-----------------------------------------------------------------------------
(* The inductive invariant                                                 *)

Call == [call : {"put", "remove"}, cid : Ids, op : PendingOperation \cup {None}]
WorkerState ==
  [pc : {"idle", "push", "settle"}, batch : [Ids -> PendingOperation \cup {None}],
   todo : SUBSET Ids, results : SUBSET NativeResult]
ReconState ==
  [pc : {"idle", "read", "next", "mark", "drop", "fail", "ready"}, results : Seq(NativeResult),
   known : SUBSET PendingOperation, held : PendingOperation \cup MirrorRow \cup {None}]

\* Only the mutators call sync_outbox_put, with the operation they queued.
CallsTyped ==
  /\ bridge \in [Activities -> Call \cup {None}]
  /\ \A a \in Activities : bridge[a] # None /\ bridge[a].call = "put" =>
       /\ a = "ui" /\ bridge[a].op \in PendingOperation /\ bridge[a].op.cid = bridge[a].cid

\* A job pushes the operations of its snapshot and has the results of those.
JobsTyped ==
  /\ worker \in [Workers -> WorkerState]
  /\ \A w \in Workers :
       /\ \A id \in Ids : worker[w].batch[id] # None => worker[w].batch[id].cid = id
       /\ \A id \in worker[w].todo : worker[w].batch[id] # None
       /\ \A r \in worker[w].results :
            worker[w].batch[r.cid] # None /\ worker[w].batch[r.cid].n = r.n

OutboxTyped ==
  /\ outbox \in [Ids -> PendingOperation \cup {None}]
  /\ \A id \in Ids : outbox[id] # None => outbox[id].cid = id

\* What a reconciliation has in hand at each of its awaits.
ReconTyped ==
  /\ recon \in [Callers -> ReconState]
  /\ \A c \in Callers :
       /\ recon[c].pc \in {"read", "next", "mark", "drop", "fail"} => recon[c].results # <<>>
       /\ recon[c].pc = "mark" => recon[c].held \in MirrorRow
       /\ recon[c].pc = "fail" => recon[c].held \in PendingOperation
       /\ recon[c].pc \in {"mark", "drop"} => Current(c).status = "ok"

CapturesTyped ==
  /\ captured \in [Ids -> Vals \cup {None}]
  /\ adopting # None => adopting \in [id : Ids, row : BOOLEAN] /\ captured[adopting.id] # None
  /\ recon["capture"].pc # "idle" => adopting # None /\ ~adopting.row
  /\ imported \subseteq Imports
  /\ parked \subseteq Ids
  /\ mixed \subseteq Ids

NativeTyped ==
  /\ TypeInv
  /\ CallsTyped /\ JobsTyped /\ OutboxTyped /\ ReconTyped /\ CapturesTyped
  /\ journal \in Seq(NativeResult)

\* The operations a reconciliation holds have the keys of the queue.
Recalled == (UNION {recon[c].known : c \in Callers})
              \cup {recon[c].held : c \in {d \in Callers : recon[d].pc = "fail"}}
AllReferred == Referred \cup Recalled
NativeKeys ==
  /\ \A o \in AllReferred : o.n < nextOp
  /\ \A o, p \in AllReferred : o.n = p.n => o.cid = p.cid /\ o.type = p.type
  /\ KeysUnique

\* Results of the worker, wherever they are.
Reported ==
  (UNION {worker[w].results : w \in Workers})
    \cup {journal[i] : i \in 1 .. Len(journal)}
    \cup (UNION {{recon[c].results[i] : i \in 1 .. Len(recon[c].results)} : c \in Callers})

\* Every operation a reconciliation recalls, the outbox or a job holds, or a result or a
\* call to the plugin is about, is of an id that was born, and so are imports.
NativeRooted ==
  /\ Rooted
  /\ \A o \in Recalled : o.cid \in born
  /\ \A id \in Ids :
       outbox[id] # None \/ (\E w \in Workers : worker[w].batch[id] # None) => id \in born
  /\ \A r \in Reported : r.cid \in born
  /\ \A a \in Activities : bridge[a] # None => bridge[a].cid \in born
  /\ \A id \in Ids : captured[id] # None => id \in imported
  /\ imported \subseteq born

\* The user does not want the row any more, and cannot want it again.
Gone(id) ==
  /\ intent[id] = None
  /\ id \in born
  /\ ~(ui.pc = "http" /\ ui.type = "create" /\ ui.id = id)

\* What the server answered "ok" it has, unless it was a delete; a conflict is about a
\* row it has.
Answered ==
  /\ \A r \in Reported : r.status \in {"ok", "conflict"} => r.cid \in stored \/ Gone(r.cid)
  /\ \A id \in Ids :
       /\ outbox[id] # None /\ outbox[id].type = "delete" => Gone(id)
       /\ \A w \in Workers :
            worker[w].batch[id] # None /\ worker[w].batch[id].type = "delete" => Gone(id)
  /\ \A a \in Activities :
       bridge[a] # None /\ bridge[a].call = "put" /\ bridge[a].op.type = "delete" =>
         Gone(bridge[a].cid)

\* The outbox has done its part for an import: it is uploaded, given up, deleted,
\* or another change of the row took its place.
Excused(id) == id \in waived \cup mixed \cup stored \cup parked \/ Gone(id)

\* The outbox keeps the create of an import until then, and until then nothing of the
\* queue, of a batch or of a call to the plugin is about the import.
Adopted ==
  /\ \A id \in imported : Excused(id) \/ (outbox[id] # None /\ outbox[id].type = "create")
  /\ \A o \in Referred \cup Recalled : o.cid \in imported => Excused(o.cid)
  /\ \A a \in Activities : bridge[a] # None /\ bridge[a].cid \in imported => Excused(bridge[a].cid)

\* Something of operation n on row id is queued, in hand, with the worker or in its
\* results.
Traced(n, id) ==
  \/ \E o \in Live : o.n = n /\ o.cid = id
  \/ \E c \in Callers : recon[c].pc = "fail" /\ recon[c].held.n = n /\ recon[c].held.cid = id
  \/ \E a \in Activities : /\ bridge[a] # None /\ bridge[a].call = "put"
                           /\ bridge[a].op.n = n /\ bridge[a].cid = id
  \/ outbox[id] # None /\ outbox[id].n = n
  \/ \E w \in Workers : worker[w].batch[id] # None /\ worker[w].batch[id].n = n
  \/ \E r \in Reported : r.n = n /\ r.cid = id

\* Two operations of one row only meet when the second was queued before the first was
\* settled.
Trail ==
  /\ ui.pc \notin {"discard", "settle", "retry"} => ui.ops = {}
  /\ \A id \in Ids, n, m \in Nat : Traced(n, id) /\ Traced(m, id) /\ n # m => id \in mixed
  /\ \A o, p \in sent : o.cid = p.cid /\ o.n # p.n => o.cid \in mixed
  /\ \A o, p \in later : o.cid = p.cid /\ o.n # p.n => o.cid \in mixed
  /\ \A c \in Callers : \A o \in recon[c].known : \A i \in 1 .. Len(recon[c].results) :
       LET r == recon[c].results[i]
       IN r.cid = o.cid /\ r.n # o.n => o.cid \in mixed
  /\ \A r \in Reported \cup results : r.status = "ok" => r.n \in accepted

SafeRows == \A id \in Ids \ imported : Safe(id)

NativeInv ==
  /\ NativeTyped /\ NativeKeys /\ Batch /\ Wishes
  /\ NativeRooted /\ Answered /\ SafeRows /\ Adopted /\ Trail

-----------------------------------------------------------------------------
(* Steps of OfflineSync                                                    *)

\* A row nobody wants stays unwanted.
LEMMA GoneStep ==
  ASSUME TypeInv, Wishes, NEW id \in Ids, Gone(id), [Next]_vars
  PROVE  Gone(id)'
  <1> USE DEF Gone, TypeInv, TypeOK, GhostOK, Put
  <1>1. ASSUME NEW i \in Ids, NEW v \in Vals, Create(i, v)
        PROVE  Gone(id)'
    BY <1>1 DEF Create, IdleUi
  <1>2. ASSUME NEW i \in Ids, NEW v \in Vals, Update(i, v)
        PROVE  Gone(id)'
    BY <1>2 DEF Update, Wish, IdleUi
  <1>3. ASSUME NEW type, NEW i \in Ids, NEW v, Online(type, i, v)
        PROVE  Gone(id)'
    BY <1>3 DEF Online, IdleUi
  <1>4. CASE HttpRun
    <2>1. ui.type \in OpTypes /\ ui.id \in Ids
      BY <1>4 DEF HttpRun, UiState, UiHolds
    <2>2. intent'[id] = None
      <3>1. CASE ui.id # id
        BY <1>4, <3>1 DEF HttpRun
      <3>2. CASE ui.id = id
        BY <1>4, <2>1, <3>2 DEF HttpRun, OpTypes, Wishes, WishesBorn
      <3> QED
        BY <3>1, <3>2
    <2>3. ui'.pc \in {"reply", "idle"} /\ born' = born
      BY <1>4 DEF HttpRun, IdleUi, UiState
    <2> QED
      BY <2>2, <2>3
  <1>5. CASE DeleteQueue \/ DeleteRow
    BY <1>5 DEF DeleteQueue, DeleteRow, IdleUi, UiState, UiHolds
  <1>6. ASSUME NEW o \in ui.ops, DiscardOp(o)
        PROVE  Gone(id)'
    <2>1. intent' \in {intent, [intent EXCEPT ![ui.id] = None]} /\ born' = born
      BY <1>6 DEF DiscardOp, TakenBack
    <2>2. ui'.pc = "settle"
      BY <1>6 DEF DiscardOp, TakenBack, UiState
    <2> QED
      BY <2>1, <2>2
  <1>7. ASSUME NEW o, Discard(o) \/ DiscardRow(o) \/ RetryOp(o)
        PROVE  Gone(id)'
    <2>1. UNCHANGED <<intent, born>>
      BY <1>7 DEF Discard, DiscardRow, RetryOp, ghostVars
    <2>2. CASE Discard(o)
      BY <2>1, <2>2 DEF Discard, IdleUi
    <2>3. CASE DiscardRow(o)
      BY <2>1, <2>3 DEF DiscardRow, UiState
    <2>4. CASE RetryOp(o)
      BY <2>1, <2>4 DEF RetryOp, IdleUi, UiState
    <2> QED
      BY <1>7, <2>2, <2>3, <2>4
  <1>8. CASE \/ HttpReply \/ CreateRow \/ UpdateRead \/ UpdateRow \/ WithdrawRead \/ DiscardDone \/ Retry
             \/ \E i \in Ids : Delete(i)
    <2>1. /\ born' = born
          /\ intent' \in {intent, [intent EXCEPT ![ui.id] = None]}
      BY <1>8 DEF HttpReply, CreateRow, UpdateRead, UpdateRow, WithdrawRead, DiscardDone, TakenBack, Retry,
                  Delete, ghostVars
    <2>2. ui'.pc # "http"
      <3>1. CASE \E i \in Ids : Delete(i)
        BY <3>1 DEF Delete, IdleUi
      <3>2. CASE HttpReply
        BY <3>2 DEF HttpReply, IdleUi
      <3>3. CASE CreateRow
        BY <3>3 DEF CreateRow, IdleUi
      <3>4. CASE UpdateRow
        BY <3>4 DEF UpdateRow, IdleUi
      <3>5. CASE Retry
        BY <3>5 DEF Retry, IdleUi
      <3>6. CASE UpdateRead
        BY <3>6 DEF UpdateRead, IdleUi, UiState
      <3>7. CASE WithdrawRead
        BY <3>7 DEF WithdrawRead, IdleUi, UiState
      <3>8. CASE DiscardDone
        BY <3>8 DEF DiscardDone, IdleUi, UiState
      <3> QED
        BY <1>8, <3>1, <3>2, <3>3, <3>4, <3>5, <3>6, <3>7, <3>8
    <2> QED
      BY <2>1, <2>2
  <1>9. CASE Ui
    BY <1>9, <1>1, <1>2, <1>3, <1>4, <1>5, <1>6, <1>7, <1>8 DEF Ui
  <1>10. CASE StartSync \/ Pass
    BY <1>10, PassFrame
  <1>11. ASSUME NEW i \in Ids, HttpLoss(i)
         PROVE  Gone(id)'
    <2>1. ui.pc \in {"http", "reply"} /\ ui.type \in OpTypes /\ ui.id \in Ids
      BY <1>11 DEF HttpLoss, UiState, UiHolds
    <2>2. intent'[id] = None
      BY <1>11, <2>1 DEF HttpLoss, OpTypes, Wishes, WishesBorn
    <2>3. ui'.pc # "http" /\ id \in born'
      BY <1>11, <2>1 DEF HttpLoss, OpTypes, UiState
    <2> QED
      BY <2>2, <2>3
  <1>12. CASE Loss \/ Crash \/ \E i \in Ids : OtherDelete(i) \/ \E v \in Vals : OtherWrite(i, v)
    BY <1>12 DEF Loss, Crash, OtherDelete, OtherWrite, IdleUi, ghostVars
  <1> QED
    BY <1>9, <1>10, <1>11, <1>12 DEF Next, Environment, vars

-----------------------------------------------------------------------------
(* What a step makes of the queue's operations on their way                *)

\* The steps that are steps of OfflineSync.
OfflineStep == UiStep \/ PassStep \/ StartStep \/ PassLoss

LEMMA OfflineNext ==
  ASSUME OfflineStep
  PROVE  Next
  BY DEF OfflineStep, UiStep, PassStep, StartStep, PassLoss, Next, Environment

\* An accepted push leaves the row on the server, unless it was a delete, and a
\* conflict is about a row that is there.
LEMMA PushedRow ==
  ASSUME NEW op \in PendingOperation, NEW row \in ServerRow \cup {None}, NEW now \in Nat,
         NEW out \in {Applied(op, row, now)} \cup Rejections(op, row)
  PROVE  /\ out \in Outcome
         /\ out.status = "ok" => out.row # None \/ op.type = "delete"
         /\ out.status = "conflict" => out.row # None
  <1>1. /\ op.type \in OpTypes /\ op.cid \in Ids
        /\ op.type # "delete" => op.val \in Vals
    BY DEF PendingOperation
  <1>2. CASE out = Applied(op, row, now)
    <2>1. Applied(op, row, now).status # "conflict"
      BY <1>1 DEF Applied, CreateOutcome, UpdateOutcome, DeleteOutcome, OpTypes
    <2> QED
      BY <1>1, <1>2, <2>1, AppliedType
  <1>3. CASE out \in Rejections(op, row)
    <2>1. out.status = "conflict" => row # None
      BY <1>3 DEF Rejections
    <2> QED
      BY <1>3, <2>1, RejectionsType
  <1> QED
    BY <1>2, <1>3

\* The call a mutator leaves: none, the removal of an operation it discards, or the
\* operation it queued.
LEMMA UiCalls ==
  ASSUME NativeTyped, NativeKeys, UiStep
  PROVE  /\ bridge["ui"] = None
         /\ bridge' = [bridge EXCEPT !["ui"] = UiCall]
         /\ \/ nextOp' = nextOp /\ UiCall = None
            \/ nextOp' = nextOp /\ \E o \in ui.ops : UiCall = RemoveCall(o.cid)
            \/ /\ nextOp' = nextOp + 1
               /\ \E o \in queue' : /\ UiCall = PutCall(o) /\ o.n = nextOp /\ o.cid = ui'.id
                                    /\ \A q \in Live' : q = o \/ q \in Live
  <1>0. bridge["ui"] = None /\ bridge' = [bridge EXCEPT !["ui"] = UiCall]
    BY DEF UiStep
  <1>1. Draws /\ nextOp \in Nat
    BY OfflineNext, DrawsStep DEF OfflineStep, NativeTyped, TypeInv, TypeOK, IdbOK
  <1>4. ui.pc = "discard" /\ ui'.pc = "settle" => \E o \in ui.ops : DiscardOp(o)
    BY DEF UiStep, Ui, Create, Update, Delete, Online, HttpRun, HttpReply, CreateRow, UpdateRead,
           UpdateRow, DeleteQueue, WithdrawRead, DeleteRow, Discard, DiscardRow, RetryOp,
           DiscardDone, Retry, HttpLoss, IdleUi, NativeTyped, TypeInv, TypeOK, UiState
  <1>2. CASE nextOp' = nextOp
    <2>1. CASE ui.pc = "discard" /\ ui'.pc = "settle"
      <3>1. \E o \in ui.ops : \A p \in ui.ops : o.n <= p.n
        BY <1>4, <2>1 DEF DiscardOp, TakenBack
      <3>2. DroppedOp \in ui.ops
        BY <3>1 DEF DroppedOp
      <3>3. UiCall = RemoveCall(DroppedOp.cid)
        BY <1>2, <2>1 DEF UiCall
      <3> QED
        BY <1>0, <1>2, <3>2, <3>3
    <2>2. CASE ~(ui.pc = "discard" /\ ui'.pc = "settle")
      BY <1>0, <1>2, <2>2 DEF UiCall
    <2> QED
      BY <2>1, <2>2
  <1>3. CASE nextOp' = nextOp + 1
    <2>1. PICK new \in queue' : /\ new.n = nextOp /\ new.cid = ui'.id
                                /\ \A q \in Live' : q = new \/ q \in Live
      BY <1>1, <1>3 DEF Draws
    <2>2. \A q \in queue' : q.n = nextOp => q = new
      <3>1. \A q \in Live : q.n < nextOp /\ q.n \in Nat
        BY DEF NativeKeys, AllReferred, Referred, Live, NativeTyped, TypeInv, TypeOK, IdbOK, PullOK,
               UiState, PendingOperation
      <3> QED
        BY <1>1, <2>1, <3>1 DEF Live
    <2>3. NewOp = new
      BY <2>1, <2>2 DEF NewOp
    <2>4. ~(ui.pc = "discard" /\ ui'.pc = "settle")
      BY <1>1, <1>3, <1>4 DEF DiscardOp, TakenBack
    <2>5. UiCall = PutCall(new)
      BY <1>1, <1>3, <2>3, <2>4 DEF UiCall
    <2> QED
      BY <1>0, <1>3, <2>1, <2>5
  <1> QED
    BY <1>0, <1>1, <1>2, <1>3 DEF Draws

\* The call a pass leaves: the removal of the operation of a result it has handled.
LEMMA PassCalls ==
  ASSUME PassStep
  PROVE  /\ bridge["pass"] = None
         /\ bridge' = [bridge EXCEPT !["pass"] = PassCall]
         /\ PassCall = None \/ \E r \in results : PassCall = RemoveCall(r.cid)
  <1>1. bridge["pass"] = None /\ bridge' = [bridge EXCEPT !["pass"] = PassCall] /\ Pass
    BY DEF PassStep
  <1>2. pc # "push" => results' \subseteq results
    BY <1>1 DEF Pass, ServerApply, PushReply, RecordFailure, AckRejected, AckCreated, MarkSynced,
                AckDone, BatchDone, PullQuery, PullReply, Merge, ClearStore, FillStore, SaveLastSync
  <1>3. CASE pc \in {"ack", "fail", "drop"} /\ results' # results
    <2>1. \E r \in results \ results' : TRUE
      BY <1>2, <1>3
    <2>2. (CHOOSE r \in results \ results' : TRUE) \in results
      BY <2>1
    <2> QED
      BY <1>1, <1>3, <2>2 DEF PassCall
  <1>4. CASE ~(pc \in {"ack", "fail", "drop"} /\ results' # results)
    BY <1>1, <1>4 DEF PassCall
  <1> QED
    BY <1>1, <1>3, <1>4

\* sync_outbox calls stay typed, and only UiStep adds one to put.
LEMMA CallsStep ==
  ASSUME NativeTyped, NativeKeys, [NativeNext]_allVars
  PROVE  CallsTyped'
  <1> USE DEF CallsTyped, Activities
  <1>0. TypeInv /\ CallsTyped
    BY DEF NativeTyped
  <1>1. CASE UiStep
    <2>1. TypeInv'
      BY <1>0, <1>1, OfflineNext, TypeStep DEF OfflineStep
    <2>2. UiCall \in Call \cup {None} /\ (UiCall # None /\ UiCall.call = "put" =>
            UiCall.op \in PendingOperation /\ UiCall.op.cid = UiCall.cid)
      <3>1. ASSUME NEW o \in ui.ops, UiCall = RemoveCall(o.cid)
            PROVE  UiCall \in Call /\ UiCall.call = "remove"
        <4>1. o.cid \in Ids
          BY <1>0 DEF TypeInv, TypeOK, UiState, PendingOperation
        <4> QED
          BY <3>1, <4>1 DEF RemoveCall, Call
      <3>2. ASSUME NEW o \in queue', UiCall = PutCall(o)
            PROVE  UiCall \in Call /\ UiCall.op \in PendingOperation /\ UiCall.op.cid = UiCall.cid
        <4>1. o \in PendingOperation /\ o.cid \in Ids
          BY <2>1 DEF TypeInv, TypeOK, IdbOK, PendingOperation
        <4> QED
          BY <3>2, <4>1 DEF PutCall, Call
      <3> QED
        BY <1>1, <3>1, <3>2, UiCalls
    <2> QED
      BY <1>0, <1>1, <2>2, UiCalls
  <1>2. CASE PassStep
    <2>1. PassCall \in Call \cup {None} /\ (PassCall # None => PassCall.call = "remove")
      <3>1. ASSUME NEW r \in results, PassCall = RemoveCall(r.cid)
            PROVE  PassCall \in Call /\ PassCall.call = "remove"
        <4>1. r.cid \in Ids
          BY <1>0 DEF TypeInv, TypeOK, BatchOK, Result
        <4> QED
          BY <3>1, <4>1 DEF RemoveCall, Call
      <3> QED
        BY <1>2, <3>1, PassCalls
    <2> QED
      BY <1>0, <1>2, <2>1, PassCalls
  <1>3. ASSUME NEW a \in Activities, PluginPut(a) \/ PluginRemove(a)
        PROVE  CallsTyped'
    <2>1. bridge' = [bridge EXCEPT ![a] = None]
      BY <1>3 DEF PluginPut, PluginRemove
    <2> QED
      BY <1>0, <2>1
  <1>4. CASE WebViewDies
    <2>1. bridge' = [a \in Activities |-> None]
      BY <1>4 DEF WebViewDies
    <2> QED
      BY <1>0, <2>1
  <1>5. CASE UNCHANGED bridge
    BY <1>0, <1>5
  <1> QED
    BY <1>1, <1>2, <1>3, <1>4, <1>5
    DEF NativeNext, PassLoss, StartStep, NotOnline, AdoptRead, Import, AdoptRow, AdoptAck, Work,
        WorkStart, WorkApply, WorkSettle, WorkRefused, WorkLoss, WorkDie, Drain, Reconcile, Snapshot,
        ReadRow, MarkRow, DropOp, ReadOp, CountFailure, PassOver, nativeVars, allVars

-----------------------------------------------------------------------------
(* Operators of the worker and of the reconciliation                       *)

\* What is left of a sequence behind its head.
LEMMA RestOf ==
  ASSUME NEW S, NEW s \in Seq(S), s # <<>>
  PROVE  /\ Len(s) \in Nat /\ Len(s) >= 1 /\ Tail(s) \in Seq(S) /\ Len(Tail(s)) = Len(s) - 1
         /\ \A i \in 1 .. Len(Tail(s)) : Tail(s)[i] = s[i + 1] /\ i + 1 \in 1 .. Len(s)
         /\ Len(s) # 1 => Tail(s) # <<>>
  <1>1. Len(s) \in Nat /\ Len(s) >= 1
    OBVIOUS
  <1>2. Tail(s) \in Seq(S) /\ Len(Tail(s)) = Len(s) - 1
    OBVIOUS
  <1>3. \A i \in 1 .. Len(Tail(s)) : Tail(s)[i] = s[i + 1] /\ i + 1 \in 1 .. Len(s)
    BY <1>1, <1>2
  <1>4. Len(s) # 1 => Tail(s) # <<>>
    <2>1. ASSUME NEW t \in Seq(S), t = <<>>
          PROVE  Len(t) = 0
      BY <2>1
    <2> QED
      BY <1>1, <1>2, <2>1
  <1> QED
    BY <1>1, <1>2, <1>3, <1>4

\* A reconciliation at rest, or done.
LEMMA OverType ==
  /\ IdleRecon \in ReconState /\ IdleRecon.pc = "idle" /\ IdleRecon.results = <<>>
  /\ IdleRecon.known = {}
  /\ Over \in ReconState /\ Over.pc = "ready" /\ Over.results = <<>> /\ Over.known = {}
  <1>1. <<>> \in Seq(NativeResult) /\ {} \in SUBSET PendingOperation
    OBVIOUS
  <1>2. IdleRecon \in ReconState
    BY <1>1 DEF IdleRecon, ReconState
  <1>3. Over \in ReconState
    BY <1>1, <1>2 DEF Over, IdleRecon, ReconState
  <1> QED
    BY <1>2, <1>3 DEF Over, IdleRecon

\* The result a reconciliation is at.
LEMMA CurrentType ==
  ASSUME ReconTyped, NEW c \in Callers, recon[c].results # <<>>
  PROVE  Current(c) \in NativeResult /\ \E i \in 1 .. Len(recon[c].results) : Current(c) = recon[c].results[i]
  <1> DEFINE s == recon[c].results
  <1>1. s \in Seq(NativeResult) /\ s # <<>>
    BY DEF ReconTyped, ReconState
  <1> HIDE DEF s
  <1>2. Head(s) \in NativeResult /\ Len(s) \in Nat /\ Len(s) >= 1 /\ Head(s) = s[1]
    BY <1>1
  <1> QED
    BY <1>2 DEF Current, s

\* The journal gains the newest result and loses at most its oldest one.
LEMMA RecordedKeeps ==
  ASSUME journal \in Seq(NativeResult), NEW r \in NativeResult
  PROVE  /\ Recorded(r) \in Seq(NativeResult)
         /\ \A i \in 1 .. Len(Recorded(r)) :
              Recorded(r)[i] = r \/ \E j \in 1 .. Len(journal) : Recorded(r)[i] = journal[j]
  <1>1. CASE Len(journal) < MAX_RESULTS
    BY <1>1 DEF Recorded
  <1>2. CASE ~(Len(journal) < MAX_RESULTS)
    <2> DEFINE rest == Tail(journal)
    <2>1. journal # <<>> /\ Len(journal) \in Nat /\ Len(journal) > 0
      BY <1>2
    <2>2. /\ rest \in Seq(NativeResult) /\ Len(rest) = Len(journal) - 1
          /\ \A i \in 1 .. Len(rest) : rest[i] = journal[i + 1] /\ i + 1 \in 1 .. Len(journal)
      BY <2>1
    <2>3. Recorded(r) = Append(rest, r)
      BY <1>2 DEF Recorded
    <2> HIDE DEF rest
    <2>4. /\ Append(rest, r) \in Seq(NativeResult)
          /\ \A i \in 1 .. Len(Append(rest, r)) :
               Append(rest, r)[i] = r \/ (i \in 1 .. Len(rest) /\ Append(rest, r)[i] = rest[i])
      BY <2>2
    <2> QED
      BY <2>2, <2>3, <2>4
  <1> QED
    BY <1>1, <1>2

\* What is journalled of a result is that result, or that it was given up.
LEMMA JournalledKeeps ==
  ASSUME NEW r \in NativeResult
  PROVE  /\ Journalled(r) \in NativeResult
         /\ Journalled(r).n = r.n /\ Journalled(r).cid = r.cid
         /\ Journalled(r).status \in {r.status, "failed"}
  BY DEF Journalled, NativeResult

\* A result of the worker changes the outbox only for its client id: it removes the
\* operation when it is done or given up and counts the attempt otherwise.
LEMMA OutboxAfterKeeps ==
  ASSUME OutboxTyped, NEW r \in NativeResult
  PROVE  /\ OutboxAfter(r) \in [Ids -> PendingOperation \cup {None}]
         /\ \A id \in Ids : OutboxAfter(r)[id] # None =>
              /\ outbox[id] # None
              /\ OutboxAfter(r)[id].n = outbox[id].n /\ OutboxAfter(r)[id].cid = outbox[id].cid
              /\ OutboxAfter(r)[id].type = outbox[id].type
         /\ \A id \in Ids : OutboxAfter(r)[id] = None /\ outbox[id] # None =>
              r.cid = id /\ (Done(r.status) \/ Parks(id))
  <1>0. r.cid \in Ids /\ outbox \in [Ids -> PendingOperation \cup {None}]
    BY DEF NativeResult, OutboxTyped
  <1>1. CASE Done(r.status) \/ Parks(r.cid) \/ outbox[r.cid] = None
    <2>1. OutboxAfter(r) = [outbox EXCEPT ![r.cid] = None]
      BY <1>1 DEF OutboxAfter, Put
    <2> QED
      BY <1>0, <1>1, <2>1
  <1>2. CASE ~(Done(r.status) \/ Parks(r.cid) \/ outbox[r.cid] = None)
    <2> DEFINE op == outbox[r.cid]
               counted == [op EXCEPT !.attempts = @ + 1]
    <2>1. OutboxAfter(r) = [outbox EXCEPT ![r.cid] = counted]
      BY <1>0, <1>2 DEF OutboxAfter
    <2>2. op \in PendingOperation
      BY <1>0, <1>2
    <2>3. /\ counted \in PendingOperation
          /\ counted.n = op.n /\ counted.cid = op.cid /\ counted.type = op.type
      BY <2>2 DEF PendingOperation
    <2>4. counted # None
      BY <2>3
    <2> HIDE DEF counted
    <2>5. \A id \in Ids : OutboxAfter(r)[id] = IF id = r.cid THEN counted ELSE outbox[id]
      BY <1>0, <2>1
    <2>6. OutboxAfter(r) \in [Ids -> PendingOperation \cup {None}]
      BY <1>0, <2>1, <2>3
    <2>7. ASSUME NEW id \in Ids, OutboxAfter(r)[id] # None
          PROVE  /\ outbox[id] # None
                 /\ OutboxAfter(r)[id].n = outbox[id].n /\ OutboxAfter(r)[id].cid = outbox[id].cid
                 /\ OutboxAfter(r)[id].type = outbox[id].type
      BY <1>2, <2>3, <2>5, <2>7
    <2>8. \A id \in Ids : OutboxAfter(r)[id] = None => outbox[id] = None
      BY <2>4, <2>5
    <2> QED
      BY <2>6, <2>7, <2>8
  <1> QED
    BY <1>1, <1>2

\* A reconciliation goes on with the results it has not handled.
LEMMA NextResultKeeps ==
  ASSUME ReconTyped, NEW c \in Callers, recon[c].results # <<>>
  PROVE  \E next \in ReconState :
            /\ NextResult(c) = [recon EXCEPT ![c] = next]
            /\ next.pc \in {"next", "ready"}
            /\ next.pc = "next" => next.results # <<>>
            /\ next.known \subseteq recon[c].known
            /\ \A i \in 1 .. Len(next.results) :
                 \E j \in 1 .. Len(recon[c].results) : next.results[i] = recon[c].results[j]
  <1> DEFINE s == recon[c]
  <1>1. recon \in [Callers -> ReconState] /\ s \in ReconState
    BY DEF ReconTyped
  <1>2. CASE Len(s.results) = 1
    <2>1. NextResult(c) = [recon EXCEPT ![c] = Over]
      BY <1>2 DEF NextResult
    <2>2. \A i \in 1 .. Len(Over.results) : FALSE
      BY OverType
    <2> QED
      BY <2>1, <2>2, OverType
  <1>3. CASE Len(s.results) # 1
    <2> DEFINE t == [s EXCEPT !.pc = "next", !.results = Tail(s.results), !.held = None]
    <2>1. NextResult(c) = [recon EXCEPT ![c] = t]
      BY <1>1, <1>3 DEF NextResult, GoOn, ReconState
    <2>3. /\ s.results \in Seq(NativeResult) /\ s.results # <<>> /\ Len(s.results) \in Nat
          /\ s.known \in SUBSET PendingOperation
      BY <1>1 DEF ReconState
    <2>4. /\ t.pc = "next" /\ t.results = Tail(s.results) /\ t.known = s.known /\ t.held = None
      BY <1>1 DEF ReconState
    <2>5. /\ Tail(s.results) \in Seq(NativeResult) /\ Tail(s.results) # <<>>
          /\ Len(Tail(s.results)) = Len(s.results) - 1
          /\ \A i \in 1 .. Len(Tail(s.results)) :
               Tail(s.results)[i] = s.results[i + 1] /\ i + 1 \in 1 .. Len(s.results)
      BY <1>3, <2>3, RestOf
    <2>6. t \in ReconState
      BY <1>1, <2>3, <2>5 DEF ReconState
    <2> HIDE DEF t, s
    <2>7. \A i \in 1 .. Len(t.results) : \E j \in 1 .. Len(s.results) : t.results[i] = s.results[j]
      BY <2>4, <2>5
    <2> QED
      BY <2>1, <2>4, <2>5, <2>6, <2>7 DEF s
  <1> QED
    BY <1>2, <1>3

-----------------------------------------------------------------------------
(* Where a step takes what is in the outbox, in the jobs and in the        *)
(* reconciliations from                                                    *)

\* A reconciliation writes to the journal, to the queue and to the mirror only.
LEMMA ReconcileFrame ==
  ASSUME NEW c \in Callers, Drain(c) \/ Reconcile(c)
  PROVE  /\ UNCHANGED <<serverVars, nextOp, lastSync, passVars, ui, faults, ghostVars, outbox, worker,
                        bridge, captureVars, parked, mixed>>
         /\ ~Drain(c) => UNCHANGED journal
  BY DEF Drain, Reconcile, Snapshot, ReadRow, MarkRow, DropOp, ReadOp, CountFailure, PassOver, vars,
         serverVars, idbVars, passVars, ghostVars, captureVars

\* The push handler runs one operation of the snapshot of a job.
LEMMA WorkApplied ==
  ASSUME NativeTyped, NEW w \in Workers, NEW id \in Ids, WorkApply(w, id)
  PROVE  LET op == worker[w].batch[id]
         IN /\ op \in PendingOperation /\ op.cid = id /\ op # None
            /\ \E out \in Outcome :
                 /\ db' = Put(db, id, out.row)
                 /\ clock' \in Nat
                 /\ stored' = IF out.row # None THEN stored \cup {id} ELSE stored
                 /\ accepted' = IF out.status = "ok" THEN accepted \cup {op.n} ELSE accepted
                 /\ out.status = "ok" => out.row # None \/ op.type = "delete"
                 /\ out.status = "conflict" => out.row # None
                 /\ worker' \in [Workers -> WorkerState]
                 /\ \A v \in Workers : v # w => worker'[v] = worker[v]
                 /\ worker'[w].batch = worker[w].batch
                 /\ worker'[w].todo = worker[w].todo \ {id}
                 /\ worker'[w].results =
                      worker[w].results \cup {[n |-> op.n, cid |-> id, status |-> out.status]}
  <1> DEFINE s == worker[w]
             op == s.batch[id]
  <1>1. worker \in [Workers -> WorkerState] /\ s \in WorkerState /\ id \in s.todo
    BY DEF NativeTyped, JobsTyped, WorkApply
  <1>2. op \in PendingOperation /\ op.cid = id /\ op # None
    BY <1>1 DEF NativeTyped, JobsTyped, WorkerState
  <1>3. db[id] \in ServerRow \cup {None} /\ clock \in Nat /\ clock + 1 \in Nat
    BY DEF NativeTyped, TypeInv, TypeOK, ServerOK
  <1>4. PICK out \in {Applied(op, db[id], clock + 1)} \cup
                     (IF "reject" \in Faults THEN Rejections(op, db[id]) ELSE {}) :
          /\ db' = Put(db, id, out.row)
          /\ clock' = IF out.row # None /\ out.row # db[id] THEN clock + 1 ELSE clock
          /\ stored' = IF out.row # None THEN stored \cup {id} ELSE stored
          /\ accepted' = IF out.status = "ok" THEN accepted \cup {op.n} ELSE accepted
          /\ worker' = [worker EXCEPT
               ![w].todo = @ \ {id},
               ![w].pc = IF worker[w].todo = {id} THEN "settle" ELSE @,
               ![w].results = @ \cup {[n |-> op.n, cid |-> id, status |-> out.status]}]
    BY DEF WorkApply
  <1>5. out \in {Applied(op, db[id], clock + 1)} \cup Rejections(op, db[id])
    BY <1>4
  <1>6. /\ out \in Outcome
        /\ out.status = "ok" => out.row # None \/ op.type = "delete"
        /\ out.status = "conflict" => out.row # None
    BY <1>2, <1>3, <1>5, PushedRow
  <1> DEFINE r == [n |-> op.n, cid |-> id, status |-> out.status]
             t == [s EXCEPT !.todo = s.todo \ {id},
                            !.pc = IF s.todo = {id} THEN "settle" ELSE s.pc,
                            !.results = s.results \cup {r}]
  <1>7. r \in NativeResult
    BY <1>2, <1>6 DEF NativeResult, Outcome, PendingOperation
  <1>8. /\ worker'[w] = t /\ \A v \in Workers : v # w => worker'[v] = worker[v]
        /\ DOMAIN worker' = Workers
    BY <1>1, <1>4
  <1>9. t.batch = s.batch /\ t.todo = s.todo \ {id} /\ t.results = s.results \cup {r}
    BY <1>1 DEF WorkerState
  <1>10. t \in WorkerState
    BY <1>1, <1>7 DEF WorkerState
  <1>11. worker' \in [Workers -> WorkerState]
    <2>1. worker' = [v \in Workers |-> worker'[v]]
      BY <1>1, <1>4
    <2> QED
      BY <1>1, <1>8, <1>10, <2>1
  <1>12. worker'[w].batch = s.batch /\ worker'[w].todo = s.todo \ {id} /\ worker'[w].results = s.results \cup {r}
    BY <1>8, <1>9
  <1>13. clock' \in Nat
    BY <1>3, <1>4
  <1> QED
    BY <1>2, <1>4, <1>6, <1>8, <1>11, <1>12, <1>13

\* A job settles the results of its batch, one by one.
LEMMA HandledKeeps ==
  ASSUME JobsTyped, NEW w \in Workers, NEW r \in worker[w].results
  PROVE  /\ Handled(w, r) \in [Workers -> WorkerState]
         /\ \A v \in Workers : v # w => Handled(w, r)[v] = worker[v]
         /\ \/ Handled(w, r)[w] = IdleWorker
            \/ /\ Handled(w, r)[w].batch = worker[w].batch
               /\ Handled(w, r)[w].todo = worker[w].todo
               /\ Handled(w, r)[w].results = worker[w].results \ {r}
  <1> DEFINE s == worker[w]
             u == [s EXCEPT !.results = @ \ {r}]
             t == IF s.results = {r} THEN IdleWorker ELSE u
  <1>1. worker \in [Workers -> WorkerState] /\ s \in WorkerState
    BY DEF JobsTyped
  <1>2. Handled(w, r) = [worker EXCEPT ![w] = t]
    BY DEF Handled
  <1>3. IdleWorker \in WorkerState
    BY DEF IdleWorker, NoOperations, WorkerState
  <1>4. u.batch = s.batch /\ u.todo = s.todo /\ u.results = s.results \ {r}
    BY <1>1 DEF WorkerState
  <1>5. u \in WorkerState
    BY <1>1 DEF WorkerState
  <1> HIDE DEF u
  <1>6. t \in WorkerState
    BY <1>3, <1>5
  <1>7. t = IdleWorker \/ (t.batch = s.batch /\ t.todo = s.todo /\ t.results = s.results \ {r})
    BY <1>4
  <1> HIDE DEF t
  <1> QED
    BY <1>1, <1>2, <1>6, <1>7

\* Whatever a job pushes was in the outbox when it took its snapshot.
LEMMA JobsStep ==
  ASSUME NativeTyped, [NativeNext]_allVars
  PROVE  /\ JobsTyped'
         /\ \A w \in Workers, id \in Ids : worker'[w].batch[id] # None =>
              worker'[w].batch[id] \in {worker[w].batch[id], outbox[id]}
  <1> DEFINE Goal == /\ JobsTyped'
                     /\ \A w \in Workers, id \in Ids : worker'[w].batch[id] # None =>
                          worker'[w].batch[id] \in {worker[w].batch[id], outbox[id]}
  <1>0. JobsTyped /\ OutboxTyped /\ worker \in [Workers -> WorkerState]
    BY DEF NativeTyped, JobsTyped
  <1>1. ASSUME NEW w \in Workers, worker' \in [Workers -> WorkerState],
               \A v \in Workers : v # w => worker'[v] = worker[v],
               \A id \in Ids : worker'[w].batch[id] # None =>
                 worker'[w].batch[id] \in {worker[w].batch[id], outbox[id]},
               \A id \in worker'[w].todo : worker'[w].batch[id] # None,
               \A r \in worker'[w].results :
                 worker'[w].batch[r.cid] # None /\ worker'[w].batch[r.cid].n = r.n
        PROVE  Goal
    <2>1. \A id \in Ids : worker'[w].batch[id] # None => worker'[w].batch[id].cid = id
      BY <1>0, <1>1 DEF JobsTyped, OutboxTyped
    <2> QED
      BY <1>0, <1>1, <2>1 DEF JobsTyped
  <1>2. ASSUME NEW w \in Workers, worker' = [worker EXCEPT ![w] = IdleWorker]
        PROVE  Goal
    <2>1. /\ IdleWorker \in WorkerState /\ IdleWorker.todo = {} /\ IdleWorker.results = {}
          /\ \A id \in Ids : IdleWorker.batch[id] = None
      BY DEF IdleWorker, NoOperations, WorkerState
    <2>2. worker' \in [Workers -> WorkerState] /\ worker'[w] = IdleWorker
          /\ \A v \in Workers : v # w => worker'[v] = worker[v]
      BY <1>0, <1>2, <2>1
    <2> QED
      BY <1>1, <2>1, <2>2
  <1>3. ASSUME NEW w \in Workers, WorkStart(w)
        PROVE  Goal
    <2> DEFINE t == [pc |-> "push", batch |-> outbox, todo |-> {id \in Ids : outbox[id] # None},
                     results |-> {}]
    <2>1. worker' = [worker EXCEPT ![w] = t]
      BY <1>3 DEF WorkStart
    <2>2. t \in WorkerState
      BY <1>0 DEF WorkerState, OutboxTyped
    <2>3. worker' \in [Workers -> WorkerState] /\ worker'[w] = t
          /\ \A v \in Workers : v # w => worker'[v] = worker[v]
      BY <1>0, <2>1, <2>2
    <2> QED
      BY <1>1, <2>3
  <1>4. ASSUME NEW w \in Workers, NEW id \in Ids, WorkApply(w, id)
        PROVE  Goal
    <2> DEFINE op == worker[w].batch[id]
    <2>0. op # None
      BY <1>4, WorkApplied
    <2>1. PICK out \in Outcome :
            /\ worker' \in [Workers -> WorkerState]
            /\ \A v \in Workers : v # w => worker'[v] = worker[v]
            /\ worker'[w].batch = worker[w].batch
            /\ worker'[w].todo = worker[w].todo \ {id}
            /\ worker'[w].results =
                 worker[w].results \cup {[n |-> op.n, cid |-> id, status |-> out.status]}
      BY <1>4, WorkApplied
    <2>2. \A i \in worker[w].todo : worker[w].batch[i] # None
      BY <1>0 DEF JobsTyped
    <2>3. \A r \in worker[w].results : worker[w].batch[r.cid] # None /\ worker[w].batch[r.cid].n = r.n
      BY <1>0 DEF JobsTyped
    <2> QED
      BY <1>1, <2>0, <2>1, <2>2, <2>3
  <1>5. ASSUME NEW w \in Workers, WorkRefused(w)
        PROVE  Goal
    <2> DEFINE s == worker[w]
               refused == {[n |-> s.batch[id].n, cid |-> id, status |-> "error"] : id \in s.todo}
               t == [s EXCEPT !.pc = "settle", !.todo = {}, !.results = refused]
    <2>0. s \in WorkerState /\ \A i \in s.todo : s.batch[i] # None
      BY <1>0 DEF JobsTyped
    <2>1. worker' = [worker EXCEPT ![w] = t]
      BY <1>0, <1>5 DEF WorkRefused
    <2>2. t.batch = s.batch /\ t.todo = {} /\ t.results = refused
      BY <2>0 DEF WorkerState
    <2>3. refused \subseteq NativeResult
      BY <2>0 DEF NativeResult, WorkerState, PendingOperation
    <2>4. t \in WorkerState
      BY <2>0, <2>3 DEF WorkerState
    <2>5. worker' \in [Workers -> WorkerState] /\ worker'[w] = t
          /\ \A v \in Workers : v # w => worker'[v] = worker[v]
      BY <1>0, <2>1, <2>4
    <2>6. /\ worker'[w].batch = s.batch /\ worker'[w].todo = {}
          /\ \A r \in worker'[w].results : s.batch[r.cid] # None /\ s.batch[r.cid].n = r.n
      BY <2>0, <2>2, <2>5
    <2> HIDE DEF s, t, Goal
    <2> QED
      BY <1>1, <2>5, <2>6 DEF s
  <1>6. ASSUME NEW w \in Workers, NEW r \in worker[w].results, WorkSettle(w, r)
        PROVE  Goal
    <2>0. worker' = Handled(w, r)
      BY <1>6 DEF WorkSettle
    <2>1. /\ worker' \in [Workers -> WorkerState]
          /\ \A v \in Workers : v # w => worker'[v] = worker[v]
          /\ \/ worker'[w] = IdleWorker
             \/ /\ worker'[w].batch = worker[w].batch
                /\ worker'[w].todo = worker[w].todo
                /\ worker'[w].results = worker[w].results \ {r}
      BY <1>0, <2>0, HandledKeeps
    <2>2. CASE worker'[w] = IdleWorker
      <3>1. /\ IdleWorker.todo = {} /\ IdleWorker.results = {}
            /\ \A id \in Ids : IdleWorker.batch[id] = None
        BY DEF IdleWorker, NoOperations
      <3> QED
        BY <1>1, <2>1, <2>2, <3>1
    <2>3. CASE /\ worker'[w].batch = worker[w].batch
               /\ worker'[w].todo = worker[w].todo
               /\ worker'[w].results = worker[w].results \ {r}
      BY <1>0, <1>1, <2>1, <2>3 DEF JobsTyped
    <2> QED
      BY <2>1, <2>2, <2>3
  <1>7. ASSUME NEW w \in Workers, WorkLoss(w) \/ WorkDie(w)
        PROVE  Goal
    BY <1>2, <1>7 DEF WorkLoss, WorkDie
  <1>8. ASSUME UNCHANGED worker
        PROVE  Goal
    BY <1>0, <1>8 DEF JobsTyped
  <1> HIDE DEF Goal
  <1>9. ASSUME Work
        PROVE  Goal
    BY <1>3, <1>4, <1>6, <1>9 DEF Work
  <1>10. \/ UNCHANGED worker
         \/ Work \/ \E w \in Workers : WorkRefused(w) \/ WorkLoss(w) \/ WorkDie(w)
    BY ReconcileFrame
    DEF NativeNext, UiStep, PassStep, PassLoss, StartStep, NotOnline, PluginPut, PluginRemove,
        AdoptRead, Import, AdoptRow, AdoptAck, WebViewDies, nativeVars, allVars
  <1> QED
    BY <1>5, <1>7, <1>8, <1>9, <1>10 DEF Goal

\* The outbox takes its operations from the calls of the mutators and from the imports.
OutboxDraws(id) ==
  \/ /\ outbox[id] # None
     /\ outbox'[id].n = outbox[id].n /\ outbox'[id].type = outbox[id].type
  \/ \E a \in Activities : /\ bridge[a] # None /\ bridge[a].call = "put" /\ bridge[a].cid = id
                           /\ outbox'[id] = bridge[a].op
  \/ /\ id \in Ids \ born /\ id \in imported'
     /\ outbox'[id].type = "create" /\ outbox'[id].n = 0

\* It gives an operation up for a call of the WebView or for a result that is done or parks.
OutboxGives(id) ==
  \/ \E a \in Activities : bridge[a] # None /\ bridge[a].cid = id
  \/ \E w \in Workers : \E r \in worker[w].results : r.cid = id /\ (Done(r.status) \/ id \in parked')
  \/ id \notin born

\* Whatever the outbox holds was put there by a mutator or an import.
LEMMA OutboxStep ==
  ASSUME NativeTyped, [NativeNext]_allVars
  PROVE  /\ OutboxTyped'
         /\ \A id \in Ids : outbox'[id] # None => OutboxDraws(id)
         /\ \A id \in Ids : outbox[id] # None =>
              (outbox'[id] # None /\ outbox'[id].type = outbox[id].type) \/ OutboxGives(id)
  <1> DEFINE Goal == /\ OutboxTyped'
                     /\ \A id \in Ids : outbox'[id] # None => OutboxDraws(id)
                     /\ \A id \in Ids : outbox[id] # None =>
                          (outbox'[id] # None /\ outbox'[id].type = outbox[id].type) \/ OutboxGives(id)
  <1>0. OutboxTyped /\ outbox \in [Ids -> PendingOperation \cup {None}] /\ CallsTyped
    BY DEF NativeTyped, OutboxTyped
  <1>1. ASSUME UNCHANGED outbox
        PROVE  Goal
    BY <1>0, <1>1 DEF OutboxTyped, OutboxDraws
  <1>2. ASSUME NEW a \in Activities, PluginPut(a)
        PROVE  Goal
    <2> DEFINE id == bridge[a].cid
               op == bridge[a].op
    <2>1. /\ bridge[a] # None /\ bridge[a].call = "put"
          /\ outbox' = [outbox EXCEPT ![id] = op]
      BY <1>2 DEF PluginPut, Put
    <2>2. op \in PendingOperation /\ op.cid = id /\ id \in Ids
      BY <1>0, <2>1 DEF CallsTyped, PendingOperation
    <2> HIDE DEF id, op
    <2>3. outbox' \in [Ids -> PendingOperation \cup {None}] /\ outbox'[id] = op
          /\ \A i \in Ids : i # id => outbox'[i] = outbox[i]
      BY <1>0, <2>1, <2>2
    <2>4. OutboxTyped'
      BY <1>0, <2>2, <2>3 DEF OutboxTyped
    <2>5. OutboxDraws(id) /\ OutboxGives(id)
      BY <2>1, <2>3 DEF OutboxDraws, OutboxGives, id, op
    <2>6. \A i \in Ids : i # id /\ outbox'[i] # None => OutboxDraws(i)
      BY <2>3 DEF OutboxDraws
    <2> QED
      BY <2>3, <2>4, <2>5, <2>6
  <1>3. ASSUME NEW a \in Activities, PluginRemove(a)
        PROVE  Goal
    <2> DEFINE id == bridge[a].cid
    <2>1. bridge[a] # None /\ outbox' = [outbox EXCEPT ![id] = None]
      BY <1>3 DEF PluginRemove, Put
    <2> HIDE DEF id
    <2>2. outbox' \in [Ids -> PendingOperation \cup {None}]
          /\ \A i \in Ids : outbox'[i] = IF i = id THEN None ELSE outbox[i]
      BY <1>0, <2>1
    <2>3. OutboxTyped'
      BY <1>0, <2>2 DEF OutboxTyped
    <2>4. OutboxGives(id)
      BY <2>1 DEF OutboxGives, id
    <2>5. \A i \in Ids : outbox'[i] # None => OutboxDraws(i)
      BY <2>2 DEF OutboxDraws
    <2> QED
      BY <2>2, <2>3, <2>4, <2>5
  <1>4. ASSUME NEW id \in Ids, NEW v \in Vals, Import(id, v)
        PROVE  Goal
    <2> DEFINE op == [n |-> 0, type |-> "create", cid |-> id, val |-> v, attempts |-> 0]
    <2>1. outbox' = [outbox EXCEPT ![id] = op] /\ id \notin born /\ id \in imported'
      BY <1>4 DEF Import, Put, NativeTyped, CapturesTyped
    <2>2. op \in PendingOperation /\ op.cid = id /\ op.type = "create" /\ op.n = 0
      BY DEF PendingOperation, OpTypes
    <2> HIDE DEF op
    <2>3. outbox' \in [Ids -> PendingOperation \cup {None}] /\ outbox'[id] = op
          /\ \A i \in Ids : i # id => outbox'[i] = outbox[i]
      BY <1>0, <2>1, <2>2
    <2>4. OutboxTyped'
      BY <1>0, <2>2, <2>3 DEF OutboxTyped
    <2>5. OutboxDraws(id) /\ OutboxGives(id)
      BY <2>1, <2>2, <2>3 DEF OutboxDraws, OutboxGives
    <2>6. \A i \in Ids : i # id /\ outbox'[i] # None => OutboxDraws(i)
      BY <2>3 DEF OutboxDraws
    <2> QED
      BY <2>3, <2>4, <2>5, <2>6
  <1>5. ASSUME NEW w \in Workers, NEW r \in worker[w].results,
               outbox' = OutboxAfter(r), parked' = GivenUp(r)
        PROVE  Goal
    <2>1. r \in NativeResult
      BY DEF NativeTyped, JobsTyped, WorkerState
    <2>2. /\ outbox' \in [Ids -> PendingOperation \cup {None}]
          /\ \A id \in Ids : outbox'[id] # None =>
               /\ outbox[id] # None
               /\ outbox'[id].n = outbox[id].n /\ outbox'[id].cid = outbox[id].cid
               /\ outbox'[id].type = outbox[id].type
          /\ \A id \in Ids : outbox'[id] = None /\ outbox[id] # None =>
               r.cid = id /\ (Done(r.status) \/ Parks(id))
      BY <1>0, <1>5, <2>1, OutboxAfterKeeps
    <2>3. OutboxTyped'
      BY <1>0, <2>2 DEF OutboxTyped
    <2>4. \A id \in Ids : outbox'[id] # None => OutboxDraws(id)
      BY <2>2 DEF OutboxDraws
    <2>5. ASSUME NEW id \in Ids, outbox[id] # None, outbox'[id] = None
          PROVE  OutboxGives(id)
      <3>1. r.cid = id /\ (Done(r.status) \/ Parks(id))
        BY <2>2, <2>5
      <3>2. Done(r.status) \/ id \in parked'
        BY <1>5, <3>1 DEF GivenUp
      <3> QED
        BY <3>1, <3>2 DEF OutboxGives
    <2> QED
      BY <2>2, <2>3, <2>4, <2>5
  <1> HIDE DEF Goal
  <1>6. ASSUME NEW w \in Workers, WorkDie(w)
        PROVE  Goal
    BY <1>1, <1>5, <1>6 DEF WorkDie
  <1>7. ASSUME NEW w \in Workers, NEW r \in worker[w].results, WorkSettle(w, r)
        PROVE  Goal
    BY <1>5, <1>7 DEF WorkSettle
  <1>8. Goal
    BY <1>1, <1>2, <1>3, <1>4, <1>6, <1>7
    DEF NativeNext, UiStep, PassStep, PassLoss, StartStep, NotOnline,
        AdoptRead, AdoptRow, AdoptAck, Work, WorkStart, WorkApply, WorkRefused, WorkLoss, Drain,
        Reconcile, Snapshot, ReadRow, MarkRow, DropOp, ReadOp, CountFailure, PassOver, WebViewDies,
        nativeVars, allVars
  <1> QED
    BY <1>8 DEF Goal

\* The journal takes its results from the jobs.
LEMMA JournalStep ==
  ASSUME NativeTyped, [NativeNext]_allVars
  PROVE  /\ journal' \in Seq(NativeResult)
         /\ \A i \in 1 .. Len(journal') :
              \/ \E j \in 1 .. Len(journal) : journal'[i] = journal[j]
              \/ \E w \in Workers : \E r \in worker[w].results : journal'[i] = Journalled(r)
  <1> DEFINE Goal == /\ journal' \in Seq(NativeResult)
                     /\ \A i \in 1 .. Len(journal') :
                          \/ \E j \in 1 .. Len(journal) : journal'[i] = journal[j]
                          \/ \E w \in Workers : \E r \in worker[w].results : journal'[i] = Journalled(r)
  <1>0. journal \in Seq(NativeResult)
    BY DEF NativeTyped
  <1>1. ASSUME UNCHANGED journal
        PROVE  Goal
    BY <1>0, <1>1
  <1>2. ASSUME NEW c \in Callers, Drain(c)
        PROVE  Goal
    <2>1. journal' = <<>>
      BY <1>2 DEF Drain
    <2> QED
      BY <2>1
  <1>3. ASSUME NEW w \in Workers, NEW r \in worker[w].results, WorkSettle(w, r)
        PROVE  Goal
    <2>1. r \in NativeResult
      BY DEF NativeTyped, JobsTyped, WorkerState
    <2>2. Journalled(r) \in NativeResult
      BY <2>1, JournalledKeeps
    <2>3. journal' = Recorded(Journalled(r))
      BY <1>3 DEF WorkSettle
    <2>4. /\ Recorded(Journalled(r)) \in Seq(NativeResult)
          /\ \A i \in 1 .. Len(Recorded(Journalled(r))) :
               \/ Recorded(Journalled(r))[i] = Journalled(r)
               \/ \E j \in 1 .. Len(journal) : Recorded(Journalled(r))[i] = journal[j]
      BY <1>0, <2>2, RecordedKeeps
    <2> QED
      BY <2>3, <2>4
  <1> HIDE DEF Goal
  <1>4. Goal
    BY <1>1, <1>2, <1>3
    DEF NativeNext, UiStep, PassStep, PassLoss, StartStep, NotOnline, PluginPut, PluginRemove,
        AdoptRead, Import, AdoptRow, AdoptAck, Work, WorkStart, WorkApply, WorkRefused, WorkLoss,
        WorkDie, Reconcile, Snapshot, ReadRow, MarkRow, DropOp, ReadOp, CountFailure, PassOver,
        WebViewDies, nativeVars, allVars
  <1> QED
    BY <1>4 DEF Goal

\* A reconciliation takes results from the journal, and the operations it looks them up
\* in or fails from the queue.
ReconDraws(c) ==
  /\ \A i \in 1 .. Len(recon'[c].results) :
       \/ \E j \in 1 .. Len(recon[c].results) : recon'[c].results[i] = recon[c].results[j]
       \/ \E j \in 1 .. Len(journal) : recon'[c].results[i] = journal[j]
  /\ \/ recon'[c].known = {}
     \/ /\ recon'[c].known \subseteq recon[c].known \/ recon'[c].known \subseteq queue
        /\ \A i \in 1 .. Len(recon'[c].results) :
             \E j \in 1 .. Len(recon[c].results) : recon'[c].results[i] = recon[c].results[j]
  /\ recon'[c].pc = "fail" =>
       recon'[c].held \in queue \/ (recon[c].pc = "fail" /\ recon'[c].held = recon[c].held)

\* What a reconciliation has in hand once it goes on.
ReconHolds(t) ==
  /\ t \in ReconState
  /\ t.pc \in {"read", "next", "mark", "drop", "fail"} => t.results # <<>>
  /\ t.pc = "mark" => t.held \in MirrorRow
  /\ t.pc = "fail" => t.held \in PendingOperation
  /\ t.pc \in {"mark", "drop"} => Head(t.results).status = "ok"

\* A reconciliation has in hand what it read, and makes nothing up.
LEMMA ReconStep ==
  ASSUME NativeTyped, [NativeNext]_allVars
  PROVE  ReconTyped' /\ \A c \in Callers : ReconDraws(c)
  <1> DEFINE Goal == ReconTyped' /\ \A c \in Callers : ReconDraws(c)
  <1>0. /\ ReconTyped /\ recon \in [Callers -> ReconState] /\ TypeInv /\ journal \in Seq(NativeResult)
        /\ \A c \in Callers : ReconHolds(recon[c])
    BY DEF NativeTyped, ReconTyped, ReconHolds, Current
  <1>1. ASSUME recon' \in [Callers -> ReconState],
               \A c \in Callers : ReconHolds(recon'[c]) /\ ReconDraws(c)
        PROVE  Goal
    BY <1>1 DEF ReconTyped, ReconHolds, Current
  <1>2. ASSUME UNCHANGED recon
        PROVE  Goal
    BY <1>0, <1>1, <1>2 DEF ReconDraws
  <1>3. ASSUME NEW c \in Callers, NEW t, recon' = [recon EXCEPT ![c] = t], ReconHolds(t), ReconDraws(c)
        PROVE  Goal
    <2>1. t \in ReconState
      BY <1>3 DEF ReconHolds
    <2>2. /\ recon' \in [Callers -> ReconState] /\ recon'[c] = t
          /\ \A d \in Callers : d # c => recon'[d] = recon[d]
      BY <1>0, <1>3, <2>1
    <2>3. ASSUME NEW d \in Callers, d # c
          PROVE  ReconDraws(d)
      BY <2>2, <2>3 DEF ReconDraws
    <2> QED
      BY <1>0, <1>1, <1>3, <2>2, <2>3
  <1>4. /\ IdleRecon \in ReconState /\ IdleRecon.pc = "idle" /\ IdleRecon.results = <<>> /\ IdleRecon.known = {}
        /\ Over \in ReconState /\ Over.pc = "ready" /\ Over.results = <<>> /\ Over.known = {}
    BY OverType
  <1>5. ASSUME NEW c \in Callers, NEW t \in {IdleRecon, Over}, recon' = [recon EXCEPT ![c] = t]
        PROVE  Goal
    <2>1. recon'[c] = t
      BY <1>0, <1>5
    <2>2. ReconHolds(t)
      BY <1>4, <1>5 DEF ReconHolds
    <2>3. ReconDraws(c)
      BY <1>4, <1>5, <2>1 DEF ReconDraws
    <2> QED
      BY <1>3, <1>5, <2>2, <2>3
  <1>6. ASSUME NEW c \in Callers, Drain(c)
        PROVE  Goal
    <2>1. CASE journal = <<>>
      BY <1>5, <1>6, <2>1 DEF Drain
    <2>2. CASE journal # <<>>
      <3> DEFINE t == [IdleRecon EXCEPT !.pc = "read", !.results = journal]
      <3>1. t.pc = "read" /\ t.results = journal /\ t.known = {}
        BY DEF IdleRecon
      <3>2. recon' = [recon EXCEPT ![c] = t]
        BY <1>6, <2>2 DEF Drain
      <3>3. t \in ReconState
        BY <1>0, <1>4 DEF ReconState
      <3> HIDE DEF t
      <3>4. ReconHolds(t)
        BY <2>2, <3>1, <3>3 DEF ReconHolds
      <3>5. recon'[c] = t
        BY <1>0, <3>2
      <3>6. ReconDraws(c)
        BY <3>1, <3>5 DEF ReconDraws
      <3> QED
        BY <1>3, <3>2, <3>4, <3>6
    <2> QED
      BY <2>1, <2>2
  <1>7. ASSUME NEW c \in Callers, Snapshot(c)
        PROVE  Goal
    <2> DEFINE s == recon[c]
               last == {o \in queue : \A p \in queue : p.cid = o.cid => p.n <= o.n}
               t == [s EXCEPT !.pc = "next", !.known = last]
    <2>0. s \in ReconState /\ s.pc = "read" /\ s.results # <<>>
      BY <1>0, <1>7 DEF Snapshot, ReconHolds
    <2>1. recon' = [recon EXCEPT ![c] = t]
      BY <1>0, <1>7 DEF Snapshot, ReconState
    <2>2. last \subseteq PendingOperation /\ last \subseteq queue
      BY <1>0 DEF TypeInv, TypeOK, IdbOK
    <2> HIDE DEF last
    <2>3. t \in ReconState /\ t.pc = "next" /\ t.results = s.results /\ t.known = last
      BY <2>0, <2>2 DEF ReconState
    <2> HIDE DEF t
    <2>4. ReconHolds(t)
      BY <2>0, <2>3 DEF ReconHolds
    <2>5. recon'[c] = t
      BY <1>0, <2>1
    <2>6. ReconDraws(c)
      BY <2>2, <2>3, <2>5 DEF ReconDraws
    <2> QED
      BY <1>3, <2>1, <2>4, <2>6
  <1>8. ASSUME NEW c \in Callers, ReadRow(c)
        PROVE  Goal
    <2> DEFINE s == recon[c]
               row == mirror[Current(c).cid]
               t == [s EXCEPT !.pc = "mark", !.held = row]
    <2>0. s \in ReconState /\ s.results # <<>> /\ row # None /\ Head(s.results).status = "ok"
      BY <1>0, <1>8 DEF ReadRow, ReconHolds, Marks, Current
    <2>1. row \in MirrorRow
      <3>0. s.results \in Seq(NativeResult)
        BY <2>0 DEF ReconState
      <3>1. Current(c).cid \in Ids
        <4>1. Head(s.results) \in NativeResult
          BY <2>0, <3>0
        <4> QED
          BY <4>1 DEF Current, NativeResult
      <3> QED
        BY <1>0, <2>0, <3>1 DEF TypeInv, TypeOK, IdbOK
    <2>2. recon' = [recon EXCEPT ![c] = t]
      BY <1>0, <1>8 DEF ReadRow, ReconState
    <2> HIDE DEF row
    <2>3. /\ t \in ReconState /\ t.pc = "mark" /\ t.results = s.results /\ t.known = s.known
          /\ t.held = row
      BY <2>0, <2>1 DEF ReconState
    <2> HIDE DEF t
    <2>4. ReconHolds(t)
      BY <2>0, <2>1, <2>3 DEF ReconHolds
    <2>5. recon'[c] = t
      BY <1>0, <2>2
    <2>6. ReconDraws(c)
      BY <2>3, <2>5 DEF ReconDraws
    <2> QED
      BY <1>3, <2>2, <2>4, <2>6
  <1>9. ASSUME NEW c \in Callers, ReadOp(c)
        PROVE  Goal
    <2>1. PICK p \in queue : recon' = [recon EXCEPT ![c].pc = "fail", ![c].held = p]
      BY <1>9 DEF ReadOp, Numbered
    <2> DEFINE s == recon[c]
               t == [s EXCEPT !.pc = "fail", !.held = p]
    <2>0. s \in ReconState /\ s.results # <<>> /\ p \in PendingOperation
      BY <1>0, <1>9 DEF ReadOp, ReconHolds, TypeInv, TypeOK, IdbOK
    <2>2. recon' = [recon EXCEPT ![c] = t]
      BY <1>0, <2>1 DEF ReconState
    <2>3. /\ t \in ReconState /\ t.pc = "fail" /\ t.results = s.results /\ t.known = s.known
          /\ t.held = p
      BY <2>0 DEF ReconState
    <2> HIDE DEF t
    <2>4. ReconHolds(t)
      BY <2>0, <2>3 DEF ReconHolds
    <2>5. recon'[c] = t
      BY <1>0, <2>2
    <2>6. ReconDraws(c)
      BY <2>3, <2>5 DEF ReconDraws
    <2> QED
      BY <1>3, <2>2, <2>4, <2>6
  <1>10. ASSUME NEW c \in Callers, recon[c].results # <<>>, recon' = NextResult(c)
         PROVE  Goal
    <2>1. PICK t \in ReconState :
          /\ NextResult(c) = [recon EXCEPT ![c] = t]
          /\ t.pc \in {"next", "ready"}
          /\ t.pc = "next" => t.results # <<>>
          /\ t.known \subseteq recon[c].known
          /\ \A i \in 1 .. Len(t.results) :
               \E j \in 1 .. Len(recon[c].results) : t.results[i] = recon[c].results[j]
      BY <1>0, <1>10, NextResultKeeps
    <2>3. recon' = [recon EXCEPT ![c] = t]
      BY <1>10, <2>1
    <2>2. recon'[c] = t
      BY <1>0, <2>3
    <2>4. ReconHolds(t)
      BY <2>1 DEF ReconHolds
    <2>5. ReconDraws(c)
      BY <2>1, <2>2 DEF ReconDraws
    <2> QED
      BY <1>3, <2>3, <2>4, <2>5
  <1>11. ASSUME NEW c \in Callers, MarkRow(c)
         PROVE  Goal
    <2>0. recon[c] \in ReconState /\ recon[c].results # <<>> /\ recon[c].pc = "mark"
          /\ Head(recon[c].results).status = "ok"
      BY <1>0, <1>11 DEF MarkRow, ReconHolds
    <2>1. CASE Matching(c) = {}
      BY <1>10, <1>11, <2>0, <2>1 DEF MarkRow
    <2>2. CASE Matching(c) # {}
      <3> DEFINE s == recon[c]
                 t == [s EXCEPT !.pc = "drop", !.held = None]
      <3>1. recon' = [recon EXCEPT ![c] = t]
        BY <1>0, <1>11, <2>2 DEF MarkRow, ReconState
      <3>2. t \in ReconState /\ t.pc = "drop" /\ t.results = s.results /\ t.known = s.known
        BY <2>0 DEF ReconState
      <3> HIDE DEF t
      <3>3. ReconHolds(t)
        BY <2>0, <3>2 DEF ReconHolds
      <3>4. recon'[c] = t
        BY <1>0, <3>1
      <3>5. ReconDraws(c)
        BY <3>2, <3>4 DEF ReconDraws
      <3> QED
        BY <1>3, <3>1, <3>3, <3>5
    <2> QED
      BY <2>1, <2>2
  <1>12. ASSUME NEW c \in Callers, DropOp(c) \/ CountFailure(c) \/ PassOver(c)
         PROVE  Goal
    <2>1. recon[c].results # <<>>
      BY <1>0, <1>12 DEF DropOp, CountFailure, PassOver, ReconHolds
    <2>2. recon' = NextResult(c)
      BY <1>12 DEF DropOp, CountFailure, PassOver
    <2> QED
      BY <1>10, <2>1, <2>2
  <1>13. ASSUME StartStep \/ NotOnline \/ AdoptAck
         PROVE  Goal
    <2>1. "pass" \in Callers /\ "capture" \in Callers
      BY DEF Callers
    <2> QED
      BY <1>5, <1>13, <2>1 DEF StartStep, NotOnline, AdoptAck
  <1>14. ASSUME WebViewDies
         PROVE  Goal
    <2>1. recon' = [c \in Callers |-> IdleRecon]
      BY <1>14 DEF WebViewDies
    <2>2. recon' \in [Callers -> ReconState]
      BY <1>4, <2>1
    <2>3. \A c \in Callers : ReconHolds(recon'[c]) /\ ReconDraws(c)
      BY <1>4, <2>1 DEF ReconHolds, ReconDraws
    <2> QED
      BY <1>1, <2>2, <2>3
  <1> HIDE DEF Goal
  <1>15. Goal
    BY <1>2, <1>6, <1>7, <1>8, <1>9, <1>11, <1>12, <1>13, <1>14
    DEF NativeNext, UiStep, PassStep, PassLoss, PluginPut, PluginRemove, AdoptRead, Import, AdoptRow,
        Work, WorkStart, WorkApply, WorkSettle, WorkRefused, WorkLoss, WorkDie, Reconcile, nativeVars,
        allVars
  <1> QED
    BY <1>15 DEF Goal

-----------------------------------------------------------------------------
(* Type correctness                                                        *)

\* Captures stay captures of imported rows until the WebView has adopted them.
LEMMA CapturesStep ==
  ASSUME NativeTyped, TypeInv', [NativeNext]_allVars
  PROVE  CapturesTyped'
  <1>0. /\ CapturesTyped /\ recon \in [Callers -> ReconState] /\ "capture" \in Callers /\ "pass" \in Callers
    BY DEF NativeTyped, ReconTyped, Callers
  <1>1. mixed' \subseteq Ids
    <2>1. CASE UiStep
      <3>1. \A o \in queue' : o.cid \in Ids
        BY DEF TypeInv, TypeOK, IdbOK, PendingOperation
      <3> QED
        BY <1>0, <2>1, <3>1 DEF UiStep, CapturesTyped
    <2>2. CASE UNCHANGED mixed
      BY <1>0, <2>2 DEF CapturesTyped
    <2> QED
      BY <2>1, <2>2
      DEF NativeNext, PassStep, PassLoss, StartStep, NotOnline, PluginPut, PluginRemove, AdoptRead,
          Import, AdoptRow, AdoptAck, Work, WorkStart, WorkApply, WorkSettle, WorkRefused, WorkLoss,
          WorkDie, Drain, Reconcile, Snapshot, ReadRow, MarkRow, DropOp, ReadOp, CountFailure,
          PassOver, WebViewDies, nativeVars, allVars
  <1>2. parked' \subseteq Ids
    <2>1. ASSUME NEW w \in Workers, NEW r \in worker[w].results, parked' = GivenUp(r)
          PROVE  parked' \subseteq Ids
      <3>1. r.cid \in Ids
        BY DEF NativeTyped, JobsTyped, WorkerState, NativeResult
      <3> QED
        BY <1>0, <2>1, <3>1 DEF GivenUp, CapturesTyped
    <2>2. CASE UNCHANGED parked
      BY <1>0, <2>2 DEF CapturesTyped
    <2> QED
      BY <2>1, <2>2
      DEF NativeNext, UiStep, PassStep, PassLoss, StartStep, NotOnline, PluginPut, PluginRemove,
          AdoptRead, Import, AdoptRow, AdoptAck, Work, WorkStart, WorkApply, WorkSettle, WorkRefused,
          WorkLoss, WorkDie, Drain, Reconcile, Snapshot, ReadRow, MarkRow, DropOp, ReadOp,
          CountFailure, PassOver, WebViewDies, nativeVars, allVars
  <1> DEFINE Rest == /\ captured' \in [Ids -> Vals \cup {None}]
                     /\ adopting' # None =>
                          adopting' \in [id : Ids, row : BOOLEAN] /\ captured'[adopting'.id] # None
                     /\ recon'["capture"].pc # "idle" => adopting' # None /\ ~adopting'.row
                     /\ imported' \subseteq Imports
  <1>3. ASSUME UNCHANGED captureVars /\ recon'["capture"].pc = recon["capture"].pc
        PROVE  Rest
    BY <1>0, <1>3 DEF CapturesTyped, captureVars
  <1>4. ASSUME UNCHANGED captureVars /\ recon["capture"].pc # "idle"
        PROVE  Rest
    BY <1>0, <1>4 DEF CapturesTyped, captureVars
  <1>5. ASSUME NEW t, recon' = [recon EXCEPT !["pass"] = t], UNCHANGED captureVars
        PROVE  Rest
    <2>1. recon'["capture"] = recon["capture"]
      BY <1>0, <1>5
    <2> QED
      BY <1>3, <1>5, <2>1
  <1>6. ASSUME NEW id \in Ids, NEW v \in Vals, Import(id, v)
        PROVE  Rest
    <2>1. adopting = None /\ adopting' = None /\ recon' = recon
      BY <1>6 DEF Import, WebViewIdle
    <2>2. captured' = [captured EXCEPT ![id] = v] /\ imported' = imported \cup {id} /\ id \in Imports
      BY <1>6 DEF Import, Put
    <2> QED
      BY <1>0, <2>1, <2>2 DEF CapturesTyped
  <1>7. ASSUME NEW id \in Ids, AdoptRead(id)
        PROVE  Rest
    <2>1. PICK known \in BOOLEAN : adopting' = [id |-> id, row |-> ~known /\ mirror[id] = None]
      BY <1>7 DEF AdoptRead
    <2>2. captured[id] # None /\ adopting = None /\ UNCHANGED <<captured, imported, recon>>
      BY <1>7 DEF AdoptRead
    <2> QED
      BY <1>0, <2>1, <2>2 DEF CapturesTyped
  <1>8. ASSUME AdoptRow
        PROVE  Rest
    <2>1. /\ adopting # None /\ adopting.row /\ adopting' = [adopting EXCEPT !.row = FALSE]
          /\ UNCHANGED <<captured, imported, recon>>
      BY <1>8 DEF AdoptRow
    <2>2. adopting \in [id : Ids, row : BOOLEAN] /\ captured[adopting.id] # None
      BY <1>0, <2>1 DEF CapturesTyped
    <2>3. adopting' \in [id : Ids, row : BOOLEAN] /\ adopting'.id = adopting.id /\ ~adopting'.row
      BY <2>1, <2>2
    <2> QED
      BY <1>0, <2>1, <2>2, <2>3 DEF CapturesTyped
  <1>9. ASSUME AdoptAck
        PROVE  Rest
    <2>1. /\ captured' = [captured EXCEPT ![adopting.id] = None] /\ adopting' = None
          /\ recon' = [recon EXCEPT !["capture"] = IdleRecon] /\ imported' = imported
      BY <1>9 DEF AdoptAck, Put
    <2>2. recon'["capture"].pc = "idle"
      BY <1>0, <2>1 DEF IdleRecon
    <2> QED
      BY <1>0, <2>1, <2>2 DEF CapturesTyped
  <1>10. ASSUME NEW c \in Callers, Drain(c)
         PROVE  Rest
    <2>1. CASE c = "pass"
      BY <1>5, <1>10, <2>1 DEF Drain
    <2>2. CASE c = "capture"
      BY <1>0, <1>10, <2>2 DEF Drain, CapturesTyped, captureVars
    <2> QED
      BY <2>1, <2>2 DEF Callers
  <1>11. ASSUME NEW c \in Callers, Reconcile(c)
         PROVE  Rest
    <2>1. UNCHANGED captureVars /\ recon[c].pc # "idle"
      BY <1>11 DEF Reconcile, Snapshot, ReadRow, MarkRow, DropOp, ReadOp, CountFailure, PassOver
    <2>2. CASE c = "capture"
      BY <1>4, <2>1, <2>2
    <2>3. CASE c = "pass"
      <3>1. recon'["capture"] = recon["capture"]
        BY <1>0, <1>11, <2>3
        DEF Reconcile, Snapshot, ReadRow, MarkRow, DropOp, ReadOp, CountFailure, PassOver, NextResult, GoOn
      <3> QED
        BY <1>3, <2>1, <3>1
    <2> QED
      BY <2>2, <2>3 DEF Callers
  <1>12. ASSUME WebViewDies
         PROVE  Rest
    <2>1. /\ recon' = [c \in Callers |-> IdleRecon] /\ adopting' = None
          /\ UNCHANGED <<captured, imported>>
      BY <1>12 DEF WebViewDies
    <2>2. recon'["capture"].pc = "idle"
      BY <1>0, <2>1 DEF IdleRecon
    <2> QED
      BY <1>0, <2>1, <2>2 DEF CapturesTyped
  <1>13. ASSUME StartStep \/ NotOnline
         PROVE  Rest
    BY <1>5, <1>13 DEF StartStep, NotOnline
  <1> HIDE DEF Rest
  <1>14. Rest
    BY <1>3, <1>6, <1>7, <1>8, <1>9, <1>10, <1>11, <1>12, <1>13
    DEF NativeNext, UiStep, PassStep, PassLoss, PluginPut, PluginRemove, Work, WorkStart, WorkApply,
        WorkSettle, WorkRefused, WorkLoss, WorkDie, nativeVars, allVars
  <1> QED
    BY <1>1, <1>2, <1>14 DEF Rest, CapturesTyped

\* The plugin, the worker and the reconciliation keep the types of what they share with
\* the mutators and the pass.
LEMMA NativeTypeStep ==
  ASSUME NativeTyped, NativeKeys, [NativeNext]_allVars
  PROVE  NativeTyped'
  <1>0. TypeInv /\ recon \in [Callers -> ReconState]
    BY DEF NativeTyped, ReconTyped
  <1>1. ASSUME OfflineStep
        PROVE  TypeInv'
    BY <1>0, <1>1, OfflineNext, TypeStep
  <1>2. ASSUME UNCHANGED vars
        PROVE  TypeInv'
    BY <1>0, <1>2, TypeStep
  <1> DEFINE Same1 == UNCHANGED <<serverVars, idbVars, passVars, ui, ghostVars>>
  <1>3. ASSUME Same1 /\ faults' = faults + 1
        PROVE  TypeInv'
    BY <1>0, <1>3
    DEF TypeInv, TypeOK, ServerOK, IdbOK, BatchOK, PullOK, GhostOK, UiHolds, Writing, serverVars,
        idbVars, passVars, ghostVars
  <1>4. ASSUME NEW w \in Workers, NEW id \in Ids, WorkApply(w, id)
        PROVE  TypeInv'
    <2>1. PICK out \in Outcome :
            /\ worker[w].batch[id] \in PendingOperation
            /\ db' = Put(db, id, out.row)
            /\ clock' \in Nat
            /\ stored' = IF out.row # None THEN stored \cup {id} ELSE stored
            /\ accepted' = IF out.status = "ok" THEN accepted \cup {worker[w].batch[id].n} ELSE accepted
      BY <1>4, WorkApplied
    <2>2. ServerOK'
      BY <1>0, <2>1 DEF TypeInv, TypeOK, ServerOK, Outcome, Put
    <2>3. stored' \subseteq Ids /\ accepted' \subseteq Nat
      BY <1>0, <2>1 DEF TypeInv, TypeOK, GhostOK, PendingOperation
    <2>4. UNCHANGED <<idbVars, passVars, ui, faults, born, intent, waived, doubled>>
      BY <1>4 DEF WorkApply
    <2> QED
      BY <1>0, <2>2, <2>3, <2>4
      DEF TypeInv, TypeOK, IdbOK, BatchOK, PullOK, GhostOK, UiHolds, Writing, idbVars, passVars
  <1>5. ASSUME NEW id \in Ids, NEW v \in Vals, Import(id, v)
        PROVE  TypeInv'
    <2>1. born' \subseteq Ids /\ intent' \in [Ids -> Vals \cup {None}]
      BY <1>0, <1>5 DEF Import, Put, TypeInv, TypeOK, GhostOK
    <2>2. UNCHANGED <<serverVars, idbVars, passVars, ui, faults, stored, accepted, waived, doubled>>
      BY <1>5 DEF Import
    <2> QED
      BY <1>0, <2>1, <2>2
      DEF TypeInv, TypeOK, ServerOK, IdbOK, BatchOK, PullOK, GhostOK, UiHolds, Writing, serverVars,
          idbVars, passVars
  <1>6. ASSUME NEW id \in Ids, NEW row \in MirrorRow, mirror' = Put(mirror, id, row),
               UNCHANGED <<serverVars, queue, nextOp, lastSync, passVars, ui, faults, ghostVars>>
        PROVE  TypeInv'
    <2>1. mirror' \in [Ids -> MirrorRow \cup {None}]
      BY <1>0, <1>6 DEF Put, TypeInv, TypeOK, IdbOK
    <2> QED
      BY <1>0, <1>6, <2>1
      DEF TypeInv, TypeOK, ServerOK, IdbOK, BatchOK, PullOK, GhostOK, UiHolds, Writing, serverVars,
          passVars, ghostVars
  <1>7. ASSUME AdoptRow
        PROVE  TypeInv'
    <2>1. captured[adopting.id] \in Vals /\ adopting.id \in Ids
      BY <1>7 DEF AdoptRow, NativeTyped, CapturesTyped
    <2>2. LocalOnly(captured[adopting.id]) \in MirrorRow
      BY <2>1 DEF LocalOnly, MirrorRow
    <2> QED
      BY <1>6, <1>7, <2>1, <2>2 DEF AdoptRow
  <1>8. ASSUME NEW c \in Callers, MarkRow(c)
        PROVE  TypeInv'
    <2>1. recon[c].pc = "mark" /\ recon[c].results # <<>> /\ recon[c].held \in MirrorRow
      BY <1>8 DEF MarkRow, NativeTyped, ReconTyped
    <2>2. Current(c).cid \in Ids
      BY <2>1, CurrentType DEF NativeTyped, NativeResult
    <2>3. Settled(recon[c].held.val) \in MirrorRow
      BY <2>1 DEF Settled, MirrorRow
    <2> QED
      BY <1>6, <1>8, <2>2, <2>3 DEF MarkRow
  <1>9. ASSUME queue' \subseteq PendingOperation,
               UNCHANGED <<serverVars, nextOp, mirror, lastSync, passVars, ui, faults, ghostVars>>
        PROVE  TypeInv'
    BY <1>0, <1>9
    DEF TypeInv, TypeOK, ServerOK, IdbOK, BatchOK, PullOK, GhostOK, UiHolds, Writing, serverVars,
        passVars, ghostVars
  <1>10. ASSUME NEW c \in Callers, DropOp(c)
         PROVE  TypeInv'
    BY <1>0, <1>9, <1>10 DEF DropOp, Without, TypeInv, TypeOK, IdbOK
  <1>11. ASSUME NEW c \in Callers, CountFailure(c)
         PROVE  TypeInv'
    <2>1. recon[c].held \in PendingOperation
      BY <1>11 DEF CountFailure, NativeTyped, ReconTyped
    <2>2. Failure(recon[c].held) \subseteq PendingOperation
      BY <2>1 DEF Failure, PendingOperation
    <2> QED
      BY <1>0, <1>9, <1>11, <2>2 DEF CountFailure, Without, TypeInv, TypeOK, IdbOK
  <1>12. ASSUME WebViewDies
         PROVE  TypeInv'
    <2>1. /\ PassReset /\ ui' = IdleUi /\ UNCHANGED <<serverVars, idbVars, ghostVars>> /\ faults' = faults + 1
      BY <1>12 DEF WebViewDies, Fault
    <2>2. ServerOK' /\ IdbOK' /\ GhostOK'
      BY <1>0, <2>1 DEF TypeInv, TypeOK, ServerOK, IdbOK, GhostOK, serverVars, idbVars, ghostVars
    <2>3. BatchOK' /\ PullOK'
      BY <2>1 DEF PassReset, BatchOK, PullOK, NoRows, Kinds
    <2>4. ui' \in UiState /\ UiHolds'
      BY <2>1 DEF IdleUi, UiState, UiHolds, Writing, OpTypes
    <2> QED
      BY <2>2, <2>3, <2>4 DEF TypeInv, TypeOK
  <1> HIDE DEF Same1
  <1>13. ASSUME NEW w \in Workers, WorkRefused(w) \/ WorkLoss(w) \/ WorkDie(w)
         PROVE  TypeInv'
    BY <1>3, <1>13 DEF WorkRefused, WorkLoss, WorkDie, Fault, Same1
  <1>14. TypeInv'
    BY <1>1, <1>2, <1>4, <1>5, <1>7, <1>8, <1>10, <1>11, <1>12, <1>13
    DEF NativeNext, OfflineStep, NotOnline, PluginPut, PluginRemove, AdoptRead, AdoptAck, Work,
        WorkStart, WorkSettle, Drain, Reconcile, Snapshot, ReadRow, ReadOp, PassOver, vars, allVars
  <1>15. CapturesTyped'
    BY <1>14, CapturesStep
  <1> QED
    BY <1>14, <1>15, CallsStep, JobsStep, OutboxStep, ReconStep, JournalStep DEF NativeTyped

-----------------------------------------------------------------------------
(* What the steps of the plugin, the worker and the reconciliation leave   *)

\* They write rows and drop or count operations, import captures and end the WebView.
LEMMA OwnStep ==
  ASSUME NativeTyped, [NativeNext]_allVars, ~OfflineStep
  PROVE  /\ born \subseteq born' /\ stored \subseteq stored' /\ accepted \subseteq accepted'
         /\ UNCHANGED <<waived, nextOp, mixed>>
         /\ \/ UNCHANGED <<passVars, ui>>
            \/ PassReset /\ ui' = IdleUi
         /\ \A o \in queue' : o \in queue \/
              \E c \in Callers : recon[c].pc = "fail" /\ Same(o, recon[c].held)
         /\ \A id \in Ids : intent'[id] # None => intent[id] # None \/ id \in born'
         /\ \A id \in born : intent'[id] = intent[id]
  <1> DEFINE Histories == /\ born \subseteq born' /\ stored \subseteq stored' /\ accepted \subseteq accepted'
                          /\ UNCHANGED <<waived, nextOp, mixed>>
             Wanted1 == /\ \A id \in Ids : intent'[id] # None => intent[id] # None \/ id \in born'
                        /\ \A id \in born : intent'[id] = intent[id]
             Frame == UNCHANGED <<passVars, ui>> \/ (PassReset /\ ui' = IdleUi)
             Queue == \A o \in queue' : o \in queue \/
                        \E c \in Callers : recon[c].pc = "fail" /\ Same(o, recon[c].held)
             Goal == Histories /\ Wanted1 /\ Frame /\ Queue
  <1>0. TypeInv /\ intent \in [Ids -> Vals \cup {None}] /\ born \subseteq Ids
    BY DEF NativeTyped, TypeInv, TypeOK, GhostOK
  <1>1. ASSUME UNCHANGED <<passVars, ui, ghostVars, nextOp, queue, mixed>>
        PROVE  Goal
    BY <1>1 DEF ghostVars
  <1>2. ASSUME NEW w \in Workers, NEW id \in Ids, WorkApply(w, id)
        PROVE  Goal
    <2>1. stored \subseteq stored' /\ accepted \subseteq accepted'
      BY <1>2, WorkApplied
    <2>2. UNCHANGED <<idbVars, passVars, ui, born, intent, waived, mixed>>
      BY <1>2 DEF WorkApply
    <2> QED
      BY <2>1, <2>2 DEF idbVars
  <1>3. ASSUME NEW id \in Ids, NEW v \in Vals, Import(id, v)
        PROVE  Goal
    <2>1. /\ id \notin born /\ born' = born \cup {id} /\ intent' = [intent EXCEPT ![id] = v]
          /\ UNCHANGED <<idbVars, passVars, ui, stored, accepted, waived, mixed>>
      BY <1>3 DEF Import, Put
    <2>2. Wanted1
      BY <1>0, <2>1
    <2> QED
      BY <2>1, <2>2 DEF idbVars
  <1>4. ASSUME NEW c \in Callers, MarkRow(c) \/ DropOp(c) \/ AdoptRow
        PROVE  Goal
    BY <1>4 DEF MarkRow, DropOp, AdoptRow, Without, ghostVars
  <1>5. ASSUME NEW c \in Callers, CountFailure(c)
        PROVE  Goal
    <2>1. recon[c].pc = "fail" /\ recon[c].held \in PendingOperation
      BY <1>5 DEF CountFailure, NativeTyped, ReconTyped
    <2>2. \A o \in Failure(recon[c].held) : Same(o, recon[c].held)
      BY <2>1 DEF Failure, Same, PendingOperation
    <2>3. Queue
      BY <1>5, <2>1, <2>2 DEF CountFailure, Without
    <2> QED
      BY <1>5, <2>3 DEF CountFailure, ghostVars
  <1>6. ASSUME WebViewDies
        PROVE  Goal
    BY <1>6 DEF WebViewDies, ghostVars, idbVars
  <1>7. ASSUME NEW w \in Workers, WorkRefused(w) \/ WorkLoss(w) \/ WorkDie(w)
        PROVE  Goal
    BY <1>1, <1>7 DEF WorkRefused, WorkLoss, WorkDie, idbVars
  <1>8. ASSUME UNCHANGED vars /\ UNCHANGED mixed
        PROVE  Goal
    BY <1>1, <1>8 DEF vars, passVars, ghostVars
  <1>9. "capture" \in Callers
    BY DEF Callers
  <1> HIDE DEF Goal
  <1>10. Goal
    BY <1>2, <1>3, <1>4, <1>5, <1>6, <1>7, <1>8, <1>9
    DEF NativeNext, OfflineStep, NotOnline, PluginPut, PluginRemove, AdoptRead, AdoptAck, Work,
        WorkStart, WorkSettle, Drain, Reconcile, Snapshot, ReadRow, ReadOp, PassOver, nativeVars, vars,
        allVars
  <1> QED
    BY <1>10 DEF Goal

\* Only an import bears a row, and only a reconciliation writes to the queue.
LEMMA OwnFrame ==
  ASSUME [NativeNext]_allVars, ~OfflineStep
  PROVE  /\ UNCHANGED <<born, imported>> \/ \E id \in Ids, v \in Vals : Import(id, v)
         /\ UNCHANGED queue \/ \E c \in Callers : DropOp(c) \/ CountFailure(c)
  <1> DEFINE Same1 == UNCHANGED <<born, imported, queue>>
  <1>1. ASSUME NEW c \in Callers, Drain(c) \/ Reconcile(c)
        PROVE  UNCHANGED <<born, imported>> /\ (UNCHANGED queue \/ DropOp(c) \/ CountFailure(c))
    <2>1. UNCHANGED queue \/ DropOp(c) \/ CountFailure(c)
      BY <1>1 DEF Drain, Reconcile, Snapshot, ReadRow, MarkRow, ReadOp, PassOver, vars
    <2> QED
      BY <1>1, <2>1, ReconcileFrame DEF ghostVars, captureVars
  <1>2. ASSUME NEW w \in Workers, WorkRefused(w) \/ WorkLoss(w) \/ WorkDie(w)
        PROVE  Same1
    BY <1>2 DEF WorkRefused, WorkLoss, WorkDie, idbVars, ghostVars, captureVars
  <1>3. ASSUME NEW w \in Workers, WorkStart(w) \/ \E r \in worker[w].results : WorkSettle(w, r)
        PROVE  Same1
    BY <1>3 DEF WorkStart, WorkSettle, vars, captureVars
  <1>4. ASSUME NEW w \in Workers, NEW id \in Ids, WorkApply(w, id)
        PROVE  Same1
    BY <1>4 DEF WorkApply, idbVars, captureVars
  <1>5. ASSUME NEW a \in Activities, PluginPut(a) \/ PluginRemove(a)
        PROVE  Same1
    BY <1>5 DEF PluginPut, PluginRemove, vars, captureVars
  <1>6. ASSUME NEW id \in Ids, AdoptRead(id) \/ AdoptRow \/ AdoptAck \/ NotOnline \/ WebViewDies
        PROVE  Same1
    BY <1>6 DEF AdoptRead, AdoptRow, AdoptAck, NotOnline, WebViewDies, vars, idbVars, ghostVars, captureVars
  <1>7. ASSUME NEW id \in Ids, NEW v \in Vals, Import(id, v)
        PROVE  UNCHANGED queue
    BY <1>7 DEF Import, idbVars
  <1>8. UNCHANGED allVars => Same1
    BY DEF allVars, captureVars
  <1> HIDE DEF Same1
  <1>9. \/ Same1
        \/ \E id \in Ids, v \in Vals : Import(id, v)
        \/ \E c \in Callers : Drain(c) \/ Reconcile(c)
    BY <1>2, <1>3, <1>4, <1>5, <1>6, <1>8, OfflineSyncAssumption, SyncServerAssumption
    DEF NativeNext, OfflineStep, Work
  <1> QED
    BY <1>1, <1>7, <1>9 DEF Same1

\* Only an import and its adoption touch the capture rows, and only a settled result
\* gives a row up.
LEMMA CaptureFrame ==
  ASSUME [NativeNext]_allVars
  PROVE  /\ \/ UNCHANGED <<captured, imported>> \/ AdoptAck
            \/ \E id \in Ids, v \in Vals : Import(id, v)
         /\ parked \subseteq parked'
  <1> DEFINE Same2 == UNCHANGED <<captured, imported, parked>>
             Kept2 == UNCHANGED <<captured, imported>> /\ parked \subseteq parked'
  <1>1. ASSUME UiStep \/ StartStep \/ PassStep \/ PassLoss \/ NotOnline
        PROVE  Same2
    BY <1>1 DEF UiStep, StartStep, PassStep, PassLoss, NotOnline, nativeVars, captureVars
  <1>2. ASSUME NEW a \in Activities, PluginPut(a) \/ PluginRemove(a)
        PROVE  Same2
    BY <1>2 DEF PluginPut, PluginRemove, captureVars
  <1>3. ASSUME NEW id \in Ids, AdoptRead(id) \/ AdoptRow \/ WebViewDies
        PROVE  Same2
    BY <1>3 DEF AdoptRead, AdoptRow, WebViewDies
  <1>4. ASSUME NEW c \in Callers, Drain(c) \/ Reconcile(c)
        PROVE  Same2
    BY <1>4, ReconcileFrame DEF captureVars
  <1>5. ASSUME NEW w \in Workers, WorkStart(w) \/ WorkRefused(w) \/ WorkLoss(w)
        PROVE  Same2
    BY <1>5 DEF WorkStart, WorkRefused, WorkLoss, captureVars
  <1>6. ASSUME NEW w \in Workers, NEW id \in Ids, WorkApply(w, id)
        PROVE  Same2
    BY <1>6 DEF WorkApply, captureVars
  <1>7. ASSUME NEW w \in Workers, NEW r, WorkSettle(w, r)
        PROVE  Kept2
    BY <1>7 DEF WorkSettle, GivenUp, captureVars
  <1>8. ASSUME NEW w \in Workers, WorkDie(w)
        PROVE  Kept2
    BY <1>8 DEF WorkDie, GivenUp, captureVars
  <1>9. ASSUME NEW id \in Ids, NEW v \in Vals, Import(id, v)
        PROVE  UNCHANGED parked
    BY <1>9 DEF Import
  <1>10. ASSUME AdoptAck
         PROVE  UNCHANGED parked
    BY <1>10 DEF AdoptAck
  <1>11. ASSUME UNCHANGED allVars
         PROVE  Same2
    BY <1>11 DEF allVars, captureVars
  <1>12. ASSUME Work
         PROVE  Kept2
    BY <1>5, <1>6, <1>7, <1>12 DEF Work
  <1>13. ASSUME \E id \in Ids : AdoptRead(id)
         PROVE  Same2
    BY <1>3, <1>13
  <1>14. ASSUME AdoptRow \/ WebViewDies
         PROVE  Same2
    BY <1>14 DEF AdoptRow, WebViewDies
  <1> HIDE DEF Same2, Kept2
  <1>15. \/ Same2 \/ Kept2
         \/ UNCHANGED parked /\ (AdoptAck \/ \E id \in Ids, v \in Vals : Import(id, v))
    BY <1>1, <1>2, <1>4, <1>5, <1>8, <1>9, <1>10, <1>11, <1>12, <1>13, <1>14 DEF NativeNext
  <1> QED
    BY <1>15 DEF Same2, Kept2

\* Nobody forgets what was born, stored, accepted, waived, imported, given up or mixed.
LEMMA NativeGrowStep ==
  ASSUME NativeTyped, [NativeNext]_allVars
  PROVE  /\ born \subseteq born' /\ stored \subseteq stored' /\ waived \subseteq waived'
         /\ accepted \subseteq accepted' /\ imported \subseteq imported' /\ parked \subseteq parked'
         /\ mixed \subseteq mixed'
  <1>1. CASE OfflineStep
    <2>1. /\ born \subseteq born' /\ stored \subseteq stored' /\ waived \subseteq waived'
          /\ accepted \subseteq accepted'
      BY <1>1, OfflineNext, GrowStep
    <2>2. imported' = imported /\ parked' = parked /\ mixed \subseteq mixed'
      BY <1>1 DEF OfflineStep, UiStep, PassStep, StartStep, PassLoss, nativeVars, captureVars
    <2> QED
      BY <2>1, <2>2
  <1>2. CASE ~OfflineStep
    <2>1. /\ born \subseteq born' /\ stored \subseteq stored' /\ waived \subseteq waived'
          /\ accepted \subseteq accepted' /\ mixed \subseteq mixed'
      BY <1>2, OwnStep
    <2>2. imported \subseteq imported' /\ parked \subseteq parked'
      BY CaptureFrame DEF AdoptAck, Import
    <2> QED
      BY <2>1, <2>2
  <1> QED
    BY <1>1, <1>2

\* Operations that are queued or in hand, on either side.
AllLive == Live \cup {recon[c].held : c \in {d \in Callers : recon[d].pc = "fail"}}

\* Where a step takes the operations it leaves queued, in a batch, in hand or recalled
\* from.
NativeDraws ==
  /\ sent' \cup later' \subseteq sent \cup later \cup queue
  /\ \A c \in Callers : recon'[c].known \subseteq recon[c].known \cup queue
  /\ \/ nextOp' = nextOp /\ \A q \in AllLive' : \E p \in AllLive : Same(q, p)
     \/ /\ UiStep
        /\ nextOp' = nextOp + 1
        /\ \E new \in queue' : /\ new.n = nextOp /\ new.cid = ui'.id
                              /\ \A q \in AllLive' : q = new \/ q \in AllLive

\* Only a mutator makes an operation up.
LEMMA NativeDrawsStep ==
  ASSUME NativeTyped, [NativeNext]_allVars
  PROVE  NativeDraws
  <1>1. /\ \A c \in Callers : recon'[c].known \subseteq recon[c].known \cup queue
        /\ \A c \in Callers : recon'[c].pc = "fail" =>
             recon'[c].held \in queue \/ (recon[c].pc = "fail" /\ recon'[c].held = recon[c].held)
    <2>1. \A c \in Callers : ReconDraws(c)
      BY ReconStep
    <2> QED
      BY <2>1 DEF ReconDraws
  <1>2. \A q \in AllLive' : q \in Live' \/ q \in AllLive
    <2>1. queue \subseteq AllLive
      BY DEF AllLive, Live
    <2> QED
      BY <1>1, <2>1 DEF AllLive
  <1>3. /\ Live \subseteq AllLive
        /\ \A q : Same(q, q)
    BY DEF AllLive, Same
  <1>4. CASE OfflineStep
    <2>1. Draws
      BY <1>4, OfflineNext, DrawsStep DEF NativeTyped
    <2>2. ~UiStep => nextOp' = nextOp
      BY <1>4, PassFrame DEF OfflineStep, PassStep, StartStep, PassLoss, Loss, idbVars
    <2>3. nextOp \in Nat
      BY DEF NativeTyped, TypeInv, TypeOK, IdbOK
    <2>4. CASE nextOp' = nextOp
      <3>1. \A q \in Live' : \E p \in Live : Same(q, p)
        BY <2>1, <2>3, <2>4 DEF Draws
      <3> QED
        BY <1>1, <1>2, <1>3, <2>1, <2>4, <3>1 DEF NativeDraws, Draws
    <2>5. CASE nextOp' # nextOp
      <3>1. PICK new \in queue' : /\ new.n = nextOp /\ new.cid = ui'.id
                                  /\ \A q \in Live' : q = new \/ q \in Live
        BY <2>1, <2>5 DEF Draws
      <3>2. \A q \in AllLive' : q = new \/ q \in AllLive
        BY <1>2, <1>3, <3>1
      <3> QED
        BY <1>1, <2>1, <2>2, <2>5, <3>1, <3>2 DEF NativeDraws, Draws
    <2> QED
      BY <2>4, <2>5
  <1>5. CASE ~OfflineStep
    <2>1. /\ nextOp' = nextOp
          /\ UNCHANGED <<passVars, ui>> \/ (PassReset /\ ui' = IdleUi)
          /\ \A o \in queue' : o \in queue \/
               \E c \in Callers : recon[c].pc = "fail" /\ Same(o, recon[c].held)
      BY <1>5, OwnStep
    <2>2. sent' \cup later' \subseteq sent \cup later
      BY <2>1 DEF passVars, PassReset
    <2>3. \A q \in ui'.ops \cup {o \in {held'} : pc' = "fail"} : q \in Live
      BY <2>1 DEF passVars, PassReset, IdleUi, Live
    <2>4. \A q \in Live' : \E p \in AllLive : Same(q, p)
      <3>1. \A c \in Callers : recon[c].pc = "fail" => recon[c].held \in AllLive
        BY DEF AllLive
      <3>2. queue \subseteq AllLive
        BY DEF AllLive, Live
      <3>3. \A q \in queue' : \E p \in AllLive : Same(q, p)
        BY <1>3, <2>1, <3>1, <3>2
      <3> QED
        BY <1>3, <2>3, <3>3 DEF Live
    <2>5. \A q \in AllLive' : \E p \in AllLive : Same(q, p)
      BY <1>2, <1>3, <2>4
    <2> QED
      BY <1>1, <2>1, <2>2, <2>5 DEF NativeDraws
  <1> QED
    BY <1>4, <1>5

\* What a reconciliation recalls is what it knows and the operation it is failing.
LEMMA RecalledAre ==
  /\ \A c \in Callers : /\ recon[c].known \subseteq Recalled
                        /\ recon[c].pc = "fail" => recon[c].held \in Recalled
  /\ \A o \in Recalled : \E c \in Callers :
       o \in recon[c].known \/ (recon[c].pc = "fail" /\ o = recon[c].held)
  /\ \A o \in Recalled' : \E c \in Callers :
       o \in recon'[c].known \/ (recon'[c].pc = "fail" /\ o = recon'[c].held)
  <1> DEFINE K == {recon[c].known : c \in Callers}
             H == {recon[c].held : c \in {d \in Callers : recon[d].pc = "fail"}}
  <1>0. Recalled = (UNION K) \cup H
    BY DEF Recalled
  <1>1. ASSUME NEW c \in Callers
        PROVE  /\ recon[c].known \subseteq Recalled
               /\ recon[c].pc = "fail" => recon[c].held \in Recalled
    <2>1. recon[c].known \in K /\ (recon[c].pc = "fail" => recon[c].held \in H)
      OBVIOUS
    <2> HIDE DEF K, H
    <2> QED
      BY <1>0, <2>1
  <1>2. ASSUME NEW o \in Recalled
        PROVE  \E c \in Callers : o \in recon[c].known \/ (recon[c].pc = "fail" /\ o = recon[c].held)
    <2>1. CASE o \in H
      BY <2>1
    <2>2. CASE \E k \in K : o \in k
      BY <2>2
    <2> HIDE DEF K, H
    <2> QED
      BY <1>0, <2>1, <2>2
  <1>3. ASSUME NEW o \in Recalled'
        PROVE  \E c \in Callers :
                 o \in recon'[c].known \/ (recon'[c].pc = "fail" /\ o = recon'[c].held)
    <2>0. Recalled' = (UNION K') \cup H'
      BY DEF Recalled
    <2>1. CASE o \in H'
      BY <2>1
    <2>2. CASE \E k \in K' : o \in k
      BY <2>2
    <2> HIDE DEF K, H
    <2> QED
      BY <2>0, <2>1, <2>2
  <1> QED
    BY <1>1, <1>2, <1>3

\* An operation that is queued after a step was live before it, or has the key and the
\* row of the mutation in progress.
LEMMA ReferredDraws ==
  ASSUME NativeDraws
  PROVE  \/ nextOp' = nextOp /\ \A q \in AllReferred' : \E p \in AllReferred : Same(q, p)
         \/ /\ UiStep /\ nextOp' = nextOp + 1
            /\ \E new \in queue' : /\ new.n = nextOp /\ new.cid = ui'.id
                                  /\ \A q \in AllReferred' : q = new \/ q \in AllReferred
  <1>1. AllLive \subseteq AllReferred /\ sent \cup later \cup queue \subseteq AllReferred
    BY RecalledAre DEF AllLive, Live, AllReferred, Referred
  <1>2. \A c \in Callers : recon[c].known \cup queue \subseteq AllReferred
    BY <1>1, RecalledAre DEF AllReferred
  <1>3. \A q \in AllReferred' :
          q \in AllLive' \/ q \in sent' \cup later' \/ \E c \in Callers : q \in recon'[c].known
    BY RecalledAre DEF AllLive, Live, AllReferred, Referred
  <1>4. \A q \in AllReferred' : q \in AllLive' \/ q \in AllReferred
    BY <1>1, <1>2, <1>3 DEF NativeDraws
  <1>5. CASE nextOp' = nextOp /\ \A q \in AllLive' : \E p \in AllLive : Same(q, p)
    BY <1>1, <1>4, <1>5 DEF Same
  <1>6. ASSUME NEW new \in queue', UiStep, nextOp' = nextOp + 1, new.n = nextOp, new.cid = ui'.id,
               \A q \in AllLive' : q = new \/ q \in AllLive
        PROVE  \A q \in AllReferred' : q = new \/ q \in AllReferred
    BY <1>1, <1>4, <1>6
  <1> QED
    BY <1>5, <1>6 DEF NativeDraws

\* Keys keep naming one mutation, whoever holds it.
LEMMA NativeKeysStep ==
  ASSUME NativeTyped, NativeKeys, [NativeNext]_allVars
  PROVE  NativeKeys'
  <1>1. NativeDraws
    BY NativeDrawsStep
  <1>2. nextOp \in Nat /\ \A o \in AllReferred : o.n \in Nat
    <2>1. \A o \in Recalled : o \in PendingOperation
      BY RecalledAre DEF NativeTyped, ReconTyped, ReconState
    <2>2. \A o \in Referred : o \in PendingOperation
      BY DEF NativeTyped, TypeInv, TypeOK, IdbOK, BatchOK, PullOK, UiState, Referred
    <2> QED
      BY <2>1, <2>2 DEF NativeTyped, TypeInv, TypeOK, IdbOK, PendingOperation, AllReferred
  <1>3. /\ \A o \in AllReferred' : o.n < nextOp'
        /\ \A o, p \in AllReferred' : o.n = p.n => o.cid = p.cid /\ o.type = p.type
    <2>1. CASE nextOp' = nextOp /\ \A q \in AllReferred' : \E p \in AllReferred : Same(q, p)
      BY <2>1 DEF NativeKeys, Same
    <2>2. ASSUME NEW new \in queue', nextOp' = nextOp + 1, new.n = nextOp,
                 \A q \in AllReferred' : q = new \/ q \in AllReferred
          PROVE  /\ \A o \in AllReferred' : o.n < nextOp'
                 /\ \A o, p \in AllReferred' : o.n = p.n => o.cid = p.cid /\ o.type = p.type
      BY <1>2, <2>2 DEF NativeKeys
    <2> QED
      BY <1>1, <2>1, <2>2, ReferredDraws
  <1>4. KeysUnique'
    <2>0. TypeInv /\ Keys
      BY DEF NativeTyped, NativeKeys, Keys, KeysFresh, KeysName, AllReferred
    <2>1. CASE OfflineStep
      BY <2>0, <2>1, OfflineNext, UniqueStep
    <2>2. CASE ~OfflineStep
      <3>1. \A o, p \in queue : o.n = p.n => o = p
        BY DEF NativeKeys, KeysUnique
      <3>2. ASSUME NEW c \in Callers, CountFailure(c)
            PROVE  \A o, p \in queue' : o.n = p.n => o = p
        <4> DEFINE f == [recon[c].held EXCEPT !.attempts = @ + 1]
        <4>1. recon[c].held \in PendingOperation
          BY <3>2 DEF CountFailure, NativeTyped, ReconTyped
        <4>2. f.n = recon[c].held.n /\ queue' = Without(recon[c].held.n) \cup {f}
          BY <3>2, <4>1 DEF CountFailure, Failure, PendingOperation
        <4> QED
          BY <3>1, <4>2 DEF Without
      <3>3. queue' \subseteq queue \/ \E c \in Callers : CountFailure(c)
        <4>1. ASSUME NEW c \in Callers, Drain(c) \/ Reconcile(c)
              PROVE  queue' \subseteq queue \/ CountFailure(c)
          BY <4>1 DEF Drain, Reconcile, Snapshot, ReadRow, MarkRow, DropOp, Without, ReadOp, PassOver,
                      vars
        <4>2. ASSUME NEW w \in Workers, WorkRefused(w) \/ WorkLoss(w) \/ WorkDie(w)
              PROVE  queue' = queue
          BY <4>2 DEF WorkRefused, WorkLoss, WorkDie, idbVars
        <4>3. ASSUME Work
              PROVE  queue' = queue
          <5>1. ASSUME NEW w \in Workers, WorkStart(w) \/ \E r \in worker[w].results : WorkSettle(w, r)
                PROVE  queue' = queue
            BY <5>1 DEF WorkStart, WorkSettle, vars
          <5>2. ASSUME NEW w \in Workers, NEW id \in Ids, WorkApply(w, id)
                PROVE  queue' = queue
            BY <5>2 DEF WorkApply, idbVars
          <5> QED
            BY <4>3, <5>1, <5>2 DEF Work
        <4> QED
          BY <2>2, <4>1, <4>2, <4>3
          DEF NativeNext, OfflineStep, NotOnline, PluginPut, PluginRemove, AdoptRead, Import, AdoptRow,
              AdoptAck, WebViewDies, idbVars, vars, allVars
      <3>4. \A o, p \in queue' : o.n = p.n => o = p
        BY <3>1, <3>2, <3>3
      <3>5. UNCHANGED <<sent, later>> \/ (sent' = {} /\ later' = {})
        BY <2>2, OwnStep DEF passVars, PassReset
      <3> QED
        BY <3>4, <3>5 DEF NativeKeys, KeysUnique
    <2> QED
      BY <2>1, <2>2
  <1> QED
    BY <1>3, <1>4 DEF NativeKeys

\* A call of the WebView removes the operation of a change that was discarded or
\* handled, or puts the one just queued.
CallDraws(a) ==
  \/ bridge'[a] = bridge[a]
  \/ bridge'[a].call = "remove" /\ \E o \in ui.ops \cup results : bridge'[a].cid = o.cid
  \/ /\ UiStep /\ nextOp' = nextOp + 1
     /\ \E o \in queue' : bridge'[a] = PutCall(o) /\ o.n = nextOp /\ o.cid = ui'.id

LEMMA CallDrawsStep ==
  ASSUME NativeTyped, NativeKeys, [NativeNext]_allVars
  PROVE  \A a \in Activities : bridge'[a] # None => CallDraws(a)
  <1> SUFFICES ASSUME NEW a \in Activities, bridge'[a] # None
               PROVE  CallDraws(a)
    OBVIOUS
  <1>0. bridge \in [Activities -> Call \cup {None}] /\ "ui" \in Activities /\ "pass" \in Activities
    BY DEF NativeTyped, CallsTyped, Activities
  <1>1. CASE UiStep
    <2>1. bridge' = [bridge EXCEPT !["ui"] = UiCall]
      BY <1>1, UiCalls
    <2>2. CASE a # "ui"
      BY <1>0, <2>1, <2>2 DEF CallDraws
    <2>3. CASE a = "ui"
      <3>1. bridge'[a] = UiCall
        BY <1>0, <2>1, <2>3
      <3>2. ASSUME NEW o \in ui.ops, UiCall = RemoveCall(o.cid)
            PROVE  CallDraws(a)
        BY <3>1, <3>2 DEF RemoveCall, CallDraws
      <3> QED
        BY <1>1, <3>1, <3>2, UiCalls DEF CallDraws
    <2> QED
      BY <2>2, <2>3
  <1>2. CASE PassStep
    <2>1. bridge' = [bridge EXCEPT !["pass"] = PassCall]
      BY <1>2, PassCalls
    <2>2. CASE a # "pass"
      BY <1>0, <2>1, <2>2 DEF CallDraws
    <2>3. CASE a = "pass"
      <3>1. bridge'[a] = PassCall
        BY <1>0, <2>1, <2>3
      <3> QED
        BY <1>2, <3>1, PassCalls DEF RemoveCall, CallDraws
    <2> QED
      BY <2>2, <2>3
  <1>3. ASSUME NEW b \in Activities, PluginPut(b) \/ PluginRemove(b)
        PROVE  CallDraws(a)
    <2>1. bridge' = [bridge EXCEPT ![b] = None]
      BY <1>3 DEF PluginPut, PluginRemove
    <2> QED
      BY <1>0, <2>1 DEF CallDraws
  <1>4. CASE WebViewDies
    BY <1>4 DEF WebViewDies
  <1>5. CASE UNCHANGED bridge
    BY <1>5 DEF CallDraws
  <1> QED
    BY <1>1, <1>2, <1>3, <1>4, <1>5
    DEF NativeNext, PassLoss, StartStep, NotOnline, AdoptRead, Import, AdoptRow, AdoptAck, Work,
        WorkStart, WorkApply, WorkSettle, WorkRefused, WorkLoss, WorkDie, Drain, Reconcile, Snapshot,
        ReadRow, MarkRow, DropOp, ReadOp, CountFailure, PassOver, nativeVars, allVars

\* A new result answers an operation of a batch: "ok" is accepted and leaves a row, but
\* for a delete, and a conflict is about a row.
Fresh(q) ==
  \E w \in Workers :
    LET op == worker[w].batch[q.cid]
    IN /\ op # None /\ op.n = q.n
       /\ q.status = "ok" => q.n \in accepted' /\ (q.cid \in stored' \/ op.type = "delete")
       /\ q.status = "conflict" => q.cid \in stored'

LEMMA ReportedStep ==
  ASSUME NativeTyped, [NativeNext]_allVars
  PROVE  \A q \in Reported' :
           \/ \E r \in Reported : q.n = r.n /\ q.cid = r.cid /\ q.status \in {r.status, "failed"}
           \/ Fresh(q)
  <1> DEFINE Kept(q) == \E r \in Reported : q.n = r.n /\ q.cid = r.cid /\ q.status \in {r.status, "failed"}
  <1>0. /\ worker \in [Workers -> WorkerState] /\ JobsTyped
        /\ \A w \in Workers : worker[w].results \subseteq Reported
    BY DEF NativeTyped, JobsTyped, Reported
  <1>1. ASSUME NEW w \in Workers
        PROVE  \A q \in worker'[w].results : q \in worker[w].results \/ Fresh(q)
    <2>1. ASSUME NEW v \in Workers, NEW id \in Ids, WorkApply(v, id)
          PROVE  \A q \in worker'[w].results : q \in worker[w].results \/ Fresh(q)
      <3> DEFINE op == worker[v].batch[id]
      <3>1. PICK out \in Outcome :
              /\ op \in PendingOperation /\ op # None
              /\ stored' = IF out.row # None THEN stored \cup {id} ELSE stored
              /\ accepted' = IF out.status = "ok" THEN accepted \cup {op.n} ELSE accepted
              /\ out.status = "ok" => out.row # None \/ op.type = "delete"
              /\ out.status = "conflict" => out.row # None
              /\ \A u \in Workers : u # v => worker'[u] = worker[u]
              /\ worker'[v].results =
                   worker[v].results \cup {[n |-> op.n, cid |-> id, status |-> out.status]}
        BY <2>1, WorkApplied
      <3>2. Fresh([n |-> op.n, cid |-> id, status |-> out.status])
        BY <3>1 DEF Fresh
      <3> QED
        BY <3>1, <3>2
    <2>2. ASSUME NEW v \in Workers, WorkRefused(v)
          PROVE  \A q \in worker'[w].results : q \in worker[w].results \/ Fresh(q)
      <3> DEFINE s == worker[v]
                 refused == {[n |-> s.batch[id].n, cid |-> id, status |-> "error"] : id \in s.todo}
                 t == [s EXCEPT !.pc = "settle", !.todo = {}, !.results = refused]
      <3>1. worker' = [worker EXCEPT ![v] = t]
        BY <1>0, <2>2 DEF WorkRefused
      <3>2. t.results = refused
        BY <1>0 DEF WorkerState
      <3> HIDE DEF t
      <3>3. worker'[w] = IF w = v THEN t ELSE worker[w]
        BY <1>0, <3>1
      <3>4. \A q \in refused : Fresh(q)
        <4>1. \A id \in s.todo : s.batch[id] # None
          BY <1>0 DEF JobsTyped
        <4> QED
          BY <4>1 DEF Fresh
      <3> QED
        BY <3>2, <3>3, <3>4
    <2>3. ASSUME NEW v \in Workers, NEW r \in worker[v].results, WorkSettle(v, r)
          PROVE  \A q \in worker'[w].results : q \in worker[w].results \/ Fresh(q)
      <3>1. worker' = Handled(v, r) /\ IdleWorker.results = {}
        BY <2>3 DEF WorkSettle, IdleWorker
      <3> QED
        BY <1>0, <3>1, HandledKeeps
    <2>4. ASSUME NEW v \in Workers, NEW t, t.results = {}, worker' = [worker EXCEPT ![v] = t]
          PROVE  \A q \in worker'[w].results : q \in worker[w].results \/ Fresh(q)
      BY <1>0, <2>4
    <2>5. ASSUME NEW v \in Workers, WorkStart(v) \/ WorkLoss(v) \/ WorkDie(v)
          PROVE  \A q \in worker'[w].results : q \in worker[w].results \/ Fresh(q)
      BY <2>4, <2>5 DEF WorkStart, WorkLoss, WorkDie, IdleWorker
    <2>6. CASE UNCHANGED worker
      BY <2>6
    <2> QED
      BY <2>1, <2>2, <2>3, <2>5, <2>6
      DEF NativeNext, UiStep, PassStep, PassLoss, StartStep, NotOnline, PluginPut, PluginRemove,
          AdoptRead, Import, AdoptRow, AdoptAck, Work, Drain, Reconcile, Snapshot, ReadRow, MarkRow,
          DropOp, ReadOp, CountFailure, PassOver, WebViewDies, nativeVars, allVars
  <1>2. ASSUME NEW i \in 1 .. Len(journal')
        PROVE  Kept(journal'[i])
    <2>1. CASE \E j \in 1 .. Len(journal) : journal'[i] = journal[j]
      <3>1. journal'[i] \in Reported
        BY <2>1 DEF Reported
      <3> QED
        BY <3>1
    <2>2. CASE \E w \in Workers : \E r \in worker[w].results : journal'[i] = Journalled(r)
      <3>0. PICK w \in Workers : \E r \in worker[w].results : journal'[i] = Journalled(r)
        BY <2>2
      <3>1. PICK r \in worker[w].results : journal'[i] = Journalled(r)
        BY <3>0
      <3>2. r \in NativeResult /\ r \in Reported
        BY <1>0 DEF WorkerState
      <3>3. Journalled(r).n = r.n /\ Journalled(r).cid = r.cid /\ Journalled(r).status \in {r.status, "failed"}
        BY <3>2, JournalledKeeps
      <3> QED
        BY <3>1, <3>2, <3>3
    <2> QED
      BY <2>1, <2>2, JournalStep
  <1>3. ASSUME NEW c \in Callers, NEW i \in 1 .. Len(recon'[c].results)
        PROVE  Kept(recon'[c].results[i])
    <2>1. ReconDraws(c)
      BY ReconStep
    <2>2. \/ \E j \in 1 .. Len(recon[c].results) : recon'[c].results[i] = recon[c].results[j]
          \/ \E j \in 1 .. Len(journal) : recon'[c].results[i] = journal[j]
      BY <2>1 DEF ReconDraws
    <2>3. \A j \in 1 .. Len(recon[c].results) : recon[c].results[j] \in Reported
      BY DEF Reported
    <2>4. \A j \in 1 .. Len(journal) : journal[j] \in Reported
      BY DEF Reported
    <2>5. recon'[c].results[i] \in Reported
      BY <2>2, <2>3, <2>4
    <2> QED
      BY <2>5
  <1>4. ASSUME NEW q \in Reported'
        PROVE  Kept(q) \/ Fresh(q)
    <2>1. CASE \E w \in Workers : q \in worker'[w].results
      BY <1>0, <1>1, <2>1
    <2>2. CASE \E i \in 1 .. Len(journal') : q = journal'[i]
      BY <1>2, <2>2
    <2>3. CASE \E c \in Callers : \E i \in 1 .. Len(recon'[c].results) : q = recon'[c].results[i]
      BY <1>3, <2>3
    <2> QED
      BY <2>1, <2>2, <2>3 DEF Reported
  <1> QED
    BY <1>4

\* The batch of the pass and the wishes of the user are as in OfflineSync.
LEMMA NativeBatchStep ==
  ASSUME NativeTyped, NativeKeys, Batch, [NativeNext]_allVars
  PROVE  Batch'
  <1>1. CASE OfflineStep
    <2>1. TypeInv /\ Keys
      BY DEF NativeTyped, NativeKeys, Keys, KeysFresh, KeysName, AllReferred
    <2> QED
      BY <1>1, <2>1, OfflineNext, BatchStep
  <1>2. CASE ~OfflineStep
    <2>1. stored \subseteq stored' /\ (UNCHANGED passVars \/ PassReset)
      BY <1>2, OwnStep
    <2>2. CASE UNCHANGED passVars
      BY <2>1, <2>2 DEF Batch, BatchUniform, ResultsAnswer, Answers, passVars
    <2>3. CASE PassReset
      BY <2>3 DEF PassReset, Batch, BatchUniform, ResultsAnswer, Answers
    <2> QED
      BY <2>1, <2>2, <2>3
  <1> QED
    BY <1>1, <1>2

LEMMA NativeWishesStep ==
  ASSUME NativeTyped, Wishes, [NativeNext]_allVars
  PROVE  Wishes'
  <1>1. CASE OfflineStep
    BY <1>1, OfflineNext, WishesStep DEF NativeTyped
  <1>2. CASE ~OfflineStep
    <2>1. /\ born \subseteq born' /\ waived' = waived /\ (ui' = ui \/ ui' = IdleUi)
          /\ \A id \in Ids : intent'[id] # None => intent[id] # None \/ id \in born'
          /\ \A id \in born : intent'[id] = intent[id]
      BY <1>2, OwnStep
    <2>2. DiscardsWithdrawn'
      BY <2>1 DEF Wishes, DiscardsWithdrawn, IdleUi
    <2>3. WishesBorn'
      BY <2>1 DEF Wishes, WishesBorn, IdleUi
    <2> QED
      BY <2>2, <2>3 DEF Wishes
  <1> QED
    BY <1>1, <1>2

\* Whatever an operation, a result or a call is about was born, and so are the captures.
LEMMA NativeRootedStep ==
  ASSUME NativeTyped, NativeKeys, Batch, NativeRooted, NativeTyped', [NativeNext]_allVars
  PROVE  NativeRooted'
  <1>0. /\ TypeInv /\ Keys /\ Rooted /\ born \subseteq born' /\ born \subseteq Ids
        /\ imported \subseteq imported'
    BY NativeGrowStep
    DEF NativeTyped, NativeKeys, Keys, KeysFresh, KeysName, AllReferred, NativeRooted, TypeInv, TypeOK,
        GhostOK
  <1>1. NativeDraws
    BY NativeDrawsStep
  <1>2. \A o \in AllReferred : o.cid \in born
    BY DEF NativeRooted, Rooted, AllReferred
  <1>3. OfflineStep => Rooted'
    BY <1>0, OfflineNext, RootedStep
  <1>4. ui'.id # None => ui'.id \in born'
    <2>1. CASE OfflineStep
      BY <1>3, <2>1 DEF Rooted
    <2>2. CASE ~OfflineStep
      BY <1>0, <2>2, OwnStep DEF IdleUi, Rooted
    <2> QED
      BY <2>1, <2>2
  <1>5. \A o \in AllReferred' : o.cid \in born'
    <2>1. CASE \A q \in AllReferred' : \E p \in AllReferred : Same(q, p)
      BY <1>0, <1>2, <2>1 DEF Same
    <2>2. ASSUME NEW new \in queue', new.cid = ui'.id,
                 \A q \in AllReferred' : q = new \/ q \in AllReferred
          PROVE  \A o \in AllReferred' : o.cid \in born'
      <3>1. new.cid \in Ids
        BY DEF NativeTyped, TypeInv, TypeOK, IdbOK, PendingOperation
      <3> QED
        BY <1>0, <1>2, <1>4, <2>2, <3>1
    <2> QED
      BY <1>1, <2>1, <2>2, ReferredDraws
  <1> DEFINE Rows == /\ \A id \in Ids : db[id] # None \/ mirror[id] # None \/ pulled[id] # None => id \in born
                     /\ pc \in {"clear", "fill"} => \A id \in Ids : held[id] # None => id \in born
  <1>6. ~OfflineStep => Rows'
    <2> SUFFICES ASSUME ~OfflineStep
                 PROVE  Rows'
      OBVIOUS
    <2>0. Rows /\ (UNCHANGED passVars \/ PassReset)
      BY OwnStep DEF NativeRooted, Rooted
    <2>1. /\ pc' \in {"clear", "fill"} => \A id \in Ids : held'[id] # None => id \in born'
          /\ \A id \in Ids : pulled'[id] # None => id \in born'
      BY <1>0, <2>0 DEF passVars, PassReset, NoRows
    <2>2. \A id \in Ids : db'[id] # None => id \in born'
      <3>1. ASSUME NEW w \in Workers, NEW id \in Ids, WorkApply(w, id)
            PROVE  \A i \in Ids : db'[i] # None => i \in born'
        <4>1. worker[w].batch[id] # None /\ \E x : db' = Put(db, id, x)
          BY <3>1, WorkApplied
        <4>2. id \in born
          BY <4>1 DEF NativeRooted
        <4> QED
          BY <1>0, <2>0, <4>1, <4>2 DEF Put, TypeInv, TypeOK, ServerOK
      <3>2. CASE UNCHANGED db
        BY <1>0, <2>0, <3>2
      <3> QED
        BY <3>1, <3>2
        DEF NativeNext, OfflineStep, NotOnline, PluginPut, PluginRemove, AdoptRead, Import, AdoptRow,
            AdoptAck, Work, WorkStart, WorkSettle, WorkRefused, WorkLoss, WorkDie, Drain, Reconcile,
            Snapshot, ReadRow, MarkRow, DropOp, ReadOp, CountFailure, PassOver, WebViewDies, serverVars,
            vars, nativeVars, allVars
    <2>3. \A id \in Ids : mirror'[id] # None => id \in born'
      <3>1. ASSUME NEW i \in born, NEW x, mirror' = Put(mirror, i, x)
            PROVE  \A id \in Ids : mirror'[id] # None => id \in born'
        BY <1>0, <2>0, <3>1 DEF Put, TypeInv, TypeOK, IdbOK
      <3>2. ASSUME NEW c \in Callers, MarkRow(c)
            PROVE  Current(c).cid \in born
        <4>1. recon[c].results # <<>> /\ recon[c].results \in Seq(NativeResult)
          BY <3>2 DEF MarkRow, NativeTyped, ReconTyped, ReconState
        <4>2. 1 \in 1 .. Len(recon[c].results) /\ Current(c) = recon[c].results[1]
          BY <4>1 DEF Current
        <4>3. Current(c) \in Reported
          BY <4>2 DEF Reported
        <4> QED
          BY <4>3 DEF NativeRooted
      <3>3. AdoptRow => adopting.id \in born
        BY DEF AdoptRow, NativeTyped, CapturesTyped, NativeRooted
      <3>4. CASE UNCHANGED mirror
        BY <1>0, <2>0, <3>4
      <3>5. \/ UNCHANGED mirror
            \/ AdoptRow
            \/ \E c \in Callers : MarkRow(c)
        <4>1. ASSUME NEW c \in Callers, Drain(c) \/ Reconcile(c)
              PROVE  mirror' = mirror \/ MarkRow(c)
          BY <4>1 DEF Drain, Reconcile, Snapshot, ReadRow, DropOp, ReadOp, CountFailure, PassOver, vars
        <4>2. ASSUME NEW w \in Workers, WorkRefused(w) \/ WorkLoss(w) \/ WorkDie(w)
              PROVE  mirror' = mirror
          BY <4>2 DEF WorkRefused, WorkLoss, WorkDie, idbVars
        <4>3. ASSUME NEW w \in Workers, WorkStart(w) \/ \E r \in worker[w].results : WorkSettle(w, r)
              PROVE  mirror' = mirror
          BY <4>3 DEF WorkStart, WorkSettle, vars
        <4>4. ASSUME NEW w \in Workers, NEW id \in Ids, WorkApply(w, id)
              PROVE  mirror' = mirror
          BY <4>4 DEF WorkApply, idbVars
        <4>5. Work => mirror' = mirror
          BY <4>3, <4>4 DEF Work
        <4> QED
          BY <4>1, <4>2, <4>5
          DEF NativeNext, OfflineStep, NotOnline, PluginPut, PluginRemove, AdoptRead, Import, AdoptAck,
              WebViewDies, idbVars, vars, allVars
      <3>6. ASSUME NEW c \in Callers, MarkRow(c)
            PROVE  \A id \in Ids : mirror'[id] # None => id \in born'
        <4>1. \E x : mirror' = Put(mirror, Current(c).cid, x)
          BY <3>6 DEF MarkRow
        <4> QED
          BY <3>1, <3>2, <3>6, <4>1
      <3>7. CASE AdoptRow
        <4>1. \E x : mirror' = Put(mirror, adopting.id, x)
          BY <3>7 DEF AdoptRow
        <4> QED
          BY <3>1, <3>3, <3>7, <4>1
      <3> QED
        BY <3>4, <3>5, <3>6, <3>7
    <2> QED
      BY <2>1, <2>2, <2>3
  <1>7. Rooted'
    <2> HIDE DEF Rows
    <2>1. CASE ~OfflineStep
      BY <1>4, <1>5, <1>6, <2>1 DEF Rooted, Rows, AllReferred
    <2> QED
      BY <1>3, <2>1
  <1>8. ASSUME NEW id \in Ids, outbox'[id] # None
        PROVE  id \in born'
    <2>1. OutboxDraws(id)
      BY <1>8, OutboxStep
    <2>2. \A a \in Activities : bridge[a] # None => bridge[a].cid \in born
      BY DEF NativeRooted
    <2>3. id \in imported' /\ id \notin born => id \in born'
      <3>1. imported \subseteq born
        BY DEF NativeRooted
      <3>2. ASSUME NEW i \in Ids, NEW v \in Vals, Import(i, v)
            PROVE  imported' \subseteq imported \cup {i} /\ i \in born'
        BY <3>2 DEF Import
      <3> QED
        BY <1>0, <3>1, <3>2, CaptureFrame DEF AdoptAck
    <2> QED
      BY <1>0, <2>1, <2>2, <2>3 DEF OutboxDraws, NativeRooted
  <1>9. ASSUME NEW id \in Ids, NEW w \in Workers, worker'[w].batch[id] # None
        PROVE  id \in born'
    <2>1. worker[w].batch[id] # None \/ outbox[id] # None
      BY <1>9, JobsStep
    <2> QED
      BY <1>0, <2>1 DEF NativeRooted
  <1>10. ASSUME NEW q \in Reported'
         PROVE  q.cid \in born'
    <2>1. q.cid \in Ids
      <3>1. q \in NativeResult
        BY DEF Reported, NativeTyped, JobsTyped, WorkerState, ReconTyped, ReconState
      <3> QED
        BY <3>1 DEF NativeResult
    <2>2. CASE \E r \in Reported : q.cid = r.cid
      BY <1>0, <2>2 DEF NativeRooted
    <2>3. CASE Fresh(q)
      BY <1>0, <2>1, <2>3 DEF Fresh, NativeRooted
    <2> QED
      BY <2>2, <2>3, ReportedStep
  <1>11. ASSUME NEW a \in Activities, bridge'[a] # None
         PROVE  bridge'[a].cid \in born'
    <2>1. CallDraws(a)
      BY <1>11, CallDrawsStep
    <2>2. CASE bridge'[a] = bridge[a]
      BY <1>0, <1>11, <2>2 DEF NativeRooted
    <2>3. ASSUME NEW o \in ui.ops \cup results
          PROVE  o.cid \in born
      <3>1. o \in results => \E p \in sent : p.cid = o.cid
        BY DEF Batch, ResultsAnswer
      <3> QED
        BY <1>2, <3>1 DEF AllReferred, Referred
    <2>4. ASSUME NEW o \in queue', bridge'[a] = PutCall(o)
          PROVE  bridge'[a].cid \in born'
      BY <1>5, <2>4 DEF PutCall, AllReferred, Referred
    <2> QED
      BY <1>0, <2>1, <2>2, <2>3, <2>4 DEF CallDraws
  <1>12. /\ \A id \in Ids : captured'[id] # None => id \in imported'
         /\ imported' \subseteq born'
    <2>0. /\ \A id \in Ids : captured[id] # None => id \in imported
          /\ imported \subseteq born /\ captured \in [Ids -> Vals \cup {None}]
      BY DEF NativeRooted, NativeTyped, CapturesTyped
    <2>1. ASSUME NEW i \in Ids, NEW v \in Vals, Import(i, v)
          PROVE  /\ \A id \in Ids : captured'[id] # None => id \in imported'
                 /\ imported' \subseteq born'
      BY <2>0, <2>1 DEF Import, Put
    <2>2. CASE AdoptAck
      BY <1>0, <2>0, <2>2 DEF AdoptAck, Put
    <2>3. CASE UNCHANGED <<captured, imported>>
      BY <1>0, <2>0, <2>3
    <2> QED
      BY <2>1, <2>2, <2>3, CaptureFrame
  <1> QED
    BY <1>5, <1>7, <1>8, <1>9, <1>10, <1>11, <1>12 DEF NativeRooted, AllReferred

-----------------------------------------------------------------------------
(* No create is lost, no capture is lost                                   *)

\* A row nobody wants stays unwanted.
LEMMA NativeGoneStep ==
  ASSUME NativeTyped, Wishes, NEW id \in Ids, Gone(id), [NativeNext]_allVars
  PROVE  Gone(id)'
  <1>1. CASE OfflineStep
    BY <1>1, OfflineNext, GoneStep DEF NativeTyped
  <1>2. CASE ~OfflineStep
    BY <1>2, OwnStep DEF Gone, IdleUi
  <1> QED
    BY <1>1, <1>2

\* A delete is queued for a row that is no longer wanted.
LEMMA DeleteQueued ==
  ASSUME NativeTyped, NativeKeys, Rooted, UiStep, NEW o \in queue', o.n = nextOp,
         nextOp' = nextOp + 1, o.type = "delete"
  PROVE  Gone(o.cid)'
  <1>0. /\ nextOp \in Nat /\ ui \in UiState /\ UiHolds /\ intent \in [Ids -> Vals \cup {None}]
        /\ \A q \in queue : q.n \in Nat /\ q.n < nextOp
    BY DEF NativeTyped, TypeInv, TypeOK, IdbOK, GhostOK, PendingOperation, NativeKeys, AllReferred,
           Referred
  <1>1. nextOp' # nextOp /\ o \notin queue
    BY <1>0
  <1>2. CASE DeleteQueue
    <2>1. o.cid = ui.id /\ ui.id \in Ids
      BY <1>0, <1>1, <1>2 DEF DeleteQueue, Enqueue, UiHolds
    <2> QED
      BY <1>0, <1>2, <2>1 DEF DeleteQueue, Put, Gone, Rooted, UiState
  <1>3. ASSUME NEW id \in Ids, HttpLoss(id)
        PROVE  Gone(o.cid)'
    <2>1. o.cid = id /\ ui.type = "delete"
      BY <1>1, <1>3 DEF HttpLoss, Fallback, Enqueue
    <2>2. intent' = [intent EXCEPT ![id] = None] /\ id \in born' /\ ui'.pc = "remove"
      BY <1>0, <1>3, <2>1 DEF HttpLoss, Put, UiState
    <2> QED
      BY <1>0, <2>1, <2>2 DEF Gone
  <1>4. ASSUME NEW id \in Ids, NEW v \in Vals, Create(id, v) \/ Update(id, v)
        PROVE  FALSE
    BY <1>1, <1>4 DEF Create, Update, Enqueue
  <1> QED
    BY <1>1, <1>2, <1>3, <1>4
    DEF UiStep, Ui, Delete, Online, HttpRun, HttpReply, CreateRow, UpdateRead, UpdateRow, WithdrawRead,
        DeleteRow, Discard, DiscardOp, TakenBack, DiscardRow, RetryOp, DiscardDone, Retry, idbVars

\* Whatever the worker reports done is on the server or not wanted any more.
LEMMA AnsweredStep ==
  ASSUME NativeTyped, NativeKeys, NativeRooted, Wishes, Answered, NativeTyped', [NativeNext]_allVars
  PROVE  Answered'
  <1>0. /\ stored \subseteq stored'
        /\ \A id \in Ids : Gone(id) => Gone(id)'
    BY NativeGrowStep, NativeGoneStep
  <1>1. ASSUME NEW q \in Reported', q.status \in {"ok", "conflict"}
        PROVE  q.cid \in stored' \/ Gone(q.cid)'
    <2>1. q.cid \in Ids
      <3>1. q \in NativeResult
        BY DEF Reported, NativeTyped, JobsTyped, WorkerState, ReconTyped, ReconState
      <3> QED
        BY <3>1 DEF NativeResult
    <2>2. ASSUME NEW r \in Reported, q.cid = r.cid, q.status \in {r.status, "failed"}
          PROVE  q.cid \in stored' \/ Gone(q.cid)'
      <3>1. r.status = q.status
        BY <1>1, <2>2
      <3> QED
        BY <1>0, <1>1, <2>1, <2>2, <3>1 DEF Answered
    <2>3. CASE Fresh(q)
      BY <1>0, <1>1, <2>1, <2>3 DEF Fresh, Answered
    <2> QED
      BY <2>2, <2>3, ReportedStep
  <1>2. ASSUME NEW id \in Ids, outbox'[id] # None, outbox'[id].type = "delete"
        PROVE  Gone(id)'
    <2>1. OutboxDraws(id)
      BY <1>2, OutboxStep
    <2>2. CASE outbox[id] # None /\ outbox'[id].type = outbox[id].type
      BY <1>0, <1>2, <2>2 DEF Answered
    <2>3. ASSUME NEW a \in Activities, bridge[a] # None, bridge[a].call = "put", bridge[a].cid = id,
                 outbox'[id] = bridge[a].op
          PROVE  Gone(id)'
      BY <1>0, <1>2, <2>3 DEF Answered
    <2> QED
      BY <1>2, <2>1, <2>2, <2>3 DEF OutboxDraws
  <1>3. ASSUME NEW id \in Ids, NEW w \in Workers, worker'[w].batch[id] # None,
               worker'[w].batch[id].type = "delete"
        PROVE  Gone(id)'
    <2>1. worker'[w].batch[id] \in {worker[w].batch[id], outbox[id]}
      BY <1>3, JobsStep
    <2> QED
      BY <1>0, <1>3, <2>1 DEF Answered
  <1>4. ASSUME NEW a \in Activities, bridge'[a] # None, bridge'[a].call = "put",
               bridge'[a].op.type = "delete"
        PROVE  Gone(bridge[a].cid)'
    <2>0. ASSUME NEW i \in Ids, bridge'[a].cid = i, Gone(i)'
          PROVE  Gone(bridge[a].cid)'
      BY <2>0 DEF Gone
    <2>1. CallDraws(a)
      BY <1>4, CallDrawsStep
    <2>2. CASE bridge'[a] = bridge[a]
      <3>1. bridge[a].cid \in Ids /\ Gone(bridge[a].cid)
        BY <1>4, <2>2 DEF Answered, NativeTyped, CallsTyped, Call
      <3>2. PICK i \in Ids : i = bridge[a].cid /\ Gone(i)
        BY <3>1
      <3> QED
        BY <1>0, <2>0, <2>2, <3>2
    <2>3. ASSUME NEW o \in queue', bridge'[a] = PutCall(o), o.n = nextOp, UiStep, nextOp' = nextOp + 1
          PROVE  Gone(bridge[a].cid)'
      <3>1. bridge'[a].cid = o.cid /\ o.type = "delete"
        BY <1>4, <2>3 DEF PutCall
      <3>2. o.cid \in Ids
        BY DEF NativeTyped, TypeInv, TypeOK, IdbOK, PendingOperation
      <3>3. Gone(o.cid)'
        BY <2>3, <3>1, DeleteQueued DEF NativeRooted
      <3> QED
        BY <2>0, <3>1, <3>2, <3>3
    <2> QED
      BY <1>4, <2>1, <2>2, <2>3 DEF CallDraws
  <1> QED
    BY <1>1, <1>2, <1>3, <1>4 DEF Answered

\* The current result of a reconciliation that drops an operation is "ok", and about
\* the row of that operation.
LEMMA DropsAnswered ==
  ASSUME NativeTyped, NEW c \in Callers, DropOp(c)
  PROVE  /\ Current(c) \in Reported /\ Current(c).status = "ok"
         /\ \E i \in 1 .. Len(recon[c].results) : Current(c) = recon[c].results[i]
         /\ \E o \in recon[c].known : o.cid = Current(c).cid /\ queue' = Without(o.n)
  <1>1. recon[c].results # <<>> /\ recon[c].results \in Seq(NativeResult)
    BY DEF DropOp, NativeTyped, ReconTyped, ReconState
  <1>2. 1 \in 1 .. Len(recon[c].results) /\ Current(c) = recon[c].results[1]
    BY <1>1 DEF Current
  <1>3. Current(c) \in Reported
    BY <1>2 DEF Reported
  <1>4. Current(c).status = "ok"
    BY DEF DropOp, NativeTyped, ReconTyped
  <1> QED
    BY <1>2, <1>3, <1>4 DEF DropOp, Matching

\* A creation the server has not stored stays queued, with a reconciliation settling it.
LEMMA SafeRowsStep ==
  ASSUME NativeTyped, NativeKeys, Batch, Wishes, Answered, SafeRows, [NativeNext]_allVars
  PROVE  SafeRows'
  <1>0. /\ TypeInv /\ Keys /\ imported \subseteq imported'
    BY NativeGrowStep DEF NativeTyped, NativeKeys, Keys, KeysFresh, KeysName, AllReferred
  <1> SUFFICES ASSUME NEW id \in Ids, id \notin imported'
               PROVE  Safe(id)'
    BY DEF SafeRows
  <1>1. Safe(id)
    BY <1>0 DEF SafeRows
  <1>2. CASE OfflineStep
    BY <1>0, <1>1, <1>2, OfflineNext, CreateStep
  <1>3. CASE ~OfflineStep
    <2> SUFFICES ASSUME id \in born', id \notin waived', intent'[id] # None, id \notin stored'
                 PROVE  CreateQueued(id)'
      BY DEF Safe, CreateQueued
    <2>1. /\ born \subseteq born' /\ stored \subseteq stored' /\ waived' = waived
          /\ \A i \in born : intent'[i] = intent[i]
      BY <1>3, OwnStep
    <2>2. id \in born
      <3>1. ASSUME NEW i \in Ids, NEW v \in Vals, Import(i, v)
            PROVE  id \in born
        BY <3>1 DEF Import
      <3> QED
        BY <1>3, <3>1, OwnFrame
    <2>3. intent[id] # None /\ id \notin stored /\ CreateQueued(id)
      BY <1>1, <2>1, <2>2 DEF Safe
    <2>4. PICK p \in queue : p.cid = id /\ p.type = "create"
      BY <2>3 DEF CreateQueued
    <2>5. CASE queue \subseteq queue'
      BY <2>4, <2>5 DEF CreateQueued
    <2>6. ASSUME NEW c \in Callers, DropOp(c)
          PROVE  CreateQueued(id)'
      <3>1. PICK o \in recon[c].known : o.cid = Current(c).cid /\ queue' = Without(o.n)
        BY <2>6, DropsAnswered
      <3>2. Current(c).cid \in stored \/ Gone(Current(c).cid)
        BY <2>6, DropsAnswered DEF Answered
      <3>3. o.cid # id
        BY <2>3, <3>1, <3>2 DEF Gone
      <3>4. p.n # o.n
        BY <2>4, <3>3 DEF NativeKeys, AllReferred, Referred, Recalled
      <3> QED
        BY <2>4, <3>1, <3>4 DEF Without, CreateQueued
    <2>7. ASSUME NEW c \in Callers, CountFailure(c)
          PROVE  CreateQueued(id)'
      <3> DEFINE h == recon[c].held
                 f == [h EXCEPT !.attempts = @ + 1]
      <3>1. h \in PendingOperation /\ recon[c].pc = "fail"
        BY <2>7 DEF CountFailure, NativeTyped, ReconTyped
      <3>2. f.n = h.n /\ f.cid = h.cid /\ f.type = h.type /\ queue' = Without(h.n) \cup {f}
        BY <2>7, <3>1 DEF CountFailure, Failure, PendingOperation
      <3> HIDE DEF f
      <3>3. CASE p.n = h.n
        <4>1. h \in AllReferred /\ p \in AllReferred
          BY <3>1 DEF AllReferred, Referred, Recalled
        <4>2. h.cid = id /\ h.type = "create"
          BY <2>4, <3>3, <4>1 DEF NativeKeys
        <4> QED
          BY <3>2, <4>2 DEF CreateQueued
      <3>4. CASE p.n # h.n
        BY <2>4, <3>2, <3>4 DEF Without, CreateQueued
      <3> QED
        BY <3>3, <3>4
    <2> QED
      BY <1>3, <2>5, <2>6, <2>7, OwnFrame
  <1> QED
    BY <1>2, <1>3

\* An operation that is queued while something of its row is on its way mixes the row.
LEMMA Mixes ==
  ASSUME UiStep, nextOp \in Nat, nextOp' = nextOp + 1, NEW o \in queue', o.n = nextOp,
         Outstanding(o.cid)
  PROVE  o.cid \in mixed'
  <1>1. nextOp' # nextOp
    OBVIOUS
  <1>2. mixed' = mixed \cup {p.cid : p \in {q \in queue' : nextOp' # nextOp /\ q.n = nextOp /\ Outstanding(q.cid)}}
    BY DEF UiStep
  <1> QED
    BY <1>1, <1>2

\* The outbox keeps what it owns until it is excused.
LEMMA AdoptedStep ==
  ASSUME NativeTyped, NativeKeys, NativeRooted, Batch, Wishes, Answered, Adopted,
         NativeTyped', [NativeNext]_allVars
  PROVE  Adopted'
  <1>0. /\ stored \subseteq stored' /\ waived \subseteq waived' /\ imported \subseteq imported'
        /\ parked \subseteq parked' /\ mixed \subseteq mixed'
        /\ \A id \in Ids : Gone(id) => Gone(id)'
        /\ nextOp \in Nat /\ imported \subseteq Ids
    BY NativeGrowStep, NativeGoneStep
    DEF NativeTyped, TypeInv, TypeOK, IdbOK, CapturesTyped
  <1>1. \A id \in Ids : Excused(id) => Excused(id)'
    BY <1>0 DEF Excused
  <1>2. imported' = imported \/ \E id \in Ids, v \in Vals : Import(id, v)
    <2>1. CASE OfflineStep
      BY <2>1 DEF OfflineStep, UiStep, PassStep, PassLoss, StartStep, captureVars, nativeVars
    <2> QED
      BY <2>1, OwnFrame
  <1>3. \A id \in born : id \in imported' => id \in imported
    BY <1>2 DEF Import
  <1>4. ASSUME NEW id \in imported'
        PROVE  Excused(id)' \/ (outbox'[id] # None /\ outbox'[id].type = "create")
    <2>1. ASSUME NEW i \in Ids, NEW v \in Vals, Import(i, v)
          PROVE  i = id => outbox'[id] # None /\ outbox'[id].type = "create"
      <3> DEFINE op == [n |-> 0, type |-> "create", cid |-> i, val |-> v, attempts |-> 0]
      <3>1. outbox' = [outbox EXCEPT ![i] = op] /\ op \in PendingOperation
        BY <2>1 DEF Import, Put, PendingOperation, OpTypes
      <3>2. op # None /\ op.type = "create"
        BY <3>1
      <3> HIDE DEF op
      <3> QED
        BY <3>1, <3>2 DEF NativeTyped, OutboxTyped
    <2>2. CASE id \in imported
      <3>1. id \in Ids /\ id \in born
        BY <1>0, <2>2 DEF NativeRooted
      <3>2. CASE Excused(id)
        BY <1>1, <3>1, <3>2
      <3>3. CASE ~Excused(id) /\ outbox[id] # None /\ outbox[id].type = "create"
        <4>1. (outbox'[id] # None /\ outbox'[id].type = "create") \/ OutboxGives(id)
          BY <3>1, <3>3, OutboxStep
        <4>2. CASE OutboxGives(id)
          <5>1. ASSUME NEW a \in Activities, bridge[a] # None, bridge[a].cid = id
                PROVE  FALSE
            BY <2>2, <3>3, <5>1 DEF Adopted
          <5>2. ASSUME NEW w \in Workers, NEW r \in worker[w].results, r.cid = id, Done(r.status)
                PROVE  FALSE
            <6>1. r \in Reported
              BY DEF Reported
            <6> QED
              BY <3>3, <5>2, <6>1 DEF Done, Answered, Excused
          <5>3. CASE id \in parked'
            BY <5>3 DEF Excused
          <5> QED
            BY <3>1, <4>2, <5>1, <5>2, <5>3 DEF OutboxGives
        <4> QED
          BY <4>1, <4>2
      <3> QED
        BY <2>2, <3>2, <3>3 DEF Adopted
    <2>3. CASE id \notin imported
      <3>1. ASSUME NEW i \in Ids, NEW v \in Vals, Import(i, v)
            PROVE  i = id
        BY <2>3, <3>1 DEF Import
      <3> QED
        BY <1>2, <2>1, <2>3, <3>1
    <2> QED
      BY <2>2, <2>3
  <1>5. ASSUME NEW new \in queue', UiStep, nextOp' = nextOp + 1, new.n = nextOp, new.cid \in imported'
        PROVE  Excused(new.cid)'
    <2>1. new.cid \in imported /\ new.cid \in Ids
      <3>1. imported' = imported
        BY <1>5 DEF UiStep, captureVars
      <3> QED
        BY <1>0, <1>5, <3>1
    <2>2. CASE Excused(new.cid)
      BY <1>1, <2>1, <2>2
    <2>3. CASE outbox[new.cid] # None
      <3>1. Outstanding(new.cid)
        BY <2>3 DEF Outstanding
      <3>2. new.cid \in mixed'
        BY <1>0, <1>5, <3>1, Mixes
      <3> QED
        BY <3>2 DEF Excused
    <2> QED
      BY <2>1, <2>2, <2>3 DEF Adopted
  <1>6. \A o \in AllReferred : o.cid \in born /\ (o.cid \in imported => Excused(o.cid))
    BY DEF NativeRooted, Rooted, Adopted, AllReferred
  <1>7. ASSUME NEW o \in AllReferred', o.cid \in imported'
        PROVE  Excused(o.cid)'
    <2>1. NativeDraws
      BY NativeDrawsStep
    <2>2. ASSUME NEW p \in AllReferred, p.cid = o.cid
          PROVE  Excused(o.cid)'
      <3>1. o.cid \in imported
        BY <1>3, <1>6, <1>7, <2>2
      <3>2. Excused(o.cid)
        BY <1>6, <2>2, <3>1
      <3> QED
        BY <1>0, <1>1, <3>1, <3>2
    <2>3. CASE \A q \in AllReferred' : \E p \in AllReferred : Same(q, p)
      BY <2>2, <2>3 DEF Same
    <2>4. ASSUME NEW new \in queue', UiStep, nextOp' = nextOp + 1, new.n = nextOp,
                 \A q \in AllReferred' : q = new \/ q \in AllReferred
          PROVE  Excused(o.cid)'
      <3>1. CASE o = new
        BY <1>5, <1>7, <2>4, <3>1
      <3>2. CASE o \in AllReferred
        BY <2>2, <3>2
      <3> QED
        BY <2>4, <3>1, <3>2
    <2> QED
      BY <2>1, <2>3, <2>4, ReferredDraws
  <1>8. ASSUME NEW a \in Activities, bridge'[a] # None, bridge'[a].cid \in imported'
        PROVE  Excused(bridge[a].cid)'
    <2>0. ASSUME NEW i, bridge'[a].cid = i, Excused(i)'
          PROVE  Excused(bridge[a].cid)'
      BY <2>0 DEF Excused, Gone
    <2>1. CallDraws(a)
      BY <1>8, CallDrawsStep
    <2>2. CASE bridge'[a] = bridge[a]
      <3>1. bridge[a].cid \in born
        BY <1>8, <2>2 DEF NativeRooted
      <3>2. bridge[a].cid \in imported /\ Excused(bridge[a].cid)
        BY <1>3, <1>8, <2>2, <3>1 DEF Adopted
      <3>3. PICK i \in imported : i = bridge[a].cid /\ Excused(i)
        BY <3>2
      <3>4. Excused(i)'
        BY <1>0, <1>1, <3>3
      <3> QED
        BY <2>0, <2>2, <3>3, <3>4
    <2>3. ASSUME NEW o \in ui.ops \cup results, bridge'[a].cid = o.cid
          PROVE  Excused(o.cid)'
      <3>1. o \in results => \E p \in sent : p.cid = o.cid
        BY DEF Batch, ResultsAnswer
      <3>2. \E p \in AllReferred : p.cid = o.cid
        BY <3>1 DEF AllReferred, Referred
      <3>3. o.cid \in imported /\ Excused(o.cid)
        BY <1>3, <1>6, <1>8, <2>3, <3>2
      <3> QED
        BY <1>0, <1>1, <3>3
    <2>4. ASSUME NEW o \in queue', UiStep, nextOp' = nextOp + 1, bridge'[a] = PutCall(o), o.n = nextOp
          PROVE  Excused(o.cid)' /\ bridge'[a].cid = o.cid
      BY <1>5, <1>8, <2>4 DEF PutCall
    <2> QED
      BY <1>8, <2>0, <2>1, <2>2, <2>3, <2>4 DEF CallDraws
  <1> QED
    BY <1>4, <1>7, <1>8 DEF Adopted, AllReferred

-----------------------------------------------------------------------------
(* Two operations of one row                                               *)

\* Only a discard and a retry carry operations from one step of a mutator to the next.
LEMMA OpsStep ==
  ASSUME NativeTyped, ui.pc \notin {"discard", "settle", "retry"} => ui.ops = {},
         [NativeNext]_allVars
  PROVE  ui'.pc \notin {"discard", "settle", "retry"} => ui'.ops = {}
  <1> DEFINE Clean == ui.pc \notin {"discard", "settle", "retry"} => ui.ops = {}
  <1>0. ui \in UiState /\ IdleUi.ops = {}
    BY DEF NativeTyped, TypeInv, TypeOK, IdleUi
  <1>1. CASE ui' = ui \/ ui' = IdleUi
    BY <1>0, <1>1
  <1>2. CASE UiStep
    <2>1. ASSUME NEW i \in Ids, NEW v, Create(i, v) \/ Update(i, v) \/ Delete(i) \/ Online("create", i, v)
                 \/ Online("update", i, v) \/ Online("delete", i, v)
          PROVE  Clean'
      <3>1. CASE Create(i, v)
        BY <3>1 DEF Create, IdleUi
      <3>2. CASE Update(i, v)
        BY <3>2 DEF Update, IdleUi
      <3>3. CASE Delete(i)
        BY <3>3 DEF Delete, IdleUi
      <3>4. CASE Online("create", i, v) \/ Online("update", i, v) \/ Online("delete", i, v)
        BY <3>4 DEF Online, IdleUi
      <3> QED
        BY <2>1, <3>1, <3>2, <3>3, <3>4
    <2>2. CASE HttpRun
      BY <1>0, <1>1, <2>2 DEF HttpRun, UiState
    <2>3. CASE HttpReply \/ CreateRow \/ UpdateRow \/ DeleteRow
      BY <1>1, <2>3 DEF HttpReply, CreateRow, UpdateRow, DeleteRow
    <2>4. CASE UpdateRead
      BY <1>0, <1>1, <2>4 DEF UpdateRead, UiState
    <2>5. CASE DeleteQueue
      BY <1>0, <2>5 DEF DeleteQueue, UiState
    <2>6. CASE WithdrawRead
      BY <1>0, <2>6 DEF WithdrawRead, UiState
    <2>7. ASSUME NEW o, Discard(o)
          PROVE  Clean'
      BY <2>7 DEF Discard, IdleUi
    <2>8. ASSUME NEW o, DiscardOp(o) \/ DiscardRow(o)
          PROVE  Clean'
      BY <1>0, <2>8 DEF DiscardOp, TakenBack, DiscardRow, UiState
    <2>9. ASSUME NEW o, RetryOp(o)
          PROVE  Clean'
      BY <1>0, <1>1, <2>9 DEF RetryOp, UiState
    <2>10. CASE DiscardDone
      BY <1>0, <1>1, <2>10 DEF DiscardDone, UiState
    <2>11. CASE Retry
      BY <2>11 DEF Retry, IdleUi
    <2>12. ASSUME NEW i \in Ids, HttpLoss(i)
           PROVE  Clean'
      BY <1>0, <2>12 DEF HttpLoss, UiState
    <2> QED
      BY <1>2, <2>1, <2>2, <2>3, <2>4, <2>5, <2>6, <2>7, <2>8, <2>9, <2>10, <2>11, <2>12 DEF UiStep, Ui
  <1>3. CASE OfflineStep /\ ~UiStep
    <2>1. ui' = ui
      BY <1>3, PassFrame DEF OfflineStep, PassStep, StartStep, PassLoss, Loss
    <2> QED
      BY <1>1, <2>1
  <1>4. CASE ~OfflineStep
    BY <1>1, <1>4, OwnStep
  <1> QED
    BY <1>2, <1>3, <1>4

\* A mutator queues an operation only when it carries none.
LEMMA QueuesWithout ==
  ASSUME NativeTyped, UiStep, nextOp' # nextOp
  PROVE  ui.pc \notin {"discard", "settle", "retry"}
  BY DEF UiStep, Ui, Create, Update, Delete, Online, HttpRun, HttpReply, CreateRow, UpdateRead, UpdateRow,
         DeleteQueue, WithdrawRead, DeleteRow, Discard, DiscardOp, TakenBack, DiscardRow, RetryOp, DiscardDone, Retry,
         HttpLoss, idbVars

\* What is left of an operation after a step was there before it, but for the operation
\* a mutator queues and the one an import puts in the outbox.
Queues(n, id) ==
  /\ UiStep /\ nextOp' = nextOp + 1 /\ n = nextOp
  /\ \E o \in queue' : o.n = nextOp /\ o.cid = id

LEMMA TracedStep ==
  ASSUME NativeTyped, NativeKeys, [NativeNext]_allVars, NEW n \in Nat, NEW id \in Ids, Traced(n, id)'
  PROVE  Traced(n, id) \/ Queues(n, id) \/ (id \notin born /\ id \in imported' /\ n = 0)
  <1>1. \A p \in AllLive : p.n = n /\ p.cid = id => Traced(n, id)
    BY DEF AllLive, Traced
  <1>2. ASSUME NEW q \in AllLive', q.n = n, q.cid = id
        PROVE  Traced(n, id) \/ Queues(n, id)
    <2>1. NativeDraws
      BY NativeDrawsStep
    <2>2. CASE \A p \in AllLive' : \E o \in AllLive : Same(p, o)
      BY <1>1, <1>2, <2>2 DEF Same
    <2>3. ASSUME NEW new \in queue', UiStep, nextOp' = nextOp + 1, new.n = nextOp,
                 \A p \in AllLive' : p = new \/ p \in AllLive
          PROVE  Traced(n, id) \/ Queues(n, id)
      BY <1>1, <1>2, <2>3 DEF Queues
    <2> QED
      BY <2>1, <2>2, <2>3 DEF NativeDraws
  <1>3. ASSUME NEW a \in Activities, bridge'[a] # None, bridge'[a].call = "put",
               bridge'[a].op.n = n, bridge'[a].cid = id
        PROVE  Traced(n, id) \/ Queues(n, id)
    <2>1. CallDraws(a)
      BY <1>3, CallDrawsStep
    <2>2. CASE bridge'[a] = bridge[a]
      BY <1>3, <2>2 DEF Traced
    <2>3. ASSUME NEW o \in queue', UiStep, nextOp' = nextOp + 1, bridge'[a] = PutCall(o), o.n = nextOp
          PROVE  Queues(n, id)
      BY <1>3, <2>3 DEF PutCall, Queues
    <2> QED
      BY <1>3, <2>1, <2>2, <2>3 DEF CallDraws
  <1>4. CASE outbox'[id] # None /\ outbox'[id].n = n
    <2>1. OutboxDraws(id)
      BY <1>4, OutboxStep
    <2> QED
      BY <1>4, <2>1 DEF OutboxDraws, Traced
  <1>5. ASSUME NEW w \in Workers, worker'[w].batch[id] # None, worker'[w].batch[id].n = n
        PROVE  Traced(n, id)
    <2>1. worker'[w].batch[id] \in {worker[w].batch[id], outbox[id]}
      BY <1>5, JobsStep
    <2> QED
      BY <1>5, <2>1 DEF Traced
  <1>6. ASSUME NEW q \in Reported', q.n = n, q.cid = id
        PROVE  Traced(n, id)
    <2>1. CASE \E r \in Reported : q.n = r.n /\ q.cid = r.cid
      BY <1>6, <2>1 DEF Traced
    <2>2. CASE Fresh(q)
      BY <1>6, <2>2 DEF Fresh, Traced
    <2> QED
      BY <2>1, <2>2, ReportedStep
  <1>7. \/ \E q \in AllLive' : q.n = n /\ q.cid = id
        \/ \E a \in Activities : /\ bridge'[a] # None /\ bridge'[a].call = "put"
                                 /\ bridge'[a].op.n = n /\ bridge'[a].cid = id
        \/ outbox'[id] # None /\ outbox'[id].n = n
        \/ \E w \in Workers : worker'[w].batch[id] # None /\ worker'[w].batch[id].n = n
        \/ \E q \in Reported' : q.n = n /\ q.cid = id
    BY DEF Traced, AllLive
  <1> QED
    BY <1>2, <1>3, <1>4, <1>5, <1>6, <1>7

\* When a mutator queues an operation, everything there is of its row is outstanding.
LEMMA TracedOutstanding ==
  ASSUME NativeTyped, Trail, UiStep, nextOp' # nextOp, NEW n \in Nat, NEW id \in Ids, Traced(n, id)
  PROVE  Outstanding(id)
  <1>1. ui.ops = {}
    BY QueuesWithout DEF Trail
  <1>2. \A a \in Activities : ~(bridge[a] # None /\ bridge[a].call = "put")
    BY DEF NativeTyped, CallsTyped, UiStep
  <1>3. CASE \E o \in Live : o.n = n /\ o.cid = id
    BY <1>1, <1>3 DEF Live, Outstanding, InHand
  <1>4. CASE \E c \in Callers : recon[c].pc = "fail" /\ recon[c].held.n = n /\ recon[c].held.cid = id
    BY <1>4 DEF Outstanding, InHand
  <1>5. CASE outbox[id] # None \/ \E w \in Workers : worker[w].batch[id] # None
    BY <1>5 DEF Outstanding
  <1>6. ASSUME NEW r \in Reported, r.cid = id
        PROVE  Outstanding(id)
    <2>1. CASE \E w \in Workers : r \in worker[w].results
      <3>1. \E w \in Workers : worker[w].batch[id] # None
        BY <1>6, <2>1 DEF NativeTyped, JobsTyped
      <3> QED
        BY <3>1 DEF Outstanding
    <2>2. CASE ~\E w \in Workers : r \in worker[w].results
      BY <1>6, <2>2 DEF Reported, Outstanding
    <2> QED
      BY <2>1, <2>2
  <1> QED
    BY <1>2, <1>3, <1>4, <1>5, <1>6 DEF Traced

\* Nothing is there of a row before it is born.
LEMMA Untraced ==
  ASSUME NativeRooted, NEW n \in Nat, NEW id \in Ids, Traced(n, id)
  PROVE  id \in born
  <1>1. \A o \in Referred \cup Recalled : o.cid \in born
    BY DEF NativeRooted, Rooted
  <1>2. \A o \in AllLive : o.cid \in born
    BY <1>1 DEF AllLive, Live, Referred, Recalled
  <1> QED
    BY <1>2 DEF Traced, AllLive, NativeRooted

\* A batch of the pass is taken from the queue, or is the one held back.
LEMMA SentStep ==
  ASSUME NativeTyped, [NativeNext]_allVars
  PROVE  /\ sent' \subseteq sent \/ sent' \subseteq later \/ sent' \subseteq queue
         /\ later' \subseteq later \/ later' \subseteq queue
         /\ \A r \in results' : r \in results \/ (r.status = "ok" => r.n \in accepted')
  <1> DEFINE Goal == /\ sent' \subseteq sent \/ sent' \subseteq later \/ sent' \subseteq queue
                     /\ later' \subseteq later \/ later' \subseteq queue
                     /\ \A r \in results' : r \in results \/ (r.status = "ok" => r.n \in accepted')
  <1>1. ASSUME UNCHANGED <<sent, later>> /\ results' \subseteq results
        PROVE  Goal
    BY <1>1
  <1>2. ASSUME StartStep
        PROVE  Goal
    <2> DEFINE pending == {o \in queue : ~isOperationFailed(o)}
               creates == {o \in pending : o.type = "create"}
               rest == pending \ creates
    <2>1. results' = results
      BY <1>2 DEF StartStep, StartSync
    <2>2. FirstBatch(creates, rest) \subseteq queue /\ rest \subseteq queue
      BY DEF FirstBatch
    <2>3. \/ UNCHANGED <<sent, later>>
          \/ /\ SendBatch(FirstBatch(creates, rest))
             /\ later' = IF creates = {} THEN {} ELSE rest
      BY <1>2 DEF StartStep, StartSync
    <2> HIDE DEF creates, rest
    <2> QED
      BY <2>1, <2>2, <2>3 DEF SendBatch
  <1>3. ASSUME NEW op \in todo, ServerApply(op)
        PROVE  Goal
    <2>1. PICK status :
            /\ results' = results \cup {[n |-> op.n, cid |-> op.cid, status |-> status]}
            /\ accepted' = IF status = "ok" THEN accepted \cup {op.n} ELSE accepted
            /\ UNCHANGED <<sent, later>>
      BY <1>3 DEF ServerApply
    <2> QED
      BY <2>1
  <1>4. ASSUME BatchDone
        PROVE  Goal
    BY <1>4 DEF BatchDone, SendBatch
  <1>5. ASSUME PassStep
        PROVE  Goal
    <2>1. Pass
      BY <1>5 DEF PassStep
    <2> QED
      BY <1>1, <1>3, <1>4, <2>1
      DEF Pass, PushReply, RecordFailure, AckRejected, AckCreated, MarkSynced, AckDone, PullQuery,
          PullReply, Merge, ClearStore, FillStore, SaveLastSync
  <1>6. ASSUME UiStep
        PROVE  Goal
    <2>1. UNCHANGED passVars
      BY <1>6, UiFrame DEF UiStep, HttpLoss
    <2> QED
      BY <1>1, <2>1 DEF passVars
  <1>7. ASSUME PassLoss \/ PassReset
        PROVE  Goal
    BY <1>7 DEF PassLoss, Loss, PassReset
  <1> HIDE DEF Goal
  <1>8. ASSUME UNCHANGED passVars
        PROVE  Goal
    BY <1>1, <1>8 DEF passVars
  <1>9. Goal
    BY <1>2, <1>5, <1>6, <1>7, <1>8, OwnStep DEF OfflineStep
  <1> QED
    BY <1>9 DEF Goal

\* Two operations of one row only meet when the second was queued before the first was
\* settled.
LEMMA TrailStep ==
  ASSUME NativeTyped, NativeKeys, NativeRooted, Trail, NativeTyped', [NativeNext]_allVars
  PROVE  Trail'
  <1>0. mixed \subseteq mixed' /\ accepted \subseteq accepted' /\ nextOp \in Nat
    BY NativeGrowStep DEF NativeTyped, TypeInv, TypeOK, IdbOK
  <1>1. ui'.pc \notin {"discard", "settle", "retry"} => ui'.ops = {}
    BY OpsStep DEF Trail
  <1>2. ASSUME NEW id \in Ids, NEW n \in Nat, NEW m \in Nat, Traced(n, id)', Traced(m, id)', n # m
        PROVE  id \in mixed'
    <2>1. CASE Traced(n, id) /\ Traced(m, id)
      BY <1>0, <1>2, <2>1 DEF Trail
    <2>2. ASSUME NEW k \in Nat, Traced(k, id), UiStep, nextOp' = nextOp + 1,
                 NEW o \in queue', o.n = nextOp, o.cid = id
          PROVE  id \in mixed'
      <3>1. Outstanding(id)
        BY <1>0, <2>2, TracedOutstanding
      <3> QED
        BY <1>0, <2>2, <3>1, Mixes
    <2>3. ~Traced(n, id) => Queues(n, id) \/ (id \notin born /\ id \in imported' /\ n = 0)
      BY <1>2, TracedStep
    <2>4. ~Traced(m, id) => Queues(m, id) \/ (id \notin born /\ id \in imported' /\ m = 0)
      BY <1>2, TracedStep
    <2>5. (Traced(n, id) => id \in born) /\ (Traced(m, id) => id \in born)
      BY Untraced
    <2>6. ~(Queues(n, id) /\ Queues(m, id))
      BY <1>2 DEF Queues
    <2>7. ASSUME NEW k \in Nat, Queues(k, id), id \notin born, id \in imported'
          PROVE  FALSE
      <3>1. imported' = imported
        BY <2>7 DEF Queues, UiStep, captureVars
      <3> QED
        BY <2>7, <3>1 DEF NativeRooted
    <2> QED
      BY <1>2, <2>1, <2>2, <2>3, <2>4, <2>5, <2>6, <2>7 DEF Queues
  <1>3. \A o, p \in queue : o.cid = p.cid /\ o.n # p.n => o.cid \in mixed
    <2>1. \A o \in queue : o.n \in Nat /\ o.cid \in Ids /\ Traced(o.n, o.cid)
      BY DEF NativeTyped, TypeInv, TypeOK, IdbOK, PendingOperation, Traced, Live
    <2> QED
      BY <2>1 DEF Trail
  <1>4. /\ \A o, p \in sent' : o.cid = p.cid /\ o.n # p.n => o.cid \in mixed'
        /\ \A o, p \in later' : o.cid = p.cid /\ o.n # p.n => o.cid \in mixed'
    BY <1>0, <1>3, SentStep DEF Trail
  <1>5. ASSUME NEW c \in Callers, NEW o \in recon'[c].known, NEW i \in 1 .. Len(recon'[c].results),
               recon'[c].results[i].cid = o.cid, recon'[c].results[i].n # o.n
        PROVE  o.cid \in mixed'
    <2>1. ReconDraws(c)
      BY ReconStep
    <2>2. PICK j \in 1 .. Len(recon[c].results) : recon'[c].results[i] = recon[c].results[j]
      BY <1>5, <2>1 DEF ReconDraws
    <2>3. CASE o \in recon[c].known
      BY <1>0, <1>5, <2>2, <2>3 DEF Trail
    <2>4. CASE o \in queue
      <3> DEFINE r == recon[c].results[j]
      <3>1. r \in Reported
        BY DEF Reported
      <3>2. o.n \in Nat /\ o.cid \in Ids /\ Traced(o.n, o.cid)
        BY <2>4 DEF NativeTyped, TypeInv, TypeOK, IdbOK, PendingOperation, Traced, Live
      <3>3. r.n \in Nat
        <4>1. recon[c].results \in Seq(NativeResult)
          BY DEF NativeTyped, ReconTyped, ReconState
        <4>2. r \in NativeResult
          BY <4>1
        <4> QED
          BY <4>2 DEF NativeResult
      <3>4. Traced(r.n, o.cid)
        BY <1>5, <2>2, <3>1 DEF Traced
      <3>5. o.cid \in mixed
        BY <1>5, <2>2, <3>2, <3>3, <3>4 DEF Trail
      <3> QED
        BY <1>0, <3>5
    <2> QED
      BY <1>5, <2>1, <2>3, <2>4 DEF ReconDraws
  <1>6. ASSUME NEW r \in Reported' \cup results', r.status = "ok"
        PROVE  r.n \in accepted'
    <2>1. CASE r \in results'
      <3>1. r \in results \/ r.n \in accepted'
        BY <1>6, <2>1, SentStep
      <3> QED
        BY <1>0, <1>6, <3>1 DEF Trail
    <2>2. CASE r \in Reported'
      <3>1. ASSUME NEW q \in Reported, r.n = q.n, r.status \in {q.status, "failed"}
            PROVE  r.n \in accepted'
        <4>1. q.status = "ok"
          BY <1>6, <3>1
        <4> QED
          BY <1>0, <3>1, <4>1 DEF Trail
      <3>2. CASE Fresh(r)
        BY <1>6, <3>2 DEF Fresh
      <3> QED
        BY <2>2, <3>1, <3>2, ReportedStep
    <2> QED
      BY <1>6, <2>1, <2>2
  <1> QED
    BY <1>1, <1>2, <1>4, <1>5, <1>6 DEF Trail

-----------------------------------------------------------------------------
(* The theorems                                                            *)

\* The client starts with the inductive invariant: nothing is with the worker, a
\* plugin call or a reconciliation.
LEMMA NativeInitially == NativeInit => NativeInv
  <1> SUFFICES ASSUME NativeInit
               PROVE  NativeInv
    OBVIOUS
  <1>1. IndInv /\ Init
    BY Initially DEF NativeInit
  <1>2. TypeInv /\ Batch /\ Wishes /\ KeysFresh /\ KeysName /\ KeysUnique
    BY <1>1 DEF IndInv, TypeInv, Batch, Wishes
  <1>3. /\ outbox = NoOperations /\ journal = <<>> /\ worker = [w \in Workers |-> IdleWorker]
        /\ bridge = [a \in Activities |-> None] /\ recon = [c \in Callers |-> IdleRecon]
        /\ captured = NoRows /\ adopting = None /\ imported = {} /\ parked = {} /\ mixed = {}
    BY DEF NativeInit
  <1>4. \A c \in Callers : recon[c] = IdleRecon
    BY <1>3
  <1>5. \A w \in Workers : /\ worker[w].pc = "idle" /\ worker[w].todo = {} /\ worker[w].results = {}
                           /\ \A id \in Ids : worker[w].batch[id] = None
    BY <1>3 DEF IdleWorker, NoOperations
  <1>6. \A o \in Recalled : FALSE
    BY <1>4, OverType, RecalledAre
  <1>7. NativeTyped
    <2>1. CallsTyped
      BY <1>3 DEF CallsTyped
    <2>2. NoOperations \in [Ids -> PendingOperation \cup {None}] /\ {} \in SUBSET NativeResult
      BY DEF NoOperations
    <2>3. IdleWorker \in WorkerState
      BY <2>2 DEF IdleWorker, WorkerState
    <2>4. JobsTyped
      BY <1>3, <1>5, <2>3 DEF JobsTyped
    <2>5. OutboxTyped
      BY <1>3, <2>2 DEF OutboxTyped, NoOperations
    <2>6. ReconTyped
      BY <1>3, <1>4, OverType DEF ReconTyped
    <2>7. CapturesTyped
      BY <1>3, <1>4, OverType DEF CapturesTyped, NoRows, Callers
    <2>8. journal \in Seq(NativeResult)
      BY <1>3
    <2> QED
      BY <1>2, <2>1, <2>4, <2>5, <2>6, <2>7, <2>8 DEF NativeTyped
  <1>8. NativeKeys
    <2>1. \A o \in AllReferred : o \in Referred
      BY <1>6 DEF AllReferred
    <2> QED
      BY <1>2, <2>1 DEF NativeKeys, KeysFresh, KeysName
  <1>9. \A r \in Reported : FALSE
    <2>1. \A i \in 1 .. Len(<<>>) : FALSE
      OBVIOUS
    <2>2. \A i \in 1 .. Len(journal) : FALSE
      BY <1>3, <2>1
    <2>3. \A c \in Callers : \A i \in 1 .. Len(recon[c].results) : FALSE
      BY <1>4, <2>1, OverType
    <2> QED
      BY <1>5, <2>2, <2>3 DEF Reported
  <1>10. \A o \in Referred : FALSE
    BY <1>1 DEF Init, Referred, IdleUi
  <1>11. NativeRooted
    <2>1. Rooted
      BY <1>1, <1>10 DEF Init, Rooted, IdleUi, NoRows
    <2> QED
      BY <1>3, <1>5, <1>6, <1>9, <2>1 DEF NativeRooted, NoOperations, NoRows
  <1>12. Answered
    BY <1>3, <1>5, <1>9 DEF Answered, NoOperations
  <1>13. SafeRows
    BY <1>1 DEF IndInv, NoCreateLost, SafeRows, Safe
  <1>14. Adopted
    BY <1>3 DEF Adopted
  <1>15. Trail
    <2>1. ui.ops = {} /\ sent = {} /\ later = {} /\ results = {}
      BY <1>1 DEF Init, IdleUi
    <2>2. \A n \in Nat, id \in Ids : ~Traced(n, id)
      <3>1. \A o \in Live : FALSE
        BY <1>1 DEF Init, Live, IdleUi
      <3> QED
        BY <1>3, <1>4, <1>5, <1>9, <3>1, OverType DEF Traced, NoOperations
    <2>3. \A c \in Callers : recon[c].known = {}
      BY <1>4, OverType
    <2> QED
      BY <1>9, <2>1, <2>2, <2>3 DEF Trail
  <1> QED
    BY <1>2, <1>7, <1>8, <1>11, <1>12, <1>13, <1>14, <1>15 DEF NativeInv

\* Every step of the client and of the worker keeps it.
LEMMA NativeInductive == NativeInv /\ [NativeNext]_allVars => NativeInv'
  <1> SUFFICES ASSUME NativeInv, [NativeNext]_allVars
               PROVE  NativeInv'
    OBVIOUS
  <1>1. /\ NativeTyped /\ NativeKeys /\ Batch /\ Wishes
        /\ NativeRooted /\ Answered /\ SafeRows /\ Adopted /\ Trail
    BY DEF NativeInv
  <1>2. NativeTyped' /\ NativeKeys' /\ Batch' /\ Wishes'
    BY <1>1, NativeTypeStep, NativeKeysStep, NativeBatchStep, NativeWishesStep
  <1>3. NativeRooted' /\ Answered' /\ Trail'
    BY <1>1, <1>2, NativeRootedStep, AnsweredStep, TrailStep
  <1>4. SafeRows' /\ Adopted'
    BY <1>1, <1>2, SafeRowsStep, AdoptedStep
  <1> QED
    BY <1>2, <1>3, <1>4 DEF NativeInv

\* What the activity of the WebView, the worker, the reconciliations and the captures
\* keep of the outbox, the journal and the queue (native-outbox.ts, SyncOutbox.kt,
\* SyncWorker.kt), for every number of rows, imports, jobs, attempts and faults.
THEOREM NativeInvHolds == NativeSpec => []NativeInv
  <1> QED
    BY NativeInitially, NativeInductive, PTL DEF NativeSpec

\* The outbox has one operation per client id, a job only results of its own snapshot,
\* a reconciliation a result in hand at each of its awaits.
THEOREM NativeTypeCorrect == NativeSpec => []NativeTypeOK
  <1>1. NativeInv => NativeTypeOK
    <2> SUFFICES ASSUME NativeInv
                 PROVE  NativeTypeOK
      OBVIOUS
    <2>1. /\ TypeOK /\ JobsTyped /\ OutboxTyped /\ ReconTyped /\ CapturesTyped
          /\ journal \in Seq(NativeResult)
      BY DEF NativeInv, NativeTyped, TypeInv
    <2>2. \A w \in Workers :
            /\ worker[w].pc \in {"idle", "push", "settle"}
            /\ worker[w].batch \in [Ids -> PendingOperation \cup {None}]
            /\ worker[w].todo \subseteq {id \in Ids : worker[w].batch[id] # None}
            /\ worker[w].results \subseteq NativeResult
      BY <2>1 DEF JobsTyped, WorkerState
    <2>3. \A c \in Callers :
            /\ recon[c].pc \in {"idle", "read", "next", "mark", "drop", "fail", "ready"}
            /\ recon[c].results \in Seq(NativeResult)
            /\ recon[c].known \subseteq PendingOperation
            /\ recon[c].pc \in {"read", "next", "mark", "drop", "fail"} =>
                 recon[c].results # <<>>
      BY <2>1 DEF ReconTyped, ReconState
    <2> QED
      BY <2>1, <2>2, <2>3 DEF NativeTypeOK, OutboxTyped, CapturesTyped
  <1> QED
    BY <1>1, NativeInvHolds, PTL

\* A created row that is still wanted has reached the server or its create is queued,
\* also when the worker pushes the same operations and a reconciliation takes them out
\* of the queue on the worker's word.
THEOREM NativeCreatesSurvive == NativeSpec => []NativeNoCreateLost
  <1>1. NativeInv => NativeNoCreateLost
    BY DEF NativeInv, SafeRows, Safe, NativeNoCreateLost, NativeTyped, TypeInv, TypeOK, GhostOK
  <1> QED
    BY <1>1, NativeInvHolds, PTL

\* A capture imported while the app was closed stays in the outbox until it is on the
\* server, given up or changed again, wherever the process or the WebView dies.
THEOREM ImportsSurvive == NativeSpec => []CapturesSurvive
  <1>1. NativeInv => CapturesSurvive
    <2> SUFFICES ASSUME NativeInv, NEW id \in imported, id \notin waived, id \notin mixed,
                        intent[id] # None
                 PROVE  id \in stored \cup parked \/ (outbox[id] # None /\ outbox[id].type = "create")
      BY DEF CapturesSurvive
    <2> QED
      BY DEF NativeInv, Adopted, Excused, Gone
  <1> QED
    BY <1>1, NativeInvHolds, PTL

\* What takes an operation out of the queue on the worker's word, a pass's or the
\* user's.
LEMMA NativeLeaveStep ==
  ASSUME NativeInv, [NativeNext]_allVars, NEW x \in queue, \A p \in queue' : p.n # x.n
  PROVE  x.n \in accepted \/ ui.pc = "discard" \/ x.cid \in mixed
  <1>0. /\ NativeTyped /\ TypeInv /\ NativeKeys /\ Batch /\ Trail /\ x \in PendingOperation
        /\ \A o \in queue : o \in PendingOperation
    BY DEF NativeInv, NativeTyped, TypeInv, TypeOK, IdbOK
  <1>1. ~(queue \subseteq queue')
    OBVIOUS
  <1>2. \A o, p \in AllReferred : o.n = p.n => o.cid = p.cid
    BY <1>0 DEF NativeKeys
  <1>3. CASE UiStep
    <2>1. ASSUME NEW o \in ui.ops, RetryOp(o)
          PROVE  FALSE
      <3>1. queue' = Without(o.n) \cup {[o EXCEPT !.attempts = 0]}
            /\ [o EXCEPT !.attempts = 0].n = o.n
        BY <1>0, <2>1 DEF RetryOp, TypeInv, TypeOK, UiState, PendingOperation
      <3> QED
        BY <3>1 DEF Without
    <2>2. ASSUME NEW id \in Ids, HttpLoss(id)
          PROVE  FALSE
      BY <1>1, <2>2 DEF HttpLoss, Fallback, Enqueue
    <2> QED
      BY <1>1, <1>3, <2>1, <2>2
      DEF UiStep, Ui, Create, Update, Delete, Online, HttpRun, HttpReply, CreateRow, UpdateRead, UpdateRow,
          DeleteQueue, WithdrawRead, DeleteRow, Discard, DiscardOp, TakenBack, DiscardRow, DiscardDone, Retry,
          Enqueue, idbVars
  <1>4. CASE PassStep \/ StartStep \/ PassLoss
    <2>1. ASSUME NEW r \in results, RecordFailure(r)
          PROVE  FALSE
      <3>1. queue' = Without(held.n) \cup {[held EXCEPT !.attempts = @ + 1]}
            /\ [held EXCEPT !.attempts = @ + 1].n = held.n
        BY <1>0, <2>1 DEF RecordFailure, Failure, TypeInv, TypeOK, PullOK, PendingOperation
      <3> QED
        BY <3>1 DEF Without
    <2>2. ASSUME NEW r \in results, NEW o \in sent, AckDone(r, o)
          PROVE  x.n \in accepted \/ x.cid \in mixed
      <3>1. queue' = Without(o.n) /\ r.cid = o.cid
        BY <2>2 DEF AckDone, Answers
      <3>2. x.n = o.n
        BY <3>1 DEF Without
      <3>3. x.cid = o.cid
        BY <1>2, <3>2 DEF AllReferred, Referred
      <3>4. r.status = "ok"
        BY <1>0, <2>2 DEF AckDone, Batch, ResultsAnswer
      <3>5. PICK p \in sent : p.n = r.n /\ p.cid = r.cid
        BY <1>0 DEF Batch, ResultsAnswer
      <3>6. r.n \in accepted
        BY <1>0, <3>4 DEF Trail
      <3>7. CASE p.n = o.n
        BY <3>2, <3>5, <3>6, <3>7
      <3>8. CASE p.n # o.n
        BY <1>0, <3>1, <3>3, <3>5, <3>8 DEF Trail
      <3> QED
        BY <3>7, <3>8
    <2> QED
      BY <1>1, <1>4, <2>1, <2>2
      DEF PassStep, StartStep, PassLoss, StartSync, Pass, Loss, ServerApply, PushReply, AckRejected,
          AckCreated, MarkSynced, BatchDone, PullQuery, PullReply, Merge, ClearStore, FillStore,
          SaveLastSync, idbVars
  <1>5. ASSUME NEW c \in Callers, DropOp(c)
        PROVE  x.n \in accepted \/ x.cid \in mixed
    <2>1. PICK o \in recon[c].known : o.cid = Current(c).cid /\ queue' = Without(o.n)
      BY <1>0, <1>5, DropsAnswered
    <2>2. x.n = o.n
      BY <2>1 DEF Without
    <2>3. o \in AllReferred /\ x \in AllReferred
      BY RecalledAre DEF AllReferred, Referred
    <2>4. x.cid = o.cid
      BY <1>2, <2>2, <2>3
    <2>5. Current(c).n \in accepted
      BY <1>0, <1>5, DropsAnswered DEF Trail
    <2>6. PICK i \in 1 .. Len(recon[c].results) : Current(c) = recon[c].results[i]
      BY <1>0, <1>5, DropsAnswered
    <2>7. CASE Current(c).n = o.n
      BY <2>2, <2>5, <2>7
    <2>8. CASE Current(c).n # o.n
      BY <1>0, <2>1, <2>4, <2>6, <2>8 DEF Trail
    <2> QED
      BY <2>7, <2>8
  <1>6. ASSUME NEW c \in Callers, CountFailure(c)
        PROVE  FALSE
    <2>1. recon[c].held \in PendingOperation
      BY <1>0, <1>6 DEF CountFailure, NativeTyped, ReconTyped
    <2>2. PICK h \in PendingOperation : h = recon[c].held
      BY <2>1
    <2>3. queue' = Without(h.n) \cup {[h EXCEPT !.attempts = @ + 1]}
      BY <1>6, <2>2 DEF CountFailure, Failure
    <2>4. [h EXCEPT !.attempts = @ + 1].n = h.n
      BY DEF PendingOperation
    <2> QED
      BY <2>3, <2>4 DEF Without
  <1>7. CASE ~OfflineStep
    BY <1>1, <1>5, <1>6, <1>7, OwnFrame
  <1> QED
    BY <1>3, <1>4, <1>7 DEF OfflineStep

\* Whoever settles it, an operation leaves the queue accepted or withdrawn, unless a
\* second change of its row was queued before the first was settled.
THEOREM NativeOnlySettled == NativeSpec => NativeOnlySettledLeave
  <1>1. NativeInv /\ [NativeNext]_allVars =>
          [\A o \in queue :
             (\A p \in queue' : p.n # o.n) =>
               \/ o.n \in accepted
               \/ ui.pc = "discard"
               \/ o.cid \in mixed]_allVars
    BY NativeLeaveStep
  <1> QED
    BY <1>1, NativeInitially, NativeInductive, PTL DEF NativeSpec, NativeOnlySettledLeave
=============================================================================
