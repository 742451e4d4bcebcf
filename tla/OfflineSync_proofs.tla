------------------------- MODULE OfflineSync_proofs -------------------------
(***************************************************************************)
(* Proofs about OfflineSync, for every number of rows, values, operations  *)
(* and faults.                                                             *)
(***************************************************************************)
EXTENDS OfflineSync, TLAPS

USE SyncServerAssumption, OfflineSyncAssumption

-----------------------------------------------------------------------------
(* The operators of the model                                              *)

\* What a handler does to a row has the type of Outcome, and an accepted create
\* or update leaves a row.
LEMMA AppliedType ==
  ASSUME NEW op, op.type \in OpTypes, op.cid \in Ids, op.type # "delete" => op.val \in Vals,
         NEW row \in ServerRow \cup {None}, NEW now \in Nat
  PROVE  /\ Applied(op, row, now) \in Outcome
         /\ Applied(op, row, now).status = "ok" /\ op.type # "delete" =>
              Applied(op, row, now).row # None
  BY DEF Applied, CreateOutcome, UpdateOutcome, DeleteOutcome, Outcome, OpTypes, ServerRow, Kinds

\* A refusal of the server answers a status other than "ok" and keeps the row.
LEMMA RejectionsType ==
  ASSUME NEW op, NEW row \in ServerRow \cup {None}
  PROVE  /\ Rejections(op, row) \subseteq Outcome
         /\ \A out \in Rejections(op, row) : out.status # "ok" /\ out.row = row
  BY DEF Rejections, Outcome

\* The pull replaces the stores of this instance one after the other.
LEMMA NearestType ==
  ASSUME NEW stores \in SUBSET Kinds, stores # {}
  PROVE  Nearest(stores) \in stores /\ \A l \in stores : Position[Nearest(stores)] <= Position[l]
  <1>0. /\ Position["transaction"] = 1 /\ Position["category"] = 2 /\ Position["account"] = 3
        /\ \A k \in stores : k \in {"transaction", "category", "account"}
    BY DEF Kinds, Position
  <1>1. \E k \in stores : \A l \in stores : Position[k] <= Position[l]
    <2>1. CASE "transaction" \in stores
      BY <1>0, <2>1
    <2>2. CASE "transaction" \notin stores /\ "category" \in stores
      BY <1>0, <2>2
    <2>3. CASE "transaction" \notin stores /\ "category" \notin stores
      BY <1>0, <2>3
    <2> QED
      BY <2>1, <2>2, <2>3
  <1> QED
    BY <1>1 DEF Nearest

\* The stores left to replace are stores of the mirror, and a pull has at least one to replace.
LEMMA StoresAfterType ==
  /\ \A i \in Nat : StoresAfter(i) \subseteq Kinds
  /\ StoresAfter(0) # {}
  <1>1. \A id \in Ids : Kind[id] \in Kinds
    OBVIOUS
  <1>2. PICK id \in Ids : TRUE
    OBVIOUS
  <1>3. Position[Kind[id]] > 0
    BY <1>1, <1>2 DEF Position, Kinds
  <1> QED
    BY <1>1, <1>2, <1>3 DEF StoresAfter



-----------------------------------------------------------------------------
(* Type correctness                                                        *)

TypeInv == TypeOK /\ UiHolds

\* Every step of the client, the pass and the server keeps the types.
LEMMA TypeStep ==
  ASSUME TypeInv, [Next]_vars
  PROVE  TypeInv'
  <1> USE DEF TypeInv, TypeOK, UiHolds, Writing, ServerOK, IdbOK, BatchOK, PullOK, GhostOK, MirrorRow,
              Result, OpTypes, serverVars, idbVars, passVars, ghostVars, Put
  <1>1. ASSUME NEW id \in Ids, NEW v \in Vals, Create(id, v)
        PROVE  TypeInv'
    <2>1. ServerOK' /\ GhostOK'
      BY <1>1 DEF Create, Enqueue, UiState, PendingOperation
    <2>2. IdbOK'
      BY <1>1 DEF Create, Enqueue, UiState, PendingOperation
    <2>3. BatchOK' /\ PullOK'
      BY <1>1 DEF Create, Enqueue
    <2>4. ui' \in UiState /\ UiHolds'
      BY <1>1 DEF Create, Enqueue, UiState, IdleUi
    <2> QED
      BY <2>1, <2>2, <2>3, <2>4
  <1>2. ASSUME NEW id \in Ids, NEW v \in Vals, Update(id, v)
        PROVE  TypeInv'
    <2>1. ServerOK' /\ GhostOK'
      BY <1>2 DEF Update, Enqueue, Wish, UiState, PendingOperation
    <2>2. IdbOK'
      BY <1>2 DEF Update, Enqueue, Wish, UiState, PendingOperation
    <2>3. BatchOK' /\ PullOK'
      BY <1>2 DEF Update, Enqueue, Wish
    <2>4. ui' \in UiState /\ UiHolds'
      BY <1>2 DEF Update, Enqueue, Wish, UiState, IdleUi
    <2> QED
      BY <2>1, <2>2, <2>3, <2>4
  <1>3. ASSUME NEW id \in Ids, Delete(id)
        PROVE  TypeInv'
    <2>1. ServerOK' /\ GhostOK'
      BY <1>3 DEF Delete, UiState, PendingOperation
    <2>2. IdbOK'
      BY <1>3 DEF Delete, UiState, PendingOperation
    <2>3. BatchOK' /\ PullOK'
      BY <1>3 DEF Delete
    <2>4. ui' \in UiState /\ UiHolds'
      BY <1>3 DEF Delete, UiState, IdleUi
    <2> QED
      BY <2>1, <2>2, <2>3, <2>4
  <1>4. ASSUME NEW type \in OpTypes, NEW id \in Ids, NEW v \in Vals \cup {None},
                type # "delete" => v \in Vals, Online(type, id, v)
        PROVE  TypeInv'
    <2>1. ServerOK' /\ GhostOK'
      BY <1>4 DEF Online, UiState, PendingOperation
    <2>2. IdbOK'
      BY <1>4 DEF Online, UiState, PendingOperation
    <2>3. BatchOK' /\ PullOK'
      BY <1>4 DEF Online
    <2>4. ui' \in UiState /\ UiHolds'
      BY <1>4 DEF Online, UiState, IdleUi
    <2> QED
      BY <2>1, <2>2, <2>3, <2>4
  <1>5. ASSUME HttpRun
        PROVE  TypeInv'
    <2>1. ServerOK' /\ GhostOK'
      <3> DEFINE op == [n |-> 0, type |-> ui.type, cid |-> ui.id, val |-> ui.val, attempts |-> 0]
      <3>1. ui.type \in OpTypes /\ ui.id \in Ids /\ (ui.type # "delete" => ui.val \in Vals)
        BY <1>5 DEF HttpRun, UiState
      <3>2. Applied(op, db[ui.id], clock + 1) \in Outcome
        BY <3>1, AppliedType
      <3> QED
        BY <1>5, <3>1, <3>2 DEF HttpRun, Outcome
    <2>2. IdbOK'
      BY <1>5 DEF HttpRun, UiState, PendingOperation
    <2>3. BatchOK' /\ PullOK'
      BY <1>5 DEF HttpRun
    <2>4. ui' \in UiState /\ UiHolds'
      BY <1>5 DEF HttpRun, UiState, IdleUi
    <2> QED
      BY <2>1, <2>2, <2>3, <2>4
  <1>6. ASSUME HttpReply
        PROVE  TypeInv'
    BY <1>6 DEF HttpReply, Settled, UiState, IdleUi, PendingOperation
  <1>7. ASSUME CreateRow
        PROVE  TypeInv'
    <2>1. ServerOK' /\ GhostOK'
      BY <1>7 DEF CreateRow, LocalOnly, UiState, PendingOperation
    <2>2. IdbOK'
      <3>1. LocalOnly(ui.val) \in MirrorRow /\ ui.id \in Ids
        BY <1>7 DEF CreateRow, LocalOnly
      <3> QED
        BY <1>7, <3>1 DEF CreateRow
    <2>3. BatchOK' /\ PullOK'
      BY <1>7 DEF CreateRow, LocalOnly
    <2>4. ui' \in UiState /\ UiHolds'
      BY <1>7 DEF CreateRow, LocalOnly, UiState, IdleUi
    <2> QED
      BY <2>1, <2>2, <2>3, <2>4
  <1>8. ASSUME UpdateRead
        PROVE  TypeInv'
    <2>1. ServerOK' /\ GhostOK'
      BY <1>8 DEF UpdateRead, UiState, PendingOperation
    <2>2. IdbOK'
      BY <1>8 DEF UpdateRead, UiState, PendingOperation
    <2>3. BatchOK' /\ PullOK'
      BY <1>8 DEF UpdateRead
    <2>4. ui' \in UiState /\ UiHolds'
      BY <1>8 DEF UpdateRead, UiState, IdleUi
    <2> QED
      BY <2>1, <2>2, <2>3, <2>4
  <1>9. ASSUME UpdateRow
        PROVE  TypeInv'
    <2>1. ServerOK' /\ GhostOK'
      BY <1>9 DEF UpdateRow, UiState, PendingOperation
    <2>2. IdbOK'
      <3>1. [ui.row EXCEPT !.val = ui.val] \in MirrorRow /\ ui.id \in Ids
        BY <1>9 DEF UpdateRow
      <3> QED
        BY <1>9, <3>1 DEF UpdateRow
    <2>3. BatchOK' /\ PullOK'
      BY <1>9 DEF UpdateRow
    <2>4. ui' \in UiState /\ UiHolds'
      BY <1>9 DEF UpdateRow, UiState, IdleUi
    <2> QED
      BY <2>1, <2>2, <2>3, <2>4
  <1>10. ASSUME DeleteQueue
        PROVE  TypeInv'
    BY <1>10 DEF DeleteQueue, Enqueue, UiState, IdleUi, PendingOperation
  <1>11. ASSUME WithdrawRead
        PROVE  TypeInv'
    <2>1. ServerOK' /\ GhostOK'
      BY <1>11 DEF WithdrawRead, UiState, PendingOperation
    <2>2. IdbOK'
      BY <1>11 DEF WithdrawRead, UiState, PendingOperation
    <2>3. BatchOK' /\ PullOK'
      BY <1>11 DEF WithdrawRead
    <2>4. ui' \in UiState /\ UiHolds'
      BY <1>11 DEF WithdrawRead, UiState, IdleUi
    <2> QED
      BY <2>1, <2>2, <2>3, <2>4
  <1>12. ASSUME DeleteRow
        PROVE  TypeInv'
    BY <1>12 DEF DeleteRow, UiState, IdleUi, PendingOperation
  <1>13. ASSUME NEW o \in PendingOperation, Discard(o)
        PROVE  TypeInv'
    <2>1. ServerOK' /\ GhostOK'
      BY <1>13 DEF Discard, UiState, PendingOperation
    <2>2. IdbOK'
      BY <1>13 DEF Discard, UiState, PendingOperation
    <2>3. BatchOK' /\ PullOK'
      BY <1>13 DEF Discard
    <2>4. ui' \in UiState /\ UiHolds'
      BY <1>13 DEF Discard, UiState, IdleUi
    <2> QED
      BY <2>1, <2>2, <2>3, <2>4
  <1>14. ASSUME NEW o \in PendingOperation, DiscardOp(o)
        PROVE  TypeInv'
    BY <1>14 DEF DiscardOp, TakenBack, Without, UiState, IdleUi, PendingOperation
  <1>15. ASSUME NEW o \in PendingOperation, DiscardRow(o)
        PROVE  TypeInv'
    <2>1. ServerOK' /\ GhostOK'
      BY <1>15 DEF DiscardRow, Settled, UiState, PendingOperation
    <2>2. IdbOK'
      BY <1>15 DEF DiscardRow, Settled, UiState, PendingOperation
    <2>3. BatchOK' /\ PullOK'
      BY <1>15 DEF DiscardRow, Settled
    <2>4. ui' \in UiState /\ UiHolds'
      BY <1>15 DEF DiscardRow, Settled, UiState, IdleUi
    <2> QED
      BY <2>1, <2>2, <2>3, <2>4
  <1>16. ASSUME NEW o \in PendingOperation, RetryOp(o)
        PROVE  TypeInv'
    BY <1>16 DEF RetryOp, Without, UiState, IdleUi, PendingOperation
  <1>17. ASSUME DiscardDone
        PROVE  TypeInv'
    BY <1>17 DEF DiscardDone, TakenBack, UiState, IdleUi, PendingOperation
  <1>18. ASSUME Retry
        PROVE  TypeInv'
    <2>1. ServerOK' /\ GhostOK'
      BY <1>18 DEF Retry, UiState, PendingOperation
    <2>2. IdbOK'
      BY <1>18 DEF Retry, UiState, PendingOperation
    <2>3. BatchOK' /\ PullOK'
      BY <1>18 DEF Retry
    <2>4. ui' \in UiState /\ UiHolds'
      BY <1>18 DEF Retry, UiState, IdleUi
    <2> QED
      BY <2>1, <2>2, <2>3, <2>4
  <1>19. ASSUME StartSync
        PROVE  TypeInv'
    <2>1. ServerOK' /\ GhostOK'
      BY <1>19 DEF StartSync, FirstBatch, SendBatch, Doubles
    <2>2. IdbOK' /\ ui' \in UiState /\ UiHolds'
      BY <1>19 DEF StartSync
    <2>3. BatchOK' /\ PullOK'
      BY <1>19 DEF StartSync, FirstBatch, SendBatch
    <2> QED
      BY <2>1, <2>2, <2>3
  <1>20. ASSUME NEW op \in todo, ServerApply(op)
        PROVE  TypeInv'
    <2>1. ServerOK' /\ GhostOK'
      <3>1. PICK out \in Outcome :
              /\ db' = Put(db, op.cid, out.row)
              /\ clock' = IF out.row # None /\ out.row # db[op.cid] THEN clock + 1 ELSE clock
              /\ stored' = IF out.row # None THEN stored \cup {op.cid} ELSE stored
              /\ accepted' = IF out.status = "ok" THEN accepted \cup {op.n} ELSE accepted
        <4>1. Applied(op, db[op.cid], clock + 1) \in Outcome
          BY AppliedType DEF PendingOperation
        <4>2. Rejections(op, db[op.cid]) \subseteq Outcome
          BY RejectionsType DEF PendingOperation
        <4> QED
          BY <1>20, <4>1, <4>2 DEF ServerApply
      <3> QED
        BY <1>20, <3>1 DEF ServerApply, Outcome, PendingOperation
    <2>2. IdbOK'
      BY <1>20 DEF ServerApply, UiState, PendingOperation
    <2>3. BatchOK' /\ PullOK'
      <3>1. PICK out \in Outcome :
              results' = results \cup {[n |-> op.n, cid |-> op.cid, status |-> out.status]}
        <4>1. Applied(op, db[op.cid], clock + 1) \in Outcome
          BY AppliedType DEF PendingOperation
        <4>2. Rejections(op, db[op.cid]) \subseteq Outcome
          BY RejectionsType DEF PendingOperation
        <4> QED
          BY <1>20, <4>1, <4>2 DEF ServerApply
      <3>2. [n |-> op.n, cid |-> op.cid, status |-> out.status] \in Result
        BY DEF Outcome, PendingOperation
      <3> QED
        BY <1>20, <3>1, <3>2 DEF ServerApply
    <2>4. ui' \in UiState /\ UiHolds'
      BY <1>20 DEF ServerApply, UiState, IdleUi
    <2> QED
      BY <2>1, <2>2, <2>3, <2>4
  <1>21. ASSUME PushReply
        PROVE  TypeInv'
    BY <1>21 DEF PushReply, UiState, IdleUi, PendingOperation
  <1>22. ASSUME NEW r \in results, RecordFailure(r)
        PROVE  TypeInv'
    BY <1>22 DEF RecordFailure, Without, Failure, UiState, IdleUi, PendingOperation
  <1>23. ASSUME NEW r \in results, NEW o \in sent, AckRejected(r, o)
        PROVE  TypeInv'
    BY <1>23 DEF AckRejected, Numbered, Answers, UiState, IdleUi, PendingOperation
  <1>24. ASSUME NEW r \in results, NEW o \in sent, AckCreated(r, o)
        PROVE  TypeInv'
    BY <1>24 DEF AckCreated, Answers, MarkOrDrop, UiState, IdleUi, PendingOperation
  <1>25. ASSUME NEW r \in results, NEW o \in sent, MarkSynced(r, o)
        PROVE  TypeInv'
    BY <1>25 DEF MarkSynced, Answers, Settled, UiState, IdleUi, PendingOperation
  <1>26. ASSUME NEW r \in results, NEW o \in sent, AckDone(r, o)
        PROVE  TypeInv'
    BY <1>26 DEF AckDone, Without, UiState, IdleUi, PendingOperation
  <1>27. ASSUME BatchDone
        PROVE  TypeInv'
    <2>1. ServerOK' /\ GhostOK'
      BY <1>27 DEF BatchDone, SendBatch, Doubles
    <2>2. IdbOK'
      BY <1>27 DEF BatchDone, SendBatch, PushOver, UiState, PendingOperation
    <2>3. BatchOK' /\ PullOK'
      <3>1. CASE PushOver
        BY <1>27, <3>1 DEF BatchDone
      <3>2. CASE ~PushOver
        <4>1. /\ pc' = "push" /\ sent' = later /\ todo' = later /\ later' = {} /\ failed' = FALSE
              /\ UNCHANGED <<results, held, pulled, stamp, store>>
          BY <1>27, <3>2 DEF BatchDone, SendBatch
        <4> QED
          BY <4>1
      <3> QED
        BY <3>1, <3>2
    <2>4. ui' \in UiState /\ UiHolds'
      BY <1>27 DEF BatchDone, SendBatch, PushOver, UiState, IdleUi
    <2> QED
      BY <2>1, <2>2, <2>3, <2>4
  <1>28. ASSUME PullQuery
        PROVE  TypeInv'
    BY <1>28 DEF PullQuery, ServerRow, UiState, IdleUi, PendingOperation
  <1>29. ASSUME PullReply
        PROVE  TypeInv'
    <2>1. ServerOK' /\ GhostOK'
      BY <1>29 DEF PullReply, UiState, PendingOperation
    <2>2. IdbOK'
      BY <1>29 DEF PullReply, UiState, PendingOperation
    <2>3. BatchOK' /\ PullOK'
      BY <1>29, NearestType, StoresAfterType DEF PullReply
    <2>4. ui' \in UiState /\ UiHolds'
      BY <1>29 DEF PullReply, UiState, IdleUi
    <2> QED
      BY <2>1, <2>2, <2>3, <2>4
  <1>30. ASSUME Merge
        PROVE  TypeInv'
    BY <1>30 DEF Merge, MergedRow, Settled, UiState, IdleUi, PendingOperation
  <1>31. ASSUME ClearStore
        PROVE  TypeInv'
    BY <1>31 DEF ClearStore, UiState, IdleUi, PendingOperation
  <1>32. ASSUME FillStore
        PROVE  TypeInv'
    <2>1. ServerOK' /\ GhostOK'
      BY <1>32 DEF FillStore, UiState, PendingOperation
    <2>2. IdbOK'
      BY <1>32 DEF FillStore, UiState, PendingOperation
    <2>3. BatchOK' /\ PullOK'
      BY <1>32, NearestType, StoresAfterType DEF FillStore, Kinds, Position
    <2>4. ui' \in UiState /\ UiHolds'
      BY <1>32 DEF FillStore, UiState, IdleUi
    <2> QED
      BY <2>1, <2>2, <2>3, <2>4
  <1>33. ASSUME SaveLastSync
        PROVE  TypeInv'
    BY <1>33 DEF SaveLastSync, NoRows, UiState, IdleUi, PendingOperation
  <1>34. ASSUME Loss
        PROVE  TypeInv'
    <2>1. ServerOK' /\ GhostOK'
      BY <1>34 DEF Loss, Fault, PassReset, NoRows, UiState, PendingOperation
    <2>2. IdbOK'
      BY <1>34 DEF Loss, Fault, PassReset, NoRows, UiState, PendingOperation
    <2>3. BatchOK' /\ PullOK'
      BY <1>34 DEF Loss, PassReset, NoRows, Kinds
    <2>4. ui' \in UiState /\ UiHolds'
      BY <1>34 DEF Loss, Fault, PassReset, NoRows, UiState, IdleUi
    <2> QED
      BY <2>1, <2>2, <2>3, <2>4
  <1>35. ASSUME NEW id \in Ids, HttpLoss(id)
        PROVE  TypeInv'
    <2>1. ServerOK' /\ GhostOK'
      BY <1>35 DEF HttpLoss, Enqueue, Fallback, Fault, UiState, PendingOperation
    <2>2. IdbOK'
      BY <1>35 DEF HttpLoss, Enqueue, Fallback, Fault, UiState, PendingOperation
    <2>3. BatchOK' /\ PullOK'
      BY <1>35 DEF HttpLoss, Enqueue, Fallback, Fault
    <2>4. ui' \in UiState /\ UiHolds'
      BY <1>35 DEF HttpLoss, Enqueue, Fallback, Fault, UiState, IdleUi
    <2> QED
      BY <2>1, <2>2, <2>3, <2>4
  <1>36. ASSUME Crash
        PROVE  TypeInv'
    <2>1. ServerOK' /\ GhostOK'
      BY <1>36 DEF Crash, Fault, PassReset, NoRows, UiState, PendingOperation
    <2>2. IdbOK'
      BY <1>36 DEF Crash, Fault, PassReset, NoRows, UiState, PendingOperation
    <2>3. BatchOK' /\ PullOK'
      BY <1>36 DEF Crash, PassReset, NoRows, Kinds
    <2>4. ui' \in UiState /\ UiHolds'
      BY <1>36 DEF Crash, Fault, PassReset, NoRows, UiState, IdleUi
    <2> QED
      BY <2>1, <2>2, <2>3, <2>4
  <1>37. ASSUME NEW id \in Ids, OtherDelete(id)
        PROVE  TypeInv'
    BY <1>37 DEF OtherDelete, Fault, UiState, IdleUi, PendingOperation
  <1>38. ASSUME NEW id \in Ids, NEW v \in Vals, OtherWrite(id, v)
        PROVE  TypeInv'
    BY <1>38 DEF OtherWrite, Fault, ServerRow, UiState, IdleUi, PendingOperation
  <1>39. CASE UNCHANGED vars
    BY <1>39 DEF vars, Answers
  <1>40. ASSUME Ui
         PROVE  TypeInv'
    <2>1. /\ queue \subseteq PendingOperation /\ ui.ops \subseteq PendingOperation
          /\ "create" \in OpTypes /\ "update" \in OpTypes /\ "delete" \in OpTypes
      BY DEF UiState
    <2> QED
      BY <1>40, <2>1, <1>1, <1>2, <1>3, <1>4, <1>5, <1>6, <1>7, <1>8, <1>9, <1>10, <1>11, <1>12, <1>13, <1>14, <1>15, <1>16, <1>17, <1>18 DEF Ui
  <1>41. ASSUME Pass
         PROVE  TypeInv'
    BY <1>41, <1>20, <1>21, <1>22, <1>23, <1>24, <1>25, <1>26, <1>27, <1>28, <1>29, <1>30, <1>31, <1>32, <1>33 DEF Pass
  <1>42. ASSUME Environment
         PROVE  TypeInv'
    BY <1>42, <1>34, <1>35, <1>36, <1>37, <1>38 DEF Environment
  <1> QED
    BY <1>19, <1>39, <1>40, <1>41, <1>42 DEF Next

-----------------------------------------------------------------------------
(* Keys of the queue                                                       *)

Keys == KeysFresh /\ KeysName /\ KeysUnique

\* The same mutation of the same row.
Same(o, p) == o.n = p.n /\ o.cid = p.cid /\ o.type = p.type

\* A step that draws no key and refers to no new mutation keeps the keys distinct.
LEMMA KeysKept ==
  ASSUME KeysFresh, KeysName, nextOp' = nextOp,
         \A o \in Referred' : \E p \in Referred : Same(o, p)
  PROVE  KeysFresh' /\ KeysName'
  BY DEF KeysFresh, KeysName, Same

\* A queued operation gets a key nobody refers to.
LEMMA KeysAdded ==
  ASSUME TypeInv, KeysFresh, KeysName, nextOp' = nextOp + 1,
         NEW new, new.n = nextOp,
         \A o \in Referred' : o = new \/ o \in Referred
  PROVE  KeysFresh' /\ KeysName'
  <1>1. \A o \in Referred : o.n \in Nat
    BY DEF TypeInv, TypeOK, IdbOK, BatchOK, PullOK, UiState, Referred, PendingOperation
  <1>2. nextOp \in Nat
    BY DEF TypeInv, TypeOK, IdbOK
  <1> QED
    BY <1>1, <1>2 DEF KeysFresh, KeysName

\* Operations that are queued, or that a handler has read and may write back.
Live == queue \cup ui.ops \cup {o \in {held} : pc = "fail"}

\* Where a step takes the operations it leaves queued, in a batch or in hand from:
\* they were queued or in hand, or one is new and has the next key and the row of the
\* user operation.
Draws ==
  /\ sent' \cup later' \subseteq sent \cup later \cup queue
  /\ \/ nextOp' = nextOp /\ \A q \in Live' : \E p \in Live : Same(q, p)
     \/ /\ nextOp' = nextOp + 1
        /\ \E new \in queue' : /\ new.n = nextOp /\ new.cid = ui'.id
                              /\ \A q \in Live' : q = new \/ q \in Live

\* No step makes an operation up: it copies one, or draws one key.
LEMMA DrawsStep ==
  ASSUME TypeInv, [Next]_vars
  PROVE  Draws
  <1> USE DEF serverVars, idbVars, passVars, ghostVars
  <1>1. ASSUME NEW id \in Ids, NEW v \in Vals, Create(id, v)
        PROVE  Draws
    <2> DEFINE new == [n |-> nextOp, type |-> "create", cid |-> id, val |-> v, attempts |-> 0]
    <2>1. \A o \in Live' : o = new \/ o \in Live
      BY <1>1 DEF Create, Enqueue, IdleUi, Live, TypeInv, TypeOK, UiState
    <2>2. nextOp' = nextOp + 1 /\ sent' \cup later' \subseteq sent \cup later \cup queue
      BY <1>1 DEF Create, Enqueue, FirstBatch, SendBatch, PassReset, Enqueue, Fallback
    <2>3. new \in queue' /\ new.n = nextOp /\ new.cid = ui'.id
      BY <1>1 DEF Create, Enqueue, IdleUi, UiState, TypeInv, TypeOK
    <2> QED
      BY <2>1, <2>2, <2>3 DEF Draws
  <1>2. ASSUME NEW id \in Ids, NEW v \in Vals, Update(id, v)
        PROVE  Draws
    <2> DEFINE new == [n |-> nextOp, type |-> "update", cid |-> id, val |-> v, attempts |-> 0]
    <2>1. \A o \in Live' : o = new \/ o \in Live
      BY <1>2 DEF Update, Enqueue, IdleUi, Live, TypeInv, TypeOK, UiState
    <2>2. nextOp' = nextOp + 1 /\ sent' \cup later' \subseteq sent \cup later \cup queue
      BY <1>2 DEF Update, Enqueue, FirstBatch, SendBatch, PassReset, Enqueue, Fallback
    <2>3. new \in queue' /\ new.n = nextOp /\ new.cid = ui'.id
      BY <1>2 DEF Update, Enqueue, IdleUi, UiState, TypeInv, TypeOK
    <2> QED
      BY <2>1, <2>2, <2>3 DEF Draws
  <1>3. ASSUME NEW id \in Ids, Delete(id)
        PROVE  Draws
    <2>1. \A q \in Live' : \E p \in Live : Same(q, p)
      BY <1>3 DEF Delete, IdleUi, Live, Same, TypeInv, TypeOK, UiState
    <2>2. nextOp' = nextOp /\ sent' \cup later' \subseteq sent \cup later \cup queue
      BY <1>3 DEF Delete, FirstBatch, SendBatch, PassReset, Enqueue, Fallback
    <2> QED
      BY <2>1, <2>2 DEF Draws
  <1>4. ASSUME NEW type \in OpTypes, NEW id \in Ids, NEW v \in Vals \cup {None}, Online(type, id, v)
        PROVE  Draws
    <2>1. \A q \in Live' : \E p \in Live : Same(q, p)
      BY <1>4 DEF Online, IdleUi, Live, Same, TypeInv, TypeOK, UiState
    <2>2. nextOp' = nextOp /\ sent' \cup later' \subseteq sent \cup later \cup queue
      BY <1>4 DEF Online, FirstBatch, SendBatch, PassReset, Enqueue, Fallback
    <2> QED
      BY <2>1, <2>2 DEF Draws
  <1>5. ASSUME HttpRun
        PROVE  Draws
    <2>1. \A q \in Live' : \E p \in Live : Same(q, p)
      BY <1>5 DEF HttpRun, IdleUi, Live, Same, TypeInv, TypeOK, UiState
    <2>2. nextOp' = nextOp /\ sent' \cup later' \subseteq sent \cup later \cup queue
      BY <1>5 DEF HttpRun, FirstBatch, SendBatch, PassReset, Enqueue, Fallback
    <2> QED
      BY <2>1, <2>2 DEF Draws
  <1>6. ASSUME HttpReply
        PROVE  Draws
    <2>1. \A q \in Live' : \E p \in Live : Same(q, p)
      BY <1>6 DEF HttpReply, IdleUi, Live, Same, TypeInv, TypeOK, UiState
    <2>2. nextOp' = nextOp /\ sent' \cup later' \subseteq sent \cup later \cup queue
      BY <1>6 DEF HttpReply, FirstBatch, SendBatch, PassReset, Enqueue, Fallback
    <2> QED
      BY <2>1, <2>2 DEF Draws
  <1>7. ASSUME CreateRow
        PROVE  Draws
    <2>1. \A q \in Live' : \E p \in Live : Same(q, p)
      BY <1>7 DEF CreateRow, IdleUi, Live, Same, TypeInv, TypeOK, UiState
    <2>2. nextOp' = nextOp /\ sent' \cup later' \subseteq sent \cup later \cup queue
      BY <1>7 DEF CreateRow, FirstBatch, SendBatch, PassReset, Enqueue, Fallback
    <2> QED
      BY <2>1, <2>2 DEF Draws
  <1>8. ASSUME UpdateRead
        PROVE  Draws
    <2>1. \A q \in Live' : \E p \in Live : Same(q, p)
      BY <1>8 DEF UpdateRead, IdleUi, Live, Same, TypeInv, TypeOK, UiState
    <2>2. nextOp' = nextOp /\ sent' \cup later' \subseteq sent \cup later \cup queue
      BY <1>8 DEF UpdateRead, FirstBatch, SendBatch, PassReset, Enqueue, Fallback
    <2> QED
      BY <2>1, <2>2 DEF Draws
  <1>9. ASSUME UpdateRow
        PROVE  Draws
    <2>1. \A q \in Live' : \E p \in Live : Same(q, p)
      BY <1>9 DEF UpdateRow, IdleUi, Live, Same, TypeInv, TypeOK, UiState
    <2>2. nextOp' = nextOp /\ sent' \cup later' \subseteq sent \cup later \cup queue
      BY <1>9 DEF UpdateRow, FirstBatch, SendBatch, PassReset, Enqueue, Fallback
    <2> QED
      BY <2>1, <2>2 DEF Draws
  <1>10. ASSUME DeleteQueue
        PROVE  Draws
    <2> DEFINE new == [n |-> nextOp, type |-> "delete", cid |-> ui.id, val |-> None, attempts |-> 0]
    <2>1. \A o \in Live' : o = new \/ o \in Live
      BY <1>10 DEF DeleteQueue, Enqueue, Live, TypeInv, TypeOK, UiState
    <2>2. nextOp' = nextOp + 1 /\ sent' \cup later' \subseteq sent \cup later \cup queue
      BY <1>10 DEF DeleteQueue, FirstBatch, SendBatch, PassReset, Enqueue, Fallback
    <2>3. new \in queue' /\ new.n = nextOp /\ new.cid = ui'.id
      BY <1>10 DEF DeleteQueue, Enqueue, UiState, TypeInv, TypeOK
    <2> QED
      BY <2>1, <2>2, <2>3 DEF Draws
  <1>11. ASSUME WithdrawRead
        PROVE  Draws
    <2>1. \A q \in Live' : \E p \in Live : Same(q, p)
      BY <1>11 DEF WithdrawRead, Live, Same, TypeInv, TypeOK, UiState
    <2>2. nextOp' = nextOp /\ sent' \cup later' \subseteq sent \cup later \cup queue
      BY <1>11 DEF WithdrawRead, FirstBatch, SendBatch, PassReset, Enqueue, Fallback
    <2> QED
      BY <2>1, <2>2 DEF Draws
  <1>12. ASSUME DeleteRow
        PROVE  Draws
    <2>1. \A q \in Live' : \E p \in Live : Same(q, p)
      BY <1>12 DEF DeleteRow, IdleUi, Live, Same, TypeInv, TypeOK, UiState
    <2>2. nextOp' = nextOp /\ sent' \cup later' \subseteq sent \cup later \cup queue
      BY <1>12 DEF DeleteRow, FirstBatch, SendBatch, PassReset, Enqueue, Fallback
    <2> QED
      BY <2>1, <2>2 DEF Draws
  <1>13. ASSUME NEW o \in PendingOperation, Discard(o)
        PROVE  Draws
    <2>1. \A q \in Live' : \E p \in Live : Same(q, p)
      BY <1>13 DEF Discard, IdleUi, Live, Same, TypeInv, TypeOK, UiState
    <2>2. nextOp' = nextOp /\ sent' \cup later' \subseteq sent \cup later \cup queue
      BY <1>13 DEF Discard, FirstBatch, SendBatch, PassReset, Enqueue, Fallback
    <2> QED
      BY <2>1, <2>2 DEF Draws
  <1>14. ASSUME NEW o \in PendingOperation, DiscardOp(o)
        PROVE  Draws
    <2>1. \A q \in Live' : \E p \in Live : Same(q, p)
      BY <1>14 DEF DiscardOp, TakenBack, Without, Live, Same, TypeInv, TypeOK, UiState
    <2>2. nextOp' = nextOp /\ sent' \cup later' \subseteq sent \cup later \cup queue
      BY <1>14 DEF DiscardOp, TakenBack, FirstBatch, SendBatch, PassReset, Enqueue, Fallback
    <2> QED
      BY <2>1, <2>2 DEF Draws
  <1>15. ASSUME NEW o \in PendingOperation, DiscardRow(o)
        PROVE  Draws
    <2>1. \A q \in Live' : \E p \in Live : Same(q, p)
      BY <1>15 DEF DiscardRow, Live, Same, TypeInv, TypeOK, UiState
    <2>2. nextOp' = nextOp /\ sent' \cup later' \subseteq sent \cup later \cup queue
      BY <1>15 DEF DiscardRow, FirstBatch, SendBatch, PassReset, Enqueue, Fallback
    <2> QED
      BY <2>1, <2>2 DEF Draws
  <1>16. ASSUME NEW o \in PendingOperation, RetryOp(o)
        PROVE  Draws
    <2> DEFINE f == [o EXCEPT !.attempts = 0]
    <2>0. Same(f, o) /\ o \in Live /\ queue' = Without(o.n) \cup {f}
      BY <1>16 DEF RetryOp, Same, Live, PendingOperation
    <2>1. \A q \in Live' : \E p \in Live : Same(q, p)
      <3>1. \A q \in Live' : q = f \/ q \in Live
        BY <1>16, <2>0 DEF RetryOp, Without, IdleUi, Live, TypeInv, TypeOK, UiState
      <3> QED
        BY <3>1, <2>0 DEF Same
    <2>2. nextOp' = nextOp /\ sent' \cup later' \subseteq sent \cup later \cup queue
      BY <1>16 DEF RetryOp, FirstBatch, SendBatch, PassReset, Enqueue, Fallback
    <2> QED
      BY <2>1, <2>2 DEF Draws
  <1>17. ASSUME DiscardDone
        PROVE  Draws
    <2>1. \A q \in Live' : \E p \in Live : Same(q, p)
      BY <1>17 DEF DiscardDone, IdleUi, Live, Same, TypeInv, TypeOK, UiState
    <2>2. nextOp' = nextOp /\ sent' \cup later' \subseteq sent \cup later \cup queue
      BY <1>17 DEF DiscardDone, FirstBatch, SendBatch, PassReset, Enqueue, Fallback
    <2> QED
      BY <2>1, <2>2 DEF Draws
  <1>18. ASSUME Retry
        PROVE  Draws
    <2>1. \A q \in Live' : \E p \in Live : Same(q, p)
      BY <1>18 DEF Retry, IdleUi, Live, Same, TypeInv, TypeOK, UiState
    <2>2. nextOp' = nextOp /\ sent' \cup later' \subseteq sent \cup later \cup queue
      BY <1>18 DEF Retry, FirstBatch, SendBatch, PassReset, Enqueue, Fallback
    <2> QED
      BY <2>1, <2>2 DEF Draws
  <1>19. ASSUME StartSync
        PROVE  Draws
    <2>1. \A q \in Live' : \E p \in Live : Same(q, p)
      BY <1>19 DEF StartSync, FirstBatch, SendBatch, Live, Same, TypeInv, TypeOK, UiState
    <2>2. nextOp' = nextOp /\ sent' \cup later' \subseteq sent \cup later \cup queue
      BY <1>19 DEF StartSync, FirstBatch, SendBatch, PassReset, Enqueue, Fallback
    <2> QED
      BY <2>1, <2>2 DEF Draws
  <1>20. ASSUME NEW op \in todo, ServerApply(op)
        PROVE  Draws
    <2>1. \A q \in Live' : \E p \in Live : Same(q, p)
      BY <1>20 DEF ServerApply, Live, Same, TypeInv, TypeOK, UiState
    <2>2. nextOp' = nextOp /\ sent' \cup later' \subseteq sent \cup later \cup queue
      BY <1>20 DEF ServerApply, FirstBatch, SendBatch, PassReset, Enqueue, Fallback
    <2> QED
      BY <2>1, <2>2 DEF Draws
  <1>21. ASSUME PushReply
        PROVE  Draws
    <2>1. \A q \in Live' : \E p \in Live : Same(q, p)
      BY <1>21 DEF PushReply, Live, Same, TypeInv, TypeOK, UiState
    <2>2. nextOp' = nextOp /\ sent' \cup later' \subseteq sent \cup later \cup queue
      BY <1>21 DEF PushReply, FirstBatch, SendBatch, PassReset, Enqueue, Fallback
    <2> QED
      BY <2>1, <2>2 DEF Draws
  <1>22. ASSUME NEW r \in results, RecordFailure(r)
        PROVE  Draws
    <2> DEFINE f == [held EXCEPT !.attempts = @ + 1]
    <2>0. Same(f, held) /\ held \in Live /\ queue' = Without(held.n) \cup {f}
      BY <1>22 DEF RecordFailure, Failure, Same, Live, TypeInv, TypeOK, PullOK, PendingOperation
    <2>1. \A q \in Live' : \E p \in Live : Same(q, p)
      <3>1. \A o \in Live' : o = f \/ o \in Live
        BY <1>22, <2>0 DEF RecordFailure, Without, Live
      <3> QED
        BY <3>1, <2>0 DEF Same
    <2>2. nextOp' = nextOp /\ sent' \cup later' \subseteq sent \cup later \cup queue
      BY <1>22 DEF RecordFailure, FirstBatch, SendBatch, PassReset, Enqueue, Fallback
    <2> QED
      BY <2>1, <2>2 DEF Draws
  <1>23. ASSUME NEW r \in results, NEW o \in sent, AckRejected(r, o)
        PROVE  Draws
    <2>1. \A q \in Live' : \E p \in Live : Same(q, p)
      BY <1>23 DEF AckRejected, Numbered, Answers, Live, Same, TypeInv, TypeOK, UiState
    <2>2. nextOp' = nextOp /\ sent' \cup later' \subseteq sent \cup later \cup queue
      BY <1>23 DEF AckRejected, FirstBatch, SendBatch, PassReset, Enqueue, Fallback
    <2> QED
      BY <2>1, <2>2 DEF Draws
  <1>24. ASSUME NEW r \in results, NEW o \in sent, AckCreated(r, o)
        PROVE  Draws
    <2>1. \A q \in Live' : \E p \in Live : Same(q, p)
      BY <1>24 DEF AckCreated, MarkOrDrop, Live, Same, TypeInv, TypeOK, UiState
    <2>2. nextOp' = nextOp /\ sent' \cup later' \subseteq sent \cup later \cup queue
      BY <1>24 DEF AckCreated, FirstBatch, SendBatch, PassReset, Enqueue, Fallback
    <2> QED
      BY <2>1, <2>2 DEF Draws
  <1>25. ASSUME NEW r \in results, NEW o \in sent, MarkSynced(r, o)
        PROVE  Draws
    <2>1. \A q \in Live' : \E p \in Live : Same(q, p)
      BY <1>25 DEF MarkSynced, Live, Same, TypeInv, TypeOK, UiState
    <2>2. nextOp' = nextOp /\ sent' \cup later' \subseteq sent \cup later \cup queue
      BY <1>25 DEF MarkSynced, FirstBatch, SendBatch, PassReset, Enqueue, Fallback
    <2> QED
      BY <2>1, <2>2 DEF Draws
  <1>26. ASSUME NEW r \in results, NEW o \in sent, AckDone(r, o)
        PROVE  Draws
    <2>1. \A q \in Live' : \E p \in Live : Same(q, p)
      BY <1>26 DEF AckDone, Without, Live, Same, TypeInv, TypeOK, UiState
    <2>2. nextOp' = nextOp /\ sent' \cup later' \subseteq sent \cup later \cup queue
      BY <1>26 DEF AckDone, FirstBatch, SendBatch, PassReset, Enqueue, Fallback
    <2> QED
      BY <2>1, <2>2 DEF Draws
  <1>27. ASSUME BatchDone
        PROVE  Draws
    <2>1. \A q \in Live' : \E p \in Live : Same(q, p)
      BY <1>27 DEF BatchDone, SendBatch, Live, Same, TypeInv, TypeOK, UiState
    <2>2. nextOp' = nextOp /\ sent' \cup later' \subseteq sent \cup later \cup queue
      BY <1>27 DEF BatchDone, FirstBatch, SendBatch, PassReset, Enqueue, Fallback
    <2> QED
      BY <2>1, <2>2 DEF Draws
  <1>28. ASSUME PullQuery
        PROVE  Draws
    <2>1. \A q \in Live' : \E p \in Live : Same(q, p)
      BY <1>28 DEF PullQuery, Live, Same, TypeInv, TypeOK, UiState
    <2>2. nextOp' = nextOp /\ sent' \cup later' \subseteq sent \cup later \cup queue
      BY <1>28 DEF PullQuery, FirstBatch, SendBatch, PassReset, Enqueue, Fallback
    <2> QED
      BY <2>1, <2>2 DEF Draws
  <1>29. ASSUME PullReply
        PROVE  Draws
    <2>1. \A q \in Live' : \E p \in Live : Same(q, p)
      BY <1>29 DEF PullReply, Live, Same, TypeInv, TypeOK, UiState
    <2>2. nextOp' = nextOp /\ sent' \cup later' \subseteq sent \cup later \cup queue
      BY <1>29 DEF PullReply, FirstBatch, SendBatch, PassReset, Enqueue, Fallback
    <2> QED
      BY <2>1, <2>2 DEF Draws
  <1>30. ASSUME Merge
        PROVE  Draws
    <2>1. \A q \in Live' : \E p \in Live : Same(q, p)
      BY <1>30 DEF Merge, Live, Same, TypeInv, TypeOK, UiState
    <2>2. nextOp' = nextOp /\ sent' \cup later' \subseteq sent \cup later \cup queue
      BY <1>30 DEF Merge, FirstBatch, SendBatch, PassReset, Enqueue, Fallback
    <2> QED
      BY <2>1, <2>2 DEF Draws
  <1>31. ASSUME ClearStore
        PROVE  Draws
    <2>1. \A q \in Live' : \E p \in Live : Same(q, p)
      BY <1>31 DEF ClearStore, Live, Same, TypeInv, TypeOK, UiState
    <2>2. nextOp' = nextOp /\ sent' \cup later' \subseteq sent \cup later \cup queue
      BY <1>31 DEF ClearStore, FirstBatch, SendBatch, PassReset, Enqueue, Fallback
    <2> QED
      BY <2>1, <2>2 DEF Draws
  <1>32. ASSUME FillStore
        PROVE  Draws
    <2>1. \A q \in Live' : \E p \in Live : Same(q, p)
      BY <1>32 DEF FillStore, Live, Same, TypeInv, TypeOK, UiState
    <2>2. nextOp' = nextOp /\ sent' \cup later' \subseteq sent \cup later \cup queue
      BY <1>32 DEF FillStore, FirstBatch, SendBatch, PassReset, Enqueue, Fallback
    <2> QED
      BY <2>1, <2>2 DEF Draws
  <1>33. ASSUME SaveLastSync
        PROVE  Draws
    <2>1. \A q \in Live' : \E p \in Live : Same(q, p)
      BY <1>33 DEF SaveLastSync, Live, Same, TypeInv, TypeOK, UiState
    <2>2. nextOp' = nextOp /\ sent' \cup later' \subseteq sent \cup later \cup queue
      BY <1>33 DEF SaveLastSync, FirstBatch, SendBatch, PassReset, Enqueue, Fallback
    <2> QED
      BY <2>1, <2>2 DEF Draws
  <1>34. ASSUME Loss
        PROVE  Draws
    <2>1. \A q \in Live' : \E p \in Live : Same(q, p)
      BY <1>34 DEF Loss, PassReset, Live, Same, TypeInv, TypeOK, UiState
    <2>2. nextOp' = nextOp /\ sent' \cup later' \subseteq sent \cup later \cup queue
      BY <1>34 DEF Loss, FirstBatch, SendBatch, PassReset, Enqueue, Fallback
    <2> QED
      BY <2>1, <2>2 DEF Draws
  <1>35. ASSUME NEW id \in Ids, HttpLoss(id)
        PROVE  Draws
    <2> DEFINE new == [n |-> nextOp, type |-> ui.type, cid |-> id, val |-> ui.val, attempts |-> 0]
    <2>1. \A o \in Live' : o = new \/ o \in Live
      BY <1>35 DEF HttpLoss, Enqueue, Fallback, Live, TypeInv, TypeOK, UiState
    <2>2. nextOp' = nextOp + 1 /\ sent' \cup later' \subseteq sent \cup later \cup queue
      BY <1>35 DEF HttpLoss, Enqueue, Fallback, FirstBatch, SendBatch, PassReset, Enqueue, Fallback
    <2>3. new \in queue' /\ new.n = nextOp /\ new.cid = ui'.id
      BY <1>35 DEF HttpLoss, Enqueue, Fallback, UiState, TypeInv, TypeOK
    <2> QED
      BY <2>1, <2>2, <2>3 DEF Draws
  <1>36. ASSUME Crash
        PROVE  Draws
    <2>1. \A q \in Live' : \E p \in Live : Same(q, p)
      BY <1>36 DEF Crash, PassReset, IdleUi, Live, Same, TypeInv, TypeOK, UiState
    <2>2. nextOp' = nextOp /\ sent' \cup later' \subseteq sent \cup later \cup queue
      BY <1>36 DEF Crash, FirstBatch, SendBatch, PassReset, Enqueue, Fallback
    <2> QED
      BY <2>1, <2>2 DEF Draws
  <1>37. ASSUME NEW id \in Ids, OtherDelete(id)
        PROVE  Draws
    <2>1. \A q \in Live' : \E p \in Live : Same(q, p)
      BY <1>37 DEF OtherDelete, Live, Same, TypeInv, TypeOK, UiState
    <2>2. nextOp' = nextOp /\ sent' \cup later' \subseteq sent \cup later \cup queue
      BY <1>37 DEF OtherDelete, FirstBatch, SendBatch, PassReset, Enqueue, Fallback
    <2> QED
      BY <2>1, <2>2 DEF Draws
  <1>38. ASSUME NEW id \in Ids, NEW v \in Vals, OtherWrite(id, v)
        PROVE  Draws
    <2>1. \A q \in Live' : \E p \in Live : Same(q, p)
      BY <1>38 DEF OtherWrite, Live, Same, TypeInv, TypeOK, UiState
    <2>2. nextOp' = nextOp /\ sent' \cup later' \subseteq sent \cup later \cup queue
      BY <1>38 DEF OtherWrite, FirstBatch, SendBatch, PassReset, Enqueue, Fallback
    <2> QED
      BY <2>1, <2>2 DEF Draws
  <1>39. CASE UNCHANGED vars
    BY <1>39 DEF vars, Draws, Live, Same
  <1>40. ASSUME Ui
         PROVE  Draws
    <2>1. /\ queue \subseteq PendingOperation /\ ui.ops \subseteq PendingOperation
          /\ "create" \in OpTypes /\ "update" \in OpTypes /\ "delete" \in OpTypes
      BY DEF TypeInv, TypeOK, IdbOK, UiState, OpTypes
    <2> QED
      BY <1>40, <2>1, <1>1, <1>2, <1>3, <1>4, <1>5, <1>6, <1>7, <1>8, <1>9, <1>10, <1>11, <1>12, <1>13, <1>14, <1>15, <1>16, <1>17, <1>18 DEF Ui
  <1>41. ASSUME Pass
         PROVE  Draws
    BY <1>41, <1>20, <1>21, <1>22, <1>23, <1>24, <1>25, <1>26, <1>27, <1>28, <1>29, <1>30, <1>31, <1>32, <1>33 DEF Pass
  <1>42. ASSUME Environment
         PROVE  Draws
    BY <1>42, <1>34, <1>35, <1>36, <1>37, <1>38 DEF Environment
  <1> QED
    BY <1>19, <1>39, <1>40, <1>41, <1>42 DEF Next

\* A write back replaces the operation with its key, and an enqueue adds a key.
LEMMA UniqueStep ==
  ASSUME TypeInv, Keys, [Next]_vars
  PROVE  KeysUnique'
  <1> USE DEF Keys, serverVars, idbVars, passVars, ghostVars
  <1>1. ASSUME NEW id \in Ids, NEW v \in Vals, Create(id, v)
        PROVE  KeysUnique'
    BY <1>1 DEF Create, Enqueue, IdleUi, KeysUnique, KeysFresh, Referred, TypeInv, TypeOK, IdbOK, BatchOK, UiState, PendingOperation
  <1>2. ASSUME NEW id \in Ids, NEW v \in Vals, Update(id, v)
        PROVE  KeysUnique'
    BY <1>2 DEF Update, Enqueue, IdleUi, KeysUnique, KeysFresh, Referred, TypeInv, TypeOK, IdbOK, BatchOK, UiState, PendingOperation
  <1>3. ASSUME NEW id \in Ids, Delete(id)
        PROVE  KeysUnique'
    BY <1>3 DEF Delete, IdleUi, KeysUnique
  <1>4. ASSUME NEW type \in OpTypes, NEW id \in Ids, NEW v \in Vals \cup {None}, Online(type, id, v)
        PROVE  KeysUnique'
    BY <1>4 DEF Online, IdleUi, KeysUnique
  <1>5. ASSUME HttpRun
        PROVE  KeysUnique'
    BY <1>5 DEF HttpRun, IdleUi, KeysUnique
  <1>6. ASSUME HttpReply
        PROVE  KeysUnique'
    BY <1>6 DEF HttpReply, IdleUi, KeysUnique
  <1>7. ASSUME CreateRow
        PROVE  KeysUnique'
    BY <1>7 DEF CreateRow, IdleUi, KeysUnique
  <1>8. ASSUME UpdateRead
        PROVE  KeysUnique'
    BY <1>8 DEF UpdateRead, IdleUi, KeysUnique
  <1>9. ASSUME UpdateRow
        PROVE  KeysUnique'
    BY <1>9 DEF UpdateRow, IdleUi, KeysUnique
  <1>10. ASSUME DeleteQueue
        PROVE  KeysUnique'
    BY <1>10 DEF DeleteQueue, Enqueue, KeysUnique, KeysFresh, Referred, TypeInv, TypeOK, IdbOK, BatchOK, UiState, PendingOperation
  <1>11. ASSUME WithdrawRead
        PROVE  KeysUnique'
    BY <1>11 DEF WithdrawRead, KeysUnique
  <1>12. ASSUME DeleteRow
        PROVE  KeysUnique'
    BY <1>12 DEF DeleteRow, IdleUi, KeysUnique
  <1>13. ASSUME NEW o \in PendingOperation, Discard(o)
        PROVE  KeysUnique'
    BY <1>13 DEF Discard, IdleUi, KeysUnique
  <1>14. ASSUME NEW o \in PendingOperation, DiscardOp(o)
        PROVE  KeysUnique'
    BY <1>14 DEF DiscardOp, TakenBack, Without, KeysUnique
  <1>15. ASSUME NEW o \in PendingOperation, DiscardRow(o)
        PROVE  KeysUnique'
    BY <1>15 DEF DiscardRow, KeysUnique
  <1>16. ASSUME NEW o \in PendingOperation, RetryOp(o)
        PROVE  KeysUnique'
    <2> DEFINE f == [o EXCEPT !.attempts = 0]
    <2>0. Same(f, o) /\ o \in Referred /\ queue' = Without(o.n) \cup {f}
      BY <1>16 DEF RetryOp, Same, Referred, PendingOperation
    <2> QED
      BY <1>16, <2>0 DEF RetryOp, Without, KeysUnique, Same
  <1>17. ASSUME DiscardDone
        PROVE  KeysUnique'
    BY <1>17 DEF DiscardDone, IdleUi, KeysUnique
  <1>18. ASSUME Retry
        PROVE  KeysUnique'
    BY <1>18 DEF Retry, IdleUi, KeysUnique
  <1>19. ASSUME StartSync
        PROVE  KeysUnique'
    BY <1>19 DEF StartSync, FirstBatch, SendBatch, KeysUnique
  <1>20. ASSUME NEW op \in todo, ServerApply(op)
        PROVE  KeysUnique'
    BY <1>20 DEF ServerApply, KeysUnique
  <1>21. ASSUME PushReply
        PROVE  KeysUnique'
    BY <1>21 DEF PushReply, KeysUnique
  <1>22. ASSUME NEW r \in results, RecordFailure(r)
        PROVE  KeysUnique'
    <2> DEFINE f == [held EXCEPT !.attempts = @ + 1]
    <2>0. Same(f, held) /\ held \in Referred /\ queue' = Without(held.n) \cup {f}
      BY <1>22 DEF RecordFailure, Failure, Same, Referred, TypeInv, TypeOK, PullOK, PendingOperation
    <2> QED
      BY <1>22, <2>0 DEF RecordFailure, Without, KeysUnique, Same
  <1>23. ASSUME NEW r \in results, NEW o \in sent, AckRejected(r, o)
        PROVE  KeysUnique'
    BY <1>23 DEF AckRejected, Numbered, Answers, KeysUnique
  <1>24. ASSUME NEW r \in results, NEW o \in sent, AckCreated(r, o)
        PROVE  KeysUnique'
    BY <1>24 DEF AckCreated, MarkOrDrop, KeysUnique
  <1>25. ASSUME NEW r \in results, NEW o \in sent, MarkSynced(r, o)
        PROVE  KeysUnique'
    BY <1>25 DEF MarkSynced, KeysUnique
  <1>26. ASSUME NEW r \in results, NEW o \in sent, AckDone(r, o)
        PROVE  KeysUnique'
    BY <1>26 DEF AckDone, Without, KeysUnique
  <1>27. ASSUME BatchDone
        PROVE  KeysUnique'
    BY <1>27 DEF BatchDone, SendBatch, KeysUnique
  <1>28. ASSUME PullQuery
        PROVE  KeysUnique'
    BY <1>28 DEF PullQuery, KeysUnique
  <1>29. ASSUME PullReply
        PROVE  KeysUnique'
    BY <1>29 DEF PullReply, KeysUnique
  <1>30. ASSUME Merge
        PROVE  KeysUnique'
    BY <1>30 DEF Merge, KeysUnique
  <1>31. ASSUME ClearStore
        PROVE  KeysUnique'
    BY <1>31 DEF ClearStore, KeysUnique
  <1>32. ASSUME FillStore
        PROVE  KeysUnique'
    BY <1>32 DEF FillStore, KeysUnique
  <1>33. ASSUME SaveLastSync
        PROVE  KeysUnique'
    BY <1>33 DEF SaveLastSync, KeysUnique
  <1>34. ASSUME Loss
        PROVE  KeysUnique'
    BY <1>34 DEF Loss, PassReset, KeysUnique
  <1>35. ASSUME NEW id \in Ids, HttpLoss(id)
        PROVE  KeysUnique'
    BY <1>35 DEF HttpLoss, Enqueue, Fallback, KeysUnique, KeysFresh, Referred, TypeInv, TypeOK, IdbOK, BatchOK, UiState, PendingOperation
  <1>36. ASSUME Crash
        PROVE  KeysUnique'
    BY <1>36 DEF Crash, PassReset, IdleUi, KeysUnique
  <1>37. ASSUME NEW id \in Ids, OtherDelete(id)
        PROVE  KeysUnique'
    BY <1>37 DEF OtherDelete, KeysUnique
  <1>38. ASSUME NEW id \in Ids, NEW v \in Vals, OtherWrite(id, v)
        PROVE  KeysUnique'
    BY <1>38 DEF OtherWrite, KeysUnique
  <1>39. CASE UNCHANGED vars
    BY <1>39 DEF vars, KeysUnique
  <1>40. ASSUME Ui
         PROVE  KeysUnique'
    <2>1. /\ queue \subseteq PendingOperation /\ ui.ops \subseteq PendingOperation
          /\ "create" \in OpTypes /\ "update" \in OpTypes /\ "delete" \in OpTypes
      BY DEF TypeInv, TypeOK, IdbOK, UiState, OpTypes
    <2> QED
      BY <1>40, <2>1, <1>1, <1>2, <1>3, <1>4, <1>5, <1>6, <1>7, <1>8, <1>9, <1>10, <1>11, <1>12, <1>13, <1>14, <1>15, <1>16, <1>17, <1>18 DEF Ui
  <1>41. ASSUME Pass
         PROVE  KeysUnique'
    BY <1>41, <1>20, <1>21, <1>22, <1>23, <1>24, <1>25, <1>26, <1>27, <1>28, <1>29, <1>30, <1>31, <1>32, <1>33 DEF Pass
  <1>42. ASSUME Environment
         PROVE  KeysUnique'
    BY <1>42, <1>34, <1>35, <1>36, <1>37, <1>38 DEF Environment
  <1> QED
    BY <1>19, <1>39, <1>40, <1>41, <1>42 DEF Next

\* No two mutations in the queue, in a batch or in a handler ever share a key.
LEMMA KeysStep ==
  ASSUME TypeInv, Keys, [Next]_vars
  PROVE  Keys'
  <1>1. Draws /\ KeysUnique' /\ KeysFresh /\ KeysName
    BY DrawsStep, UniqueStep DEF Keys
  <1>2. /\ Referred = Live \cup sent \cup later
        /\ Referred' = Live' \cup sent' \cup later'
    BY DEF Referred, Live
  <1>3. CASE nextOp' = nextOp /\ \A q \in Live' : \E p \in Live : Same(q, p)
    <2>1. \A q \in Referred' : \E p \in Referred : Same(q, p)
      BY <1>1, <1>2, <1>3 DEF Draws, Same, Live
    <2> QED
      BY <1>1, <1>3, <2>1, KeysKept DEF Keys
  <1>4. CASE nextOp' = nextOp + 1
    <2>1. PICK new \in queue' : new.n = nextOp /\ \A q \in Live' : q = new \/ q \in Live
      BY <1>1, <1>4 DEF Draws, TypeInv, TypeOK, IdbOK
    <2>2. \A q \in Referred' : q = new \/ q \in Referred
      BY <1>1, <1>2, <2>1 DEF Draws, Live
    <2> QED
      BY <1>1, <1>4, <2>1, <2>2, KeysAdded DEF Keys
  <1> QED
    BY <1>1, <1>3, <1>4 DEF Draws

-----------------------------------------------------------------------------
(* Batches and their results                                               *)

\* What each activity leaves alone.
LEMMA UiFrame ==
  ASSUME Ui
  PROVE  UNCHANGED passVars /\ stored \subseteq stored' /\ waived \subseteq waived'
  BY DEF Ui, Create, Update, Delete, Online, HttpRun, HttpReply, CreateRow, UpdateRead, UpdateRow,
         DeleteQueue, WithdrawRead, DeleteRow, Discard, DiscardOp, TakenBack, DiscardRow, RetryOp,
         DiscardDone, Retry, ghostVars

\* A pass writes nothing of the handlers, and the server never forgets a row it stored.
LEMMA PassFrame ==
  ASSUME StartSync \/ Pass
  PROVE  /\ UNCHANGED <<nextOp, ui, faults, born, intent, waived>>
         /\ stored \subseteq stored'
  BY DEF Pass, StartSync, ServerApply, PushReply, RecordFailure, AckRejected, AckCreated,
         MarkSynced, AckDone, BatchDone, PullQuery, PullReply, Merge, ClearStore, FillStore,
         SaveLastSync, ghostVars, idbVars

Batch == BatchUniform /\ ResultsAnswer

\* The head result of a batch answers one operation.
LEMMA AnswerUnique ==
  ASSUME TypeInv, Keys, Batch,
         NEW r \in results, NEW o \in sent, Answers(r, o),
         NEW q \in results, NEW p \in sent, Answers(q, p)
  PROVE  q = r /\ p = o
  <1>1. r.n \in Nat /\ q.n \in Nat /\ o.n \in Nat /\ p.n \in Nat
    BY DEF TypeInv, TypeOK, BatchOK, Result, PendingOperation
  <1>2. q = r
    BY <1>1 DEF Answers, Batch, ResultsAnswer
  <1> QED
    BY <1>1, <1>2 DEF Answers, Keys, KeysUnique

\* Every result the pass holds answers a mutation of the batch it was sent for.
LEMMA BatchStep ==
  ASSUME TypeInv, Keys, Batch, [Next]_vars
  PROVE  Batch'
  <1> USE DEF Batch
  <1>1. CASE Ui
    BY <1>1, UiFrame DEF passVars, BatchUniform, ResultsAnswer, Answers
  <1>2. CASE StartSync
    BY <1>2 DEF StartSync, FirstBatch, SendBatch, BatchUniform, ResultsAnswer, Answers, TypeInv, TypeOK, BatchOK
  <1>3. ASSUME NEW op \in todo, ServerApply(op)
        PROVE  Batch'
    <2> DEFINE r(out) == [n |-> op.n, cid |-> op.cid, status |-> out.status]
    <2>1. PICK out \in {Applied(op, db[op.cid], clock + 1)} \cup Rejections(op, db[op.cid]) :
            /\ results' = results \cup {r(out)}
            /\ stored' = IF out.row # None THEN stored \cup {op.cid} ELSE stored
      BY <1>3 DEF ServerApply
    <2>2. out.status = "ok" /\ op.type = "create" => op.cid \in stored'
      <3>1. CASE out = Applied(op, db[op.cid], clock + 1)
        BY <2>1, <3>1, AppliedType DEF TypeInv, TypeOK, ServerOK, BatchOK, PendingOperation
      <3>2. CASE out \in Rejections(op, db[op.cid])
        BY <2>1, <3>2, RejectionsType DEF TypeInv, TypeOK, ServerOK, BatchOK, PendingOperation
      <3> QED
        BY <2>1, <3>1, <3>2
    <2>3. /\ UNCHANGED <<pc, sent, later>> /\ pc = "push" /\ op \in sent
          /\ todo' = todo \ {op} /\ stored \subseteq stored'
      BY <1>3, <2>1 DEF ServerApply, TypeInv, TypeOK, BatchOK
    <2>4. BatchUniform'
      BY <2>3 DEF BatchUniform
    <2>5. \A q \in results' : \E o \in sent' :
            /\ o.n = q.n /\ o.cid = q.cid
            /\ q.status = "ok" /\ o.type = "create" => q.cid \in stored'
      <3>1. ASSUME NEW q \in results
            PROVE  \E o \in sent' :
                     /\ o.n = q.n /\ o.cid = q.cid
                     /\ q.status = "ok" /\ o.type = "create" => q.cid \in stored'
        BY <2>3 DEF ResultsAnswer
      <3>2. /\ op.n = r(out).n /\ op.cid = r(out).cid
            /\ r(out).status = "ok" /\ op.type = "create" => r(out).cid \in stored'
        BY <2>2
      <3> QED
        BY <2>1, <2>3, <3>1, <3>2
    <2>6. \A q, w \in results' : q.n = w.n => q = w
      BY <2>1 DEF ResultsAnswer
    <2>7. \A q \in results', o \in todo' : q.n # o.n
      <3>1. \A o \in todo' : o.n # op.n
        BY <2>3 DEF Keys, KeysUnique, TypeInv, TypeOK, BatchOK
      <3> QED
        BY <2>1, <2>3, <3>1 DEF ResultsAnswer
    <2> QED
      BY <2>3, <2>4, <2>5, <2>6, <2>7 DEF ResultsAnswer
  <1>4. CASE PushReply
    BY <1>4 DEF PushReply, BatchUniform, ResultsAnswer, Answers, ghostVars
  <1>5. ASSUME NEW r \in results, RecordFailure(r)
        PROVE  Batch'
    BY <1>5 DEF RecordFailure, BatchUniform, ResultsAnswer, ghostVars
  <1>6. ASSUME NEW r \in results, NEW o \in sent, AckRejected(r, o)
        PROVE  Batch'
    BY <1>6 DEF AckRejected, BatchUniform, ResultsAnswer, ghostVars
  <1>7. ASSUME NEW r \in results, NEW o \in sent, AckCreated(r, o)
        PROVE  Batch'
    <2>1. \A q \in results, p \in sent : Answers(q, p) => q = r /\ p = o
      BY <1>7, AnswerUnique DEF AckCreated
    <2>2. UNCHANGED <<sent, todo, results, later, stored>> /\ pc' \in {"mark", "drop"}
      BY <1>7 DEF AckCreated, MarkOrDrop, ghostVars
    <2>3. pc' \in {"mark", "drop"} =>
            \A q \in results', p \in sent' : Answers(q, p)' => q.status = "ok" /\ p.type = "create"
      BY <1>7, <2>1, <2>2 DEF AckCreated, Answers
    <2> QED
      BY <1>7, <2>2, <2>3 DEF AckCreated, BatchUniform, ResultsAnswer
  <1>8. ASSUME NEW r \in results, NEW o \in sent, MarkSynced(r, o)
        PROVE  Batch'
    BY <1>8 DEF MarkSynced, BatchUniform, ResultsAnswer, Answers, ghostVars
  <1>9. ASSUME NEW r \in results, NEW o \in sent, AckDone(r, o)
        PROVE  Batch'
    BY <1>9 DEF AckDone, BatchUniform, ResultsAnswer, ghostVars
  <1>10. CASE BatchDone
    BY <1>10 DEF BatchDone, SendBatch, BatchUniform, ResultsAnswer, Answers
  <1>11. CASE PullQuery \/ PullReply \/ Merge \/ ClearStore \/ FillStore \/ SaveLastSync
    BY <1>11 DEF PullQuery, PullReply, Merge, ClearStore, FillStore, SaveLastSync, BatchUniform,
                 ResultsAnswer, Answers, ghostVars
  <1>12. CASE Environment
    BY <1>12 DEF Environment, Loss, HttpLoss, Crash, OtherDelete, OtherWrite, PassReset,
                 BatchUniform, ResultsAnswer, Answers, passVars, ghostVars
  <1>13. CASE UNCHANGED vars
    BY <1>13 DEF vars, BatchUniform, ResultsAnswer, Answers
  <1> QED
    BY <1>1, <1>2, <1>3, <1>4, <1>5, <1>6, <1>7, <1>8, <1>9, <1>10, <1>11, <1>12, <1>13
    DEF Next, Pass

-----------------------------------------------------------------------------
(* What the user withdrew                                                  *)

Wishes == DiscardsWithdrawn /\ WishesBorn

\* The mutations a discard is dropping are waived, and only rows the user made are edited.
LEMMA WishesStep ==
  ASSUME TypeInv, Wishes, [Next]_vars
  PROVE  Wishes'
  <1> USE DEF Wishes, DiscardsWithdrawn, WishesBorn, TypeInv, TypeOK, UiState, IdleUi, GhostOK, Put
  <1>1. ASSUME NEW id \in Ids, NEW v \in Vals, Create(id, v)
        PROVE  Wishes'
    BY <1>1 DEF Create
  <1>2. ASSUME NEW id \in Ids, NEW v \in Vals, Update(id, v)
        PROVE  Wishes'
    BY <1>2 DEF Update, Wish
  <1>3. ASSUME NEW id \in Ids, Delete(id)
        PROVE  Wishes'
    <2>1. ui'.pc \in {"withdraw", "delete"} /\ UNCHANGED <<born, intent, waived>>
      BY <1>3 DEF Delete, ghostVars
    <2> QED
      BY <2>1
  <1>4. ASSUME NEW type \in OpTypes, NEW id \in Ids, NEW v \in Vals \cup {None}, Online(type, id, v)
        PROVE  Wishes'
    BY <1>4 DEF Online
  <1>5. CASE HttpRun
    <2>1. /\ ui'.pc \in {"idle", "reply"} /\ ui'.id \in {None, ui.id} /\ UNCHANGED <<born, waived>>
          /\ ui'.pc = "reply" => ui'.id = ui.id /\ ui'.type = ui.type
      BY <1>5 DEF HttpRun
    <2>2. /\ ui.id \in Ids /\ ui.id \in born /\ (ui.type = "update" => ui.val \in Vals)
          /\ intent' \in {intent, [intent EXCEPT ![ui.id] = None], [intent EXCEPT ![ui.id] = ui.val]}
          /\ ui.type = "update" => intent' \in {intent, [intent EXCEPT ![ui.id] = ui.val]}
      BY <1>5 DEF HttpRun, UiHolds, Writing
    <2> QED
      BY <1>5, <2>1, <2>2 DEF HttpRun
  <1>6. CASE HttpReply
    BY <1>6 DEF HttpReply, ghostVars
  <1>7. CASE CreateRow
    BY <1>7 DEF CreateRow, ghostVars
  <1>8. CASE UpdateRead
    BY <1>8 DEF UpdateRead, ghostVars
  <1>9. CASE UpdateRow
    BY <1>9 DEF UpdateRow, ghostVars
  <1>10. CASE DeleteQueue
    BY <1>10 DEF DeleteQueue
  <1>11. CASE WithdrawRead
    BY <1>11 DEF WithdrawRead, UiHolds, ghostVars
  <1>12. CASE DeleteRow
    BY <1>12 DEF DeleteRow
  <1>13. ASSUME NEW o \in queue, Discard(o)
        PROVE  Wishes'
    BY <1>13 DEF Discard
  <1>14. ASSUME NEW o \in ui.ops, DiscardOp(o)
        PROVE  Wishes'
    BY <1>14 DEF DiscardOp, TakenBack
  <1>15. ASSUME NEW o \in ui.ops, DiscardRow(o)
        PROVE  Wishes'
    BY <1>15 DEF DiscardRow, ghostVars
  <1>16. ASSUME NEW o \in ui.ops, RetryOp(o)
        PROVE  Wishes'
    BY <1>16 DEF RetryOp, ghostVars
  <1>17. CASE DiscardDone
    BY <1>17 DEF DiscardDone, TakenBack
  <1>18. CASE Retry
    BY <1>18 DEF Retry, ghostVars
  <1>19. CASE Ui
    <2>1. "create" \in OpTypes /\ "update" \in OpTypes /\ "delete" \in OpTypes
      BY DEF OpTypes
    <2> QED
      BY <1>19, <2>1, <1>1, <1>2, <1>3, <1>4, <1>5, <1>6, <1>7, <1>8, <1>9, <1>10, <1>11, <1>12, <1>13, <1>14, <1>15, <1>16, <1>17, <1>18 DEF Ui
  <1>20. CASE StartSync \/ Pass
    BY <1>20, PassFrame
  <1>21. CASE Loss \/ Crash \/ \E id \in Ids : OtherDelete(id) \/ \E v \in Vals : OtherWrite(id, v)
    BY <1>21 DEF Loss, Crash, OtherDelete, OtherWrite, ghostVars
  <1>22. ASSUME NEW id \in Ids, HttpLoss(id)
         PROVE  Wishes'
    <2>1. /\ ui'.pc \in {"create", "update", "remove"} /\ waived' = waived /\ born' = born \cup {id}
          /\ ui.id \in born
      BY <1>22 DEF HttpLoss, OpTypes
    <2>2. \A i \in Ids : intent'[i] # None => intent[i] # None \/ i = id
      BY <1>22 DEF HttpLoss, OpTypes
    <2> QED
      BY <2>1, <2>2
  <1>23. CASE UNCHANGED vars
    BY <1>23 DEF vars
  <1> QED
    BY <1>19, <1>20, <1>21, <1>22, <1>23 DEF Next, Environment

-----------------------------------------------------------------------------
(* What was born                                                           *)

\* Every row and every operation is of an id that was born, and so is what the user
\* operation in progress is about.
Rooted ==
  /\ \A id \in Ids : db[id] # None \/ mirror[id] # None \/ pulled[id] # None => id \in born
  /\ pc \in {"clear", "fill"} => \A id \in Ids : held[id] # None => id \in born
  /\ ui.id # None => ui.id \in born
  /\ \A o \in Referred : o.cid \in born

\* Histories only grow.
LEMMA GrowStep ==
  ASSUME [Next]_vars
  PROVE  /\ born \subseteq born' /\ stored \subseteq stored' /\ waived \subseteq waived'
         /\ accepted \subseteq accepted'
  <1>1. CASE Ui
    BY <1>1 DEF Ui, Create, Update, Delete, Online, HttpRun, HttpReply, CreateRow, UpdateRead,
                UpdateRow, DeleteQueue, WithdrawRead, DeleteRow, Discard, DiscardOp, TakenBack, DiscardRow,
                RetryOp, DiscardDone, Retry, ghostVars
  <1>2. CASE StartSync \/ Pass
    BY <1>2 DEF Pass, StartSync, ServerApply, PushReply, RecordFailure, AckRejected, AckCreated,
                MarkSynced, AckDone, BatchDone, PullQuery, PullReply, Merge, ClearStore, FillStore,
                SaveLastSync, ghostVars
  <1>3. CASE Environment
    BY <1>3 DEF Environment, Loss, HttpLoss, Crash, OtherDelete, OtherWrite, ghostVars
  <1> QED
    BY <1>1, <1>2, <1>3 DEF Next, vars

\* Whatever an operation, a row or a user operation is about was born.
LEMMA RootedStep ==
  ASSUME TypeInv, Keys, Batch, Rooted, [Next]_vars
  PROVE  Rooted'
  <1> USE DEF Put
  <1>1. TypeInv' /\ born \subseteq born'
    BY TypeStep, GrowStep
  <1>2. ui'.id # None => ui'.id \in born'
    <2>1. ui.id # None => ui.id \in born
      BY DEF Rooted
    <2> USE DEF TypeInv, TypeOK, UiState
    <2>2. ASSUME NEW i \in Ids, NEW v, Create(i, v)
          PROVE  ui'.id \in born'
      BY <2>2 DEF Create, IdleUi
    <2>3. ASSUME NEW i \in Ids, NEW v, Update(i, v)
          PROVE  ui'.id \in born'
      BY <2>3 DEF Update, IdleUi, Rooted
    <2>4. ASSUME NEW i \in Ids, Delete(i)
          PROVE  ui'.id \in born'
      BY <2>4 DEF Delete, IdleUi, Rooted, ghostVars
    <2>5. ASSUME NEW type, NEW i \in Ids, NEW v, Online(type, i, v)
          PROVE  ui'.id \in born'
      BY <2>5 DEF Online, IdleUi
    <2>6. CASE HttpRun
      BY <2>1, <2>6 DEF HttpRun, IdleUi
    <2>7. CASE HttpReply \/ CreateRow \/ UpdateRow \/ DeleteRow
      BY <2>7 DEF HttpReply, CreateRow, UpdateRow, DeleteRow, IdleUi
    <2>8. CASE UpdateRead
      BY <2>1, <1>1, <2>8 DEF UpdateRead, IdleUi
    <2>9. CASE DeleteQueue \/ WithdrawRead
      BY <2>1, <1>1, <2>9 DEF DeleteQueue, WithdrawRead
    <2>10. CASE DiscardDone
      BY <2>1, <1>1, <2>10 DEF DiscardDone, IdleUi
    <2>11. CASE Retry
      BY <2>11 DEF Retry, IdleUi
    <2>12. ASSUME NEW o, Discard(o)
           PROVE  ui'.id = None
      BY <2>12 DEF Discard, IdleUi
    <2>13. ASSUME NEW o, DiscardOp(o) \/ DiscardRow(o)
           PROVE  ui'.id = ui.id
      BY <2>13 DEF DiscardOp, TakenBack, DiscardRow
    <2>14. ASSUME NEW o, RetryOp(o)
           PROVE  ui'.id \in {ui.id, None}
      BY <2>14 DEF RetryOp, IdleUi
    <2>15. CASE Ui
      BY <1>1, <2>1, <2>15, <2>2, <2>3, <2>4, <2>5, <2>6, <2>7, <2>8, <2>9, <2>10, <2>11, <2>12,
         <2>13, <2>14 DEF Ui
    <2>16. CASE StartSync \/ Pass
      BY <1>1, <2>1, <2>16, PassFrame
    <2>17. ASSUME NEW i \in Ids, HttpLoss(i)
           PROVE  ui'.id \in born'
      BY <2>17 DEF HttpLoss
    <2>18. CASE Loss \/ Crash \/ \E i \in Ids : OtherDelete(i) \/ \E v \in Vals : OtherWrite(i, v)
      BY <1>1, <2>1, <2>18 DEF Loss, Crash, OtherDelete, OtherWrite, IdleUi
    <2> QED
      BY <1>1, <2>1, <2>15, <2>16, <2>17, <2>18 DEF Next, Environment, vars
  <1>3. \A o \in Referred' : o.cid \in born'
    <2>1. Draws /\ \A o \in Referred : o.cid \in born
      BY DrawsStep DEF Rooted
    <2>2. \A q \in sent' \cup later' : q.cid \in born'
      BY <1>1, <2>1 DEF Draws, Referred
    <2>3. \A q \in Live' : q.cid \in born'
      <3>1. CASE \A q \in Live' : \E p \in Live : Same(q, p)
        BY <1>1, <2>1, <3>1 DEF Same, Live, Referred
      <3>2. ASSUME NEW new \in queue', new.cid = ui'.id, \A q \in Live' : q = new \/ q \in Live
            PROVE  \A q \in Live' : q.cid \in born'
        <4>1. new.cid \in Ids
          BY <1>1 DEF TypeInv, TypeOK, IdbOK, PendingOperation
        <4> QED
          BY <1>1, <1>2, <2>1, <3>2, <4>1 DEF Live, Referred
      <3> QED
        BY <2>1, <3>1, <3>2 DEF Draws
    <2> QED
      BY <2>2, <2>3 DEF Live, Referred
  <1> DEFINE Rows == /\ \A id \in Ids : db[id] # None \/ mirror[id] # None \/ pulled[id] # None => id \in born
                     /\ pc \in {"clear", "fill"} => \A id \in Ids : held[id] # None => id \in born
  <1>4. Rows'
    <2>0. Rows /\ (ui.id # None => ui.id \in born)
      BY DEF Rooted
    <2> USE DEF TypeInv, TypeOK
    <2>1. CASE UNCHANGED <<db, mirror, pulled, pc, held>>
      BY <1>1, <2>0, <2>1
    <2>2. ASSUME NEW i \in born, \E x : db' = Put(db, i, x), UNCHANGED <<mirror, pulled, pc, held>>
          PROVE  Rows'
      BY <1>1, <2>0, <2>2 DEF ServerOK
    <2>3. ASSUME NEW i \in born, \E x : mirror' = Put(mirror, i, x), UNCHANGED <<db, pulled>>,
                 pc' \in {"clear", "fill"} => pc' = pc /\ held' = held
          PROVE  Rows'
      BY <1>1, <2>0, <2>3 DEF IdbOK
    <2>4. CASE Ui \/ \E i \in Ids : HttpLoss(i)
      <3>1. UNCHANGED passVars
        BY <2>4, UiFrame DEF HttpLoss
      <3>2. CASE HttpRun
        <4>1. ui.id \in born
          BY <2>0, <3>2 DEF HttpRun, UiHolds
        <4> QED
          BY <2>2, <3>1, <3>2, <4>1 DEF HttpRun, idbVars, passVars
      <3>3. CASE HttpReply \/ CreateRow \/ UpdateRow \/ DeleteRow
        <4>1. ui.id \in born
          BY <2>0, <3>3 DEF HttpReply, CreateRow, UpdateRow, DeleteRow, UiHolds, Writing
        <4>2. \E x : mirror' = Put(mirror, ui.id, x)
          BY <3>3 DEF HttpReply, CreateRow, UpdateRow, DeleteRow
        <4> QED
          BY <2>3, <3>1, <3>3, <4>1, <4>2
          DEF HttpReply, CreateRow, UpdateRow, DeleteRow, passVars, serverVars
      <3>4. ASSUME NEW o \in ui.ops, DiscardRow(o)
            PROVE  Rows'
        <4>1. o.cid \in born
          BY DEF Rooted, Referred
        <4>2. mirror' = mirror \/ \E x : mirror' = Put(mirror, o.cid, x)
          BY <3>4 DEF DiscardRow
        <4> QED
          BY <2>1, <2>3, <3>1, <3>4, <4>1, <4>2 DEF DiscardRow, passVars, serverVars
      <3>5. CASE UNCHANGED <<db, mirror>>
        BY <2>1, <3>1, <3>5 DEF passVars
      <3> QED
        BY <2>4, <3>2, <3>3, <3>4, <3>5
        DEF Ui, Create, Update, Delete, Online, UpdateRead, DeleteQueue, WithdrawRead, Discard,
            DiscardOp, TakenBack, RetryOp, DiscardDone, Retry, HttpLoss, serverVars, idbVars
    <2>5. CASE StartSync \/ PushReply \/ BatchDone
      BY <1>1, <2>0, <2>5 DEF StartSync, SendBatch, PushReply, BatchDone, serverVars, idbVars
    <2>6. ASSUME NEW op \in todo, ServerApply(op)
          PROVE  Rows'
      <3>1. op.cid \in born /\ \E x : db' = Put(db, op.cid, x)
        BY <2>6 DEF ServerApply, Rooted, Referred, BatchOK
      <3> QED
        BY <2>2, <2>6, <3>1 DEF ServerApply, idbVars
    <2>7. ASSUME NEW r \in results, NEW o \in sent, MarkSynced(r, o)
          PROVE  Rows'
      <3>1. o.cid \in born /\ \E x : mirror' = Put(mirror, o.cid, x)
        BY <2>7 DEF MarkSynced, Rooted, Referred
      <3> QED
        BY <2>3, <2>7, <3>1 DEF MarkSynced, serverVars
    <2>8. ASSUME NEW r \in results, NEW o \in sent,
                 RecordFailure(r) \/ AckRejected(r, o) \/ AckCreated(r, o) \/ AckDone(r, o)
          PROVE  Rows'
      <3>1. UNCHANGED <<db, mirror, pulled>>
        BY <2>8 DEF RecordFailure, AckRejected, AckCreated, AckDone, serverVars, idbVars
      <3>2. pc' \notin {"clear", "fill"}
        BY <2>8 DEF RecordFailure, AckRejected, AckCreated, AckDone, MarkOrDrop
      <3> QED
        BY <1>1, <2>0, <3>1, <3>2
    <2>9. CASE PullQuery
      BY <1>1, <2>0, <2>9 DEF PullQuery, serverVars, idbVars
    <2>10. CASE PullReply \/ SaveLastSync
      BY <1>1, <2>0, <2>10 DEF PullReply, SaveLastSync, NoRows, serverVars, idbVars
    <2>11. CASE Merge
      BY <1>1, <2>0, <2>11 DEF Merge, MergedRow, serverVars, idbVars
    <2>12. CASE ClearStore
      BY <1>1, <2>0, <2>12 DEF ClearStore, serverVars
    <2>13. CASE FillStore
      BY <1>1, <2>0, <2>13 DEF FillStore, serverVars
    <2>14. CASE Loss \/ Crash
      BY <1>1, <2>0, <2>14 DEF Loss, Crash, PassReset, NoRows, serverVars, idbVars
    <2>15. ASSUME NEW i \in Ids, OtherDelete(i) \/ \E v \in Vals : OtherWrite(i, v)
           PROVE  Rows'
      <3>1. i \in born /\ (\E x : db' = Put(db, i, x))
        BY <2>0, <2>15 DEF OtherDelete, OtherWrite
      <3> QED
        BY <2>2, <2>15, <3>1 DEF OtherDelete, OtherWrite, idbVars, passVars
    <2>16. CASE Pass
      <3>1. ASSUME NEW r \in results, RecordFailure(r)
            PROVE  \E o \in sent : TRUE
        BY DEF Batch, ResultsAnswer
      <3> QED
        BY <2>16, <2>5, <2>6, <2>7, <2>8, <2>9, <2>10, <2>11, <2>12, <2>13, <3>1 DEF Pass
    <2> HIDE DEF Rows
    <2> QED
      BY <1>1, <2>0, <2>1, <2>4, <2>5, <2>14, <2>15, <2>16 DEF Next, Environment, vars
  <1> QED
    BY <1>2, <1>3, <1>4 DEF Rooted

-----------------------------------------------------------------------------
(* No create is lost                                                       *)

\* Writing back the operation with a key keeps a create in the queue.
LEMMA WriteBackKeeps ==
  ASSUME Keys, NEW o \in Referred, NEW f, Same(f, o), queue' = Without(o.n) \cup {f},
         NEW id, CreateQueued(id)
  PROVE  CreateQueued(id)'
  <1>1. PICK p \in queue : p.cid = id /\ p.type = "create"
    BY DEF CreateQueued
  <1>2. CASE p.n = o.n
    <2>1. p.cid = o.cid /\ p.type = o.type
      BY <1>2 DEF Keys, KeysName, Referred
    <2> QED
      BY <1>1, <2>1 DEF Same, CreateQueued
  <1>3. CASE p.n # o.n
    BY <1>1, <1>3 DEF Without, CreateQueued
  <1> QED
    BY <1>2, <1>3

\* Removing the operation with a key loses no create but that of its row.
LEMMA RemovalKeeps ==
  ASSUME Keys, NEW o \in Referred, queue' = Without(o.n),
         NEW id, CreateQueued(id), ~(o.type = "create" /\ o.cid = id)
  PROVE  CreateQueued(id)'
  BY DEF Keys, KeysName, Referred, CreateQueued, Without

\* A row that is still wanted is on the server or its create is queued.
Safe(id) ==
  id \in born \ waived /\ intent[id] # None => id \in stored \/ CreateQueued(id)

\* A creation the server has not stored stays queued, whoever takes the step.
LEMMA CreateStep ==
  ASSUME TypeInv, Keys, Batch, Wishes, NEW id \in Ids, Safe(id), [Next]_vars
  PROVE  Safe(id)'
  <1> SUFFICES ASSUME id \in born', id \notin waived', intent'[id] # None, id \notin stored'
               PROVE  CreateQueued(id)'
    BY DEF Safe, CreateQueued
  <1> DEFINE Kept == id \in born /\ id \notin waived /\ intent[id] # None /\ id \notin stored
  <1>0. Kept => CreateQueued(id)
    BY DEF Safe
  <1>1. CASE Kept /\ queue \subseteq queue'
    BY <1>0, <1>1 DEF CreateQueued
  <1>2. ASSUME NEW i \in Ids, NEW v \in Vals, Create(i, v)
        PROVE  CreateQueued(id)'
    <2>1. CASE i = id
      <3> DEFINE new == [n |-> nextOp, type |-> "create", cid |-> i, val |-> v, attempts |-> 0]
      <3>1. new \in queue' /\ new.cid = id /\ new.type = "create"
        BY <1>2, <2>1 DEF Create, Enqueue
      <3> QED
        BY <3>1 DEF CreateQueued
    <2>2. CASE i # id
      BY <1>1, <1>2, <2>2 DEF Create, Enqueue, Put, TypeInv, TypeOK, GhostOK
    <2> QED
      BY <2>1, <2>2
  <1>3. ASSUME NEW i \in Ids, NEW v \in Vals, Update(i, v)
        PROVE  CreateQueued(id)'
    BY <1>1, <1>3 DEF Update, Enqueue, Wish, Put, TypeInv, TypeOK, GhostOK
  <1>4. ASSUME NEW type \in OpTypes, NEW i \in Ids, NEW v \in Vals \cup {None}, Online(type, i, v)
        PROVE  CreateQueued(id)'
    BY <1>1, <1>4 DEF Online, idbVars, Wishes, WishesBorn
  <1>5. CASE HttpRun
    <2> DEFINE op == [n |-> 0, type |-> ui.type, cid |-> ui.id, val |-> ui.val, attempts |-> 0]
    <2>1. /\ op.type \in OpTypes /\ op.cid \in Ids /\ (op.type # "delete" => op.val \in Vals)
          /\ db[ui.id] \in ServerRow \cup {None} /\ clock + 1 \in Nat
      BY <1>5 DEF HttpRun, TypeInv, TypeOK, ServerOK, UiState, UiHolds, Writing
    <2>2. Applied(op, db[ui.id], clock + 1).status = "ok" /\ op.type # "delete" =>
            Applied(op, db[ui.id], clock + 1).row # None
      BY <2>1, AppliedType
    <2>3. CASE id = ui.id
      BY <1>1, <1>5, <2>2, <2>3 DEF HttpRun, Put, TypeInv, TypeOK, GhostOK, idbVars
    <2>4. CASE id # ui.id
      BY <1>1, <1>5, <2>4 DEF HttpRun, Put, TypeInv, TypeOK, GhostOK, idbVars
    <2> QED
      BY <2>3, <2>4
  <1>6. CASE HttpReply \/ CreateRow \/ UpdateRead \/ UpdateRow \/ WithdrawRead \/ Retry
    BY <1>1, <1>6 DEF HttpReply, CreateRow, UpdateRead, UpdateRow, WithdrawRead, Retry, idbVars,
                      ghostVars
  <1>7. CASE DeleteQueue \/ DeleteRow \/ DiscardDone \/ \E i \in Ids : Delete(i)
    BY <1>1, <1>7 DEF DeleteQueue, DeleteRow, Delete, DiscardDone, TakenBack, Enqueue, idbVars,
                      ghostVars, Put, TypeInv, TypeOK, GhostOK
  <1>8. ASSUME NEW o \in queue, Discard(o)
        PROVE  CreateQueued(id)'
    BY <1>1, <1>8 DEF Discard, idbVars
  <1>9. ASSUME NEW o \in ui.ops, DiscardOp(o)
        PROVE  CreateQueued(id)'
    <2>1. Kept /\ o.cid # id
      BY <1>9 DEF DiscardOp, TakenBack, Put, Wishes, DiscardsWithdrawn, TypeInv, TypeOK, GhostOK
    <2> QED
      BY <1>0, <1>9, <2>1, RemovalKeeps DEF DiscardOp, TakenBack, Referred
  <1>10. ASSUME NEW o \in ui.ops, DiscardRow(o)
         PROVE  CreateQueued(id)'
    BY <1>1, <1>10 DEF DiscardRow, ghostVars
  <1>11. ASSUME NEW o \in ui.ops, RetryOp(o)
         PROVE  CreateQueued(id)'
    <2>1. Kept /\ Same([o EXCEPT !.attempts = 0], o) /\ o \in Referred
      BY <1>11 DEF RetryOp, ghostVars, Same, Referred, TypeInv, TypeOK, UiState, PendingOperation
    <2> QED
      BY <1>0, <1>11, <2>1, WriteBackKeeps DEF RetryOp
  <1>12. CASE Ui
    <2>1. "create" \in OpTypes /\ "update" \in OpTypes /\ "delete" \in OpTypes
      BY DEF OpTypes
    <2> QED
      BY <1>12, <2>1, <1>2, <1>3, <1>4, <1>5, <1>6, <1>7, <1>8, <1>9, <1>10, <1>11 DEF Ui
  <1>13. CASE StartSync \/ Pass
    <2>0. Kept
      BY <1>13, PassFrame
    <2>1. CASE StartSync
      BY <1>1, <2>0, <2>1 DEF StartSync, idbVars
    <2>2. ASSUME NEW r \in results, RecordFailure(r)
          PROVE  CreateQueued(id)'
      <3>1. /\ Same([held EXCEPT !.attempts = @ + 1], held) /\ held \in Referred
            /\ queue' = Without(held.n) \cup {[held EXCEPT !.attempts = @ + 1]}
        BY <2>2 DEF RecordFailure, Failure, Same, Referred, TypeInv, TypeOK, PullOK, PendingOperation
      <3> QED
        BY <1>0, <2>0, <3>1, WriteBackKeeps
    <2>3. ASSUME NEW r \in results, NEW o \in sent, AckDone(r, o)
          PROVE  CreateQueued(id)'
      <3>1. o.type = "create" => o.cid \in stored
        <4>1. ASSUME o.type = "create"
              PROVE  o.cid \in stored
          <5>1. r.status = "ok" /\ r.cid = o.cid
            BY <2>3, <4>1 DEF AckDone, Answers, Batch, ResultsAnswer
          <5>2. PICK p \in sent : p.n = r.n /\ p.cid = r.cid /\ (p.type = "create" => r.cid \in stored)
            BY <5>1 DEF Batch, ResultsAnswer
          <5> QED
            BY <4>1, <5>1, <5>2 DEF Batch, BatchUniform
        <4> QED
          BY <4>1
      <3> QED
        BY <1>0, <2>0, <2>3, <3>1, RemovalKeeps DEF AckDone, Referred
    <2>4. CASE /\ UNCHANGED queue
      BY <1>1, <2>0, <2>4
    <2> QED
      BY <1>13, <2>1, <2>2, <2>3, <2>4
      DEF Pass, ServerApply, PushReply, AckRejected, AckCreated, MarkSynced, BatchDone, PullQuery,
          PullReply, Merge, ClearStore, FillStore, SaveLastSync, idbVars
  <1>14. CASE Loss \/ Crash \/ \E i \in Ids : OtherDelete(i) \/ \E v \in Vals : OtherWrite(i, v)
    BY <1>1, <1>14 DEF Loss, Crash, OtherDelete, OtherWrite, idbVars, ghostVars
  <1>15. ASSUME NEW i \in Ids, HttpLoss(i)
         PROVE  CreateQueued(id)'
    <2>1. ui.pc \in {"http", "reply"} /\ ui.id \in Ids /\ ui.type \in OpTypes
      BY <1>15 DEF HttpLoss, TypeInv, TypeOK, UiState, UiHolds
    <2>2. CASE ui.type = "create" /\ i = id
      <3> DEFINE new == [n |-> nextOp, type |-> ui.type, cid |-> i, val |-> ui.val, attempts |-> 0]
      <3>1. new \in queue' /\ new.cid = id /\ new.type = "create"
        BY <1>15, <2>2 DEF HttpLoss, Fallback, Enqueue
      <3> QED
        BY <3>1 DEF CreateQueued
    <2>3. CASE ~(ui.type = "create" /\ i = id)
      <3>1. Kept
        BY <1>15, <2>1, <2>3 DEF HttpLoss, Put, Wishes, WishesBorn, TypeInv, TypeOK, GhostOK, OpTypes
      <3> QED
        BY <1>1, <1>15, <3>1 DEF HttpLoss, Fallback, Enqueue
    <2> QED
      BY <2>2, <2>3
  <1>16. CASE UNCHANGED vars
    BY <1>1, <1>16 DEF vars
  <1> QED
    BY <1>12, <1>13, <1>14, <1>15, <1>16 DEF Next, Environment

-----------------------------------------------------------------------------
(* The theorems                                                            *)

\* The program starts with the inductive invariant.
LEMMA Initially == Init => IndInv
  <1> SUFFICES ASSUME Init
               PROVE  IndInv
    OBVIOUS
  <1> USE DEF Init
  <1>1. PICK v \in Vals : v = CHOOSE w \in Vals : TRUE
    OBVIOUS
  <1>2. ServerOK /\ GhostOK
    BY <1>1 DEF ServerOK, GhostOK, ServerRow
  <1>3. IdbOK
    BY <1>1 DEF IdbOK, MirrorRow, Settled
  <1>4. BatchOK /\ PullOK /\ ui \in UiState
    BY DEF BatchOK, PullOK, UiState, IdleUi, NoRows, Kinds, OpTypes
  <1>5. UiHolds /\ DiscardsWithdrawn /\ WishesBorn
    BY DEF UiHolds, Writing, DiscardsWithdrawn, WishesBorn, IdleUi
  <1>6. KeysFresh /\ KeysName /\ KeysUnique /\ BatchUniform /\ ResultsAnswer
    BY DEF KeysFresh, KeysName, KeysUnique, Referred, IdleUi, BatchUniform, ResultsAnswer
  <1>7. NoCreateLost
    BY DEF NoCreateLost
  <1> QED
    BY <1>2, <1>3, <1>4, <1>5, <1>6, <1>7 DEF IndInv, TypeOK

\* The inductive invariant is kept by every step, its five parts each from the others.
LEMMA Inductive == IndInv /\ [Next]_vars => IndInv'
  <1> SUFFICES ASSUME IndInv, [Next]_vars
               PROVE  IndInv'
    OBVIOUS
  <1>1. TypeInv /\ Keys /\ Batch /\ Wishes /\ NoCreateLost
    BY DEF IndInv, TypeInv, Keys, Batch, Wishes
  <1>2. TypeInv' /\ Keys' /\ Batch' /\ Wishes' /\ NoCreateLost'
    <2>1. TypeInv' /\ Keys' /\ Batch' /\ Wishes'
      BY <1>1, TypeStep, KeysStep, BatchStep, WishesStep
    <2>2. \A id \in Ids : Safe(id)'
      BY <1>1, CreateStep DEF NoCreateLost, Safe
    <2>3. born' \subseteq Ids
      BY <2>1 DEF TypeInv, TypeOK, GhostOK
    <2> QED
      BY <2>1, <2>2, <2>3 DEF NoCreateLost, Safe, CreateQueued
  <1> QED
    BY <1>2 DEF IndInv, TypeInv, Keys, Batch, Wishes

\* Whatever the size of the instance, the mutation queue, the mirror and the pass
\* in flight hold only what the code can put there.
THEOREM TypeCorrect == Spec => []TypeOK
  <1>1. IndInv => TypeOK
    BY DEF IndInv
  <1> QED
    BY <1>1, Initially, Inductive, PTL DEF Spec

\* A created row that is still wanted is on the server or its create is queued:
\* under any number of rows, edits, passes, lost requests, rejections, crashes,
\* retries and writes of other clients.
THEOREM CreatesSurvive == Spec => []NoCreateLost
  <1>1. IndInv => NoCreateLost
    BY DEF IndInv
  <1> QED
    BY <1>1, Initially, Inductive, PTL DEF Spec

-----------------------------------------------------------------------------
(* The client implements Delivery                                          *)

Wanted == {id \in Ids : intent[id] # None}
Pending == {id \in Ids : CreateQueued(id)}
Same3 == UNCHANGED <<born, stored, waived>>

\* A step that changes none of what Delivery sees.
LEMMA Stutters ==
  ASSUME Same3, Wanted' = Wanted, Pending' = Pending
  PROVE  UNCHANGED Creates!vars
  BY DEF Same3, Wanted, Pending, Creates!vars

LEMMA Asks ==
  ASSUME NEW id \in Ids, id \notin born, born' = born \cup {id}, UNCHANGED <<stored, waived>>,
         Wanted' = Wanted \cup {id}, Pending' = Pending \cup {id}
  PROVE  Creates!Next
  <1>1. Creates!Ask(id)
    BY DEF Creates!Ask, Wanted, Pending
  <1> QED
    BY <1>1 DEF Creates!Next

LEMMA AsksServer ==
  ASSUME NEW id \in Ids, id \notin born, born' = born \cup {id}, UNCHANGED <<stored, waived>>,
         Wanted' = Wanted, Pending' = Pending
  PROVE  Creates!Next
  <1>1. Creates!AskServer(id)
    BY DEF Creates!AskServer, Wanted, Pending
  <1> QED
    BY <1>1 DEF Creates!Next

LEMMA Confirms ==
  ASSUME NEW id \in Ids, UNCHANGED <<born, waived>>, stored' = stored \cup {id},
         Wanted' = Wanted \cup {id}, Pending' = Pending
  PROVE  Creates!Next
  <1>1. Creates!Confirm(id)
    BY DEF Creates!Confirm, Wanted, Pending
  <1> QED
    BY <1>1 DEF Creates!Next

LEMMA AsksAgain ==
  ASSUME NEW old \in Ids, NEW id \in Ids, id \notin born, born' = born \cup {id},
         UNCHANGED <<stored, waived>>,
         Wanted' = (Wanted \ {old}) \cup {id}, Pending' = Pending \cup {id}
  PROVE  Creates!Next
  <1>1. Creates!AskAgain(old, id)
    BY DEF Creates!AskAgain, Wanted, Pending
  <1> QED
    BY <1>1 DEF Creates!Next

LEMMA Stores ==
  ASSUME NEW id \in Ids, UNCHANGED <<born, waived>>, stored' = stored \cup {id},
         Wanted' = Wanted, Pending' = Pending
  PROVE  Creates!Next
  <1>1. Creates!Store(id)
    BY DEF Creates!Store, Wanted, Pending
  <1> QED
    BY <1>1 DEF Creates!Next

LEMMA Settles ==
  ASSUME NEW id \in Ids, Same3, id \in stored \/ id \in waived,
         Wanted' = Wanted, Pending' = Pending \ {id}
  PROVE  Creates!Next
  <1>1. Creates!Settle(id)
    BY DEF Creates!Settle, Same3, Wanted, Pending
  <1> QED
    BY <1>1 DEF Creates!Next

LEMMA Withdraws ==
  ASSUME NEW id \in Ids, UNCHANGED <<born, stored>>,
         waived' = waived \/ waived' = waived \cup {id},
         Wanted' = Wanted \ {id}, Pending' = Pending \/ Pending' = Pending \ {id}
  PROVE  Creates!Next
  <1>1. Creates!Withdraw(id)
    BY DEF Creates!Withdraw, Wanted, Pending
  <1> QED
    BY <1>1 DEF Creates!Next

LEMMA Requeues ==
  ASSUME NEW id \in Ids, Same3, Wanted' = Wanted, Pending' = Pending \cup {id}
  PROVE  Creates!Next
  <1>1. Creates!Requeue(id)
    BY DEF Creates!Requeue, Same3, Wanted, Pending
  <1> QED
    BY <1>1 DEF Creates!Next

LEMMA Waives ==
  ASSUME NEW id \in Ids, UNCHANGED <<born, stored>>, waived' = waived \cup {id},
         Wanted' = Wanted, Pending' = Pending
  PROVE  Creates!Next
  <1>1. Creates!Waive(id)
    BY DEF Creates!Waive, Wanted, Pending
  <1> QED
    BY <1>1 DEF Creates!Next

\* What changes of the queue do to the pending rows.
LEMMA QueueSame ==
  ASSUME queue' = queue
  PROVE  Pending' = Pending
  BY DEF Pending, CreateQueued

LEMMA EnqueuePending ==
  ASSUME NEW type \in OpTypes, NEW id \in Ids, NEW v, Enqueue(type, id, v)
  PROVE  Pending' = IF type = "create" THEN Pending \cup {id} ELSE Pending
  <1> DEFINE new == [n |-> nextOp, type |-> type, cid |-> id, val |-> v, attempts |-> 0]
  <1>1. queue' = queue \cup {new} /\ new.type = type /\ new.cid = id
    BY DEF Enqueue
  <1> HIDE DEF new
  <1>2. \A i \in Ids : CreateQueued(i)' <=> CreateQueued(i) \/ (type = "create" /\ i = id)
    BY <1>1 DEF CreateQueued
  <1> QED
    BY <1>2 DEF Pending

LEMMA RemovePending ==
  ASSUME Keys, NEW o \in Referred, queue' = Without(o.n)
  PROVE  \/ Pending' = Pending
         \/ o.type = "create" /\ Pending' = Pending \ {o.cid}
  <1>1. \A i \in Ids : CreateQueued(i)' => CreateQueued(i)
    BY DEF CreateQueued, Without
  <1>2. \A i \in Ids : CreateQueued(i) /\ ~(o.type = "create" /\ o.cid = i) => CreateQueued(i)'
    BY RemovalKeeps
  <1> QED
    BY <1>1, <1>2 DEF Pending

LEMMA WriteBackPending ==
  ASSUME Keys, NEW o \in Referred, NEW f, Same(f, o), queue' = Without(o.n) \cup {f}
  PROVE  Pending' = Pending \/ Pending' = Pending \cup {f.cid}
  <1>1. \A i \in Ids : CreateQueued(i) => CreateQueued(i)'
    BY WriteBackKeeps
  <1>2. \A i \in Ids : CreateQueued(i)' => CreateQueued(i) \/ i = f.cid
    BY DEF CreateQueued, Without
  <1>3. CASE f.cid \in Ids /\ CreateQueued(f.cid)'
    BY <1>1, <1>2, <1>3 DEF Pending
  <1>4. CASE ~(f.cid \in Ids /\ CreateQueued(f.cid)')
    BY <1>1, <1>2, <1>4 DEF Pending
  <1> QED
    BY <1>3, <1>4

\* Every step of the client, of the pass and of the environment is one of Delivery,
\* or changes nothing it sees.
LEMMA DeliveryStep ==
  ASSUME TypeInv, Keys, Batch, Wishes, [Next]_vars
  PROVE  [Creates!Next]_(Creates!vars)
  <1> DEFINE Step == Creates!Next \/ UNCHANGED Creates!vars
  <1> SUFFICES Step
    OBVIOUS
  <1> HIDE DEF Step
  <1>a. Creates!Next => Step
    BY DEF Step
  <1>b. Same3 /\ Wanted' = Wanted /\ Pending' = Pending => Step
    BY Stutters DEF Step
  <1>c. "create" \in OpTypes /\ "update" \in OpTypes /\ "delete" \in OpTypes
    BY DEF OpTypes
  <1>d. intent \in [Ids -> Vals \cup {None}]
    BY DEF TypeInv, TypeOK, GhostOK
  <1>e. intent' = intent => Wanted' = Wanted
    BY DEF Wanted
  <1>f. ASSUME NEW id \in Ids, NEW v \in Vals, intent' = Put(intent, id, v)
        PROVE  Wanted' = Wanted \cup {id}
    BY <1>d, <1>f DEF Wanted, Put
  <1>g. ASSUME NEW id \in Ids, intent' = Put(intent, id, None)
        PROVE  Wanted' = Wanted \ {id}
    BY <1>d, <1>g DEF Wanted, Put
  <1>2. ASSUME NEW id \in Ids, NEW v \in Vals, Create(id, v)
        PROVE  Step
    <2>1. /\ id \notin born /\ born' = born \cup {id} /\ UNCHANGED <<stored, waived>>
          /\ intent' = Put(intent, id, v) /\ Enqueue("create", id, v)
      BY <1>2 DEF Create
    <2>2. Pending' = Pending \cup {id}
      BY <2>1, <1>c, EnqueuePending
    <2> QED
      BY <2>1, <2>2, <1>a, <1>f, Asks
  <1>3. ASSUME NEW id \in Ids, NEW v \in Vals, Update(id, v)
        PROVE  Step
    <2>1. Same3 /\ Enqueue("update", id, v)
          /\ intent' = IF intent[id] = None THEN intent ELSE Put(intent, id, v)
      BY <1>3 DEF Update, Wish, Same3
    <2>2. Pending' = Pending
      BY <2>1, <1>c, EnqueuePending
    <2>3. Wanted' = Wanted
      BY <2>1, <1>d DEF Wanted, Put
    <2> QED
      BY <2>1, <2>2, <2>3, <1>b
  <1>4. ASSUME NEW type \in OpTypes, NEW id \in Ids, NEW v \in Vals \cup {None}, Online(type, id, v)
        PROVE  Step
    <2>1. /\ born' = born \cup {id} /\ UNCHANGED <<stored, waived, intent, queue>>
          /\ id \notin born \/ intent[id] # None
      BY <1>4 DEF Online, idbVars
    <2>2. Wanted' = Wanted /\ Pending' = Pending
      BY <2>1, <1>e, QueueSame
    <2>3. CASE id \notin born
      BY <2>1, <2>2, <2>3, <1>a, AsksServer
    <2>4. CASE id \in born
      <3>1. Same3
        BY <2>1, <2>4 DEF Same3
      <3> QED
        BY <2>2, <3>1, <1>b
    <2> QED
      BY <2>3, <2>4
  <1>5. CASE HttpRun
    <2> DEFINE op == [n |-> 0, type |-> ui.type, cid |-> ui.id, val |-> ui.val, attempts |-> 0]
               out == Applied(op, db[ui.id], clock + 1)
    <2>1. /\ op.type \in OpTypes /\ op.cid \in Ids /\ (op.type # "delete" => op.val \in Vals)
          /\ op.type = ui.type
          /\ ui.id \in Ids /\ (ui.type # "delete" => ui.val \in Vals)
          /\ db[ui.id] \in ServerRow \cup {None} /\ clock + 1 \in Nat
      BY <1>5 DEF HttpRun, TypeInv, TypeOK, ServerOK, UiState, UiHolds, Writing
    <2>2. out.status = "ok" /\ op.type # "delete" => out.row # None
      BY <2>1, AppliedType
    <2>3. op.type = "delete" => out.row = None
      BY DEF Applied, DeleteOutcome
    <2>4. /\ UNCHANGED <<born, waived, queue>>
          /\ stored' = IF out.row # None THEN stored \cup {ui.id} ELSE stored
          /\ intent' = IF out.status # "ok" THEN intent
                        ELSE Put(intent, ui.id, IF ui.type = "delete" THEN None ELSE ui.val)
      BY <1>5 DEF HttpRun, idbVars
    <2> HIDE DEF op, out
    <2>5. Pending' = Pending
      BY <2>4, QueueSame
    <2>6. CASE out.status # "ok"
      <3>1. Wanted' = Wanted
        BY <2>4, <2>6, <1>e
      <3>2. CASE out.row # None
        BY <2>1, <2>4, <2>5, <3>1, <3>2, <1>a, Stores
      <3>3. CASE out.row = None
        BY <2>4, <2>5, <3>1, <3>3, <1>b DEF Same3
      <3> QED
        BY <3>2, <3>3
    <2>7. CASE out.status = "ok" /\ ui.type = "delete"
      <3>1. Same3 /\ intent' = Put(intent, ui.id, None)
        BY <2>1, <2>3, <2>4, <2>7 DEF Same3
      <3> QED
        BY <2>1, <2>5, <3>1, <1>a, <1>g, Withdraws DEF Same3
    <2>8. CASE out.status = "ok" /\ ui.type # "delete"
      <3>1. stored' = stored \cup {ui.id} /\ intent' = Put(intent, ui.id, ui.val)
        BY <2>1, <2>2, <2>4, <2>8
      <3> QED
        BY <2>1, <2>4, <2>5, <2>8, <3>1, <1>a, <1>f, Confirms
    <2> QED
      BY <2>6, <2>7, <2>8
  <1>6. CASE HttpReply \/ CreateRow \/ UpdateRead \/ UpdateRow \/ WithdrawRead \/ Retry
             \/ (\E id \in Ids : Delete(id)) \/ \E o \in ui.ops : DiscardRow(o)
    <2>1. Same3 /\ intent' = intent /\ queue' = queue
      BY <1>6 DEF HttpReply, CreateRow, UpdateRead, UpdateRow, WithdrawRead, Retry,
                  Delete, DiscardRow, idbVars, ghostVars, Same3
    <2> QED
      BY <2>1, <1>b, <1>e, QueueSame
  <1>7. CASE DeleteQueue
    <2>1. /\ Same3 /\ intent' = Put(intent, ui.id, None) /\ Enqueue("delete", ui.id, None)
          /\ ui.id \in Ids
      BY <1>7 DEF DeleteQueue, Same3, TypeInv, UiHolds
    <2>2. Pending' = Pending
      BY <2>1, <1>c, EnqueuePending
    <2> QED
      BY <2>1, <2>2, <1>a, <1>g, Withdraws DEF Same3
  <1>8. CASE DeleteRow
    <2>1. /\ Same3 /\ intent' = Put(intent, ui.id, None) /\ queue' = queue
          /\ ui.id \in Ids
      BY <1>8 DEF DeleteRow, Same3, TypeInv, UiHolds
    <2> QED
      BY <2>1, <1>a, <1>g, Withdraws, QueueSame DEF Same3
  <1>8b. CASE DiscardDone
    <2>1. CASE ui.id = None
      <3>1. Same3 /\ intent' = intent /\ queue' = queue
        BY <1>8b, <2>1 DEF DiscardDone, TakenBack, idbVars, Same3
      <3> QED
        BY <3>1, <1>b, <1>e, QueueSame
    <2>2. CASE ui.id # None
      <3>1. /\ UNCHANGED <<born, stored, queue>> /\ waived' = waived \cup {ui.id}
            /\ intent' = Put(intent, ui.id, None) /\ ui.id \in Ids
        BY <1>8b, <2>2 DEF DiscardDone, TakenBack, idbVars, TypeInv, TypeOK, UiState
      <3> QED
        BY <3>1, <1>a, <1>g, Withdraws, QueueSame
    <2> QED
      BY <2>1, <2>2
  <1>9. ASSUME NEW o \in queue, Discard(o)
        PROVE  Step
    <2>1. /\ UNCHANGED <<born, stored>> /\ waived' = waived \cup {o.cid}
          /\ intent' = intent /\ queue' = queue
          /\ o.cid \in Ids
      BY <1>9 DEF Discard, idbVars, TypeInv, TypeOK, IdbOK, PendingOperation
    <2> QED
      BY <2>1, <1>a, <1>e, Waives, QueueSame
  <1>10. ASSUME NEW o \in ui.ops, DiscardOp(o)
         PROVE  Step
    <2>1. /\ queue' = Without(o.n) /\ o \in Referred /\ o.cid \in Ids
          /\ UNCHANGED <<born, stored>>
          /\ intent' = IF ui.id = None THEN intent ELSE Put(intent, ui.id, None)
          /\ waived' = IF ui.id = None THEN waived ELSE waived \cup {ui.id}
          /\ IF ui.id = None THEN o.cid \in waived ELSE o.cid = ui.id
      BY <1>10 DEF DiscardOp, TakenBack, Referred, Wishes, DiscardsWithdrawn, TypeInv, TypeOK,
                   UiState, PendingOperation
    <2>2. Pending' = Pending \/ Pending' = Pending \ {o.cid}
      BY <2>1, RemovePending
    <2>3. CASE ui.id = None
      <3>1. Wanted' = Wanted /\ o.cid \in waived
        BY <2>1, <2>3, <1>e
      <3>2. Same3
        BY <2>1, <2>3 DEF Same3
      <3> QED
        BY <2>1, <2>2, <3>1, <3>2, <1>a, <1>b, Settles
    <2>4. CASE ui.id # None
      <3>1. Wanted' = Wanted \ {o.cid}
        BY <2>1, <2>4, <1>g
      <3> QED
        BY <2>1, <2>2, <2>4, <3>1, <1>a, Withdraws
    <2> QED
      BY <2>3, <2>4
  <1>11. ASSUME NEW o \in ui.ops, RetryOp(o)
         PROVE  Step
    <2> DEFINE f == [o EXCEPT !.attempts = 0]
    <2>1. /\ Same3 /\ intent' = intent /\ queue' = Without(o.n) \cup {f}
      BY <1>11 DEF RetryOp, ghostVars, Same3
    <2>2. Same(f, o) /\ o \in Referred /\ f.cid \in Ids
      BY DEF Same, Referred, TypeInv, TypeOK, UiState, PendingOperation
    <2> HIDE DEF f
    <2>3. Pending' = Pending \/ Pending' = Pending \cup {f.cid}
      BY <2>1, <2>2, WriteBackPending
    <2> QED
      BY <2>1, <2>2, <2>3, <1>a, <1>b, <1>e, Requeues
  <1>12. CASE Ui
    BY <1>12, <1>c, <1>2, <1>3, <1>4, <1>5, <1>6, <1>7, <1>8, <1>8b, <1>9, <1>10, <1>11 DEF Ui
  <1>13. ASSUME NEW op \in todo, ServerApply(op)
         PROVE  Step
    <2>1. /\ UNCHANGED <<born, waived, intent, queue>> /\ op.cid \in Ids
          /\ stored' = stored \/ stored' = stored \cup {op.cid}
      BY <1>13 DEF ServerApply, idbVars, TypeInv, TypeOK, BatchOK, PendingOperation
    <2>2. Wanted' = Wanted /\ Pending' = Pending
      BY <2>1, <1>e, QueueSame
    <2> QED
      BY <2>1, <2>2, <1>a, <1>b, Stores DEF Same3
  <1>14. ASSUME NEW r \in results, RecordFailure(r)
         PROVE  Step
    <2> DEFINE f == [held EXCEPT !.attempts = @ + 1]
    <2>1. Same3 /\ intent' = intent /\ queue' = Without(held.n) \cup {f}
      BY <1>14 DEF RecordFailure, Failure, ghostVars, Same3
    <2>2. Same(f, held) /\ held \in Referred /\ f.cid \in Ids
      BY <1>14 DEF RecordFailure, Same, Referred, TypeInv, TypeOK, PullOK, PendingOperation
    <2> HIDE DEF f
    <2>3. Pending' = Pending \/ Pending' = Pending \cup {f.cid}
      BY <2>1, <2>2, WriteBackPending
    <2> QED
      BY <2>1, <2>2, <2>3, <1>a, <1>b, <1>e, Requeues
  <1>15. ASSUME NEW r \in results, NEW o \in sent, AckDone(r, o)
         PROVE  Step
    <2>1. /\ Same3 /\ intent' = intent /\ queue' = Without(o.n) /\ o \in Referred
          /\ o.cid \in Ids
      BY <1>15 DEF AckDone, ghostVars, Same3, Referred, TypeInv, TypeOK, BatchOK, PendingOperation
    <2>2. ASSUME o.type = "create"
          PROVE  o.cid \in stored
      <3>1. r.status = "ok" /\ r.cid = o.cid
        BY <1>15, <2>2 DEF AckDone, Answers, Batch, ResultsAnswer
      <3>2. PICK p \in sent : p.n = r.n /\ p.cid = r.cid /\ (p.type = "create" => r.cid \in stored)
        BY <3>1 DEF Batch, ResultsAnswer
      <3> QED
        BY <2>2, <3>1, <3>2 DEF Batch, BatchUniform
    <2>3. Pending' = Pending \/ (o.cid \in stored /\ Pending' = Pending \ {o.cid})
      BY <2>1, <2>2, RemovePending
    <2> QED
      BY <2>1, <2>3, <1>a, <1>b, <1>e, Settles
  <1>16. CASE StartSync \/ Pass
    <2>1. ASSUME UNCHANGED <<queue, born, intent, waived, stored>>
          PROVE  Step
      BY <2>1, <1>b, <1>e, QueueSame DEF Same3
    <2> QED
      BY <1>16, <1>13, <1>14, <1>15, <2>1
      DEF StartSync, Pass, PushReply, AckRejected, AckCreated, MarkSynced, BatchDone, PullQuery,
          PullReply, Merge, ClearStore, FillStore, SaveLastSync, idbVars, ghostVars
  <1>17. CASE Loss \/ Crash
    <2>1. Same3 /\ intent' = intent /\ queue' = queue
      BY <1>17 DEF Loss, Crash, idbVars, ghostVars, Same3
    <2> QED
      BY <2>1, <1>b, <1>e, QueueSame
  <1>18. ASSUME NEW id \in Ids, OtherDelete(id) \/ \E v \in Vals : OtherWrite(id, v)
         PROVE  Step
    <2>1. /\ UNCHANGED <<born, stored>> /\ waived' = waived \cup {id}
          /\ intent' = intent /\ queue' = queue
      BY <1>18 DEF OtherDelete, OtherWrite, idbVars
    <2> QED
      BY <2>1, <1>a, <1>e, Waives, QueueSame
  <1>19. ASSUME NEW id \in Ids, HttpLoss(id)
         PROVE  Step
    <2>1. /\ ui.pc \in {"http", "reply"} /\ ui.id \in Ids /\ ui.type \in OpTypes /\ ui.id \in born
          /\ Enqueue(ui.type, id, ui.val) /\ born' = born \cup {id} /\ UNCHANGED <<stored, waived>>
          /\ ui.type # "delete" => ui.val \in Vals
      BY <1>19 DEF HttpLoss, Fallback, TypeInv, TypeOK, UiState, UiHolds, Writing, Wishes, WishesBorn
    <2>2. Pending' = IF ui.type = "create" THEN Pending \cup {id} ELSE Pending
      BY <2>1, EnqueuePending
    <2>3. CASE ui.type = "create"
      <3>1. id \notin born /\ intent' = Put(Put(intent, ui.id, None), id, ui.val)
        BY <1>19, <2>3 DEF HttpLoss
      <3>2. Wanted' = (Wanted \ {ui.id}) \cup {id}
        BY <2>1, <2>3, <3>1, <1>d DEF Wanted, Put
      <3>3. Pending' = Pending \cup {id}
        BY <2>2, <2>3
      <3> QED
        BY <2>1, <3>1, <3>2, <3>3, <1>a, AsksAgain
    <2>4. CASE ui.type = "update"
      <3>1. id = ui.id /\ intent' = Put(intent, id, ui.val)
        BY <1>19, <2>4 DEF HttpLoss
      <3>2. intent[id] # None
        BY <2>1, <2>4, <3>1 DEF Wishes, WishesBorn
      <3>3. Wanted' = Wanted
        BY <2>1, <2>4, <3>1, <3>2, <1>d DEF Wanted, Put
      <3>4. Same3 /\ Pending' = Pending
        BY <2>1, <2>2, <2>4, <3>1 DEF Same3
      <3> QED
        BY <3>3, <3>4, <1>b
    <2>5. CASE ui.type = "delete"
      <3>1. id = ui.id /\ intent' = Put(intent, id, None)
        BY <1>19, <2>5 DEF HttpLoss
      <3>2. Same3 /\ Pending' = Pending
        BY <2>1, <2>2, <2>5, <3>1 DEF Same3
      <3> QED
        BY <3>1, <3>2, <1>a, <1>g, Withdraws DEF Same3
    <2> QED
      BY <2>1, <2>3, <2>4, <2>5 DEF OpTypes
  <1>20. CASE UNCHANGED vars
    <2>1. Same3 /\ intent' = intent /\ queue' = queue
      BY <1>20 DEF vars, Same3
    <2> QED
      BY <2>1, <1>b, <1>e, QueueSame
  <1> QED
    BY <1>12, <1>16, <1>17, <1>18, <1>19, <1>20 DEF Next, Environment

\* The client implements Delivery: its first state is one of Delivery's, and each
\* of its steps is one of Delivery's or unseen there.
THEOREM ClientDelivers == Spec => CreatesDelivered
  <1>1. Init => Creates!Init
    <2>1. PICK v \in Vals : v = CHOOSE w \in Vals : TRUE
      OBVIOUS
    <2> QED
      BY <2>1 DEF Init, Creates!Init, CreateQueued
  <1>2. IndInv /\ [Next]_vars => [Creates!Next]_(Creates!vars)
    BY DeliveryStep DEF IndInv, TypeInv, Keys, Batch, Wishes
  <1> QED
    BY <1>1, <1>2, Initially, Inductive, PTL DEF Spec, CreatesDelivered, Creates!Spec

-----------------------------------------------------------------------------
(* What leaves the queue                                                   *)

\* History agrees with the pass: results that are ok were accepted, and a batch
\* with two operations of one row is on record.
History ==
  /\ \A r \in results : r.status = "ok" => r.n \in accepted
  /\ \A o, p \in sent : o.cid = p.cid /\ o.n # p.n => o.cid \in doubled

LEMMA HistoryStep ==
  ASSUME TypeInv, History, [Next]_vars
  PROVE  History'
  <1> USE DEF History
  <1>1. CASE Ui
    <2>1. UNCHANGED <<results, sent, accepted, doubled>>
      BY <1>1 DEF Ui, Create, Update, Delete, Online, HttpRun, HttpReply, CreateRow, UpdateRead,
         UpdateRow, DeleteQueue, WithdrawRead, DeleteRow, Discard, DiscardOp, TakenBack, DiscardRow, RetryOp,
         DiscardDone, Retry, ghostVars, passVars
    <2> QED
      BY <2>1
  <1>2. ASSUME NEW ops, SendBatch(ops), UNCHANGED <<results, accepted>>, ops \subseteq PendingOperation
        PROVE  History'
    <2>1. sent' = ops /\ doubled' = doubled \cup Doubles(ops)
      BY <1>2 DEF SendBatch
    <2>2. \A o, p \in ops : o.cid = p.cid /\ o.n # p.n => o.cid \in Doubles(ops)
      BY <1>2 DEF Doubles, PendingOperation
    <2> QED
      BY <1>2, <2>1, <2>2
  <1>3. CASE StartSync
    <2> DEFINE pending == {o \in queue : ~isOperationFailed(o)}
               creates == {o \in pending : o.type = "create"}
               ops == FirstBatch(creates, pending \ creates)
    <2>1. UNCHANGED <<results, accepted>>
      BY <1>3 DEF StartSync
    <2>2. ops \subseteq PendingOperation
      BY DEF FirstBatch, TypeInv, TypeOK, IdbOK
    <2>3. UNCHANGED <<sent, doubled>> \/ SendBatch(ops)
      BY <1>3 DEF StartSync
    <2> HIDE DEF ops
    <2> QED
      BY <1>2, <2>1, <2>2, <2>3
  <1>4. CASE BatchDone
    <2>1. UNCHANGED <<results, accepted>> /\ later \subseteq PendingOperation
      BY <1>4 DEF BatchDone, TypeInv, TypeOK, BatchOK
    <2>2. SendBatch(later) \/ (sent' = {} /\ doubled' = doubled)
      BY <1>4 DEF BatchDone
    <2> QED
      BY <1>2, <2>1, <2>2
  <1>5. ASSUME NEW op \in todo, ServerApply(op)
        PROVE  History'
    <2>1. PICK status :
            /\ results' = results \cup {[n |-> op.n, cid |-> op.cid, status |-> status]}
            /\ accepted' = IF status = "ok" THEN accepted \cup {op.n} ELSE accepted
            /\ UNCHANGED <<sent, doubled>>
      BY <1>5 DEF ServerApply
    <2> QED
      BY <2>1
  <1>6. CASE Pass
    <2>1. ASSUME results' \subseteq results, UNCHANGED <<sent, accepted, doubled>>
          PROVE  History'
      BY <2>1
    <2> QED
      BY <1>4, <1>5, <1>6, <2>1
      DEF Pass, PushReply, RecordFailure, AckRejected, AckCreated, MarkSynced, AckDone, PullQuery,
          PullReply, Merge, ClearStore, FillStore, SaveLastSync, ghostVars
  <1>7. CASE Environment
    <2>1. UNCHANGED <<accepted, doubled>>
      BY <1>7 DEF Environment, Loss, HttpLoss, Crash, OtherDelete, OtherWrite, ghostVars
    <2>2. (results' = {} /\ sent' = {}) \/ UNCHANGED <<results, sent>>
      BY <1>7 DEF Environment, Loss, HttpLoss, Crash, OtherDelete, OtherWrite, PassReset, passVars
    <2> QED
      BY <2>1, <2>2
  <1>8. CASE UNCHANGED vars
    BY <1>8 DEF vars
  <1> QED
    BY <1>1, <1>3, <1>6, <1>7, <1>8 DEF Next

\* Only an acknowledgement or a discard takes an operation out of the queue.
LEMMA LeaveStep ==
  ASSUME TypeInv, Keys, Batch, History, [Next]_vars,
         NEW x \in queue, \A p \in queue' : p.n # x.n
  PROVE  x.n \in accepted \/ ui.pc = "discard" \/ x.cid \in doubled
  <1>1. ~(queue \subseteq queue')
    OBVIOUS
  <1>2. CASE Ui
    <2>1. ASSUME NEW o \in ui.ops, RetryOp(o)
          PROVE  FALSE
      <3>1. queue' = Without(o.n) \cup {[o EXCEPT !.attempts = 0]}
            /\ [o EXCEPT !.attempts = 0].n = o.n
        BY <2>1 DEF RetryOp, TypeInv, TypeOK, UiState, PendingOperation
      <3> QED
        BY <3>1 DEF Without
    <2> QED
      BY <1>1, <1>2, <2>1
      DEF Ui, Create, Update, Delete, Online, HttpRun, HttpReply, CreateRow, UpdateRead, UpdateRow,
          DeleteQueue, WithdrawRead, DeleteRow, Discard, DiscardOp, TakenBack, DiscardRow, DiscardDone, Retry,
          Enqueue, idbVars
  <1>3. ASSUME NEW r \in results, RecordFailure(r)
        PROVE  FALSE
    <2>1. queue' = Without(held.n) \cup {[held EXCEPT !.attempts = @ + 1]}
          /\ [held EXCEPT !.attempts = @ + 1].n = held.n
      BY <1>3 DEF RecordFailure, Failure, TypeInv, TypeOK, PullOK, PendingOperation
    <2> QED
      BY <2>1 DEF Without
  <1>4. ASSUME NEW r \in results, NEW o \in sent, AckDone(r, o)
        PROVE  x.n \in accepted \/ x.cid \in doubled
    <2>1. queue' = Without(o.n) /\ r.cid = o.cid
      BY <1>4 DEF AckDone, Answers
    <2>2. x.n = o.n
      BY <2>1 DEF Without
    <2>3. x.cid = o.cid
      BY <2>2 DEF Keys, KeysName, Referred
    <2>4. r.status = "ok"
      BY <1>4 DEF AckDone, Batch, ResultsAnswer
    <2>5. PICK p \in sent : p.n = r.n /\ p.cid = r.cid
      BY DEF Batch, ResultsAnswer
    <2>6. CASE p.n = o.n
      BY <2>2, <2>4, <2>5, <2>6 DEF History
    <2>7. CASE p.n # o.n
      BY <2>1, <2>3, <2>5, <2>7 DEF History
    <2> QED
      BY <2>6, <2>7
  <1>5. CASE StartSync \/ Pass
    BY <1>1, <1>3, <1>4, <1>5
    DEF StartSync, Pass, ServerApply, PushReply, AckRejected, AckCreated, MarkSynced, BatchDone,
        PullQuery, PullReply, Merge, ClearStore, FillStore, SaveLastSync, idbVars
  <1>6. CASE Environment
    BY <1>1, <1>6 DEF Environment, Loss, HttpLoss, Crash, OtherDelete, OtherWrite, Fallback, Enqueue,
                      idbVars
  <1>7. CASE UNCHANGED vars
    BY <1>1, <1>7 DEF vars
  <1> QED
    BY <1>2, <1>5, <1>6, <1>7 DEF Next

\* What every mutator, every step of a pass and every fault keeps (sync-engine.ts,
\* offline-mutations.ts, idb.ts): operation numbers name one operation and one row, the
\* batch in flight is a batch of the queue, an answer answers it, and a row still
\* wanted is on the server or its create is queued.
THEOREM IndInvHolds == Spec => []IndInv
  <1> QED
    BY Initially, Inductive, PTL DEF Spec

\* An operation leaves the queue only once the server accepted it or the user drops
\* it, except for rows with two operations in one batch.
THEOREM OnlySettledOperationsLeave == Spec => OnlySettledLeave
  <1>1. Init => History
    BY DEF Init, History
  <1>2. IndInv /\ History /\ [Next]_vars => History'
    BY HistoryStep DEF IndInv, TypeInv
  <1>3. IndInv /\ History /\ [Next]_vars =>
          [\A o \in queue :
             (\A p \in queue' : p.n # o.n) =>
               \/ o.n \in accepted
               \/ ui.pc = "discard"
               \/ o.cid \in doubled]_vars
    BY LeaveStep DEF IndInv, TypeInv, Keys, Batch
  <1> QED
    BY <1>1, <1>2, <1>3, Initially, Inductive, PTL DEF Spec, OnlySettledLeave

-----------------------------------------------------------------------------
(* Creates go first                                                        *)

\* The create of a row is queued, and the batch that left does not hold it.
LeftOut(id) ==
  \E c \in queue : c.cid = id /\ c.type = "create" /\ \A s \in sent : s.n # c.n

\* The create of a row left with the batch and has not been acknowledged.
Awaited(id) ==
  \E s \in sent : s.cid = id /\ s.type = "create" /\ (s \in todo \/ \E r \in results : r.n = s.n)

\* What holds an edit or a delete back: it follows only when no create failed, and by
\* then the server has the row, unless its create was withdrawn or left out.
Behind(id) ==
  intent[id] # None => id \in stored \cup waived \/ failed \/ LeftOut(id) \/ Awaited(id)

HeldBack ==
  /\ pc = "fail" => failed
  /\ \A o \in later : Behind(o.cid)

\* A row that was born becomes wanted again only when the server has it.
LEMMA IntentStep ==
  ASSUME TypeInv, Wishes, NEW id \in born, intent'[id] # None, [Next]_vars
  PROVE  intent[id] # None \/ id \in stored'
  <1>0. /\ intent \in [Ids -> Vals \cup {None}] /\ id \in Ids
        /\ UiHolds /\ ui \in UiState /\ clock \in Nat /\ db \in [Ids -> ServerRow \cup {None}]
    BY DEF TypeInv, TypeOK, GhostOK, ServerOK
  <1>1. ASSUME NEW i \in Ids, NEW v \in Vals, Create(i, v) \/ Update(i, v)
        PROVE  intent[id] # None
    BY <1>0, <1>1 DEF Create, Update, Wish, Put
  <1>2. CASE HttpRun
    <2>1. ui.id \in Ids /\ (ui.type # "delete" => ui.val \in Vals) /\ ui.type \in OpTypes
      BY <1>0, <1>2 DEF HttpRun, UiHolds, Writing, UiState
    <2> DEFINE op == [n |-> 0, type |-> ui.type, cid |-> ui.id, val |-> ui.val, attempts |-> 0]
    <2>2. PICK out : out = Applied(op, db[ui.id], clock + 1)
      OBVIOUS
    <2>3. /\ stored' = IF out.row # None THEN stored \cup {ui.id} ELSE stored
          /\ intent' = IF out.status # "ok" THEN intent
                       ELSE Put(intent, ui.id, IF ui.type = "delete" THEN None ELSE ui.val)
      BY <1>2, <2>2 DEF HttpRun
    <2>4. out.status = "ok" /\ ui.type # "delete" => out.row # None
      BY <1>0, <2>1, <2>2, AppliedType
    <2> QED
      BY <1>0, <2>1, <2>3, <2>4 DEF Put
  <1>3. CASE DeleteQueue \/ DeleteRow
    BY <1>0, <1>3 DEF DeleteQueue, DeleteRow, Put
  <1>4. ASSUME NEW o, DiscardOp(o) \/ DiscardDone
        PROVE  intent[id] # None
    BY <1>0, <1>4 DEF DiscardOp, DiscardDone, TakenBack, Put
  <1>5. CASE Ui
    BY <1>1, <1>2, <1>3, <1>4, <1>5
    DEF Ui, Delete, Online, HttpReply, CreateRow, UpdateRead, UpdateRow, WithdrawRead, Discard,
        DiscardRow, RetryOp, DiscardDone, Retry, ghostVars
  <1>6. ASSUME NEW i \in Ids, HttpLoss(i)
        PROVE  intent[id] # None
    <2>1. ui.type = "update" => intent[i] # None
      BY <1>6 DEF HttpLoss, Wishes, WishesBorn
    <2> QED
      BY <1>0, <1>6, <2>1 DEF HttpLoss, Put, OpTypes, UiState
  <1>7. CASE StartSync \/ Pass
    BY <1>7, PassFrame
  <1>8. CASE Environment
    BY <1>6, <1>8 DEF Environment, Loss, Crash, OtherDelete, OtherWrite, ghostVars
  <1> QED
    BY <1>5, <1>7, <1>8 DEF Next, vars

\* A create that was left out stays queued, unless it is withdrawn.
LEMMA LeftOutStep ==
  ASSUME TypeInv, Keys, Wishes, [Next]_vars, sent' = sent, NEW id \in Ids, LeftOut(id)
  PROVE  LeftOut(id)' \/ id \in waived \/ intent'[id] = None
  <1>0. PICK c \in queue : c.cid = id /\ c.type = "create" /\ \A s \in sent : s.n # c.n
    BY DEF LeftOut
  <1>1. CASE queue \subseteq queue'
    BY <1>0, <1>1 DEF LeftOut
  <1>2. ASSUME NEW o \in Referred, NEW f, Same(f, o), queue' = Without(o.n) \cup {f}
        PROVE  LeftOut(id)'
    <2>1. CASE o.n = c.n
      <3>1. f \in queue' /\ f.n = c.n /\ f.cid = id /\ f.type = "create"
        BY <1>0, <1>2, <2>1 DEF Same, Keys, KeysName, Referred
      <3> QED
        BY <1>0, <3>1 DEF LeftOut
    <2>2. CASE o.n # c.n
      BY <1>0, <1>2, <2>2 DEF LeftOut, Without
    <2> QED
      BY <2>1, <2>2
  <1>3. ASSUME NEW o \in ui.ops, RetryOp(o)
        PROVE  LeftOut(id)'
    <2> DEFINE f == [o EXCEPT !.attempts = 0]
    <2>1. o \in PendingOperation /\ o \in Referred
      BY DEF TypeInv, TypeOK, UiState, Referred
    <2>2. Same(f, o) /\ queue' = Without(o.n) \cup {f}
      BY <1>3, <2>1 DEF RetryOp, Same, PendingOperation
    <2> HIDE DEF f
    <2> QED
      BY <1>2, <2>1, <2>2
  <1>4. ASSUME NEW o \in ui.ops, DiscardOp(o)
        PROVE  LeftOut(id)' \/ id \in waived \/ intent'[id] = None
    <2>1. CASE o.n # c.n
      BY <1>0, <1>4, <2>1 DEF DiscardOp, TakenBack, LeftOut, Without
    <2>2. CASE o.n = c.n
      <3>1. o.cid = id
        BY <1>0, <2>2 DEF Keys, KeysName, Referred
      <3>2. IF ui.id = None THEN id \in waived ELSE ui.id = id
        BY <1>4, <3>1 DEF DiscardOp, TakenBack, Wishes, DiscardsWithdrawn
      <3> QED
        BY <1>4, <3>2 DEF DiscardOp, TakenBack, Put, TypeInv, TypeOK, GhostOK
    <2> QED
      BY <2>1, <2>2
  <1>5. ASSUME NEW r \in results, RecordFailure(r)
        PROVE  LeftOut(id)'
    <2> DEFINE f == [held EXCEPT !.attempts = @ + 1]
    <2>1. held \in PendingOperation /\ held \in Referred
      BY <1>5 DEF RecordFailure, TypeInv, TypeOK, PullOK, Referred
    <2>2. Same(f, held) /\ queue' = Without(held.n) \cup {f}
      BY <1>5, <2>1 DEF RecordFailure, Failure, Same, PendingOperation
    <2> HIDE DEF f
    <2> QED
      BY <1>2, <2>1, <2>2
  <1>6. ASSUME NEW r \in results, NEW o \in sent, AckDone(r, o)
        PROVE  LeftOut(id)'
    BY <1>0, <1>6 DEF AckDone, LeftOut, Without
  <1>7. CASE Ui
    BY <1>1, <1>3, <1>4, <1>7
    DEF Ui, Create, Update, Delete, Online, HttpRun, HttpReply, CreateRow, UpdateRead, UpdateRow,
        DeleteQueue, WithdrawRead, DeleteRow, Discard, DiscardRow, DiscardDone, Retry, Enqueue, idbVars
  <1>8. CASE StartSync \/ Pass
    BY <1>1, <1>5, <1>6, <1>8
    DEF StartSync, Pass, ServerApply, PushReply, AckRejected, AckCreated, MarkSynced, BatchDone,
        PullQuery, PullReply, Merge, ClearStore, FillStore, SaveLastSync, idbVars
  <1>9. CASE Environment \/ UNCHANGED vars
    BY <1>1, <1>9 DEF Environment, Loss, HttpLoss, Crash, OtherDelete, OtherWrite, Fallback, Enqueue,
                      idbVars, vars
  <1> QED
    BY <1>7, <1>8, <1>9 DEF Next

\* A create that left is answered: the server then has the row, or the pass has failed.
LEMMA AwaitedStep ==
  ASSUME TypeInv, Keys, Batch, HeldBack, [Next]_vars, sent' = sent, NEW id \in Ids, Awaited(id)
  PROVE  Awaited(id)' \/ id \in stored' \/ failed'
  <1>0. PICK s \in sent : s.cid = id /\ s.type = "create" /\ (s \in todo \/ \E r \in results : r.n = s.n)
    BY DEF Awaited
  <1>1. CASE todo \subseteq todo' /\ results \subseteq results'
    BY <1>0, <1>1 DEF Awaited
  <1>2. ASSUME NEW op \in todo, ServerApply(op)
        PROVE  Awaited(id)'
    <2>1. \E q : q.n = op.n /\ results' = results \cup {q}
      BY <1>2 DEF ServerApply
    <2>2. todo' = todo \ {op}
      BY <1>2 DEF ServerApply
    <2> QED
      BY <1>0, <2>1, <2>2 DEF Awaited
  <1>3. ASSUME NEW r \in results, RecordFailure(r)
        PROVE  failed'
    BY <1>3 DEF RecordFailure, HeldBack
  <1>4. ASSUME NEW r \in results, NEW o \in sent, AckRejected(r, o)
        PROVE  failed'
    BY <1>4 DEF AckRejected
  <1>5. ASSUME NEW r \in results, NEW o \in sent, AckDone(r, o)
        PROVE  Awaited(id)' \/ id \in stored'
    <2>1. UNCHANGED <<todo, stored>> /\ results' = results \ {r}
      BY <1>5 DEF AckDone, ghostVars
    <2>2. CASE s \in todo
      BY <1>0, <2>1, <2>2 DEF Awaited
    <2>3. ASSUME NEW q \in results, q.n = s.n, q # r
          PROVE  Awaited(id)'
      BY <1>0, <2>1, <2>3 DEF Awaited
    <2>4. CASE r.n = s.n
      <3>1. r.status = "ok"
        BY <1>5 DEF AckDone, Batch, ResultsAnswer
      <3>2. PICK p \in sent : /\ p.n = r.n /\ p.cid = r.cid
                              /\ r.status = "ok" /\ p.type = "create" => r.cid \in stored
        BY DEF Batch, ResultsAnswer
      <3>3. p = s
        BY <2>4, <3>2 DEF Keys, KeysUnique
      <3> QED
        BY <1>0, <2>1, <3>1, <3>2, <3>3
    <2> QED
      BY <1>0, <2>2, <2>3, <2>4
  <1>6. CASE StartSync \/ BatchDone
    <2>1. UNCHANGED results /\ (todo' = todo \/ todo' = sent')
      BY <1>6 DEF StartSync, BatchDone, SendBatch
    <2> QED
      BY <1>0, <2>1 DEF Awaited
  <1>7. CASE Pass
    BY <1>1, <1>2, <1>3, <1>4, <1>5, <1>6, <1>7
    DEF Pass, PushReply, AckCreated, MarkSynced, PullQuery, PullReply, Merge, ClearStore, FillStore,
        SaveLastSync
  <1>8. CASE Ui \/ UNCHANGED vars
    BY <1>1, <1>8, UiFrame DEF passVars, vars
  <1>9. CASE Environment
    <2>1. UNCHANGED <<todo, results>> \/ sent' = {}
      BY <1>9 DEF Environment, Loss, HttpLoss, Crash, OtherDelete, OtherWrite, PassReset, passVars
    <2> QED
      BY <1>0, <1>1, <2>1
  <1> QED
    BY <1>6, <1>7, <1>8, <1>9 DEF Next

\* What is held back stays behind its create, whatever anyone does meanwhile.
LEMMA HeldBackStep ==
  ASSUME TypeInv, Keys, Batch, Wishes, Rooted, HeldBack, NoCreateLost, [Next]_vars
  PROVE  HeldBack'
  <1>0. /\ stored \subseteq stored' /\ waived \subseteq waived'
        /\ \A o \in later : o.cid \in born /\ o.cid \in Ids
    BY GrowStep DEF Rooted, Referred, TypeInv, TypeOK, BatchOK, PendingOperation
  <1>1. pc' = "fail" => failed'
    <2>1. ASSUME NEW r \in results, NEW o \in sent, AckRejected(r, o)
          PROVE  failed'
      BY <2>1 DEF AckRejected
    <2>2. CASE Pass
      BY <2>1, <2>2
      DEF Pass, ServerApply, PushReply, RecordFailure, AckCreated, MarkOrDrop, MarkSynced, AckDone,
          BatchDone, SendBatch, PullQuery, PullReply, Merge, ClearStore, FillStore, SaveLastSync, HeldBack
    <2>3. CASE Ui \/ StartSync \/ UNCHANGED vars
      BY <2>3, UiFrame DEF StartSync, SendBatch, HeldBack, passVars, vars
    <2>4. CASE Environment
      BY <2>4 DEF Environment, Loss, HttpLoss, Crash, OtherDelete, OtherWrite, PassReset, passVars, HeldBack
    <2> QED
      BY <2>2, <2>3, <2>4 DEF Next
  <1>2. ASSUME NEW o \in later, sent' = sent, failed => failed', intent'[o.cid] # None
        PROVE  o.cid \in stored' \cup waived' \/ failed' \/ LeftOut(o.cid)' \/ Awaited(o.cid)'
    <2>1. intent[o.cid] # None \/ o.cid \in stored'
      BY <1>0, <1>2, IntentStep
    <2>2. intent[o.cid] # None => o.cid \in stored \cup waived \/ failed \/ LeftOut(o.cid) \/ Awaited(o.cid)
      BY DEF HeldBack, Behind
    <2>3. CASE LeftOut(o.cid)
      BY <1>0, <1>2, <2>3, LeftOutStep
    <2>4. CASE Awaited(o.cid)
      BY <1>0, <1>2, <2>4, AwaitedStep
    <2> QED
      BY <1>0, <1>2, <2>1, <2>2, <2>3, <2>4
  <1> DEFINE Held == \A o \in later : Behind(o.cid)
  <1>3. ASSUME later' = later, sent' = sent, failed => failed'
        PROVE  Held'
    BY <1>2, <1>3 DEF Behind
  <1>4. ASSUME later' = {}
        PROVE  Held'
    BY <1>4
  <1>5. ASSUME StartSync
        PROVE  Held'
    <2> DEFINE pending == {o \in queue : ~isOperationFailed(o)}
               creates == {o \in pending : o.type = "create"}
    <2>1. UNCHANGED <<queue, intent, born, stored, waived>>
      BY <1>5 DEF StartSync, idbVars
    <2>2. ASSUME UNCHANGED <<sent, later>>
          PROVE  Held'
      <3>1. failed' = failed
        BY <1>5 DEF StartSync
      <3> QED
        BY <1>3, <2>2, <3>1
    <2>3. ASSUME creates # {}, sent' = creates, todo' = creates, later' = pending \ creates
          PROVE  Held'
      <3>1. ASSUME NEW o \in later', intent'[o.cid] # None, o.cid \notin stored' \cup waived'
            PROVE  LeftOut(o.cid)' \/ Awaited(o.cid)'
        <4>1. o.cid \in born
          BY <2>3 DEF Rooted, Referred
        <4>2. PICK c \in queue : c.cid = o.cid /\ c.type = "create"
          BY <2>1, <3>1, <4>1 DEF NoCreateLost, CreateQueued
        <4>3. CASE isOperationFailed(c)
          <5>1. \A s \in creates : s.n # c.n
            BY <4>3 DEF Keys, KeysUnique
          <5> QED
            BY <2>1, <2>3, <4>2, <5>1 DEF LeftOut
        <4>4. CASE ~isOperationFailed(c)
          BY <2>3, <4>2, <4>4 DEF Awaited
        <4> QED
          BY <4>3, <4>4
      <3> QED
        BY <3>1 DEF Behind
    <2> QED
      BY <1>4, <1>5, <2>2, <2>3 DEF StartSync, SendBatch, FirstBatch
  <1>6. ASSUME Pass
        PROVE  Held'
    BY <1>3, <1>4, <1>6
    DEF Pass, ServerApply, PushReply, RecordFailure, AckRejected, AckCreated, MarkSynced, AckDone,
        BatchDone, PullQuery, PullReply, Merge, ClearStore, FillStore, SaveLastSync
  <1>7. ASSUME Ui \/ UNCHANGED vars
        PROVE  Held'
    BY <1>3, <1>7, UiFrame DEF passVars, vars
  <1>8. ASSUME Environment
        PROVE  Held'
    BY <1>3, <1>4, <1>8 DEF Environment, Loss, HttpLoss, Crash, OtherDelete, OtherWrite, PassReset, passVars
  <1> QED
    BY <1>1, <1>5, <1>6, <1>7, <1>8 DEF Next, HeldBack

\* A batch leaves with creates only, or with what was held back until they were settled.
LEMMA BatchLeaves ==
  ASSUME TypeInv, Keys, Batch, Rooted, HeldBack, NoCreateLost, [Next]_vars,
         pc # "push", pc' = "push",
         NEW o \in sent', o.type # "create", intent[o.cid] # None
  PROVE  o.cid \in stored \cup waived \/ CreateLeftOut(o.cid)
  <1>1. CASE StartSync
    <2> DEFINE pending == {p \in queue : ~isOperationFailed(p)}
               creates == {p \in pending : p.type = "create"}
    <2>1. pc = "idle" /\ creates = {} /\ o \in queue
      BY <1>1 DEF StartSync, SendBatch, FirstBatch
    <2>2. o.cid \in born
      BY <2>1 DEF Rooted, Referred
    <2>3. CASE o.cid \notin stored \cup waived
      <3>1. PICK c \in queue : c.cid = o.cid /\ c.type = "create"
        BY <2>2, <2>3 DEF NoCreateLost, CreateQueued
      <3>2. isOperationFailed(c)
        BY <2>1, <3>1
      <3> QED
        BY <2>1, <3>1, <3>2 DEF CreateLeftOut
    <2> QED
      BY <2>3
  <1>2. CASE BatchDone
    <2>1. pc = "ack" /\ results = {} /\ o \in later /\ ~failed
      BY <1>2 DEF BatchDone, SendBatch, PushOver
    <2>2. todo = {}
      BY <2>1 DEF TypeInv, TypeOK, BatchOK
    <2>3. ~Awaited(o.cid)
      BY <2>1, <2>2 DEF Awaited
    <2>4. LeftOut(o.cid) => CreateLeftOut(o.cid)
      BY <2>1 DEF LeftOut, CreateLeftOut
    <2> QED
      BY <2>1, <2>3, <2>4 DEF HeldBack, Behind
  <1>3. CASE Pass /\ ~BatchDone
    BY <1>3
    DEF Pass, ServerApply, PushReply, RecordFailure, AckRejected, AckCreated, MarkOrDrop, MarkSynced,
        AckDone, PullQuery, PullReply, Merge, ClearStore, FillStore, SaveLastSync
  <1>4. CASE Ui \/ UNCHANGED vars
    BY <1>4, UiFrame DEF passVars, vars
  <1>5. CASE Environment
    BY <1>5 DEF Environment, Loss, HttpLoss, Crash, OtherDelete, OtherWrite, PassReset, passVars
  <1> QED
    BY <1>1, <1>2, <1>3, <1>4, <1>5 DEF Next

\* A batch holds an edit or a delete of a row still wanted only when the server has held
\* the row, its create was withdrawn, or the pass left its create out (sync-engine.ts,
\* performSync: creates are pushed first, and the rest follows only when none failed).
THEOREM CreatesGoFirst == Spec => ParentsFirst
  <1>1. Init => Rooted /\ HeldBack
    BY DEF Init, Rooted, HeldBack, Referred, NoRows, IdleUi
  <1>2. IndInv /\ Rooted /\ HeldBack /\ [Next]_vars => Rooted' /\ HeldBack'
    BY RootedStep, HeldBackStep DEF IndInv, TypeInv, Keys, Batch, Wishes
  <1>3. IndInv /\ Rooted /\ HeldBack /\ [Next]_vars =>
          [pc # "push" /\ pc' = "push" =>
             \A o \in sent' : o.type # "create" /\ intent[o.cid] # None =>
               o.cid \in stored \cup waived \/ CreateLeftOut(o.cid)]_vars
    BY BatchLeaves DEF IndInv, TypeInv, Keys, Batch
  <1> QED
    BY <1>1, <1>2, <1>3, Initially, Inductive, PTL DEF Spec, ParentsFirst

-----------------------------------------------------------------------------
(* What has been pushed is what the user asked for                         *)

\* Rows the account leaves out: the user gave up a change of one, someone else wrote
\* it, or a batch held two operations of it.  And rows with a parked operation, which
\* stays queued until the user gives it up.
Excepted(id) == id \in waived \cup doubled
OpsOf(id) == {o \in queue : o.cid = id}
Spoiled(id) == Excepted(id) \/ \E o \in OpsOf(id) : isOperationFailed(o)

\* An operation of the batch whose result has not been handled, and the result that is next.
Unsettled(o) == o \in todo \/ \E r \in results : r.n = o.n
IsNext(r) == \A q \in results : r.n <= q.n

\* Every change goes through the queue, and a row leaves the mirror when nobody wants it.
Queueing ==
  /\ ui.pc \notin {"http", "reply", "retry"}
  /\ ui.pc = "remove" => intent[ui.id] = None

\* What the pass has in hand is what the queue holds, number of attempts included.
InQueue ==
  /\ \A o \in sent : Unsettled(o) /\ ~Excepted(o.cid) => o \in queue /\ ~isOperationFailed(o)
  /\ \A o \in later : ~Excepted(o.cid) => o \in queue /\ ~isOperationFailed(o)
  /\ \A s \in sent, o \in later : s.type = "create"
  /\ pc = "fail" =>
       /\ failed
       /\ \A r \in results : IsNext(r) =>
            held.cid = r.cid /\ (~Excepted(r.cid) => held.n = r.n /\ held \in queue)

Basis == TypeInv /\ Keys /\ Batch /\ Wishes /\ Rooted /\ History

\* What a step can do to the operations of a row, to what the user wants of it and to
\* the server's copy: nothing, or one of four things.
Still(id) ==
  /\ OpsOf(id)' = OpsOf(id)
  /\ intent'[id] = intent[id]
  /\ id \in born' => id \in born
  /\ db'[id] = db[id]
Serves(id) ==
  \E op \in todo :
    /\ op.cid = id /\ ServerApply(op)
    /\ queue' = queue /\ intent' = intent /\ born' = born
Appends(id) ==
  \E new \in PendingOperation :
    /\ new.n = nextOp /\ new.cid = id /\ new.attempts = 0
    /\ queue' = queue \cup {new}
    /\ UNCHANGED <<db, lastSync, passVars>>
    /\ IF new.type = "create"
         THEN id \notin born /\ intent'[id] = new.val
         ELSE /\ id \in born
              /\ intent'[id] = IF new.type = "delete" \/ intent[id] = None THEN None ELSE new.val
Fails(id) ==
  /\ pc = "fail"
  /\ held \in OpsOf(id)
  /\ \E r \in results : RecordFailure(r)
  /\ OpsOf(id)' = (OpsOf(id) \ {held}) \cup {[held EXCEPT !.attempts = @ + 1]}
  /\ intent' = intent /\ born' = born /\ db' = db
Acks(id) ==
  \E r \in results, op \in sent :
    /\ AckDone(r, op)
    /\ op \in OpsOf(id) /\ r.n = op.n /\ r.status = "ok" /\ Unsettled(op)
    /\ OpsOf(id)' = OpsOf(id) \ {op}
    /\ intent' = intent /\ born' = born /\ db' = db

\* A row once put on record for two operations in a batch stays on record.
LEMMA DoubledGrows ==
  ASSUME [Next]_vars
  PROVE  doubled \subseteq doubled'
  <1>1. CASE Ui \/ Environment \/ UNCHANGED vars
    BY <1>1 DEF Ui, Create, Update, Delete, Online, HttpRun, HttpReply, CreateRow, UpdateRead,
                UpdateRow, DeleteQueue, WithdrawRead, DeleteRow, Discard, DiscardOp, DiscardRow,
                RetryOp, DiscardDone, Retry, ghostVars, Environment, Loss, HttpLoss, Crash,
                OtherDelete, OtherWrite, vars
  <1>2. CASE StartSync \/ Pass
    BY <1>2 DEF Pass, StartSync, SendBatch, ServerApply, PushReply, RecordFailure, AckRejected,
                AckCreated, MarkSynced, AckDone, BatchDone, PullQuery, PullReply, Merge, ClearStore,
                FillStore, SaveLastSync, ghostVars
  <1> QED
    BY <1>1, <1>2 DEF Next

\* The single operation a batch holds of a row is the one its result is about.
LEMMA AnswersOne ==
  ASSUME Basis, NEW r \in results, NEW op \in sent, Answers(r, op), ~Excepted(op.cid)
  PROVE  r.n = op.n
  <1>1. PICK s \in sent : s.n = r.n /\ s.cid = r.cid
    BY DEF Basis, Batch, ResultsAnswer
  <1> QED
    BY <1>1 DEF Basis, History, Answers, Excepted

\* The user's part of RowStep.
LEMMA RowUi ==
  ASSUME Basis, Queueing, Queueing', Ui, NEW id \in Ids, ~Excepted(id)'
  PROVE  Still(id) \/ Appends(id)
  <1> USE DEF Put
  <1>0. /\ TypeInv /\ Rooted /\ nextOp \in Nat /\ intent \in [Ids -> Vals \cup {None}]
        /\ born \subseteq Ids
    BY DEF Basis, TypeInv, TypeOK, IdbOK, GhostOK
  <1>1. ASSUME NEW i \in Ids, NEW v \in Vals, Create(i, v)
        PROVE  Still(id) \/ Appends(id)
    <2> DEFINE new == [n |-> nextOp, type |-> "create", cid |-> i, val |-> v, attempts |-> 0]
    <2>1. /\ new \in PendingOperation /\ queue' = queue \cup {new} /\ i \notin born
          /\ intent' = Put(intent, i, v) /\ born' = born \cup {i}
          /\ UNCHANGED <<db, lastSync, passVars>>
      BY <1>0, <1>1 DEF Create, Enqueue, PendingOperation, OpTypes, serverVars
    <2>2. CASE i = id
      BY <1>0, <2>1, <2>2 DEF Appends
    <2>3. CASE i # id
      BY <1>0, <2>1, <2>3 DEF Still, OpsOf
    <2> QED
      BY <2>2, <2>3
  <1>2. ASSUME NEW i \in Ids, NEW v \in Vals, Update(i, v)
        PROVE  Still(id) \/ Appends(id)
    <2> DEFINE new == [n |-> nextOp, type |-> "update", cid |-> i, val |-> v, attempts |-> 0]
    <2>1. /\ new \in PendingOperation /\ queue' = queue \cup {new} /\ i \in born
          /\ Wish(i, v) /\ born' = born
          /\ UNCHANGED <<db, lastSync, passVars>>
      BY <1>0, <1>2 DEF Update, Enqueue, PendingOperation, OpTypes, serverVars, Rooted
    <2>2. CASE i = id
      BY <1>0, <2>1, <2>2 DEF Appends, Wish
    <2>3. CASE i # id
      BY <1>0, <2>1, <2>3 DEF Still, OpsOf, Wish
    <2> QED
      BY <2>2, <2>3
  <1>3. CASE DeleteQueue
    <2> DEFINE new == [n |-> nextOp, type |-> "delete", cid |-> ui.id, val |-> None, attempts |-> 0]
    <2>0. ui.id \in Ids /\ None \notin Ids
      BY <1>0, <1>3 DEF DeleteQueue, TypeInv, UiHolds
    <2>1. /\ new \in PendingOperation /\ queue' = queue \cup {new} /\ ui.id \in born
          /\ intent' = Put(intent, ui.id, None) /\ born' = born
          /\ UNCHANGED <<db, lastSync, passVars>>
      BY <1>0, <1>3, <2>0 DEF DeleteQueue, Enqueue, PendingOperation, OpTypes, serverVars, Rooted
    <2>2. CASE ui.id = id
      BY <1>0, <2>1, <2>2 DEF Appends
    <2>3. CASE ui.id # id
      BY <1>0, <2>1, <2>3 DEF Still, OpsOf
    <2> QED
      BY <2>2, <2>3
  <1>4. CASE DeleteRow
    <2>1. /\ queue' = queue /\ born' = born /\ db' = db /\ intent' = Put(intent, ui.id, None)
          /\ intent[ui.id] = None
      BY <1>4 DEF DeleteRow, Queueing, serverVars
    <2> QED
      BY <1>0, <2>1 DEF Still, OpsOf
  <1>5. ASSUME NEW o \in ui.ops, DiscardOp(o)
        PROVE  Still(id) \/ Appends(id)
    <2>1. /\ queue' = Without(o.n) /\ born' = born /\ db' = db
          /\ IF ui.id = None THEN intent' = intent /\ o.cid \in waived'
                             ELSE /\ intent' = Put(intent, ui.id, None)
                                  /\ ui.id \in waived' /\ o.cid = ui.id
      BY <1>5 DEF DiscardOp, TakenBack, Basis, Wishes, DiscardsWithdrawn, serverVars
    <2>2. o.cid # id /\ intent'[id] = intent[id]
      BY <1>0, <2>1 DEF Excepted
    <2>3. \A p \in queue : p.n = o.n => p.cid = o.cid
      BY DEF Basis, Keys, KeysName, Referred
    <2> QED
      BY <2>1, <2>2, <2>3 DEF Still, OpsOf, Without
  <1>6. CASE DiscardDone
    <2>1. /\ UNCHANGED <<queue, born, db>>
          /\ IF ui.id = None THEN intent' = intent
                             ELSE intent' = Put(intent, ui.id, None) /\ ui.id \in waived'
      BY <1>6 DEF DiscardDone, TakenBack, serverVars, idbVars
    <2> QED
      BY <1>0, <2>1 DEF Still, OpsOf, Excepted
  <1>7. ASSUME NEW type, NEW i, NEW v, Online(type, i, v)
        PROVE  FALSE
    BY <1>7 DEF Online, IdleUi, Queueing
  <1>8. CASE UNCHANGED <<queue, intent, born, db>>
    BY <1>8 DEF Still, OpsOf
  <1> QED
    BY <1>1, <1>2, <1>3, <1>4, <1>5, <1>6, <1>7, <1>8
    DEF Ui, Delete, HttpRun, HttpReply, CreateRow, UpdateRead, UpdateRow, WithdrawRead,
        Discard, DiscardRow, RetryOp, Retry, Queueing, ghostVars, idbVars, serverVars

\* The pass's part of RowStep, its outcome for one row.
LEMMA RowPass ==
  ASSUME Basis, InQueue, StartSync \/ Pass, NEW id \in Ids, ~Excepted(id)'
  PROVE  Still(id) \/ Serves(id) \/ Fails(id) \/ Acks(id)
  <1>0. /\ UNCHANGED <<born, intent, waived>> /\ ~Excepted(id)
        /\ \A o, p \in queue : o.n = p.n => o = p
    BY PassFrame, DoubledGrows DEF Excepted, Next, Basis, Keys, KeysUnique
  <1>1. ASSUME NEW op \in todo, ServerApply(op)
        PROVE  Still(id) \/ Serves(id)
    <2>1. /\ UNCHANGED <<queue, intent, born>>
          /\ \E row : db' = Put(db, op.cid, row)
      BY <1>1 DEF ServerApply, idbVars
    <2>2. op.cid \in Ids /\ db \in [Ids -> ServerRow \cup {None}]
      BY DEF Basis, TypeInv, TypeOK, BatchOK, ServerOK, PendingOperation
    <2>3. CASE op.cid = id
      BY <1>1, <2>1, <2>3 DEF Serves
    <2>4. CASE op.cid # id
      BY <2>1, <2>2, <2>4 DEF Still, OpsOf, Put
    <2> QED
      BY <2>3, <2>4
  <1>2. ASSUME NEW r \in results, RecordFailure(r)
        PROVE  Still(id) \/ Fails(id)
    <2> DEFINE f == [held EXCEPT !.attempts = @ + 1]
    <2>1. /\ pc = "fail" /\ queue' = Without(held.n) \cup {f} /\ db' = db
          /\ held.cid = r.cid /\ (~Excepted(r.cid) => held.n = r.n /\ held \in queue)
          /\ held \in PendingOperation
      BY <1>2 DEF RecordFailure, Failure, InQueue, IsNext, Basis, TypeInv, TypeOK, PullOK, serverVars
    <2>2. f.cid = held.cid /\ held \in Referred
      BY <2>1 DEF PendingOperation, Referred
    <2>3. \A p \in queue : p.n = held.n => p.cid = held.cid
      BY <2>2 DEF Basis, Keys, KeysName, Referred
    <2> HIDE DEF f
    <2>4. CASE held.cid = id
      <3>1. OpsOf(id)' = (OpsOf(id) \ {held}) \cup {f}
        BY <1>0, <2>1, <2>2, <2>4 DEF OpsOf, Without
      <3> QED
        BY <1>0, <1>2, <2>1, <2>4, <3>1 DEF Fails, OpsOf, f
    <2>5. CASE held.cid # id
      BY <1>0, <2>1, <2>2, <2>3, <2>5 DEF Still, OpsOf, Without
    <2> QED
      BY <2>4, <2>5
  <1>3. ASSUME NEW r \in results, NEW op \in sent, AckDone(r, op)
        PROVE  Still(id) \/ Acks(id)
    <2>1. queue' = Without(op.n) /\ db' = db /\ Answers(r, op)
      BY <1>3 DEF AckDone, serverVars
    <2>2. \A p \in queue : p.n = op.n => p.cid = op.cid
      BY DEF Basis, Keys, KeysName, Referred
    <2>3. CASE op.cid = id
      <3>1. r.n = op.n
        BY <1>0, <2>1, <2>3, AnswersOne
      <3>2. r.status = "ok"
        BY <1>3 DEF AckDone, Basis, Batch, ResultsAnswer
      <3>3. Unsettled(op) /\ op \in OpsOf(id)
        BY <1>0, <2>3, <3>1 DEF Unsettled, InQueue, OpsOf
      <3>4. OpsOf(id)' = OpsOf(id) \ {op}
        BY <1>0, <2>1, <3>3 DEF OpsOf, Without
      <3> QED
        BY <1>0, <1>3, <2>1, <3>1, <3>2, <3>3, <3>4 DEF Acks
    <2>4. CASE op.cid # id
      BY <1>0, <2>1, <2>2, <2>4 DEF Still, OpsOf, Without
    <2> QED
      BY <2>3, <2>4
  <1>4. CASE UNCHANGED <<queue, db>>
    BY <1>0, <1>4 DEF Still, OpsOf
  <1> QED
    BY <1>1, <1>2, <1>3, <1>4
    DEF Pass, StartSync, PushReply, AckRejected, AckCreated, MarkSynced, BatchDone, PullQuery, PullReply,
        Merge, ClearStore, FillStore, SaveLastSync, serverVars, idbVars

\* Every step does one of five things to a row the account holds.
LEMMA RowStep ==
  ASSUME Basis, Queueing, Queueing', InQueue, [Next]_vars, NEW id \in Ids, ~Excepted(id)'
  PROVE  Still(id) \/ Appends(id) \/ Serves(id) \/ Fails(id) \/ Acks(id)
  <1>1. CASE Environment
    <2>1. CASE \E i \in Ids : OtherDelete(i) \/ \E v \in Vals : OtherWrite(i, v)
      <3>1. PICK i \in Ids : /\ \E row : db' = Put(db, i, row)
                             /\ i \in waived' /\ UNCHANGED <<queue, intent, born>>
        BY <2>1 DEF OtherDelete, OtherWrite, idbVars
      <3> QED
        BY <3>1 DEF Still, OpsOf, Put, Excepted, Basis, TypeInv, TypeOK, ServerOK
    <2>2. CASE Loss \/ Crash
      BY <2>2 DEF Loss, Crash, Still, OpsOf, serverVars, idbVars, ghostVars
    <2> QED
      BY <1>1, <2>1, <2>2 DEF Environment, HttpLoss, Queueing
  <1>2. CASE UNCHANGED vars
    BY <1>2 DEF vars, Still, OpsOf
  <1> QED
    BY <1>1, <1>2, RowUi, RowPass DEF Next

\* A row once left out stays left out: a parked operation waits for the user.
LEMMA SpoiledStays ==
  ASSUME Basis, Queueing, Queueing', InQueue, [Next]_vars, NEW id \in Ids, Spoiled(id)
  PROVE  Spoiled(id)'
  <1>1. Excepted(id) => Excepted(id)'
    BY GrowStep, DoubledGrows DEF Excepted
  <1> SUFFICES ASSUME ~Excepted(id)'
               PROVE  \E o \in OpsOf(id)' : isOperationFailed(o)
    BY <1>1 DEF Spoiled, isOperationFailed
  <1>2. PICK p \in OpsOf(id) : isOperationFailed(p)
    BY <1>1 DEF Spoiled
  <1>3. OpsOf(id) \subseteq PendingOperation
    BY DEF OpsOf, Basis, TypeInv, TypeOK, IdbOK
  <1>4. CASE Still(id)
    BY <1>2, <1>4 DEF Still
  <1>5. CASE Appends(id) \/ Serves(id)
    BY <1>2, <1>5 DEF Appends, Serves, OpsOf
  <1>6. CASE Fails(id)
    <2>1. isOperationFailed(held) => isOperationFailed([held EXCEPT !.attempts = @ + 1])
      BY <1>3, <1>6 DEF Fails, isOperationFailed, PendingOperation
    <2> QED
      BY <1>2, <1>6, <2>1 DEF Fails
  <1>7. CASE Acks(id)
    <2>1. PICK op \in sent : Unsettled(op) /\ op \in OpsOf(id) /\ OpsOf(id)' = OpsOf(id) \ {op}
      BY <1>7 DEF Acks
    <2>2. ~isOperationFailed(op)
      BY <1>1, <2>1 DEF InQueue, OpsOf
    <2> QED
      BY <1>2, <2>1, <2>2
  <1> QED
    BY <1>4, <1>5, <1>6, <1>7, RowStep

\* Without the online path and the retry, every change stays one that is queued, and a
\* row that is about to leave the mirror is one nobody wants.
LEMMA QueueingStep ==
  ASSUME {"online", "retry"} \cap UiOps = {}, TypeInv, Queueing, [Next]_vars
  PROVE  Queueing'
  <1>0. /\ ui \in UiState /\ intent \in [Ids -> Vals \cup {None}]
        /\ ui.pc \in {"delete", "remove"} => ui.id \in Ids
    BY DEF TypeInv, TypeOK, GhostOK, UiHolds
  <1> USE DEF Queueing, IdleUi, UiState, Put
  <1>1. CASE Ui
    <2>1. CASE DeleteQueue
      BY <1>0, <2>1 DEF DeleteQueue
    <2>2. CASE DiscardDone
      BY <1>0, <2>2 DEF DiscardDone, TakenBack
    <2>3. ASSUME NEW i \in Ids, NEW v \in Vals, Create(i, v) \/ Update(i, v)
          PROVE  Queueing'
      BY <2>3 DEF Create, Update
    <2>4. ASSUME NEW i \in Ids, Delete(i)
          PROVE  Queueing'
      BY <2>4 DEF Delete
    <2>5. ASSUME NEW o, Discard(o) \/ DiscardOp(o) \/ DiscardRow(o)
          PROVE  Queueing'
      BY <1>0, <2>5 DEF Discard, DiscardOp, DiscardRow
    <2>6. CASE CreateRow \/ UpdateRow \/ DeleteRow
      BY <2>6 DEF CreateRow, UpdateRow, DeleteRow
    <2>7. CASE UpdateRead
      BY <1>0, <2>7 DEF UpdateRead
    <2>8. CASE WithdrawRead
      BY <1>0, <2>8 DEF WithdrawRead
    <2> QED
      BY <1>1, <2>1, <2>2, <2>3, <2>4, <2>5, <2>6, <2>7, <2>8
      DEF Ui, Online, HttpRun, HttpReply, RetryOp, Retry
  <1>2. CASE StartSync \/ Pass
    BY <1>2, PassFrame
  <1>3. CASE Environment
    <2>1. ~\E i \in Ids : HttpLoss(i)
      BY DEF HttpLoss
    <2>2. (ui' = ui \/ ui' = IdleUi) /\ intent' = intent
      BY <1>3, <2>1 DEF Environment, Loss, Crash, OtherDelete, OtherWrite, ghostVars
    <2> QED
      BY <2>2
  <1> QED
    BY <1>1, <1>2, <1>3 DEF Next, vars

\* What a step does to the batch: nothing or less to handle, unless it ends the batch,
\* or a batch leaves.
BatchStays == sent' = sent /\ later' = later
BatchGone == sent' = {} /\ later' = {}

\* The batch and what waits behind it change only where a batch leaves or ends.
LEMMA BatchCases ==
  ASSUME [Next]_vars
  PROVE  BatchStays \/ BatchGone \/ StartSync \/ BatchDone
  BY UiFrame DEF Next, Pass, ServerApply, PushReply, RecordFailure, AckRejected, AckCreated, MarkSynced,
     AckDone, PullQuery, PullReply, Merge, ClearStore, FillStore, SaveLastSync, Environment, Loss,
     HttpLoss, Crash, OtherDelete, OtherWrite, PassReset, passVars, vars, BatchStays, BatchGone

\* A pass begins with what is not parked: the creates, and the rest behind them.
LEMMA SyncBegins ==
  ASSUME Basis, StartSync
  PROVE  \E creates, rest :
           /\ creates \cup rest = {o \in queue : ~isOperationFailed(o)}
           /\ \A o \in creates : o.type = "create"
           /\ \A o \in rest : o.type # "create"
           /\ UNCHANGED <<queue, results, failed, db>> /\ results = {}
           /\ \/ creates = {} /\ rest = {} /\ UNCHANGED <<sent, later, todo>>
              \/ creates = {} /\ sent' = rest /\ todo' = rest /\ later' = {}
                 /\ Doubles(rest) \subseteq doubled'
              \/ sent' = creates /\ todo' = creates /\ later' = rest
                 /\ Doubles(creates) \subseteq doubled'
  <1> DEFINE pending == {o \in queue : ~isOperationFailed(o)}
             creates == {o \in pending : o.type = "create"}
             rest == pending \ creates
  <1>1. results = {}
    BY DEF StartSync, Basis, Batch, ResultsAnswer
  <1>2. UNCHANGED <<queue, results, failed, db>>
    BY DEF StartSync, serverVars, idbVars
  <1>3. \/ creates = {} /\ rest = {} /\ UNCHANGED <<sent, later, todo>>
        \/ creates = {} /\ sent' = rest /\ todo' = rest /\ later' = {}
           /\ Doubles(rest) \subseteq doubled'
        \/ sent' = creates /\ todo' = creates /\ later' = rest
           /\ Doubles(creates) \subseteq doubled'
    BY DEF StartSync, SendBatch, FirstBatch
  <1>4. /\ creates \cup rest = pending
        /\ \A o \in creates : o.type = "create"
        /\ \A o \in rest : o.type # "create"
    OBVIOUS
  <1> HIDE DEF creates, rest
  <1> QED
    BY <1>1, <1>2, <1>3, <1>4

\* A batch ends with everything settled; the rest follows only when nothing failed.
LEMMA BatchEnds ==
  ASSUME Basis, BatchDone
  PROVE  /\ UNCHANGED <<queue, results, db>> /\ results = {} /\ todo = {} /\ later' = {}
         /\ \/ sent' = {}
            \/ ~failed /\ sent' = later /\ Doubles(later) \subseteq doubled'
  BY DEF BatchDone, SendBatch, PushOver, Basis, TypeInv, TypeOK, BatchOK, serverVars, idbVars

\* Two operations of a row in one batch put the row on record.
LEMMA DoublesFound ==
  ASSUME NEW ops, NEW o \in ops, NEW p \in ops, o.cid \in Ids, o.cid = p.cid, o.n # p.n
  PROVE  o.cid \in Doubles(ops)
  BY DEF Doubles

\* An operation is unsettled only until its result is handled.
LEMMA UnsettledBefore ==
  ASSUME Basis, [Next]_vars, BatchStays, ~StartSync, ~BatchDone, NEW o \in sent, Unsettled(o)'
  PROVE  /\ Unsettled(o)
         /\ \A r \in results : RecordFailure(r) \/ (\E op \in sent : AckDone(r, op)) => r.n # o.n
  <1>0. /\ \A p, q \in sent : p.n = q.n => p = q
        /\ \A r, q \in results : r.n = q.n => r = q
        /\ pc # "push" => todo = {}
        /\ todo \subseteq sent
    BY DEF Basis, Keys, KeysUnique, Batch, ResultsAnswer, TypeInv, TypeOK, BatchOK
  <1>1. ASSUME NEW op \in todo, ServerApply(op)
        PROVE  Unsettled(o)
    <2>1. todo' = todo \ {op} /\ \E s : s.n = op.n /\ results' = results \cup {s}
      BY <1>1 DEF ServerApply
    <2> QED
      BY <1>0, <2>1 DEF Unsettled
  <1>2. todo' \subseteq todo /\ (results' \subseteq results \/ \E op \in todo : ServerApply(op))
    BY UiFrame DEF Next, Pass, ServerApply, PushReply, RecordFailure, AckRejected, AckCreated, MarkSynced,
     AckDone, PullQuery, PullReply, Merge, ClearStore, FillStore, SaveLastSync, Environment, Loss,
     HttpLoss, Crash, OtherDelete, OtherWrite, PassReset, passVars, vars
  <1>3. ASSUME NEW r \in results, RecordFailure(r) \/ \E op \in sent : AckDone(r, op), r.n = o.n
        PROVE  FALSE
    <2>1. results' = results \ {r} /\ todo' = {}
      BY <1>0, <1>3 DEF RecordFailure, AckDone
    <2> QED
      BY <1>0, <1>3, <2>1 DEF Unsettled
  <1> QED
    BY <1>1, <1>2, <1>3 DEF Unsettled

\* The rest of a batch shares no key with the creates in front of it.
LEMMA Apart ==
  ASSUME Basis, InQueue, NEW s \in sent, NEW o \in later
  PROVE  s.n # o.n
  BY DEF Basis, Keys, KeysName, Referred, Batch, BatchUniform, InQueue

\* What the pass has in hand stays in the queue, as the pass has it, until its result is
\* handled: nobody else takes it out or writes it back.
LEMMA InQueueStep ==
  ASSUME Basis, Queueing, Queueing', InQueue, TypeInv', [Next]_vars
  PROVE  InQueue'
  <1>0. /\ waived \subseteq waived' /\ doubled \subseteq doubled'
        /\ sent \subseteq PendingOperation /\ later \subseteq PendingOperation
        /\ sent' \subseteq PendingOperation /\ later' \subseteq PendingOperation
    BY GrowStep, DoubledGrows DEF Basis, TypeInv, TypeOK, BatchOK
  <1>1. ASSUME NEW o \in sent', Unsettled(o)', ~Excepted(o.cid)'
        PROVE  o \in queue' /\ ~isOperationFailed(o)
    <2>1. CASE StartSync
      BY <1>1, <2>1, SyncBegins, <1>0 DEF InQueue, Unsettled, Excepted
    <2>2. CASE BatchDone
      BY <1>1, <2>2, BatchEnds, <1>0 DEF InQueue, Excepted
    <2>3. CASE BatchStays /\ ~StartSync /\ ~BatchDone
      <3>1. /\ o \in sent /\ o.cid \in Ids /\ Unsettled(o)
            /\ \A r \in results : RecordFailure(r) \/ (\E op \in sent : AckDone(r, op)) => r.n # o.n
        BY <1>0, <1>1, <2>3, UnsettledBefore DEF BatchStays, PendingOperation
      <3>2. o \in queue /\ ~isOperationFailed(o)
        BY <1>0, <1>1, <3>1 DEF InQueue, Excepted
      <3>3. CASE Still(o.cid)
        BY <3>2, <3>3 DEF Still, OpsOf
      <3>4. CASE Appends(o.cid) \/ Serves(o.cid)
        BY <3>2, <3>4 DEF Appends, Serves
      <3>5. CASE Fails(o.cid)
        <4>1. PICK r \in results : RecordFailure(r) /\ pc = "fail" /\ held.cid = o.cid
          BY <3>5 DEF Fails, OpsOf
        <4>2. held.n = r.n
          BY <1>0, <1>1, <4>1 DEF RecordFailure, InQueue, IsNext, Excepted
        <4> QED
          BY <3>1, <3>2, <3>5, <4>1, <4>2 DEF Fails, OpsOf
      <3>6. CASE Acks(o.cid)
        BY <3>1, <3>2, <3>6 DEF Acks, OpsOf
      <3> QED
        BY <1>1, <3>1, <3>2, <3>3, <3>4, <3>5, <3>6, RowStep
    <2> QED
      BY <1>1, <2>1, <2>2, <2>3, BatchCases DEF BatchGone
  <1>2. ASSUME NEW o \in later', ~Excepted(o.cid)'
        PROVE  o \in queue' /\ ~isOperationFailed(o)
    <2>1. CASE StartSync
      BY <1>2, <2>1, SyncBegins, <1>0 DEF InQueue, Excepted
    <2>2. CASE BatchStays
      <3>1. o \in later /\ o.cid \in Ids /\ o \in queue /\ ~isOperationFailed(o)
        BY <1>0, <1>2, <2>2 DEF BatchStays, InQueue, Excepted, PendingOperation
      <3>2. CASE Still(o.cid)
        BY <3>1, <3>2 DEF Still, OpsOf
      <3>3. CASE Appends(o.cid) \/ Serves(o.cid)
        BY <3>1, <3>3 DEF Appends, Serves
      <3>4. CASE Fails(o.cid)
        <4>1. PICK r \in results : RecordFailure(r) /\ pc = "fail" /\ held.cid = o.cid
          BY <3>4 DEF Fails, OpsOf
        <4>2. held.n = r.n
          BY <1>0, <1>2, <4>1 DEF RecordFailure, InQueue, IsNext, Excepted
        <4>3. \E s \in sent : s.n = held.n
          BY <4>1, <4>2 DEF Basis, Batch, ResultsAnswer
        <4> QED
          BY <3>1, <3>4, <4>3, Apart DEF Fails, OpsOf
      <3>5. CASE Acks(o.cid)
        BY <3>1, <3>5, Apart DEF Acks, OpsOf
      <3> QED
        BY <1>2, <3>1, <3>2, <3>3, <3>4, <3>5, RowStep
    <2> QED
      BY <1>2, <2>1, <2>2, BatchCases, BatchEnds DEF BatchGone
  <1>3. \A s \in sent', o \in later' : s.type = "create"
    BY BatchCases, SyncBegins, BatchEnds DEF InQueue, BatchStays, BatchGone
  <1>4. ASSUME pc' = "fail"
        PROVE  /\ failed'
               /\ \A r \in results' : IsNext(r)' =>
                    held'.cid = r.cid /\ (~Excepted(r.cid)' => held'.n = r.n /\ held' \in queue')
    <2>1. ASSUME NEW r \in results, NEW op \in sent, AckRejected(r, op)
          PROVE  /\ failed'
                 /\ \A q \in results' : IsNext(q)' =>
                      held'.cid = q.cid /\ (~Excepted(q.cid)' => held'.n = q.n /\ held' \in queue')
      <3>1. /\ failed' /\ held' \in Numbered(op.n) /\ queue' = queue /\ results' = results
            /\ Answers(r, op) /\ UNCHANGED <<waived, doubled>>
        BY <1>4, <2>1 DEF AckRejected, idbVars, ghostVars
      <3>2. \A q \in results : IsNext(q) => q = r
        <4>1. \A q \in results : q.n \in Nat
          BY DEF Basis, TypeInv, TypeOK, BatchOK, Result
        <4> QED
          BY <3>1, <4>1 DEF IsNext, Answers, Basis, Batch, ResultsAnswer
      <3>3. held'.cid = op.cid /\ held'.n = op.n /\ op.cid = r.cid
        BY <3>1 DEF Numbered, Answers, Basis, Keys, KeysName, Referred
      <3>4. ~Excepted(op.cid) => r.n = op.n
        BY <3>1, AnswersOne
      <3> QED
        BY <3>1, <3>2, <3>3, <3>4 DEF IsNext, Excepted, Numbered
    <2>2. CASE pc = "fail" /\ UNCHANGED <<held, results, failed>>
      <3> SUFFICES ASSUME NEW r \in results, IsNext(r)
                   PROVE  held.cid = r.cid /\ (~Excepted(r.cid)' => held.n = r.n /\ held \in queue')
        BY <2>2 DEF InQueue, IsNext
      <3>1. held.cid = r.cid /\ r.cid \in Ids
        BY <2>2 DEF InQueue, Basis, TypeInv, TypeOK, BatchOK, Result
      <3>2. ASSUME ~Excepted(r.cid)'
            PROVE  held.n = r.n /\ held \in queue'
        <4>1. held.n = r.n /\ held \in queue
          BY <1>0, <2>2, <3>2 DEF InQueue, Excepted
        <4>2. ~Serves(r.cid) /\ ~Fails(r.cid) /\ ~Acks(r.cid)
          BY <1>4, <2>2 DEF Serves, ServerApply, Fails, RecordFailure, Acks, AckDone
        <4> QED
          BY <3>1, <3>2, <4>1, <4>2, RowStep DEF Still, Appends, OpsOf
      <3> QED
        BY <3>1, <3>2
    <2>3. CASE Ui \/ UNCHANGED vars
      BY <1>4, <2>2, <2>3, UiFrame DEF passVars, vars
    <2>4. CASE Environment
      BY <1>4, <2>2, <2>4 DEF Environment, Loss, HttpLoss, Crash, OtherDelete, OtherWrite, PassReset, passVars
    <2>5. CASE StartSync \/ Pass
      BY <1>4, <2>1, <2>5
      DEF StartSync, SendBatch, Pass, ServerApply, PushReply, RecordFailure, AckCreated, MarkOrDrop,
          MarkSynced, AckDone, BatchDone, PullQuery, PullReply, Merge, ClearStore, FillStore, SaveLastSync
    <2> QED
      BY <2>3, <2>4, <2>5 DEF Next
  <1> QED
    BY <1>1, <1>2, <1>3, <1>4 DEF InQueue

\* A row's create is its first operation; a batch holds a row's first operation that is
\* not parked; and what is held back has before it only what is held back with it, and
\* the create the pass waits for.
CreatesLead(id) == \A c, p \in OpsOf(id) : c.type = "create" => c.n <= p.n
BatchLeads(id) == \A o \in sent, p \in OpsOf(id) : o.cid = id => o.n <= p.n
RestFollows(id) ==
  \A o \in later, p \in OpsOf(id) : o.cid = id =>
    \/ o.n <= p.n
    \/ p \in later
    \/ p.type = "create" /\ (failed \/ \E s \in sent : s.n = p.n /\ Unsettled(s))
Ordered ==
  /\ \A id \in Ids : ~Excepted(id) => CreatesLead(id)
  /\ \A id \in Ids : ~Spoiled(id) => BatchLeads(id) /\ RestFollows(id)

Moves == Queueing /\ Queueing' /\ InQueue /\ InQueue' /\ TypeInv' /\ [Next]_vars

\* A new operation has the highest key there is.
LEMMA NewKey ==
  ASSUME Basis, NEW o \in Referred
  PROVE  o.n \in Nat /\ nextOp \in Nat /\ o.n < nextOp
  BY DEF Basis, Keys, KeysFresh, TypeInv, TypeOK, IdbOK, BatchOK, PullOK, UiState, Referred, PendingOperation

\* A row's create stays its first operation.
LEMMA CreatesLeadStep ==
  ASSUME Basis, Moves, NEW id \in Ids, ~Excepted(id)', ~Excepted(id) => CreatesLead(id)
  PROVE  CreatesLead(id)'
  <1>0. /\ ~Excepted(id) /\ OpsOf(id) \subseteq Referred
        /\ OpsOf(id) \subseteq PendingOperation
        /\ \A c, p \in OpsOf(id) : c.type = "create" => c.n <= p.n
    BY GrowStep, DoubledGrows DEF Excepted, OpsOf, Referred, CreatesLead, Moves, Basis, TypeInv, TypeOK, IdbOK
  <1>1. CASE Still(id) \/ Serves(id)
    BY <1>0, <1>1 DEF Still, Serves, OpsOf, CreatesLead
  <1>2. CASE Appends(id)
    <2>1. PICK new : /\ new.n = nextOp /\ OpsOf(id)' = OpsOf(id) \cup {new}
                     /\ new.type = "create" => id \notin born
      BY <1>2 DEF Appends, OpsOf
    <2>2. id \notin born => OpsOf(id) = {}
      BY DEF Basis, Rooted, Referred, OpsOf
    <2>3. nextOp \in Nat /\ \A p \in OpsOf(id) : p.n \in Nat /\ p.n < nextOp
      BY <1>0, NewKey DEF Basis, TypeInv, TypeOK, IdbOK
    <2> QED
      BY <1>0, <2>1, <2>2, <2>3 DEF CreatesLead
  <1>3. CASE Fails(id)
    <2> DEFINE f == [held EXCEPT !.attempts = @ + 1]
    <2>1. held \in OpsOf(id) /\ OpsOf(id)' = (OpsOf(id) \ {held}) \cup {f} /\ f.n = held.n /\ f.type = held.type
      BY <1>0, <1>3 DEF Fails, PendingOperation
    <2> HIDE DEF f
    <2> QED
      BY <1>0, <2>1 DEF CreatesLead
  <1>4. CASE Acks(id)
    BY <1>0, <1>4 DEF Acks, CreatesLead
  <1> QED
    BY <1>1, <1>2, <1>3, <1>4, RowStep DEF Moves

\* What a step can leave of a row's operations, against a key they do not undercut.
LEMMA LeadsOn ==
  ASSUME Basis, Moves, NEW id \in Ids, ~Excepted(id)', NEW o \in sent \cup later,
         \A p \in OpsOf(id) : o.n <= p.n
  PROVE  \A p \in OpsOf(id)' : o.n <= p.n
  <1>0. OpsOf(id) \subseteq PendingOperation /\ o.n \in Nat /\ o.n < nextOp
    BY NewKey DEF OpsOf, Referred, Basis, TypeInv, TypeOK, IdbOK
  <1>1. CASE Still(id) \/ Serves(id)
    BY <1>1 DEF Still, Serves, OpsOf
  <1>2. CASE Appends(id)
    <2>1. PICK new : new.n = nextOp /\ OpsOf(id)' = OpsOf(id) \cup {new}
      BY <1>2 DEF Appends, OpsOf
    <2> QED
      BY <1>0, <2>1 DEF Basis, TypeInv, TypeOK, IdbOK
  <1>3. CASE Fails(id)
    <2> DEFINE f == [held EXCEPT !.attempts = @ + 1]
    <2>1. held \in OpsOf(id) /\ OpsOf(id)' = (OpsOf(id) \ {held}) \cup {f} /\ f.n = held.n
      BY <1>0, <1>3 DEF Fails, PendingOperation
    <2> HIDE DEF f
    <2> QED
      BY <2>1
  <1>4. CASE Acks(id)
    BY <1>4 DEF Acks
  <1> QED
    BY <1>1, <1>2, <1>3, <1>4, RowStep DEF Moves

\* A batch holds only the first operation of a row.
LEMMA BatchLeadsStep ==
  ASSUME Basis, Moves, Ordered, NEW id \in Ids, ~Spoiled(id)'
  PROVE  BatchLeads(id)'
  <1>0. ~Spoiled(id) /\ ~Excepted(id)' /\ ~Excepted(id) /\ BatchLeads(id) /\ RestFollows(id) /\ CreatesLead(id)
    BY SpoiledStays DEF Moves, Spoiled, Ordered
  <1>1. CASE BatchStays
    <2> SUFFICES ASSUME NEW o \in sent, o.cid = id
                 PROVE  \A p \in OpsOf(id)' : o.n <= p.n
      BY <1>1 DEF BatchStays, BatchLeads
    <2> QED
      BY <1>0, LeadsOn DEF BatchLeads
  <1>2. CASE StartSync
    <2>0. /\ OpsOf(id)' = OpsOf(id) /\ OpsOf(id) \subseteq queue
          /\ \A p \in OpsOf(id) : ~isOperationFailed(p) /\ p.n \in Nat /\ p.cid = id
      BY <1>0, <1>2 DEF Spoiled, StartSync, idbVars, OpsOf, Basis, TypeInv, TypeOK, IdbOK, PendingOperation
    <2>1. PICK creates, rest :
           /\ creates \cup rest = {o \in queue : ~isOperationFailed(o)}
           /\ \A o \in creates : o.type = "create"
           /\ \A o \in rest : o.type # "create"
           /\ \/ creates = {} /\ rest = {} /\ UNCHANGED <<sent, later, todo>>
              \/ creates = {} /\ sent' = rest /\ todo' = rest /\ later' = {}
                 /\ Doubles(rest) \subseteq doubled'
              \/ sent' = creates /\ todo' = creates /\ later' = rest
                 /\ Doubles(creates) \subseteq doubled'
      BY <1>2, SyncBegins
    <2> SUFFICES ASSUME NEW o \in sent', NEW p \in OpsOf(id), o.cid = id
                 PROVE  o.n <= p.n
      BY <2>0 DEF BatchLeads
    <2>2. p \in creates \cup rest
      BY <2>0, <2>1
    <2>3. CASE UNCHANGED <<sent, later, todo>>
      BY <1>0, <2>3 DEF BatchLeads
    <2>4. CASE creates = {} /\ sent' = rest /\ Doubles(rest) \subseteq doubled'
      <3>1. o.n = p.n
        BY <1>0, <2>0, <2>2, <2>4, DoublesFound DEF Excepted
      <3> QED
        BY <2>0, <3>1
    <2>5. CASE sent' = creates
      <3>1. o \in OpsOf(id) /\ o.type = "create"
        BY <2>1, <2>5 DEF OpsOf
      <3> QED
        BY <1>0, <3>1 DEF CreatesLead
    <2> QED
      BY <2>1, <2>3, <2>4, <2>5
  <1>3. CASE BatchDone
    <2> SUFFICES ASSUME NEW o \in sent', NEW p \in OpsOf(id), o.cid = id
                 PROVE  o.n <= p.n
      BY <1>3, BatchEnds DEF BatchLeads, OpsOf
    <2>1. /\ results = {} /\ todo = {} /\ ~failed /\ o \in later /\ Doubles(later) \subseteq doubled'
      BY <1>3, BatchEnds
    <2>2. p \in later => o.n = p.n
      BY <1>0, <2>1, DoublesFound DEF Excepted, OpsOf
    <2>3. p.n \in Nat
      BY DEF OpsOf, Basis, TypeInv, TypeOK, IdbOK, PendingOperation
    <2> QED
      BY <1>0, <2>1, <2>2, <2>3 DEF RestFollows, Unsettled
  <1> QED
    BY <1>1, <1>2, <1>3, BatchCases DEF BatchGone, BatchLeads, Moves

\* A create the pass waits for is waited for until it is settled or the pass has failed.
LEMMA WaitStep ==
  ASSUME Basis, Moves, BatchStays, NEW o \in later, NEW s \in sent, ~Excepted(s.cid)',
         Unsettled(s), ~failed
  PROVE  failed' \/ Unsettled(s)' \/ \A p \in queue' : p.n # s.n
  <1>0. /\ \A p, q \in sent : p.n = q.n => p = q
        /\ ~Excepted(s.cid)
        /\ pc # "idle" /\ ~BatchDone /\ pc # "fail"
    <2>1. \A p, q \in sent : p.n = q.n => p = q
      BY DEF Basis, Keys, KeysUnique
    <2>2. ~Excepted(s.cid)
      BY GrowStep, DoubledGrows DEF Moves, Excepted
    <2>3. pc # "idle"
      BY DEF Unsettled, Basis, TypeInv, TypeOK, BatchOK, Batch, ResultsAnswer
    <2>4. ~BatchDone
      BY DEF BatchDone, BatchStays
    <2> QED
      BY <2>1, <2>2, <2>3, <2>4 DEF Moves, InQueue
  <1>1. CASE todo \subseteq todo' /\ results \subseteq results'
    BY <1>1 DEF Unsettled
  <1>2. ASSUME NEW op \in todo, ServerApply(op)
        PROVE  Unsettled(s)'
    <2>1. todo' = todo \ {op} /\ \E q : q.n = op.n /\ results' = results \cup {q}
      BY <1>2 DEF ServerApply
    <2> QED
      BY <2>1 DEF Unsettled
  <1>3. ASSUME NEW r \in results, NEW op \in sent, AckRejected(r, op)
        PROVE  failed'
    BY <1>3 DEF AckRejected
  <1>4. ASSUME NEW r \in results, NEW op \in sent, AckDone(r, op)
        PROVE  Unsettled(s)' \/ \A p \in queue' : p.n # s.n
    <2>1. results' = results \ {r} /\ todo' = todo /\ queue' = Without(op.n) /\ Answers(r, op)
      BY <1>4 DEF AckDone
    <2>2. CASE r.n # s.n
      BY <2>1, <2>2 DEF Unsettled
    <2>3. CASE r.n = s.n
      <3>1. PICK t \in sent : t.n = r.n /\ t.cid = r.cid
        BY DEF Basis, Batch, ResultsAnswer
      <3>2. op.cid = s.cid
        BY <1>0, <2>1, <2>3, <3>1 DEF Answers
      <3>3. op.n = s.n
        BY <1>0, <2>1, <2>3, <3>2, AnswersOne
      <3> QED
        BY <2>1, <3>3 DEF Without
    <2> QED
      BY <2>2, <2>3
  <1>5. CASE Pass
    BY <1>0, <1>1, <1>2, <1>3, <1>4, <1>5
    DEF Pass, PushReply, RecordFailure, AckCreated, MarkSynced, PullQuery, PullReply, Merge, ClearStore,
        FillStore, SaveLastSync
  <1>6. CASE Ui \/ UNCHANGED vars
    BY <1>1, <1>6, UiFrame DEF passVars, vars
  <1>7. CASE Environment
    <2>1. UNCHANGED <<todo, results>> \/ sent' = {}
      BY <1>7 DEF Environment, Loss, HttpLoss, Crash, OtherDelete, OtherWrite, PassReset, passVars
    <2> QED
      BY <1>1, <2>1 DEF BatchStays
  <1> QED
    BY <1>0, <1>5, <1>6, <1>7 DEF Moves, Next, StartSync

\* A pass that met a failure does not forget it while something waits behind it.
LEMMA FailedStays ==
  ASSUME Basis, Moves, BatchStays, failed, later # {}
  PROVE  failed'
  BY UiFrame DEF Moves, Next, Pass, ServerApply, PushReply, RecordFailure, AckRejected, AckCreated, MarkSynced,
     AckDone, BatchDone, PullQuery, PullReply, Merge, ClearStore, FillStore, SaveLastSync, StartSync,
     Environment, Loss, HttpLoss, Crash, OtherDelete, OtherWrite, PassReset, passVars, vars, BatchStays

\* What waits behind the creates has nothing of its row before it but its create.
LEMMA RestFollowsStep ==
  ASSUME Basis, Moves, Ordered, NEW id \in Ids, ~Spoiled(id)'
  PROVE  RestFollows(id)'
  <1>0. /\ ~Spoiled(id) /\ ~Excepted(id)' /\ ~Excepted(id) /\ RestFollows(id)
        /\ OpsOf(id) \subseteq PendingOperation /\ OpsOf(id) \subseteq queue
        /\ \A p \in OpsOf(id) : p.n \in Nat /\ p.cid = id
        /\ \A p, q \in queue : p.n = q.n => p = q
    BY SpoiledStays DEF Moves, Spoiled, Ordered, OpsOf, Basis, TypeInv, TypeOK, IdbOK, PendingOperation,
                        Keys, KeysUnique
  <1>1. CASE StartSync
    <2>1. PICK creates, rest :
           /\ creates \cup rest = {o \in queue : ~isOperationFailed(o)}
           /\ \A o \in creates : o.type = "create"
           /\ queue' = queue
           /\ \/ creates = {} /\ rest = {} /\ UNCHANGED <<sent, later, todo>>
              \/ later' = {}
              \/ sent' = creates /\ todo' = creates /\ later' = rest
      BY <1>1, SyncBegins
    <2>2. \A p \in OpsOf(id) : p \in creates \cup rest
      BY <1>0, <2>1 DEF Spoiled
    <2>3. CASE creates = {} /\ rest = {}
      BY <2>1, <2>2, <2>3 DEF RestFollows, OpsOf
    <2>4. CASE sent' = creates /\ todo' = creates /\ later' = rest
      BY <2>1, <2>2, <2>4 DEF RestFollows, OpsOf, Unsettled
    <2> QED
      BY <2>1, <2>3, <2>4 DEF RestFollows
  <1>2. CASE BatchStays
    <2> SUFFICES ASSUME NEW o \in later, NEW p \in OpsOf(id)', o.cid = id
                 PROVE  \/ o.n <= p.n
                        \/ p \in later'
                        \/ p.type = "create" /\ (failed' \/ \E s \in sent' : s.n = p.n /\ Unsettled(s)')
      BY <1>2 DEF BatchStays, RestFollows
    <2>0. o.n \in Nat /\ o.n < nextOp /\ later' = later /\ sent' = sent
      BY <1>2, NewKey DEF Referred, BatchStays
    <2>1. ASSUME p \in OpsOf(id), p.type = "create", failed \/ \E s \in sent : s.n = p.n /\ Unsettled(s)
          PROVE  failed' \/ \E s \in sent' : s.n = p.n /\ Unsettled(s)'
      <3>1. CASE failed
        BY <1>2, <3>1, FailedStays
      <3>2. CASE ~failed
        <4>1. PICK s \in sent : s.n = p.n /\ Unsettled(s)
          BY <2>1, <3>2
        <4>2. s.cid = id
          BY <1>0, <2>1, <4>1 DEF Basis, Keys, KeysName, Referred
        <4>3. p \in queue'
          BY DEF OpsOf
        <4> QED
          BY <1>0, <1>2, <2>0, <3>2, <4>1, <4>2, <4>3, WaitStep
      <3> QED
        BY <3>1, <3>2
    <2>2. CASE p \in OpsOf(id)
      BY <1>0, <2>0, <2>1, <2>2 DEF RestFollows
    <2>3. CASE p \notin OpsOf(id)
      <3>1. CASE Appends(id)
        <4>1. p.n = nextOp
          BY <2>3, <3>1 DEF Appends, OpsOf
        <4> QED
          BY <2>0, <4>1 DEF Basis, TypeInv, TypeOK, IdbOK
      <3>2. CASE Fails(id)
        <4> DEFINE f == [held EXCEPT !.attempts = @ + 1]
        <4>1. held \in OpsOf(id) /\ p = f /\ p.n = held.n /\ p.type = held.type
          BY <1>0, <2>3, <3>2 DEF Fails, PendingOperation
        <4> HIDE DEF f
        <4>2. failed'
          BY <3>2 DEF Fails, Moves, InQueue, RecordFailure
        <4>3. PICK r \in results : RecordFailure(r) /\ held.cid = r.cid /\ held.n = r.n
          BY <1>0, <3>2 DEF Fails, RecordFailure, Moves, InQueue, IsNext, OpsOf
        <4>4. \E s \in sent : s.n = held.n
          BY <4>3 DEF Basis, Batch, ResultsAnswer
        <4>5. held \notin later
          BY <4>4, Apart DEF Moves
        <4> QED
          BY <1>0, <4>1, <4>2, <4>5 DEF RestFollows
      <3> QED
        BY <1>0, <2>3, <3>1, <3>2, RowStep DEF Moves, Still, Serves, Acks, OpsOf
    <2> QED
      BY <2>2, <2>3
  <1> QED
    BY <1>1, <1>2, BatchCases, BatchEnds DEF BatchGone, RestFollows, Moves

\* Operations of a row reach the server in the order they were made.
LEMMA OrderedStep ==
  ASSUME Basis, Moves, Ordered
  PROVE  Ordered'
  BY CreatesLeadStep, BatchLeadsStep, RestFollowsStep DEF Ordered

-----------------------------------------------------------------------------

\* What the server does with an operation of a row that holds, if anything, the value
\* of the row's create.
LEMMA ServedRow ==
  ASSUME Basis, NEW op \in todo, ServerApply(op)
  PROVE  \E out :
           /\ db' = Put(db, op.cid, out.row)
           /\ results' = results \cup {[n |-> op.n, cid |-> op.cid, status |-> out.status]}
           /\ clock' = IF out.row # None /\ out.row # db[op.cid] THEN clock + 1 ELSE clock
           /\ out.row = db[op.cid] \/ out.row = None \/ out.row.upd = clock + 1
           /\ db[op.cid] = None /\ op.type # "create" => out.row = None
           /\ out.status = "ok" /\ op.type = "delete" => out.row = None
           /\ out.status = "ok" /\ op.type = "update" =>
                out.row # None /\ out.row.val = op.val /\ out.row.upd = clock + 1
           /\ op.type = "create" /\ (db[op.cid] = None \/ db[op.cid].val = op.val) =>
                /\ out.row = None \/ out.row.val = op.val
                /\ out.status = "ok" => out.row # None
  <1>0. /\ op \in PendingOperation /\ db[op.cid] \in ServerRow \cup {None}
    BY DEF Basis, TypeInv, TypeOK, BatchOK, ServerOK, PendingOperation
  <1>1. PICK out \in {Applied(op, db[op.cid], clock + 1)} \cup Rejections(op, db[op.cid]) :
           /\ db' = Put(db, op.cid, out.row)
           /\ results' = results \cup {[n |-> op.n, cid |-> op.cid, status |-> out.status]}
           /\ clock' = IF out.row # None /\ out.row # db[op.cid] THEN clock + 1 ELSE clock
    BY DEF ServerApply
  <1>2. CASE out \in Rejections(op, db[op.cid])
    BY <1>0, <1>1, <1>2, RejectionsType
  <1>3. CASE out = Applied(op, db[op.cid], clock + 1)
    <2> DEFINE row == [val |-> op.val, upd |-> clock + 1]
    <2>0. /\ op.type # "delete" => op.val \in Vals
          /\ op.type \in {"create", "update", "delete"} /\ clock + 1 \in Nat
      BY <1>0 DEF PendingOperation, OpTypes, Basis, TypeInv, TypeOK, ServerOK
    <2>1. op.type # "delete" => row \in ServerRow /\ row # None
      BY <2>0 DEF ServerRow
    <2>2. row.val = op.val /\ row.upd = clock + 1
      OBVIOUS
    <2>3. CASE op.type = "create"
      <3>1. \/ out.row = db[op.cid] /\ (out.status = "ok" => out.row # None)
            \/ out.row = row
        BY <1>3, <2>3 DEF Applied, CreateOutcome
      <3> QED
        BY <1>1, <2>1, <2>2, <2>3, <3>1
    <2>4. CASE op.type = "update"
      <3>1. IF db[op.cid] = None THEN out.row = None /\ out.status # "ok" ELSE out.row = row
        BY <1>3, <2>4 DEF Applied, UpdateOutcome
      <3> QED
        BY <1>1, <2>1, <2>2, <2>4, <3>1
    <2>5. CASE op.type = "delete"
      <3>1. out.row = None
        BY <1>3, <2>5 DEF Applied, DeleteOutcome
      <3> QED
        BY <1>1, <2>5, <3>1
    <2> QED
      BY <2>0, <2>3, <2>4, <2>5
  <1> QED
    BY <1>1, <1>2, <1>3

\* What a settled operation has left on the server: of an update, a row the next pull
\* will bring.
Took(o) ==
  IF o.type = "delete" THEN db[o.cid] = None
  ELSE /\ db[o.cid] # None /\ db[o.cid].val = o.val
       /\ o.type = "update" => db[o.cid].upd > lastSync

\* A result that is "ok" was of the row as the server has it, and a create that is still
\* queued has met no other value.  No stamp of the server is ahead of its clock.
Effects ==
  /\ lastSync <= clock /\ stamp <= clock
  /\ \A o \in sent, r \in results : r.n = o.n /\ r.status = "ok" /\ ~Spoiled(o.cid) => Took(o)
  /\ \A c \in queue : c.type = "create" /\ ~Spoiled(c.cid) => db[c.cid] = None \/ db[c.cid].val = c.val

\* The operation the server runs is in the queue, the first of its row.
LEMMA ServesFirst ==
  ASSUME Basis, Moves, Ordered, NEW op \in todo, ~Spoiled(op.cid)
  PROVE  /\ op \in queue /\ op \in sent /\ op.cid \in Ids
         /\ \A p \in OpsOf(op.cid) : op.n <= p.n
         /\ \A c \in OpsOf(op.cid) : c.type = "create" => c = op
  <1>1. op \in sent /\ op \in PendingOperation
    BY DEF Basis, TypeInv, TypeOK, BatchOK
  <1>2. op \in queue /\ op.cid \in Ids
    BY <1>1 DEF Moves, InQueue, Unsettled, Spoiled, PendingOperation
  <1>3. \A p \in OpsOf(op.cid) : op.n <= p.n
    BY <1>1, <1>2 DEF Ordered, BatchLeads
  <1>4. ASSUME NEW c \in OpsOf(op.cid), c.type = "create"
        PROVE  c = op
    <2>1. c.n <= op.n /\ op.n <= c.n
      BY <1>2, <1>3, <1>4 DEF Ordered, CreatesLead, Spoiled, OpsOf
    <2>2. c.n \in Nat /\ op.n \in Nat /\ c \in queue
      BY <1>2 DEF OpsOf, Basis, TypeInv, TypeOK, IdbOK, PendingOperation
    <2> QED
      BY <1>2, <2>1, <2>2 DEF Basis, Keys, KeysUnique
  <1> QED
    BY <1>1, <1>2, <1>3, <1>4

\* The user's operations do not touch last_synced_at.
LEMMA UiSyncs ==
  ASSUME Ui
  PROVE  lastSync' = lastSync
  BY DEF Ui, Create, Update, Delete, Online, HttpRun, HttpReply, CreateRow, UpdateRead, UpdateRow, DeleteQueue,
         WithdrawRead, DeleteRow, Discard, DiscardOp, DiscardRow, RetryOp, DiscardDone, Retry, idbVars

\* The server's clock only goes forward, and stamps are taken from it.
LEMMA ClockStep ==
  ASSUME TypeInv, [Next]_vars, lastSync <= clock, stamp <= clock
  PROVE  lastSync' <= clock' /\ stamp' <= clock'
  <1>0. lastSync \in Nat /\ clock \in Nat /\ stamp \in Nat
    BY DEF TypeInv, TypeOK, IdbOK, ServerOK, PullOK
  <1>1. clock' = clock \/ clock' = clock + 1
    BY DEF Next, Ui, Create, Update, Delete, Online, HttpRun, HttpReply, CreateRow, UpdateRead, UpdateRow,
       DeleteQueue, WithdrawRead, DeleteRow, Discard, DiscardOp, DiscardRow, RetryOp, DiscardDone, Retry,
       StartSync, Pass, ServerApply, PushReply, RecordFailure, AckRejected, AckCreated, MarkSynced, AckDone,
       BatchDone, PullQuery, PullReply, Merge, ClearStore, FillStore, SaveLastSync,
       Environment, Loss, HttpLoss, Crash, OtherDelete, OtherWrite, serverVars, vars
  <1>2. /\ lastSync' = lastSync \/ lastSync' = stamp
        /\ stamp' = stamp \/ stamp' = 0 \/ stamp' = clock
    BY UiFrame, UiSyncs
    DEF Next, StartSync, Pass, ServerApply, PushReply, RecordFailure, AckRejected, AckCreated, MarkSynced,
        AckDone, BatchDone, PullQuery, PullReply, Merge, ClearStore, FillStore, SaveLastSync,
        Environment, Loss, HttpLoss, Crash, OtherDelete, OtherWrite, PassReset, passVars, idbVars, vars
  <1> QED
    BY <1>0, <1>1, <1>2

\* An accepted operation is what the server has of its row until its result is handled.
LEMMA EffectsStep ==
  ASSUME Basis, Moves, Ordered, Effects
  PROVE  Effects'
  <1>0. /\ sent \subseteq PendingOperation /\ sent' \subseteq PendingOperation
        /\ queue \subseteq PendingOperation /\ queue' \subseteq PendingOperation
        /\ db \in [Ids -> ServerRow \cup {None}]
        /\ todo \subseteq sent
    BY DEF Moves, Basis, TypeInv, TypeOK, IdbOK, BatchOK, ServerOK
  <1>a. \A id \in Ids : ~Spoiled(id)' => ~Spoiled(id) /\ ~Excepted(id)'
    BY SpoiledStays DEF Moves, Spoiled
  <1>b. lastSync \in Nat /\ clock \in Nat /\ stamp \in Nat /\ lastSync <= clock /\ stamp <= clock
    BY DEF Basis, TypeInv, TypeOK, IdbOK, ServerOK, PullOK, Effects
  <1>c. lastSync' <= clock' /\ stamp' <= clock'
    BY <1>b, ClockStep DEF Moves, Basis
  <1>1. ASSUME NEW o \in sent', NEW r \in results', r.n = o.n, r.status = "ok", ~Spoiled(o.cid)'
        PROVE  Took(o)'
    <2>0. o.cid \in Ids /\ ~Spoiled(o.cid) /\ ~Excepted(o.cid)'
      BY <1>0, <1>a, <1>1 DEF PendingOperation
    <2>1. CASE \E op \in todo : ServerApply(op)
      <3>1. PICK op \in todo : ServerApply(op)
        BY <2>1
      <3>2. sent' = sent /\ lastSync' = lastSync
        BY <3>1 DEF ServerApply, idbVars
      <3>3. PICK out :
              /\ db' = Put(db, op.cid, out.row)
              /\ results' = results \cup {[n |-> op.n, cid |-> op.cid, status |-> out.status]}
              /\ out.status = "ok" /\ op.type = "delete" => out.row = None
              /\ out.status = "ok" /\ op.type = "update" =>
                   out.row # None /\ out.row.val = op.val /\ out.row.upd > lastSync
              /\ op.type = "create" /\ (db[op.cid] = None \/ db[op.cid].val = op.val) =>
                   /\ out.row = None \/ out.row.val = op.val
                   /\ out.status = "ok" => out.row # None
        BY <1>b, <3>1, ServedRow
      <3>4. CASE o.cid # op.cid
        <4>1. r \in results
          <5>1. r.n # op.n
            BY <1>0, <1>1, <3>2, <3>4 DEF Basis, Keys, KeysUnique
          <5> QED
            BY <3>3, <5>1
        <4>2. Took(o)
          BY <1>1, <2>0, <3>2, <4>1 DEF Effects
        <4> QED
          BY <1>0, <2>0, <3>2, <3>3, <3>4, <4>2 DEF Took, Put
      <3>5. CASE o.cid = op.cid
        <4>1. o = op
          BY <1>0, <2>0, <3>2, <3>5 DEF Basis, History, Keys, KeysUnique, Spoiled, Excepted
        <4>2. r \notin results
          BY <1>1, <3>1, <4>1 DEF Basis, Batch, ResultsAnswer
        <4>3. out.status = "ok"
          BY <1>1, <3>3, <4>2
        <4>4. op \in queue
          BY <2>0, <3>5, ServesFirst
        <4>5. op.type = "create" => db[op.cid] = None \/ db[op.cid].val = op.val
          BY <2>0, <3>5, <4>4 DEF Effects
        <4>6. op.type \in {"create", "update", "delete"} /\ op.cid \in Ids /\ db'[op.cid] = out.row
          BY <1>0, <2>0, <3>3, <3>5 DEF PendingOperation, OpTypes, Put
        <4> QED
          BY <3>2, <3>3, <4>1, <4>3, <4>5, <4>6 DEF Took
      <3> QED
        BY <3>4, <3>5
    <2>2. CASE results' \subseteq results /\ UNCHANGED <<sent, lastSync>> /\ ~\E op \in todo : ServerApply(op)
      <3>1. db'[o.cid] = db[o.cid]
        BY <2>0, <2>2, RowStep DEF Moves, Still, Appends, Serves, Fails, Acks
      <3> QED
        BY <1>1, <2>0, <2>2, <3>1 DEF Effects, Took
    <2>3. \/ results' = {} \/ \E op \in todo : ServerApply(op)
          \/ results' \subseteq results /\ UNCHANGED <<sent, lastSync>>
      <3>1. CASE StartSync \/ BatchDone
        BY <3>1, SyncBegins, BatchEnds
      <3>2. CASE SaveLastSync
        BY <3>2 DEF SaveLastSync, Basis, Batch, ResultsAnswer
      <3> QED
        BY <3>1, <3>2, UiFrame, UiSyncs DEF Moves, Next, Pass, PushReply, RecordFailure, AckRejected,
          AckCreated, MarkSynced, AckDone, PullQuery, PullReply, Merge, ClearStore, FillStore,
          Environment, Loss, HttpLoss, Crash, OtherDelete, OtherWrite, PassReset, passVars, idbVars, vars
    <2> QED
      BY <2>1, <2>2, <2>3
  <1>2. ASSUME NEW c \in queue', c.type = "create", ~Spoiled(c.cid)'
        PROVE  db'[c.cid] = None \/ db'[c.cid].val = c.val
    <2>0. c.cid \in Ids /\ ~Spoiled(c.cid) /\ ~Excepted(c.cid)' /\ c \in OpsOf(c.cid)'
      BY <1>0, <1>a, <1>2 DEF PendingOperation, OpsOf
    <2>1. CASE Still(c.cid)
      BY <1>2, <2>0, <2>1 DEF Still, Effects, OpsOf
    <2>2. CASE Appends(c.cid)
      <3>1. PICK new : /\ queue' = queue \cup {new} /\ new.cid = c.cid /\ db' = db
                       /\ new.type = "create" => c.cid \notin born
        BY <2>2 DEF Appends
      <3>2. c = new => db[c.cid] = None
        BY <1>2, <2>0, <3>1 DEF Basis, Rooted
      <3> QED
        BY <1>2, <2>0, <3>1, <3>2 DEF Effects
    <2>3. CASE Serves(c.cid)
      <3>1. PICK op \in todo : op.cid = c.cid /\ ServerApply(op) /\ queue' = queue
        BY <2>3 DEF Serves
      <3>2. c = op
        BY <1>2, <2>0, <3>1, ServesFirst DEF OpsOf
      <3>3. db[op.cid] = None \/ db[op.cid].val = op.val
        BY <1>2, <2>0, <3>1, <3>2 DEF Effects
      <3>4. PICK out : db' = Put(db, op.cid, out.row) /\ (out.row = None \/ out.row.val = op.val)
        BY <1>2, <3>1, <3>2, <3>3, ServedRow
      <3> QED
        BY <1>0, <2>0, <3>2, <3>4 DEF Put
    <2>4. CASE Fails(c.cid)
      <3> DEFINE f == [held EXCEPT !.attempts = @ + 1]
      <3>1. /\ held \in queue /\ held.cid = c.cid /\ f.val = held.val /\ f.type = held.type /\ db' = db
            /\ c = f \/ c \in OpsOf(c.cid)
        BY <1>0, <2>0, <2>4 DEF Fails, OpsOf, PendingOperation
      <3> HIDE DEF f
      <3> QED
        BY <1>2, <2>0, <3>1 DEF Effects, OpsOf
    <2>5. CASE Acks(c.cid)
      BY <1>2, <2>0, <2>5 DEF Acks, Effects, OpsOf
    <2> QED
      BY <2>0, <2>1, <2>2, <2>3, <2>4, <2>5, RowStep DEF Moves
  <1> QED
    BY <1>1, <1>2, <1>c DEF Effects

\* A row nobody wants has its deletion queued or is off the server for good; of a row
\* still wanted the newest operation says what it should be, or the server says so.
Leaving(id) ==
  \/ \E d \in OpsOf(id) : d.type = "delete"
  \/ db[id] = None /\ \A o \in OpsOf(id) : o.type # "create"
Coming(id) ==
  IF OpsOf(id) = {}
    THEN db[id] # None /\ db[id].val = intent[id]
    ELSE \A m \in OpsOf(id) : (\A p \in OpsOf(id) : p.n <= m.n) => m.type # "delete" /\ m.val = intent[id]
Agreed == \A id \in born : ~Spoiled(id) => IF intent[id] = None THEN Leaving(id) ELSE Coming(id)

\* Wish, queue and server stay in agreement about every row, step by step.
LEMMA AgreedStep ==
  ASSUME Basis, Moves, Ordered, Effects, Agreed
  PROVE  Agreed'
  <1> SUFFICES ASSUME NEW id \in born', ~Spoiled(id)'
               PROVE  IF intent'[id] = None THEN Leaving(id)' ELSE Coming(id)'
    BY DEF Agreed
  <1>0. /\ id \in Ids /\ ~Spoiled(id) /\ ~Excepted(id)' /\ ~Excepted(id)
        /\ OpsOf(id) \subseteq PendingOperation /\ OpsOf(id) \subseteq queue
        /\ \A p \in OpsOf(id) : p.n \in Nat /\ p.cid = id
        /\ \A p, q \in queue : p.n = q.n => p = q
        /\ db \in [Ids -> ServerRow \cup {None}]
        /\ nextOp \in Nat
    <2>1. id \in Ids
      BY DEF Moves, TypeInv, TypeOK, GhostOK
    <2> QED
      BY <2>1, SpoiledStays DEF Moves, Spoiled, OpsOf, Basis, TypeInv, TypeOK, IdbOK, ServerOK, PendingOperation,
                        Keys, KeysUnique
  <1>1. id \in born => IF intent[id] = None THEN Leaving(id) ELSE Coming(id)
    BY <1>0 DEF Agreed
  <1>2. CASE Still(id)
    BY <1>1, <1>2 DEF Still, Leaving, Coming
  <1>3. CASE Appends(id)
    <2>1. PICK new \in PendingOperation :
            /\ new.n = nextOp /\ OpsOf(id)' = OpsOf(id) \cup {new} /\ db' = db
            /\ IF new.type = "create"
                 THEN id \notin born /\ intent'[id] = new.val
                 ELSE /\ id \in born
                      /\ intent'[id] = IF new.type = "delete" \/ intent[id] = None THEN None ELSE new.val
      BY <1>3 DEF Appends, OpsOf
    <2>2. \A p \in OpsOf(id) : p.n < nextOp
      BY <1>0, NewKey DEF Referred
    <2>3. CASE intent'[id] = None
      <3>1. new.type # "create"
        BY <2>1, <2>3 DEF PendingOperation
      <3>2. OpsOf(id)' = OpsOf(id) \cup {new} /\ db' = db
        BY <2>1
      <3>3. new.type = "delete" \/ Leaving(id)
        BY <1>1, <2>1, <2>3, <3>1 DEF PendingOperation
      <3>4. Leaving(id)'
        BY <3>1, <3>2, <3>3 DEF Leaving
      <3> QED
        BY <2>3, <3>4
    <2>4. CASE intent'[id] # None
      <3>1. new.type # "delete" /\ intent'[id] = new.val
        BY <2>1, <2>4
      <3> QED
        BY <1>0, <2>1, <2>2, <2>4, <3>1 DEF Coming
    <2> QED
      BY <2>3, <2>4
  <1>4. CASE Serves(id)
    <2>1. PICK op \in todo : op.cid = id /\ ServerApply(op) /\ UNCHANGED <<queue, intent, born>>
      BY <1>4 DEF Serves
    <2>2. op \in OpsOf(id) /\ OpsOf(id)' = OpsOf(id)
      BY <1>0, <2>1, ServesFirst DEF OpsOf
    <2>3. db[id] = None /\ op.type # "create" => db'[id] = None
      <3>1. PICK out : db' = Put(db, id, out.row) /\ (db[id] = None /\ op.type # "create" => out.row = None)
        BY <2>1, ServedRow
      <3> QED
        BY <1>0, <3>1 DEF Put
    <2> QED
      BY <1>1, <2>1, <2>2, <2>3 DEF Leaving, Coming
  <1>5. CASE Fails(id)
    <2> DEFINE f == [held EXCEPT !.attempts = @ + 1]
    <2>1. /\ held \in OpsOf(id) /\ OpsOf(id)' = (OpsOf(id) \ {held}) \cup {f}
          /\ f.n = held.n /\ f.type = held.type /\ f.val = held.val
          /\ intent' = intent /\ born' = born /\ db' = db
      BY <1>0, <1>5 DEF Fails, PendingOperation
    <2> HIDE DEF f
    <2>2. CASE intent[id] = None
      BY <1>1, <2>1, <2>2 DEF Leaving
    <2>3. CASE intent[id] # None
      <3>1. \A m \in OpsOf(id) : (\A p \in OpsOf(id) : p.n <= m.n) => m.type # "delete" /\ m.val = intent[id]
        BY <1>1, <2>1, <2>3 DEF Coming
      <3>2. ASSUME NEW m \in OpsOf(id)', \A p \in OpsOf(id)' : p.n <= m.n
            PROVE  m.type # "delete" /\ m.val = intent[id]
        <4>1. CASE m = f
          BY <2>1, <3>1, <3>2, <4>1
        <4>2. CASE m # f
          BY <2>1, <3>1, <3>2, <4>2
        <4> QED
          BY <4>1, <4>2
      <3> QED
        BY <2>1, <2>3, <3>2 DEF Coming
    <2> QED
      BY <2>1, <2>2, <2>3
  <1>6. CASE Acks(id)
    <2>1. PICK r \in results, op \in sent :
            /\ op \in OpsOf(id) /\ r.n = op.n /\ r.status = "ok"
            /\ OpsOf(id)' = OpsOf(id) \ {op}
            /\ intent' = intent /\ born' = born /\ db' = db
      BY <1>6 DEF Acks
    <2>2. Took(op) /\ op.cid = id
      BY <1>0, <2>1 DEF Effects
    <2>3. \A p \in OpsOf(id) : op.n <= p.n
      BY <1>0, <2>1, <2>2 DEF Ordered, BatchLeads
    <2>4. \A c \in OpsOf(id) : c.type = "create" => c = op
      <3>1. ASSUME NEW c \in OpsOf(id), c.type = "create"
            PROVE  c.n = op.n
        BY <1>0, <2>1, <2>3, <3>1 DEF Ordered, CreatesLead
      <3> QED
        BY <1>0, <2>1, <3>1
    <2>5. CASE intent[id] = None
      BY <1>1, <2>1, <2>2, <2>4, <2>5 DEF Leaving, Took
    <2>6. CASE intent[id] # None
      <3>1. \A m \in OpsOf(id) : (\A p \in OpsOf(id) : p.n <= m.n) => m.type # "delete" /\ m.val = intent[id]
        BY <1>1, <2>1, <2>6 DEF Coming
      <3>2. CASE OpsOf(id)' = {}
        <4>1. op.type # "delete" /\ op.val = intent[id]
          BY <1>0, <2>1, <3>1, <3>2
        <4> QED
          BY <2>1, <2>2, <2>6, <3>2, <4>1 DEF Coming, Took
      <3>3. CASE OpsOf(id)' # {}
        <4>1. \A m \in OpsOf(id)' : (\A p \in OpsOf(id)' : p.n <= m.n) => m.type # "delete" /\ m.val = intent[id]
          BY <1>0, <2>1, <2>3, <3>1
        <4> QED
          BY <2>1, <2>6, <3>3, <4>1 DEF Coming
      <3> QED
        BY <3>2, <3>3
    <2> QED
      BY <2>1, <2>5, <2>6
  <1> QED
    BY <1>0, <1>2, <1>3, <1>4, <1>5, <1>6, RowStep DEF Moves

Accounted == Queueing /\ InQueue /\ Ordered /\ Effects /\ Agreed

\* The account of queue, batch and server is kept by every step.
LEMMA AccountedStep ==
  ASSUME {"online", "retry"} \cap UiOps = {}, Basis, Basis', Accounted, [Next]_vars
  PROVE  Accounted'
  <1>1. Moves
    BY QueueingStep, InQueueStep DEF Moves, Accounted, Basis
  <1> QED
    BY <1>1, OrderedStep, EffectsStep, AgreedStep DEF Accounted, Moves

\* The invariants proved before hold on both sides of a step.
LEMMA BasisStep ==
  ASSUME IndInv, Rooted, History, [Next]_vars
  PROVE  Basis /\ Basis'
  BY Inductive, RootedStep, HistoryStep DEF IndInv, TypeInv, Keys, Batch, Wishes, Basis

\* The account holds in every state without the online path and the retry.
LEMMA AlwaysAccounted ==
  ASSUME {"online", "retry"} \cap UiOps = {}
  PROVE  Spec => [](IndInv /\ Rooted /\ History /\ Accounted)
  <1>1. Init => Rooted /\ History /\ Accounted
    <2> SUFFICES ASSUME Init
                 PROVE  Rooted /\ History /\ Accounted
      OBVIOUS
    <2>1. Rooted /\ History
      BY DEF Init, Rooted, History, Referred, NoRows, IdleUi
    <2>2. Queueing /\ InQueue
      BY DEF Init, Queueing, InQueue, IdleUi
    <2>3. Ordered /\ Effects
      BY DEF Init, Ordered, Effects, CreatesLead, BatchLeads, RestFollows, OpsOf
    <2>4. Agreed
      <3> SUFFICES ASSUME NEW id \in Initial
                   PROVE  intent[id] # None /\ Coming(id)
        BY DEF Init, Agreed
      <3>1. (CHOOSE v \in Vals : TRUE) \in Vals /\ id \in Ids
        OBVIOUS
      <3>2. OpsOf(id) = {}
        BY DEF Init, OpsOf
      <3>3. /\ intent[id] = (CHOOSE v \in Vals : TRUE)
            /\ db[id] = [val |-> CHOOSE v \in Vals : TRUE, upd |-> 1]
        BY <3>1 DEF Init
      <3>4. db[id] \in ServerRow /\ db[id].val = intent[id]
        BY <3>1, <3>3 DEF ServerRow
      <3> QED
        BY <3>1, <3>2, <3>3, <3>4 DEF Coming
    <2> QED
      BY <2>1, <2>2, <2>3, <2>4 DEF Accounted
  <1>2. IndInv /\ Rooted /\ History /\ Accounted /\ [Next]_vars => Rooted' /\ History' /\ Accounted'
    BY BasisStep, AccountedStep DEF Basis
  <1> QED
    BY <1>1, <1>2, Initially, Inductive, PTL DEF Spec

\* Converged holds for every instance without the online path and the retry: when the
\* queue is empty and nothing runs, the server holds what the user last asked of each
\* row, whatever was lost, rejected or parked meanwhile and wherever the app died.  An
\* online write overtakes an edit of its row that is still queued, and a retry pushes an
\* old edit after a newer one: with either of them the property is not the code's.
THEOREM PushedIsServed ==
  ASSUME {"online", "retry"} \cap UiOps = {}
  PROVE  Spec => []Converged
  <1>1. Accounted => Converged
    BY DEF Accounted, Agreed, Converged, OpsOf, Leaving, Coming, Spoiled, Excepted
  <1>2. Spec => [](IndInv /\ Rooted /\ History /\ Accounted)
    BY AlwaysAccounted
  <1> QED
    BY <1>1, <1>2, PTL

-----------------------------------------------------------------------------
(* The mirror shows what the server has                                    *)

\* Rows the mirror answers for: the server has the row, and nothing of it is queued, or
\* just its create.  And what it is to show of one.
Listed(id) == ~Spoiled(id) /\ db[id] # None /\ \A o \in OpsOf(id) : o.type = "create"
Shows(row, id) == row # None /\ row.val = db[id].val

\* Rows whose store this pull has replaced already.
Replaced(id) ==
  \/ pc = "save"
  \/ pc \in {"merge", "clear", "fill"} /\ Position[Kind[id]] < Position[store]

\* The operation in hand writes what the user asked for, unless the row is given up.
UiWrites ==
  /\ ui.pc \in {"create", "update", "rewrite"} => intent[ui.id] \in {None, ui.val}
  /\ ui.pc = "settle" => \A o \in ui.ops : o.cid \in waived

\* The row about to be marked synced is an old one as the server has it, or a new one.
Marking ==
  pc = "mark" =>
    \A r \in results, o \in sent :
      Answers(r, o) /\ Listed(o.cid) /\ db[o.cid].upd <= lastSync => held.val = db[o.cid].val

\* The reply of a pull is the server's rows at any moment until they are stored, and one
\* store is replaced at a time.
Asked(id) == db[id] # None /\ (db[id].upd > lastSync \/ Kind[id] = "account")
Replied ==
  /\ pc \in {"stamp", "merge", "clear", "fill"} =>
       \A id \in Ids : ~Excepted(id) => pulled[id] = IF Asked(id) THEN db[id].val ELSE None
  /\ pc \in {"clear", "fill"} => \A id \in Ids : Kind[id] # store => held[id] = None

\* A row not newer than last_synced_at is mirrored, and so is every row whose store has
\* been replaced; of the store being replaced the rows are in hand.
Covered ==
  \A id \in Ids : Listed(id) =>
    /\ Replaced(id) => Shows(mirror[id], id)
    /\ pc \in {"clear", "fill"} /\ Kind[id] = store => Shows(held[id], id)
    /\ db[id].upd <= lastSync /\ ~(pc = "fill" /\ Kind[id] = store) => Shows(mirror[id], id)

\* What is known on the way, and the step.
Known == Basis /\ Accounted /\ Moves

\* A listed row was listed with the value it has, or the push has just written it.
LEMMA ListedStep ==
  ASSUME Known, NEW id \in Ids, Listed(id)'
  PROVE  \/ Listed(id) /\ db'[id] = db[id]
         \/ pc' \in {"push", "ack"} /\ db'[id].upd > lastSync'
  <1>0. /\ ~Spoiled(id) /\ ~Excepted(id)' /\ ~Excepted(id)
        /\ OpsOf(id) \subseteq PendingOperation /\ OpsOf(id) \subseteq queue
        /\ db \in [Ids -> ServerRow \cup {None}]
        /\ lastSync <= clock /\ lastSync \in Nat /\ clock \in Nat
    BY SpoiledStays DEF Known, Accounted, Effects, Moves, Listed, Spoiled, OpsOf, Basis, TypeInv, TypeOK, IdbOK, ServerOK
  <1>1. CASE Still(id)
    BY <1>0, <1>1 DEF Still, Listed
  <1>2. CASE Appends(id)
    <2>1. PICK new \in PendingOperation :
            /\ OpsOf(id)' = OpsOf(id) \cup {new} /\ db' = db
            /\ new.type = "create" => id \notin born
      BY <1>2 DEF Appends, OpsOf
    <2>2. db[id] # None => id \in born
      BY DEF Known, Basis, Rooted
    <2> QED
      BY <2>1, <2>2 DEF Listed
  <1>3. CASE Serves(id)
    <2>1. PICK op \in todo : op.cid = id /\ ServerApply(op) /\ queue' = queue
      BY <1>3 DEF Serves
    <2>2. PICK out :
            /\ db' = Put(db, op.cid, out.row)
            /\ out.row = db[op.cid] \/ out.row = None \/ out.row.upd = clock + 1
      BY <2>1, ServedRow DEF Known
    <2>3. db'[id] = out.row /\ OpsOf(id)' = OpsOf(id) /\ pc' = "push" /\ lastSync' = lastSync
      BY <1>0, <2>1, <2>2 DEF Put, OpsOf, ServerApply, idbVars
    <2>4. CASE out.row = db[id]
      BY <1>0, <2>3, <2>4 DEF Listed
    <2>5. CASE out.row.upd = clock + 1
      BY <1>0, <2>3, <2>5
    <2> QED
      BY <2>1, <2>2, <2>3, <2>4, <2>5 DEF Listed
  <1>4. CASE Fails(id)
    <2> DEFINE f == [held EXCEPT !.attempts = @ + 1]
    <2>1. held \in OpsOf(id) /\ OpsOf(id)' = (OpsOf(id) \ {held}) \cup {f} /\ f.type = held.type /\ db' = db
      BY <1>0, <1>4 DEF Fails, PendingOperation
    <2> HIDE DEF f
    <2> QED
      BY <1>0, <2>1 DEF Listed
  <1>5. CASE Acks(id)
    <2>1. PICK r \in results, op \in sent :
            /\ op \in OpsOf(id) /\ r.n = op.n /\ r.status = "ok" /\ AckDone(r, op)
            /\ OpsOf(id)' = OpsOf(id) \ {op} /\ db' = db
      BY <1>5 DEF Acks
    <2>2. op.cid = id /\ Took(op) /\ op.type \in {"create", "update", "delete"}
      BY <1>0, <2>1 DEF Known, Accounted, Effects, OpsOf, PendingOperation, OpTypes
    <2>3. CASE op.type = "create"
      BY <1>0, <2>1, <2>3 DEF Listed
    <2>4. CASE op.type = "update"
      BY <2>1, <2>2, <2>4 DEF Took, AckDone
    <2>5. CASE op.type = "delete"
      BY <2>1, <2>2, <2>5 DEF Took, Listed
    <2> QED
      BY <2>2, <2>3, <2>4, <2>5
  <1> QED
    BY <1>0, <1>1, <1>2, <1>3, <1>4, <1>5, RowStep DEF Known, Moves

\* The server has of a listed row what the user asked for.
LEMMA ListedIsWanted ==
  ASSUME Basis, Accounted, NEW id \in Ids, Listed(id)
  PROVE  intent[id] # None /\ db[id].val = intent[id]
  <1>1. id \in born
    BY DEF Listed, Basis, Rooted
  <1>2. IF intent[id] = None THEN Leaving(id) ELSE Coming(id)
    BY <1>1 DEF Listed, Accounted, Agreed
  <1>3. intent[id] # None
    BY <1>2 DEF Listed, Leaving
  <1>4. CASE OpsOf(id) = {}
    BY <1>2, <1>3, <1>4 DEF Coming
  <1>5. CASE OpsOf(id) # {}
    <2>1. PICK c \in OpsOf(id) : TRUE
      BY <1>5
    <2>2. \A p \in OpsOf(id) : p.n <= c.n
      <3>1. \A p \in OpsOf(id) : p.type = "create" /\ c.type = "create"
        BY DEF Listed
      <3> QED
        BY <3>1 DEF Listed, Spoiled, Accounted, Ordered, CreatesLead
    <2>3. c.val = intent[id]
      BY <1>2, <1>3, <2>1, <2>2 DEF Coming
    <2>4. db[id].val = c.val
      BY <2>1 DEF Listed, Accounted, Effects, OpsOf
    <2> QED
      BY <1>3, <2>3, <2>4
  <1> QED
    BY <1>4, <1>5

\* What the user does to the mirror leaves a listed row showing what it showed.
LEMMA UiShows ==
  ASSUME Known, UiWrites, Ui, NEW id \in Ids, Listed(id), db'[id] = db[id], ~Spoiled(id)', Shows(mirror[id], id)
  PROVE  Shows(mirror[id], id)'
  <1>0. /\ intent[id] # None /\ db[id].val = intent[id]
        /\ mirror \in [Ids -> MirrorRow \cup {None}]
        /\ id \notin waived
        /\ ui.pc \in {"create", "update", "rewrite", "remove"} => ui.id \in Ids
        /\ ui.pc \in {"create", "update", "rewrite"} => ui.val \in Vals
        /\ ui.pc = "rewrite" => ui.row \in MirrorRow
        /\ None \notin MirrorRow
    BY ListedIsWanted DEF Known, Basis, TypeInv, TypeOK, IdbOK, UiHolds, Writing, Listed, Spoiled, Excepted
  <1>1. CASE CreateRow
    <2>1. mirror' = Put(mirror, ui.id, LocalOnly(ui.val)) /\ ui.pc = "create"
      BY <1>1 DEF CreateRow
    <2>2. LocalOnly(ui.val) \in MirrorRow /\ LocalOnly(ui.val).val = ui.val
      BY <1>0, <2>1 DEF LocalOnly, MirrorRow
    <2>3. ui.id = id => ui.val = db[id].val
      BY <1>0, <2>1 DEF UiWrites
    <2> QED
      BY <1>0, <2>1, <2>2, <2>3 DEF Shows, Put
  <1>2. CASE UpdateRow
    <2> DEFINE row == [ui.row EXCEPT !.val = ui.val]
    <2>1. mirror' = Put(mirror, ui.id, row) /\ ui.pc = "rewrite"
      BY <1>2 DEF UpdateRow
    <2>2. row \in MirrorRow /\ row.val = ui.val
      BY <1>0, <2>1 DEF MirrorRow
    <2>3. ui.id = id => ui.val = db[id].val
      BY <1>0, <2>1 DEF UiWrites
    <2> HIDE DEF row
    <2> QED
      BY <1>0, <2>1, <2>2, <2>3 DEF Shows, Put
  <1>3. CASE DeleteRow
    <2>1. mirror' = Put(mirror, ui.id, None) /\ ui.id # id
      BY <1>0, <1>3 DEF DeleteRow, Known, Accounted, Queueing
    <2> QED
      BY <1>0, <2>1 DEF Shows, Put
  <1>4. ASSUME NEW o \in ui.ops, DiscardRow(o)
        PROVE  Shows(mirror[id], id)'
    <2>1. o.cid # id /\ (mirror' = mirror \/ \E row : mirror' = Put(mirror, o.cid, row))
      BY <1>0, <1>4 DEF DiscardRow, UiWrites
    <2> QED
      BY <1>0, <2>1 DEF Shows, Put
  <1>5. CASE mirror' = mirror
    BY <1>5 DEF Shows
  <1> QED
    BY <1>1, <1>2, <1>3, <1>4, <1>5
    DEF Ui, Create, Update, Delete, Online, HttpRun, HttpReply, UpdateRead, DeleteQueue, WithdrawRead,
        Discard, DiscardOp, RetryOp, DiscardDone, Retry, idbVars, Known, Accounted, Queueing, Moves

\* The user operation in hand keeps the value that was asked for: nobody else edits.
LEMMA UiWritesStep ==
  ASSUME Known, UiWrites
  PROVE  UiWrites'
  <1>0. /\ ui \in UiState /\ intent \in [Ids -> Vals \cup {None}]
        /\ ui.pc \in {"create", "update", "rewrite"} => ui.id \in Ids
    BY DEF Known, Basis, TypeInv, TypeOK, GhostOK, UiHolds, Writing
  <1> USE DEF UiWrites, IdleUi, UiState, Put
  <1>1. CASE Ui
    <2>1. ASSUME NEW i \in Ids, NEW v \in Vals, Create(i, v)
          PROVE  UiWrites'
      BY <1>0, <2>1 DEF Create
    <2>2. ASSUME NEW i \in Ids, NEW v \in Vals, Update(i, v)
          PROVE  UiWrites'
      BY <1>0, <2>2 DEF Update, Wish
    <2>3. ASSUME NEW i \in Ids, Delete(i)
          PROVE  UiWrites'
      BY <2>3 DEF Delete
    <2>4. CASE UpdateRead
      BY <1>0, <2>4 DEF UpdateRead, ghostVars
    <2>5. CASE CreateRow \/ UpdateRow \/ DeleteRow
      BY <2>5 DEF CreateRow, UpdateRow, DeleteRow
    <2>8. CASE DeleteQueue \/ WithdrawRead
      BY <1>0, <2>8 DEF DeleteQueue, WithdrawRead
    <2>9. CASE DiscardDone
      BY <1>0, <2>9 DEF DiscardDone
    <2>6. ASSUME NEW o \in ui.ops, DiscardOp(o)
          PROVE  UiWrites'
      BY <1>0, <2>6 DEF DiscardOp, TakenBack, Known, Basis, Wishes, DiscardsWithdrawn
    <2>7. ASSUME NEW o, Discard(o) \/ DiscardRow(o)
          PROVE  UiWrites'
      BY <1>0, <2>7 DEF Discard, DiscardRow
    <2> QED
      BY <1>1, <2>1, <2>2, <2>3, <2>4, <2>5, <2>6, <2>7, <2>8, <2>9
      DEF Ui, Online, HttpRun, HttpReply, RetryOp, Retry, Known, Accounted, Queueing, Moves
  <1>2. CASE StartSync \/ Pass
    BY <1>2, PassFrame
  <1>3. CASE Environment
    <2>1. ~\E i \in Ids : HttpLoss(i)
      BY DEF HttpLoss, Known, Accounted, Queueing
    <2>2. (ui' = ui \/ ui' = IdleUi) /\ intent' = intent /\ waived \subseteq waived'
      BY <1>3, <2>1 DEF Environment, Loss, Crash, OtherDelete, OtherWrite, ghostVars
    <2> QED
      BY <2>2
  <1> QED
    BY <1>1, <1>2, <1>3 DEF Next, vars, Known, Moves

\* The row in hand is marked with the value the server has, if it is an old one.
LEMMA MarkingStep ==
  ASSUME Known, Marking, Covered
  PROVE  Marking'
  <1> SUFFICES ASSUME pc' = "mark", NEW r \in results', NEW o \in sent', Answers(r, o)', Listed(o.cid)',
                      db'[o.cid].upd <= lastSync'
               PROVE  held'.val = db'[o.cid].val
    BY DEF Marking
  <1>0. o.cid \in Ids
    BY DEF Known, Moves, TypeInv, TypeOK, BatchOK, PendingOperation
  <1>1. Listed(o.cid) /\ db'[o.cid] = db[o.cid]
    BY <1>0, ListedStep
  <1>2. ASSUME NEW q \in results, NEW op \in sent, AckCreated(q, op)
        PROVE  held'.val = db'[o.cid].val
    <2>1. /\ UNCHANGED <<results, sent, lastSync>> /\ pc = "ack" /\ Answers(q, op)
          /\ held' = mirror[op.cid]
      BY <1>2 DEF AckCreated, idbVars
    <2>2. Answers(r, o)
      BY <2>1 DEF Answers
    <2>3. o = op
      BY <2>1, <2>2, AnswerUnique DEF Known, Basis
    <2> QED
      BY <1>0, <1>1, <2>1, <2>3 DEF Covered, Shows
  <1>3. CASE pc = "mark" /\ UNCHANGED <<held, results, sent, lastSync>>
    <2>1. Answers(r, o)
      BY <1>3 DEF Answers
    <2> QED
      BY <1>1, <1>3, <2>1 DEF Marking
  <1>4. CASE Ui \/ UNCHANGED vars
    BY <1>3, <1>4, UiFrame, UiSyncs DEF passVars, vars
  <1>5. CASE StartSync \/ Pass
    BY <1>2, <1>5
    DEF StartSync, SendBatch, Pass, ServerApply, PushReply, RecordFailure, AckRejected, MarkSynced, AckDone,
        BatchDone, PullQuery, PullReply, Merge, ClearStore, FillStore, SaveLastSync
  <1>6. CASE Environment
    BY <1>3, <1>6 DEF Environment, Loss, HttpLoss, Crash, OtherDelete, OtherWrite, PassReset, passVars, idbVars
  <1> QED
    BY <1>4, <1>5, <1>6 DEF Next, Known, Moves

\* Only a push changes a row of the server the account holds.
LEMMA RowKept ==
  ASSUME Known, NEW id \in Ids, ~Excepted(id)', pc # "push"
  PROVE  db'[id] = db[id] /\ ~Excepted(id)
  BY RowStep, GrowStep, DoubledGrows DEF Known, Moves, Still, Appends, Serves, ServerApply, Fails, Acks, Excepted

\* What a pull has in hand changes by its own steps only.
LEMMA PullFrame ==
  ASSUME Known, "crash" \notin Faults
  PROVE  \/ /\ UNCHANGED passVars /\ lastSync' = lastSync
            /\ mirror' = mirror \/ Ui
         \/ /\ pc' \notin {"stamp", "merge", "clear", "fill", "save"} /\ pc \notin {"fill", "save"}
            /\ UNCHANGED <<mirror, lastSync>>
         \/ \E r \in results, op \in sent : MarkSynced(r, op)
         \/ PullQuery \/ PullReply \/ Merge \/ ClearStore \/ FillStore \/ SaveLastSync
  <1>1. CASE Ui \/ UNCHANGED vars
    BY <1>1, UiFrame, UiSyncs DEF passVars, vars
  <1>2. CASE StartSync \/ Pass
    BY <1>2 DEF StartSync, SendBatch, Pass, ServerApply, PushReply, RecordFailure, AckRejected, AckCreated,
                MarkOrDrop, AckDone, BatchDone, idbVars
  <1>3. CASE Environment
    <2>1. ~Crash /\ ~\E i \in Ids : HttpLoss(i)
      BY DEF Crash, Fault, HttpLoss, Known, Accounted, Queueing
    <2> QED
      BY <1>3, <2>1 DEF Environment, Loss, OtherDelete, OtherWrite, PassReset, passVars, idbVars
  <1> QED
    BY <1>1, <1>2, <1>3 DEF Next, Known, Moves

\* The account does not change on the server while a pull is under way.
LEMMA RepliedStep ==
  ASSUME Known, "crash" \notin Faults, Replied
  PROVE  Replied'
  <1>1. ASSUME pc' \in {"stamp", "merge", "clear", "fill"}, NEW id \in Ids, ~Excepted(id)'
        PROVE  pulled'[id] = IF Asked(id)' THEN db'[id].val ELSE None
    <2>1. CASE PullQuery
      BY <1>1, <2>1 DEF PullQuery, Asked, serverVars, idbVars
    <2>2. CASE pc \in {"stamp", "merge", "clear", "fill"} /\ UNCHANGED <<pulled, lastSync>>
      BY <1>1, <2>2, RowKept DEF Replied, Asked
    <2> QED
      BY <1>1, <2>1, <2>2, PullFrame
      DEF MarkSynced, PullReply, Merge, ClearStore, FillStore, SaveLastSync, passVars, idbVars
  <1>2. ASSUME pc' \in {"clear", "fill"}, NEW id \in Ids, Kind[id] # store'
        PROVE  held'[id] = None
    <2>1. CASE Merge
      BY <1>2, <2>1 DEF Merge
    <2>2. CASE pc \in {"clear", "fill"} /\ UNCHANGED <<held, store>>
      BY <1>2, <2>2 DEF Replied
    <2> QED
      BY <1>2, <2>1, <2>2, PullFrame DEF MarkSynced, PullQuery, PullReply, ClearStore, FillStore, SaveLastSync, passVars
  <1> QED
    BY <1>1, <1>2 DEF Replied

\* The stores are replaced in order, and each kind has its place.
LEMMA StoreOrder ==
  /\ \A k, l \in Kinds : Position[k] = Position[l] => k = l
  /\ \A k \in Kinds : Position[k] \in Nat /\ Position[k] > 0
  /\ \A i \in Nat, id \in Ids :
       /\ StoresAfter(i) # {} /\ Position[Kind[id]] < Position[Nearest(StoresAfter(i))] => Position[Kind[id]] <= i
       /\ StoresAfter(i) = {} => Position[Kind[id]] <= i
  <1>1. /\ \A k, l \in Kinds : Position[k] = Position[l] => k = l
        /\ \A k \in Kinds : Position[k] \in Nat /\ Position[k] > 0
    BY DEF Position, Kinds
  <1>2. ASSUME NEW i \in Nat, NEW id \in Ids, Position[Kind[id]] > i
        PROVE  /\ StoresAfter(i) # {}
               /\ ~(Position[Kind[id]] < Position[Nearest(StoresAfter(i))])
    <2>1. Kind[id] \in StoresAfter(i)
      BY <1>2 DEF StoresAfter
    <2>2. Nearest(StoresAfter(i)) \in Kinds /\ Position[Nearest(StoresAfter(i))] <= Position[Kind[id]]
      BY <2>1, NearestType, StoresAfterType
    <2> QED
      BY <1>1, <2>1, <2>2
  <1> QED
    BY <1>1, <1>2

\* Every step leaves the rows of the account mirrored: a merge takes what the reply brings
\* and what the mirror has, and a store that was cleared is filled from that.
LEMMA CoveredStep ==
  ASSUME Known, "crash" \notin Faults, UiWrites, Marking, Replied, Covered
  PROVE  Covered'
  <1> SUFFICES ASSUME NEW id \in Ids, Listed(id)'
               PROVE  /\ Replaced(id)' => Shows(mirror[id], id)'
                      /\ pc' \in {"clear", "fill"} /\ Kind[id] = store' => Shows(held[id], id)'
                      /\ db'[id].upd <= lastSync' /\ ~(pc' = "fill" /\ Kind[id] = store') => Shows(mirror[id], id)'
    BY DEF Covered
  <1>a. CASE pc' \in {"push", "ack"} /\ db'[id].upd > lastSync'
    <2>1. db'[id].upd \in Nat /\ lastSync' \in Nat
      BY DEF Listed, Known, Moves, TypeInv, TypeOK, ServerOK, IdbOK, ServerRow
    <2> QED
      BY <1>a, <2>1 DEF Replaced
  <1>b. CASE Listed(id) /\ db'[id] = db[id]
    <2>0. /\ Replaced(id) => Shows(mirror[id], id)
          /\ pc \in {"clear", "fill"} /\ Kind[id] = store => Shows(held[id], id)
          /\ db[id].upd <= lastSync /\ ~(pc = "fill" /\ Kind[id] = store) => Shows(mirror[id], id)
          /\ mirror \in [Ids -> MirrorRow \cup {None}]
          /\ Kind[id] \in Kinds /\ store \in Kinds /\ db[id] # None /\ ~Excepted(id)
          /\ db[id] \in ServerRow /\ lastSync \in Nat
      BY <1>b DEF Covered, Known, Basis, TypeInv, TypeOK, IdbOK, PullOK, ServerOK, Listed, Spoiled
    <2>1. CASE UNCHANGED passVars /\ lastSync' = lastSync /\ (mirror' = mirror \/ Ui)
      <3>1. Shows(mirror[id], id) => Shows(mirror[id], id)'
        <4>1. CASE mirror' = mirror
          BY <1>b, <4>1 DEF Shows
        <4>2. CASE Ui
          BY <1>b, <4>2, UiShows DEF Listed
        <4> QED
          BY <2>1, <4>1, <4>2
      <3> QED
        BY <1>b, <2>0, <2>1, <3>1 DEF passVars, Replaced, Shows
    <2>2. CASE pc' \notin {"stamp", "merge", "clear", "fill", "save"} /\ pc # "fill" /\ UNCHANGED <<mirror, lastSync>>
      BY <1>b, <2>0, <2>2 DEF Replaced, Shows
    <2>3. ASSUME NEW r \in results, NEW op \in sent, MarkSynced(r, op)
          PROVE  /\ Replaced(id)' => Shows(mirror[id], id)'
                 /\ pc' \in {"clear", "fill"} /\ Kind[id] = store' => Shows(held[id], id)'
                 /\ db'[id].upd <= lastSync' => Shows(mirror[id], id)'
      <3>1. /\ mirror' = Put(mirror, op.cid, Settled(held.val)) /\ Answers(r, op) /\ pc = "mark"
            /\ held \in MirrorRow /\ pc' = "drop" /\ lastSync' = lastSync
        BY <2>3 DEF MarkSynced, Known, Basis, TypeInv, TypeOK, PullOK
      <3>2. Settled(held.val) \in MirrorRow /\ Settled(held.val).val = held.val
        BY <3>1 DEF Settled, MirrorRow
      <3>3. op.cid = id /\ db[id].upd <= lastSync => held.val = db[id].val
        BY <1>b, <3>1 DEF Marking
      <3> QED
        BY <1>b, <2>0, <3>1, <3>2, <3>3 DEF Shows, Put, Replaced
    <2>4. CASE PullReply
      <3>1. ~Replaced(id)'
        BY <2>0, <2>4, StoreOrder, StoresAfterType DEF PullReply, Replaced
      <3> QED
        BY <1>b, <2>0, <2>4, <3>1 DEF PullReply, Shows, idbVars
    <2>5. CASE Merge
      <3>1. Shows(MergedRow(id), id)
        <4>1. pulled[id] = IF Asked(id) THEN db[id].val ELSE None
          BY <2>0, <2>5 DEF Merge, Replied
        <4>2. CASE Asked(id)
          <5>1. db[id].val \in Vals /\ pulled[id] = db[id].val
            BY <2>0, <4>1, <4>2 DEF ServerRow
          <5>2. MergedRow(id) = Settled(db[id].val) /\ Settled(db[id].val) \in MirrorRow
            BY <5>1 DEF MergedRow, Settled, MirrorRow
          <5>3. Settled(db[id].val).val = db[id].val
            BY DEF Settled
          <5> QED
            BY <5>2, <5>3 DEF Shows
        <4>3. CASE ~Asked(id)
          <5>1. db[id].upd <= lastSync
            BY <2>0, <4>3 DEF Asked, ServerRow
          <5> QED
            BY <2>0, <2>5, <4>1, <4>3, <5>1 DEF Merge, MergedRow
        <4> QED
          BY <4>2, <4>3
      <3>2. /\ UNCHANGED <<mirror, lastSync, store>> /\ pc = "merge" /\ pc' = "clear"
            /\ Kind[id] = store => held'[id] = MergedRow(id)
        BY <2>5 DEF Merge, idbVars
      <3> QED
        BY <1>b, <2>0, <3>1, <3>2 DEF Replaced, Shows
    <2>6. CASE ClearStore
      <3>1. /\ UNCHANGED <<held, lastSync, store>> /\ pc = "clear" /\ pc' = "fill"
            /\ Kind[id] # store => mirror'[id] = mirror[id]
        BY <2>6 DEF ClearStore
      <3>2. Replaced(id)' => Replaced(id) /\ Kind[id] # store
        BY <2>0, <3>1, StoreOrder DEF Replaced
      <3> QED
        BY <1>b, <2>0, <3>1, <3>2 DEF Shows
    <2>7. CASE FillStore
      <3>1. /\ lastSync' = lastSync /\ pc = "fill" /\ pc' \in {"merge", "save"}
            /\ mirror'[id] = IF held[id] # None THEN held[id] ELSE mirror[id]
        BY <2>7 DEF FillStore
      <3>2. Kind[id] # store => mirror'[id] = mirror[id]
        BY <2>0, <3>1 DEF Replied
      <3>3. Kind[id] = store => Shows(mirror[id], id)'
        BY <1>b, <2>0, <3>1 DEF Shows
      <3>4. Replaced(id)' => Replaced(id) \/ Kind[id] = store
        <4>1. Replaced(id)' => Position[Kind[id]] <= Position[store]
          BY <2>7, StoreOrder, <2>0 DEF FillStore, Replaced
        <4>2. Position[Kind[id]] \in Nat /\ Position[store] \in Nat
          BY <2>0, StoreOrder
        <4> QED
          BY <2>0, <3>1, <4>1, <4>2, StoreOrder DEF Replaced
      <3> QED
        BY <1>b, <2>0, <3>1, <3>2, <3>3, <3>4 DEF Shows
    <2>8. CASE SaveLastSync
      BY <1>b, <2>0, <2>8 DEF SaveLastSync, Replaced, Shows
    <2>9. CASE PullQuery
      BY <1>b, <2>0, <2>9 DEF PullQuery, Replaced, Shows, idbVars
    <2> QED
      BY <2>1, <2>2, <2>3, <2>4, <2>5, <2>6, <2>7, <2>8, <2>9, PullFrame
  <1> QED
    BY <1>a, <1>b, ListedStep

\* MirrorCovers holds for every instance without the online path, the retry and crashes:
\* between passes a row that is not newer than last_synced_at, of which nothing is queued,
\* is mirrored with the server's value, however pulls, pushes, lost requests and the
\* user's writes interleave.  A crash between clearing a store and filling it breaks it.
THEOREM PullsMissNothing ==
  ASSUME {"online", "retry"} \cap UiOps = {}, "crash" \notin Faults
  PROVE  Spec => []MirrorCovers
  <1> DEFINE Mirroring == UiWrites /\ Marking /\ Replied /\ Covered
  <1>1. Init => Mirroring
    <2> SUFFICES ASSUME Init
                 PROVE  Mirroring
      OBVIOUS
    <2>1. UiWrites /\ Marking /\ Replied
      BY DEF Init, UiWrites, Marking, Replied, IdleUi
    <2>2. Covered
      <3>1. \A id \in Ids : db[id] # None => Shows(mirror[id], id)
        <4> SUFFICES ASSUME NEW id \in Ids, db[id] # None
                     PROVE  Shows(mirror[id], id)
          OBVIOUS
        <4> DEFINE v == CHOOSE x \in Vals : TRUE
        <4>1. v \in Vals
          OBVIOUS
        <4>2. mirror[id] = Settled(v) /\ db[id] = [val |-> v, upd |-> 1]
          BY DEF Init
        <4>3. Settled(v) \in MirrorRow /\ Settled(v).val = v
          BY <4>1 DEF Settled, MirrorRow
        <4> HIDE DEF v
        <4> QED
          BY <4>2, <4>3 DEF Shows
      <3> QED
        BY <3>1 DEF Init, Covered, Listed, Replaced
    <2> QED
      BY <2>1, <2>2
  <1>2. IndInv /\ Rooted /\ History /\ Accounted /\ Mirroring /\ [Next]_vars => Mirroring'
    <2> SUFFICES ASSUME IndInv, Rooted, History, Accounted, Mirroring, [Next]_vars
                 PROVE  Mirroring'
      OBVIOUS
    <2>1. Known
      BY BasisStep, AccountedStep, Inductive DEF Known, Basis, Moves, Accounted, IndInv, TypeInv
    <2> QED
      BY <2>1, UiWritesStep, MarkingStep, RepliedStep, CoveredStep
  <1>3. Mirroring => MirrorCovers
    <2> SUFFICES ASSUME Mirroring, pc = "idle", NEW id \in Ids \ (waived \cup doubled),
                        db[id] # None, db[id].upd <= lastSync, ~Queued(id)
                 PROVE  mirror[id] # None /\ mirror[id].val = db[id].val
      BY DEF MirrorCovers
    <2>1. Listed(id)
      BY DEF Listed, Spoiled, Excepted, OpsOf, Queued
    <2> QED
      BY <2>1 DEF Covered, Shows
  <1> HIDE DEF Mirroring
  <1>4. Spec => [](IndInv /\ Rooted /\ History /\ Accounted)
    BY AlwaysAccounted
  <1> QED
    BY <1>1, <1>2, <1>3, <1>4, PTL DEF Spec

=============================================================================
