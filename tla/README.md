# PudimFinance: TLA+ models, model checking and proofs

PudimFinance is a personal-finance application: a Rust API over PostgreSQL
(`src/backend`), a React client (`src/desktop/src`) that runs in a browser, on
the desktop and in an Android WebView, and a Kotlin plugin
(`src/desktop/src-tauri/plugins/pudim-android-native`) that pushes changes and
captures bank notifications while the WebView is closed. Paths below are
relative to `src/`.

The money is in the rows and the ledger; the difficulty is in everything that
may happen between the tap of a user and the row. The models follow that path:
the client that works without a server and decides when it has one, the session
it talks under, the second pusher and the captures on Android, and the handlers
that read a row or a bill, decide, and write it a little later.

## 1. Inventory

| component | state it keeps | operations | works with |
|---|---|---|---|
| Offline mirror and queue (`desktop/src/offline/database.ts`) | IndexedDB: `pending_operations` (autoincrement key, attempts), one store of rows per entity (`synced`, `server_id`), `sync_metadata.last_synced_at` | append, remove, count a failure, reset attempts, mark a row synced, replace a store | mutators, engine |
| Offline mutators (`lib/api.ts`) | none of their own | create, update and delete of transactions, categories and accounts: online, offline, and the fall-back from one to the other | queue, mirror, HTTP, native outbox |
| Sync engine (`offline/sync-engine.ts`) | `syncInFlight`, the batch and reply of a pass | push in batches (creates first), apply results, pull and merge, retry, discard | queue, `/api/sync/*`, native outbox |
| Scheduler, breaker, banner (`offline/sync-scheduler.ts`, `offline/net.ts`, `OfflineBanner.tsx`) | timeout, wake-up flag; breaker, cached probe, probe in flight; the state shown | start, stop, wake, pass; probe, emit; sync by hand | engine, mutators |
| Sync endpoints (`backend/src/routes/sync.rs`) | the tables | `push`: one operation after the other, a result each; `pull`: three queries and `server_time` | engine, worker, ledger |
| Android outbox and worker (`SyncOutbox.kt`, `SyncWorker.kt`, `SyncResultPolicy.kt`, `offline/native-outbox.ts`) | encrypted preferences: one mutation per client id, attempts, result journal | enqueue, acknowledge, record and drain results; push while the app is closed; reconcile into IndexedDB | queue, mirror, `/api/sync/push` |
| Notification capture (`NotificationListenerService.kt`, `NotificationCaptureQueue.kt`, `PendingCaptureActions.kt`, `NotificationCaptureProvider.tsx`, `capture.ts`) | native queue and journal, the listener, the inbox, keys of imported captures | post, drain, acknowledge, review, discard; import in auto mode | outbox, mutators |
| Session (`lib/request.ts`, `lib/auth.ts`, `routes/auth.rs`) | three keys of secure storage, their cache, the refresh in flight, the user shown | load, sign in and out, single-flight refresh, reload on focus | every request, and the worker |
| Transactions (`routes/transactions.rs`) | `transactions` | create, split into a plan, update, move a plan, delete | ledger, bills, plans |
| Transaction ledger (`transaction_ledger.rs`, `routes/ledger.rs`) | `ledger_entries` | post a balanced pair, re-post, migrate, delete | every writer of a transaction |
| Credit-card bills (`routes/credit_cards.rs`) | `card_bills` (paid amount, status); totals computed from transactions | purchase, pay, anticipate installments | transactions, plans, ledger |
| Card cycle arithmetic (`routes/credit_cards.rs`, `transaction_ledger.rs`, `lib/card-cycle.ts`) | none | closing, due and shifted dates; bills offered and accepted | transactions, plans, reports |
| Installment plans (`routes/installments.rs`) | `installment_plans`, `installment_transactions` | schedule, generate what is due, pay one, delete | transactions, bills |
| Budgets and alerts (`routes/budgets.rs`) | `budgets`, alerts | upsert, evaluate, acknowledge | transactions |
| Accounts, categories (`routes/accounts.rs`, `categories.rs`) | rows with guarded deletion | CRUD | everything above |
| Reconciliation (`reconciliation_parser.rs`, `routes/ledger.rs`) | statement lines, links | parse, match | ledger |
| Receipts, stores and products; reports, settings, audit; server frame; widgets, NFC, secure storage; user interface | rows, caches | I/O, queries, rendering | - |

What is hard here:

- **Awaits are interleaving points.** JavaScript runs to the next `await`, and
  every IndexedDB access, probe and storage call is one. A pass, a user
  operation and two reconcilers interleave at each of them, and many functions
  read a store, await, and write back what they read.
- **A lost reply is not a lost request.** After a push or an HTTP call without
  an answer the client cannot tell whether the server ran it.
- **Two pushers, two refreshers.** The WebView and a WorkManager job push the
  same mutations under the same tokens, and tell each other through a journal
  that is drained once.
- **Process death** between any two writes, of the WebView, the job, or both.
- **Timers that are replaced while they run.** Stop, start and wake-ups cancel
  and re-arm the loop in the middle of its pass.
- **Read, decide, write.** Handlers read through the pool, check, and then open
  the database transaction that writes. Under READ COMMITTED nothing holds the
  rows in between, and even inside it each statement sees a newer snapshot.
- **Clamped dates.** Cycles of the 29th to the 31st, in two languages.

What makes each part correct:

- queue and engine: a created row that is still wanted is on the server or
  queued; an operation leaves the queue only when it was accepted or withdrawn;
  edits do not overtake the create they need; a drained queue means the server
  has the last wish; every operation settles or parks;
- mirror: the incremental pull misses no row up to `last_synced_at`;
- scheduler and breaker: no wake-up is lost, the loop never dies, and a server
  that comes back is noticed and gets what is queued;
- session: what is held, stored and shown is the session last asked for, its
  keys are of one person, and no call hangs on a refresh;
- outbox: as the queue, with the worker pushing and the process dying; an
  imported capture survives until it is given up after bounded rejections;
- captures: none disappears, a discard sticks, auto mode imports a purchase once
  however its notifications are drained, killed and adopted;
- bills: a bill shows no more paid than the ledger has, sequential payments do
  not exceed the total, an installment is charged once, every pinned charge is
  on a bill that exists;
- cycles and plans: the cycles tile the calendar, the server takes the bills the
  form offers, a plan has one installment per bill, paid bills keep their charges;
- ledger: a transaction has exactly the one pair that mirrors it, and requests that
  take their locks in one order do not deadlock.

## 2. Modules

| module | models |
|---|---|
| `SyncServer` | `apply_operation` of `routes/sync.rs` as an operator on one row: nine handlers, their no-ops, conflicts and errors |
| `OfflineSync` | mutators, mirror, queue, foreground pass and the pull, over `SyncServer` |
| `Delivery` | abstract: what the client promises of a row created on the device |
| `NativeSync` | `OfflineSync` composed with the Android outbox, worker, capture import, adoption and reconciliation |
| `Connectivity` | breaker, probe, scheduler loop, banner, a writer, and the server and link under them |
| `Session` | secure storage, cache, refresh, sign-in and sign-out, reload on focus, the worker's refresh |
| `Captures` | a notification from the listener to the inbox and its review |
| `CardBills` | one card and one plan: purchases, split, schedule, generate, pay a part, anticipate, pay a bill, delete |
| `CardCycle` | the calendar of a card, a plan on it, and the edits that move the plan |
| `Ledger` | transactions and their ledger pairs, statement by statement |
| `MC...` | model values, small sets, budgets and symmetry for TLC |
| `OfflineSync_proofs`, `NativeSync_proofs`, `Session_proofs`, `Captures_proofs`, `Connectivity_proofs`, `CardBills_proofs`, `CardCycle_proofs`, `Ledger_proofs` | theorems |

`NativeSync` extends `OfflineSync`, which extends `SyncServer` and instantiates
`Delivery` under a refinement mapping. The other modules stand alone; where two
of them touch, one abstracts the other: a pass is one push in `Connectivity`, a
create one call in `Captures`, a date a month in `CardBills`.

### OfflineSync, Delivery and the code

A row is one identifier on both sides, since the client UUID of a create is
the primary key on the server, and its fields are one value. An action is the
code between two awaits that touch shared state:

- `ui` is the mutator in progress. `createTransaction` is `Create` (queue the
  operation) then `CreateRow` (write the optimistic row); updates and deletes
  read the row in one step and write in the next; `withdraw` and `remove` are
  `deleteTransaction` on a row it takes for local; `http` and `reply` are the
  online path, with `HttpLoss` and `Fallback` when no answer arrives.
- `pc` is the one pass that `syncInFlight` admits. `sent`, `todo`, `results` are
  the batch, what the server has not run yet and what the client has not handled
  yet; `later` holds the edits and deletes that wait behind the creates. `held` is
  what the pass has read and is about to write back. A pull is `PullQuery`,
  `PullReply` (the timestamp, taken after the queries), then `Merge`,
  `ClearStore`, `FillStore` per store and `SaveLastSync`.
- `faults` bounds lost requests, crashes, writes of another client and user
  retries. A crash keeps IndexedDB and drops everything else.
- `born`, `intent`, `stored`, `accepted`, `waived`, `doubled` are history, read only
  to give a create a fresh id and to keep an online write to a row that is wanted. A row is `waived` when the user discards a change
  of it or deletes it before it was synced (`TakenBack`), and when another client
  writes it.

`Delivery` knows nothing of queues: a row is asked for, pending, stored, waived,
and its one liveness-free promise is that what is asked for and wanted is
pending or stored. `CreatesDelivered` states that every behaviour of `OfflineSync` is one
of `Delivery`, with `pending` the rows whose create is queued. An HTTP create
without an answer is `AskAgain`: the wish passes to a second id.

### NativeSync and the code

`SyncOutbox` is `@Synchronized`, so each of its functions is a step. A mutator
or a pass whose step ends in a plugin call leaves the call in `bridge` and goes
on when the plugin has run it. Each worker job reads the outbox, pushes, and
settles (`SyncResultPolicy`: acknowledge, retry, give up after `MAX_ATTEMPTS`).
`recon` is `reconcileNativeSyncResults`, which both the engine and the capture
provider run: it drains the journal, takes one snapshot of the queue, and marks,
drops or counts per result. A capture goes outbox, adopt (read, row), reconcile,
acknowledge. The WebView, the job, or all of it can die at any step.

### Connectivity and the code

`chain` is where each timeout or pass of the loop is: a wake-up clears only the
timeout the variable `timer` names, and while a pass runs that is an old one, so
two chains may live at once, as in the code; `MaxChains` bounds them and a
wake-up that would need one more is not taken. `breaker` and `fresh` are what is
left, in ticks, of `serverUnavailableUntil` and of the cached probe; `Tick` is the
clock; a timeout may fire late, never early. `probe` is the
one `probeInFlight` everybody awaits; `sync` is `syncInFlight`. `banner` mounts,
asks, shows, syncs; `write` is a mutator that sends or queues. The tick is
about 10 s, and the delays keep the order of those in the code.

### Session and the code

A token is the number of the grant it came with. The storage executes calls one
after the other and key by key (`StorageStep`), because `setAuthSession` and
`clearAuth` write three keys; `cache` is assigned at once. Flows are the places
in the code that await: start-up, the single refresh (`refreshOnce`) with its
callers, sign-in, sign-out, reload on focus, and API calls. `worker` is
`SyncWorker.refresh`, which reads the same storage and writes two keys of it
without the WebView. `Expire`, `Refuse`, loss and failure are the server's
side; `Restart` drops everything but the storage.

### Captures and the code

Each notification is posted once and its number is also its capture id. `queue`
and `journal` are the native stores, `live` and `told` what was forwarded to a
WebView that may be suspended. `drain` follows `drainQueuedCaptures` await by
await; `Handle` is `handleParsed`. A notification has two keys: `key` is its
`dedupKeyOf`, with the description normalised, which the inbox merges by and which is
stored once it is imported; `text` is the same with the description as it was
written, which auto mode remembers in memory (`recent`) until `RecentExpires`, 30 s
later, whether or not the create has been answered. Texts that are equal have equal
keys, and two texts may share one. `autos` and `marking` are creates of auto mode in
the WebView, `nativeMade` those of `importAuto`, which knows notifications only by
`capture_id`; `approving`, `removing` and `sweep` are those of the review page. `Kill`
ends the process at any step. `late` and `crossed` are history: keys whose window
ended before a create did, and keys imported again while nothing yet told of an
earlier import. The importer's enqueue and journal are one step here.

### CardBills and the code

A handler is a read step and a commit step: `PayBill(c, ...)` is everything
before `pool.begin()`, `PayBillCommit(c)` the database transaction, and what was
read is in `req[c]` while others commit. `generate_installments` has a check
(`GenerateCheck`) and a transaction (`GenerateCreate`) per row. Months stand for
dates: a month names the cycle that closes in it, so `pin` is
`card_bill_period_end`, and `BillOf` is the rule of `card_bill_total` (the pin
when there is one, the date otherwise). Amounts are cents; the two rounding rules
(`round_dp` to even, `NUMERIC(12,2)` away from zero) are kept apart. The foreign
key of `installment_anticipation_items` makes a deletion fail, as in the schema.
`overlapped` and `disturbed` are history: installments two requests had in hand
at once, and bills paid by overlapping requests or whose total went down.

### CardCycle and the code

A date is the number `31 * month + day - 1`, so that dates order as in the code
and a day the month lacks can be told. `CyclePeriodEnd`, `CycleDueDate`,
`ShiftPeriodEnd` and `AddMonths` are the functions both languages have;
`BillOptions` is the form's list, `Accepted` the server's checks. `Create` is
`create_transaction` with installments, `Edit` is `update_transaction` with
`shift_plan_bills`, `PayBill` pays in full. Requests come one at a time, and
anticipation is left to `CardBills`.

### Ledger and the code

One action per SQL statement of a handler: `row` and `entries` are what is committed,
`req[c]` what request `c` has read, locked (`held`, `bill`) and written (`new`, `adds`,
`dels`). The rows are the installments of a plan, numbered as the plan numbers them.
Most requests write one. A `move` is `update_transaction` on an installment followed, in the
same database transaction, by `shift_plan_bills`: for every installment in order, the
row of its bill (`TakeBill`) and then its transaction (`ShiftRow`). A `reprice` is
`anticipate_installments` on several charged installments: the current bill first, then
update, clear and re-post each in the order of the schedule. One bill is told apart,
the current one of the card, which a charge writes last, an anticipation first and a
plan move perhaps in between. A pair is one value, because its two entries are one
`INSERT`. `delete_entries` is
two steps, as PostgreSQL runs it: it takes its snapshot (`ClearStart`), waits
for others that delete the same entries, and deletes what is left of the snapshot
(`ClearEnd`). `update_transaction` reads the link before the transaction begins
and an anticipation after; `Migrate` is the migration endpoint for
one row it listed, `Pay` the backfill of `pay_installment`. A sync deletion
commits when it found no row, the HTTP one rolls back. `Abort` is a lost connection, a
restart, or the victim of a deadlock, at any step. `met` and `raced` are
history.

## 3. Runs

Passing runs:

| run | asks | instance |
|---|---|---|
| `offline_sync` | `MirrorCovers`, `Converged`, `ParentsFirst` and, under `FairSpec`, `EveryOpSettles` | a category to create and a transaction the server has, 2 operations, 2 faults (lost or rejected requests), parking at the 2nd rejection |
| `offline_faults` | `TypeOK`, `NoCreateLost`, `OnlySettledLeave`, the inductive invariant `IndInv`, and `CreatesDelivered` (refinement of `Delivery`) | one transaction, 3 operations (create, update, delete, discard, retry), one fault: a crash, a lost request, a rejection or another client's write |
| `offline_online` | `CreatesDelivered` | two transactions and an account written over HTTP, one queued operation, one lost request: fall-back under a second id |
| `native` | `NativeTypeOK`, `NativeNoCreateLost`, `CapturesSurvive`, `NativeOnlySettledLeave` | a row created in the app or imported from a capture, and one more operation on it, the pass and one worker job, 2 faults (death of the WebView, of the job, loss, rejection), parking at the 2nd rejection, two values |
| `card_bills` | `TypeOK`, `PaidWasPosted`, `NeverOverpaid`, `ChargedOnce`, `PinnedIsBilled` | two clients, 5 requests of 8 kinds, a plan of 5 cents in 2 parts (2 and 3, or 3 and 3 when scheduled, which shows the rounding), 2 months |
| `session` | `SessionIsWanted`, `OneIdentity`, `CacheIsStored` and, under `FairSpec`, `RequestsSettle` | two users, one API call, 4 grants, five scenarios, each a set of events that happen at most once |
| `connectivity` | `WakeIsArmed`, `LoopLives` and, under `FairSpec`, `EventuallyPushed`, `NoticesServer` | one queued operation, two chains, delays 1, 2, 2, 3 |
| `captures` | `Accounted`, `DiscardApplied`, `ImportedOnce`, `ViewIsInbox` | two notifications written alike, of one purchase in two spellings, or of two purchases; two registrations in flight; four budgets: a kill, a change of mode, a refusal, or a refusal during approve-all |
| `card_cycle` | `TypeOK`, `CyclesTile`, `OptionsAccepted`, `OneBillEach`, `DueWithBill`, `PaidIsFrozen` | closing days 1, 30, 31, due days 1 and 30, dates of the 1st, 29th and 31st in January and the leap February of 2028, a plan of 3, 2 edits of its first installment |
| `ledger` | `IndInv`, `Mirrored`, `DeadlockOutOfOrder` | two installments of a plan, three requests of seven kinds, all at once or one after another, after an earlier migration, two amounts |

The bounds are small but the interesting cases are inside them:

- *Queue.* Two operations of one row (batching, double results), a rejection
  after a loss, a crash between two writes, a third operation while two are in
  flight. With two attempts a failure is counted and then parks. The clock bound
  (`MaxClock`) stops user operations after a few server writes, not passes.
- *Android.* One operation beside the one of the import or the create is what it
  takes to change a row while its first upload is unsettled; a job and a pass are
  two pushers, with separate counts of attempts. More jobs, which WorkManager may
  run one after the other on the same snapshot, are left to the theorems.
- *Scheduler.* Two chains are a loop whose pass was woken; the delays keep the
  order of the code's, which is all its choices depend on.
- *Session.* Four grants are a session, its refresh, a second sign-in and its
  refresh. A scenario limits how often each event happens, not when.
- *Bills.* Five requests allow a charge, an overlap of two on it, and two more.
- *Cycles.* The days are those where clamping bites: a short month, a leap day,
  the closing day itself and the days around it.
- *Captures.* Two notifications show every way in which one keeps the other out or
  does not; each exception of `ImportedOnce` occurs in the run, and the property is false
  there without any one of them.
- *Ledger.* Three requests are what a deletion, the request it races and a third
  that takes advantage of it need, and a circle of three; two rows are what two requests
  need to take them in different orders. `MaxRequests` is 4, as the first is a
  migration that ran earlier. `StartRows` and `NewAmounts` say that amounts only tell
  old from new: every row starts with one amount and every request that sends one
  sends the other, and the second installment starts posted or missing.

Symmetry is used only in runs without liveness, over values no constant singles
out. `CHECK_DEADLOCK FALSE` is set because each system may stop: when the
operations, requests or events of the instance are used up and nothing is
queued, nothing has to happen. That the code itself does not stop is what
`EveryOpSettles`, `RequestsSettle`, `LoopLives` and `EventuallyPushed` say.

Runs that find a disagreement between the code and what the repository says:

| run | says | does |
|---|---|---|
| `finding_doubled` | "Failed ones (conflict/error) stay queued" (`sync-engine.ts:173`) | two operations of one row in a batch share a key of the result map (:178): the result of one settles the other |
| `finding_plan` | "A plan keeps its anchor unless the caller proves a plan move" (`transactions.rs:1136`) | saving a later installment without a change moves the whole plan, because its own bill is taken for the plan's (:1237) |

These configurations reproduce further disagreements; each violates the property
it names, with the MC module of its subject (`tlc -config finding_X.cfg MC...`):

| configuration, property | says | does |
|---|---|---|
| `finding_discard`, `DiscardRestores` | "the next pull restores the server state" (`sync-engine.ts:364`) | the pull asks only for rows newer than `last_synced_at`: a discarded delete stays deleted locally |
| `finding_neversynced`, `NeverSyncedIsLocal` | "A row that only exists on this device has no server counterpart" (`api.ts:554`) | a push whose reply is outstanding may have created it: the row stays on the server |
| `finding_capture`, `OutboxOwnsUpload` | "The native outbox already owns the upload" (`native-outbox.ts:123`) | editing an adopted capture before it is uploaded replaces its create in the outbox |
| `finding_anticipate`, `AnticipatedOnCurrentBill` | "Selected future installments are charged on the current bill" (`credit_cards.rs:1204`) | the date moves, `card_bill_period_end` stays, and the bill total goes by the latter |
| `finding_unreachable`, `ClearedOnlyIfRejected` | the session is cleared "only when the refresh token is genuinely rejected" (`auth.tsx:66`) | any refusal of the refresh clears it, a 500 (`auth.rs:703`) included |
| `finding_drain`, `ForegroundDrains` | the queue is drained "when it returns to the foreground" (`NotificationCaptureQueue.kt:11`) | a return while a drain is in flight starts none (`NotificationCaptureProvider.tsx:373`): what was queued after that drain read the queue waits for the next return |
| `finding_listener`, `HiddenIsUnregistered` | "Unregister so the native service persists captures" (`NotificationCaptureProvider.tsx:454`) | of two registrations in flight the ref keeps one (:340): hiding the page removes that one, the other stays |
| `finding_banner`, `BannerIsCurrent` | `subscribeConnectivity` "immediately reports the current state" (`net.ts:39`) | a sync by hand that fails sets the banner to "offline" by itself (`OfflineBanner.tsx:94`); the probes that then succeed emit nothing, because the last state they emitted was "online" (`net.ts:18`) |
| `finding_report`, `ScanIsExact` | the bounds "keep the scan narrow without changing the result" (`reports.rs:305`) | a charge pinned to the bill before its own has an effective date the bounds (:314) leave out |
| `finding_orphan`, `PairHasTransaction` | "Every transaction is mirrored into a balanced ledger_entries pair" (`migrations/001_initial_schema.sql:134`), so no pair is without one | a deletion that clears entries before it locks the row (`transactions.rs:1378`) can miss those an update posts meanwhile: the pair stays without its transaction and balances count it |

Behaviours met while modelling that the properties name as exceptions or leave out:

- *Queue.* A category create whose reply was lost is an error when repeated and
  parks (`sync.rs:893`). When a create is parked the edits behind it are sent
  (`sync-engine.ts:212`). A retry of parked operations writes a snapshot back and
  can resurrect one that was acknowledged meanwhile (`database.ts:335`); the
  handlers treat it as a repetition. It also pushes an edit that was parked after
  newer edits of its row that were accepted meanwhile (`sync-engine.ts:212`). An
  online write overtakes an older queued
  edit of the row (`api.ts:520`). An HTTP create without an answer is queued
  under a new id (`api.ts:492`).
- *Mirror.* The merge replaces a local row whatever its `synced` flag
  (`sync-engine.ts:248`), although :236 promises otherwise; the edit is still
  queued. A crash between clearing and filling a store leaves it empty
  (`database.ts:241`) until the rows change again.
- *Android.* The worker acknowledges by client id: an edit made while the create
  is being pushed leaves the outbox with it, and the reconciliation then drops it
  from IndexedDB (`mixed`). Deleting an adopted import that is not uploaded yet
  brings the row back.
- *Scheduler.* A wake-up during a pass arms a timeout beside the one the pass will
  arm: the loop then runs twice, and nothing ever merges the two.
- *Session* (`straddled`, `torn`, `rotated`). A refresh answered after a
  sign-out writes its tokens back. A reload on focus overtaken by a write
  caches what it read before. The start-up's `fetchMe` shows its user after a
  sign-out or a refusal. The worker writes two of three keys beside a change of
  the session, a refresh of the user before answered while the worker has the
  tokens of the next one writes them under it, and a process killed between two
  keys leaves a mixture.
- *Captures* (`lost`, `broken`, `late`, `crossed`). A kill takes what was forwarded or
  drained but not handled. A refused create of auto mode is swallowed and its text
  remembered. Auto mode imports a purchase twice when a kill falls between the create
  and the write of its key; when a create takes longer than the 30 s for which its text
  is remembered; when two notifications of it that differ in case or accents are
  handled before the first is marked, as in one drain, since memory compares the
  description as written and the store the normalised one
  (`NotificationCaptureProvider.tsx:144`); and when the native importer, which
  compares no keys (`NativeCaptureImporter.kt:18`), takes one of them after the WebView
  did, or before it and has not been adopted yet. Approving one item beside approve-all
  can create it twice.
- *Bills.* Two payments in progress at once are both posted to the ledger, and the bill
  shows one of them (`disturbed`). A generation beside a payment, or two
  anticipations, of a part without a transaction create two charges
  (`overlapped`). A bill found open can be paid before the charge is written, and
  then grows. The transaction of an anticipated part cannot be deleted: the audit
  item's foreign key refuses it. `POST /api/installments` stores
  `total / count` unsplit, so its parts need not add up to the total.
- *Plans.* An edit of a later installment can move charges off or onto paid bills,
  since only the edited row's bills are checked. `shift_plan_bills` leaves the
  dates of the transactions, so a plan moved repeatedly drifts away from them.
- *Ledger* (`raced`). A deletion, a migration or a backfill that overlaps another
  request acts on what it read before it held the row: pairs without a
  transaction, a second pair, or a row without one. A deletion also deadlocks with an
  edit of its row; locking the row first, as the updates do, would remove both. Two
  plan moves that start from different installments, or a plan move beside an
  anticipation, lock the rows of the plan in different orders and can deadlock
  without any deletion; PostgreSQL fails one of them with an error.

### Fairness

`OfflineSync!FairSpec` (`EveryOpSettles`): `WF(Pass)`, a pass that has begun goes
on, because every `await` in it is settled by IndexedDB or by `fetch`, whose
failure is the action `Loss`; and `WF(Syncable /\ StartSync)`, passes keep being
started while an operation can still be pushed. The second is what `Connectivity`
shows of the scheduler: `EventuallyPushed` follows from its loop, which re-arms
its timer whether the pass succeeded or threw. Nothing is assumed of the user or
of the faults, whose number is bounded: a server that never answers again settles
nothing. `PollingSpec`, for `finding_discard`, also lets passes run with an empty
queue, the most favourable assumption for the claim it refutes.

`Connectivity!FairSpec`: the clock ticks, a timeout that is due fires, and a
request is answered or times out (`PROBE_TIMEOUT_MS`). The server and the link
owe nothing: `EventuallyPushed` and `NoticesServer` have "from some time on
reachable" as their premise.

`Session!FairSpec`: weak fairness of `Progress`, the code that goes on, the storage that
executes its calls and the answers, each of which comes or is given up. Events
of the user, the worker and the server's refusals are free.

`Captures` is checked for safety; its `FairSpec` (native calls answered,
JavaScript run) serves `finding_drain`.

## 4. Proofs

`tlapm` checks these for every value of the constants that meets the named
assumptions (`SyncServerAssumption`, `OfflineSyncAssumption`, `NativeSyncAssumption`,
`SessionAssumption`, `CardBillsAssumption`, `CardCycleAssumption`,
`LedgerAssumption`, `ConnectivityAssumption`, `BudgetsAssumption`, all evaluated by
the runs), which give the constants their types and keep model values apart:

| theorem | states |
|---|---|
| `OfflineSync_proofs!TypeCorrect` | `Spec => []TypeOK` |
| `OfflineSync_proofs!CreatesSurvive` | `Spec => []NoCreateLost` |
| `OfflineSync_proofs!OnlySettledOperationsLeave` | `Spec => OnlySettledLeave` |
| `OfflineSync_proofs!ClientDelivers` | `Spec => CreatesDelivered`: `OfflineSync` implements `Delivery` |
| `OfflineSync_proofs!CreatesGoFirst` | `Spec => ParentsFirst` |
| `OfflineSync_proofs!PushedIsServed` | `{"online", "retry"} \cap UiOps = {}` implies `Spec => []Converged` |
| `OfflineSync_proofs!PullsMissNothing` | `{"online", "retry"} \cap UiOps = {}` and `"crash" \notin Faults` imply `Spec => []MirrorCovers` |
| `OfflineSync_proofs!IndInvHolds` | `Spec => []IndInv` |
| `NativeSync_proofs!NativeTypeCorrect` | `NativeSpec => []NativeTypeOK` |
| `NativeSync_proofs!NativeCreatesSurvive` | `NativeSpec => []NativeNoCreateLost` |
| `NativeSync_proofs!ImportsSurvive` | `NativeSpec => []CapturesSurvive` |
| `NativeSync_proofs!NativeOnlySettled` | `NativeSpec => NativeOnlySettledLeave` |
| `Session_proofs!SessionInvHolds` | `Spec => []SessionInv` |
| `Session_proofs!SessionAsAsked` | `Spec => []SessionIsWanted` |
| `Session_proofs!NoMixedIdentity` | `Spec => []OneIdentity` |
| `Session_proofs!RestartFindsSession` | `Spec => []CacheIsStored` |
| `CardBills_proofs!PaidWasPostedHolds` | `Spec => []PaidWasPosted` |
| `CardBills_proofs!PinnedIsBilledHolds` | `Spec => []PinnedIsBilled` |
| `CardBills_proofs!ChargedOnceHolds` | `Spec => []ChargedOnce` |
| `CardBills_proofs!TypeCorrect` | `Spec => []TypeOK` |
| `CardBills_proofs!NeverOverpaidHolds` | `Spec => []NeverOverpaid` |
| `CardCycle_proofs!TypeCorrect` | `Spec => []TypeOK` |
| `CardCycle_proofs!CyclesTileTheMonths` | `Spec => []CyclesTile` |
| `CardCycle_proofs!ServerTakesOptions` | `Spec => []OptionsAccepted` |
| `CardCycle_proofs!OneInstallmentPerBill` | `Spec => []OneBillEach` |
| `CardCycle_proofs!DueDatesFollowBills` | `Spec => []DueWithBill` |
| `CardCycle_proofs!PaidBillsAreFrozen` | `Spec => PaidIsFrozen` |
| `Ledger_proofs!IndInvHolds` | `Spec => []IndInv` |
| `Ledger_proofs!MirroredHolds` | `Spec => []Mirrored` |
| `Ledger_proofs!DeadlocksOutOfOrder` | `Spec => []DeadlockOutOfOrder` |
| `Connectivity_proofs!WakeUpsAreKept` | `Spec => []WakeIsArmed` |
| `Connectivity_proofs!LoopNeverDies` | `Spec => []LoopLives` |
| `Captures_proofs!NothingDisappears` | `Spec => []Accounted` |
| `Captures_proofs!DiscardsStick` | `Spec => []DiscardApplied` |
| `Captures_proofs!ImportsOnce` | `Spec => []ImportedOnce` |
| `Captures_proofs!ReviewShowsInbox` | `Spec => []ViewIsInbox` |

**NoCreateLost** is not inductive. A create leaves the queue when a result says so,
hence the invariant must know that results answer operations of the batch and
that an `ok` of a create implies the row has been stored (`ResultsAnswer`); that
the batch is all creates or none (`BatchUniform`); that a key names one mutation
of one row wherever it is referred to (`KeysFresh`, `KeysName`, `KeysUnique`),
because failures and acknowledgements go by key; that a discard in progress only holds
operations of rows the user gave up (`DiscardsWithdrawn`); and that rows wanted or
being requested were created (`WishesBorn`). `IndInv` is their conjunction, and
`offline_faults` checks it as an invariant. The proof has one lemma per part
(`TypeStep`, `KeysStep`, `BatchStep`, `WishesStep`, `CreateStep`), each with one
step per action, and `Inductive` puts them together. `OnlySettledLeave` is read off
each step from the same invariant. The **refinement** adds `History`, which says
what the history variables record of rows that are stored, and maps every action to
a step of `Delivery` or a stutter.

**ParentsFirst** rests on `HeldBack`: an operation the pass has set aside for its
second batch is of a row the server has held, or whose create was withdrawn, or the
pass has failed, or the create was left out of the batch, or it left with the batch
and is not acknowledged yet; a batch of edits follows only when nothing failed and
nothing awaits its result, which leaves the first two and the create left out. It
needs that what is queued refers to a row that was born (`Rooted`) and that a create
is not lost (`NoCreateLost`). The property speaks of a create that was parked when the
pass began: a retry of the user may clear the mark while the pass runs.

**Converged** looks at the one moment when nothing is queued; its proof says for every
moment what wish, queue and server have to do with each other (`Agreed`): the newest
operation of a row that is still wanted says what the user asked for, or nothing of the row is
queued and the server says so; a row nobody wants has its delete queued, or is off the
server with no create to come. That is kept because a step does one of five things to
a row, which `RowStep` shows over all actions: nothing, or it queues an operation, or
the server runs one, or a failure is counted, or an acknowledged operation leaves. Each
is harmless only because operations of a row are served oldest first (`Ordered`): a
create is the first of its row, a batch holds a row's first operation, and what waits
behind the creates has before it only the create the pass is waiting for. An
operation that leaves was `ok`, and the server still has what it asked for
(`Effects`); the pass removes and writes back what the queue holds, number of
attempts included (`InQueue`). Rows with a parked operation are left out until the
user discards it. The theorem leaves out the online path and the retry, with which the
property is false (section 3). The attempt to prove it showed one more row it does not
hold for, which the instance of `offline_sync` is too small to meet: one deleted before
it was synced while a push has its create; such rows are now `waived` (`TakenBack`).

**MirrorCovers** is about moments between passes as well; its proof follows a row that
the server has and of which nothing but its create is queued (`Listed`) through every
stage of a pull (`Covered`): a row not newer than `last_synced_at` is in the mirror,
unless its store has just been cleared, and then it is in what the pass holds; a store
already replaced shows every row. Such a row becomes listed, or changes on the server,
only by a push, which makes it newer than `last_synced_at`, so the pull of the same pass
brings it (`ListedStep`). The reply stays what the server has until it is stored,
because only this pass pushes (`Replied`). The user's writes and the mark after a
create put back the value the server has, because on a listed row wish and server
agree: that is the account of `Converged`, from which the hypotheses come. A crash
between clearing and filling is left out, since it does break the property.

**PaidWasPosted** needs that what a payment in progress read was posted when it
read it (`ReadWasPosted`): the commit writes the absolute value `paid + amount` and
adds `amount` to the ledger, and `posted` never goes down, so the inequality
survives every overlap. The converse does not hold, which is the lost update
described above. **PinnedIsBilled** needs that every pin a request holds, and
every month of a plan, has a bill to be made (`ReadPinHasRoom`, `PlanHasRoom`,
`GenerationHasPlan`), and that no step removes a bill.

**ChargedOnce** is inductive with `ChargeInv`. A handler writes a charge and its
schedule row in one database transaction, but from what it read before: so the
invariant says that what a request has read of an installment only it has in hand
still stands (`Stands`), that requests which share one are recorded as overlapping
(`Exclusive`), that ids of new transactions are new to the rows and to the requests
(`Books`, `Carries`), and that one request at most is making the plan (`OnePlanner`,
the bound of one plan). One lemma tells what a commit does to the other requests,
and each commit then shows that it rewrites only rows it has in hand and links them
to the transaction they had or to a new one.

**NeverOverpaid** needs first what a total is. `MapThenSumSet` is a recursive function
over the subsets of a set, in the order in which `CHOOSE` takes the elements; that it
exists, is a natural number, may take any element first and does not shrink when
charges are added is an induction, done as: of the subsets for which it fails one has
no other inside it (`Smallest`, from `WFMin` of the library). `TypeInv` then gives
every charge an amount, through the rounding of installments and discounts, and every
schedule row its transaction. `PayInv` says that of a bill nothing disturbed the bill
shows what was posted, which is at most what is owed; that a payment in progress read
just that and fits; and that it is the only one. Purchases, splits, generation and
payments of installments only add charges (`Grows`), so what is owed does not go down
between the reading of a payment and its commit (`OwedGrows`); an anticipation or a
deletion that lowers a total is recorded as disturbing the bill.

**CardCycle** rests on arithmetic of dates that holds for every month, day and
closing day: clamping is monotone within a month, the closing date of a month lies
in it, and shifting by months commutes with closing. The theorems about plans assume
that edits are of the first installment (`EditedParts \subseteq {1}`); without it
they are false, which is `finding_plan`.

**Mirrored** is inductive with the facts that make up `IndInv`, which the run
`ledger` checks: one request at most holds a row, and requests that must not
overlap know that they did (`OneHolder`); where a request is tells what it holds
(`RequestShape`) and what it has written, row by row (`RequestWrote`); what it has
read of rows that no fragile overlap touched is still so (`WriteReads`,
`FragileReads`); and `MirroredBy`, which is `Mirrored` without cardinalities. The
steps split in two kinds: one that commits nothing disturbs nobody else, and a commit
turns what its own request wrote into what everybody reads, for all the rows it holds.

**DeadlockOutOfOrder** follows from the same invariant, for circles of any length.
Suppose nobody in one is out of order. Then who waits for a row holds nothing that
others wait for. Who waits for entries waits for somebody who deleted them: a deletion
that has done so commits or is out of order, so it is another request, and that holds
their row. The one that waits does not, so it is a deletion, and by the same argument the
other one does not wait for entries but for the bill. Who holds the bill and
waits can only be an anticipation that waits for entries, which would be a deletion.
So nobody in the circle waits for the bill or for entries, all wait for
rows, and nobody holds one.

**WakeIsArmed** and **LoopLives** are inductive together with the types of the
loop's variables (`LoopInv`). There is one lemma per kind of step: a wake-up, which
must leave a timeout that is due whatever it replaces; a step of a pass; a pass that
awaits the engine or a probe; the clock; and everything else.

**Captures.** `Shape` says that whatever is somewhere was posted. `Apart`: a capture
is in one of the queue, the batch and the channel, and under review in none of
these. `Named`: what the journal, or a drain that read it, says of a capture is
so, and the entry about to be acknowledged waits nowhere. `Kept`: keys and texts are
kept only of captures in hand, made or lost, so that a capture dropped as a duplicate
has its key accounted for. `Adopted`: a native import stays in the journal until its
key is stored, which is what keeps the WebView from importing it again. `Once`: the
text of a create in hand is remembered or `late`, the key of a finished one is
being marked, stored or `broken`, and what `ImportedOnce` says of creates that are
finished holds of those in flight as well; `ImportedOnce` follows from it. `Shown`: the
list of the review page is stale only between an adoption and its report, while
approve-all has items left, and on a page that is gone. `Inv` is their conjunction with
`Accounted` and `DiscardApplied`.

**NativeSync** reuses the lemmas of `OfflineSync_proofs` for the steps it shares
with the client alone, and adds what the second pusher needs. `NativeInv` says
that results, in the journal or with a job, are of operations the job had in its
snapshot (`NativeTyped`); that what a reconciliation remembers of the queue still
has the keys of the queue (`NativeKeys`); that a success reported by anybody means
the row is on the server or nobody wants it (`Answered`), which is why a
reconciliation may drop a create; and that nothing else is in progress for an
import whose create the outbox still holds (`Adopted`). `Trail` is the part that
took longest to find: every operation that is queued, called, pushed or reported is
traced, and two of one row meet only when the second was queued before the first was
settled, which is what `mixed` records. A reconciliation that has read an operation
in order to count a failure has it in hand without it being queued, so `mixed`
counts those too (`InHand`); without that `NativeOnlySettledLeave` is false.

**Session.** `SessionInv` has three layers. `Shape`, `Held` and `Queue` always hold:
the storage has begun the first call only, each flow waits for one call at most,
and tokens are issued ones. While no write of the session met a flow in flight, what
was read, is cached, is on its way to the storage, or is there up to the key the
storage has come to belongs to the session asked for, and nobody reads before a
write (`StraightReads`, `StraightStore`, `StraightHands`). While the worker has not
rotated either, the cache is what the storage holds or will hold after the last write
(`Aligned`). While the worker met nobody else's tokens, what is held together is of
one person (`Whole`). The two dozen actions are first sorted into eleven kinds of
step, by what they do to queue, cache and reads (`Kinds`, `NextKinds`): a flow begins
to read, assigns, clears or sets, the storage takes a key, the worker moves, or
nothing of it changes; each layer is then proved over the kinds, and only what is
shown and what flows hold over the actions (`HandsStep`). The attempt to prove
`Whole` showed that `torn` had to record three encounters and not two: the tokens
of the worker with a late refresh of the user before, with a sign-in of another
user, and with tokens still queued for the storage when it reads.

Only model-checked: liveness and everything under fairness (`EveryOpSettles`,
`RequestsSettle`, `EventuallyPushed`, `NoticesServer`), which these provers do not
reach. `TypeOK` of `Session`, `Connectivity` and `Captures` documents the shape of the
state.

## 5. Not modelled

- The user interface, translations, API types, request wrappers and queries: most
  of the repository's lines, without state that outlives a render or a request.
- Parsing of notifications, receipts and statements, OCR and the tax portal:
  text and I/O. Accounts, categories, budgets, reconciliation, receipts, stores and
  products: single-request handlers over their own rows. The server frame, widgets,
  NFC and the plugin bridge.
- In `OfflineSync`: a lost request drops what the server had not run yet, which is
  what the server does when the connection closes and the handler is dropped. Behind a
  proxy, or over a link that is cut silently, its loop (`sync.rs:120`) may run the rest
  after the client gave up and perhaps over a newer edit; `Converged` does not cover that.
  The read and the write of `markDiscardedRowSynced` (`sync-engine.ts:401`) are one step.
- Fields of a row beyond the one value; conflicts are by row in the code as well.
- The 200-operation limit of the outbox and WorkManager's back-off.
- In `CardBills`: more than one plan or card, deleting a plan
  (`delete_installment_plan`), ignored errors when schedule rows are inserted,
  percentages as discount, ledger entries other than payments.
- In `CardCycle`: overlapping requests, partial payment of a bill. The arithmetic
  `card-cycle.ts` shares with `credit_cards.rs` is one definition here, so the two
  implementations are not compared: `OptionsAccepted` sets the list of the form against
  the checks of the server, on the same arithmetic.
- In `Ledger`: the accounts a pair is posted to. Two first postings of a category
  can both create its account outside the caller's transaction
  (`transaction_ledger.rs:84`). A migration is one request per row it listed. Of the
  bills only the current one of the card is a lock; those of other months, which a
  plan move writes in ascending order of the months it goes to, are not. The locks on
  `installment_transactions` are left out: with them a generation and a plan move can also
  wait for each other. Installments without a transaction, and the rows a split or a
  generation inserts, have fresh ids nobody waits for. The one `UPDATE` by which
  `delete_installment_plan` unlinks all rows of a plan is not a request.
- In `Captures`: the bounds of 200 queued and 50 pending captures and of the
  imported keys that are kept (`MAX_IMPORTED_DEDUP`), so that an import long ago is still
  known; prompts; the preferences themselves, whose read-modify-write from several
  threads is taken as atomic and durable. The Kotlin and the TypeScript parser are taken to
  give a notification the same key.
- In `Session`: more than one tab, and the lifetime of a token in seconds.

## 6. Plan

1. Budgets: an alert is raised once per period though two evaluations overlap.
2. `MirrorCovers` and `Converged` with the exceptions outside their theorems stated: a
   crash between clearing and filling the store, an online write that answers between a
   merge and the fill, the rows of which a retry pushes an old edit.
3. `delete_installment_plan` as the two statements it is, and posting accounts
   created outside the caller's transaction.
4. The native stores of `Captures` at the granularity of a preference read and a
   preference write.
