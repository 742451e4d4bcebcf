------------------------------ MODULE Captures ------------------------------
(* A bank notification on its way to the review inbox: posted to the live    *)
(* listener of the WebView, to the native queue or (in auto mode, with no    *)
(* WebView) to the native importer; drained, merged by its de-duplication    *)
(* key, prompted, discarded, approved one by one or all at once, with the    *)
(* page hidden, shown and killed in between.  Uploading what was imported is *)
(* NativeSync's; here a notification is watched and carries an amount.       *)
EXTENDS FiniteSets, Naturals

CONSTANTS Notes,   \* notifications; one is also the capture_id of its capture
          Keys,    \* dedupKeyOf: type, amount, normalised description and day
          Texts,   \* the same with the description as it was written
          MaxCalls,\* bound: subscribeLive calls awaiting the native side at once
          Budgets  \* bounds: how often the user and Android do what they may repeat

ASSUME BudgetsAssumption ==
  Budgets \subseteq [{"kill", "mode", "show", "refuse", "sweep"} -> Nat]

VARIABLES
  left,        \* what is left of the budget of this behaviour
  key, text,   \* dedupKeyOf each notification, and its key in recentImportsRef
  mode,        \* settings.mode: "ask" or "auto"
  posted,      \* notifications that Android delivered
  queue,       \* NotificationCaptureQueue
  journal,     \* PendingCaptureActions: per capture the latest event, or "none"
  page,        \* the WebView: "dead", "visible" or "hidden"
  listeners,   \* listeners registered with the plugin
  ref,         \* nativeUnsubscribeRef holds one of them
  calls,       \* subscribeLive calls that wait for their registration
  live, told,  \* notifications and discards forwarded to the WebView
  drain,       \* drainQueuedCaptures: [at, batch, acts, cur]
  inbox, view, \* the stored inbox, and pendingItems
  imported,    \* the stored keys of imported captures
  recent,      \* recentImportsRef
  autos,       \* createTransaction calls of auto mode in flight
  marking,     \* those that have stored their transaction
  approving,   \* createTransaction calls of approve in flight
  removing,    \* approved captures not yet taken out of the inbox
  sweep,       \* approveAll: [left, cur]
  made,        \* captures some transaction was created for
  autoMade,    \* those created by auto mode in the WebView
  nativeMade,  \* those created by the native importer
  gone,        \* captures the user discarded or skipped
  lost, broken,\* what a kill or a refused create took: captures, keys being marked
  late,        \* keys whose DEDUP_WINDOW_MS ended before a create of that text did
  crossed      \* keys imported again where no earlier import could be known

native == <<queue, journal>>
wire == <<page, listeners, ref, calls, live, told>>
autoVars == <<imported, recent, autos, marking, autoMade, lost, broken>>
overlap == <<nativeMade, late, crossed>>
taps == <<approving, removing, sweep>>
vars == <<left, key, text, mode, posted, native, wire, drain, inbox, view, autoVars, overlap, taps, made, gone>>

Spend(x) == left[x] > 0 /\ left' = [left EXCEPT ![x] = @ - 1]
KeysOf(S) == {key[n] : n \in S}
TextsOf(S) == {text[n] : n \in S}
Idle == [at |-> "idle", batch |-> {}, acts |-> {}, cur |-> {}]
Swept == [left |-> {}, cur |-> {}]

\* Every variable of the provider, the inbox and the native stores stays within its type.
TypeOK ==
  /\ left \in [{"kill", "mode", "show", "refuse", "sweep"} -> Nat]
  /\ key \in [Notes -> Keys] /\ text \in [Notes -> Texts] /\ mode \in {"ask", "auto"}
  /\ posted \subseteq Notes /\ queue \subseteq posted
  /\ journal \in [Notes -> {"none", "discard", "import"}]
  /\ page \in {"dead", "visible", "hidden"}
  /\ listeners \in Nat /\ ref \in BOOLEAN /\ calls \in 0..MaxCalls
  /\ live \subseteq posted /\ told \subseteq posted
  /\ drain.at \in {"idle", "read", "add", "peek", "apply", "adopt", "report", "ack"}
  /\ drain.batch \subseteq posted /\ drain.acts \subseteq Notes \X {"discard", "import"}
  /\ Cardinality(drain.cur) <= 1
  /\ inbox \subseteq posted /\ view \subseteq posted
  /\ imported \subseteq Keys /\ recent \subseteq Texts
  /\ UNION {autos, marking, approving, removing, sweep.left, sweep.cur} \subseteq posted
  /\ UNION {made, autoMade, nativeMade, gone, lost} \subseteq posted
  /\ UNION {broken, late, crossed} \subseteq Keys

Init ==
  /\ left \in Budgets
  /\ key \in [Notes -> Keys] /\ text \in [Notes -> Texts] /\ mode \in {"ask", "auto"}
  /\ \A m, n \in Notes : text[m] = text[n] => key[m] = key[n]
  /\ posted = {} /\ queue = {} /\ journal = [n \in Notes |-> "none"]
  /\ page = "dead" /\ listeners = 0 /\ ref = FALSE /\ calls = 0 /\ live = {} /\ told = {}
  /\ drain = Idle
  /\ inbox = {} /\ view = {} /\ imported = {} /\ recent = {}
  /\ autos = {} /\ marking = {} /\ approving = {} /\ removing = {} /\ sweep = Swept
  /\ made = {} /\ autoMade = {} /\ nativeMade = {} /\ gone = {}
  /\ lost = {} /\ broken = {} /\ late = {} /\ crossed = {}

-----------------------------------------------------------------------------
(* The native side *)

\* onNotificationPosted: the live listener, the importer (which compares no keys),
\* or the queue.
Post(n) ==
  /\ n \notin posted /\ posted' = posted \cup {n}
  /\ \/ /\ listeners > 0
        /\ live' = live \cup {n} /\ UNCHANGED <<queue, journal, made, overlap>>
     \/ /\ listeners = 0 /\ mode = "auto"
        /\ journal' = [journal EXCEPT ![n] = "import"]
        /\ made' = made \cup {n} /\ nativeMade' = nativeMade \cup {n}
        /\ crossed' = crossed \cup (KeysOf({n}) \cap KeysOf(autos \cup autoMade))
        /\ UNCHANGED <<live, queue, late>>
     \/ /\ listeners = 0 /\ mode = "ask"
        /\ queue' = queue \cup {n} /\ UNCHANGED <<live, journal, made, overlap>>
  /\ UNCHANGED <<left, key, text, mode, page, listeners, ref, calls, told, drain, inbox, view, autoVars, taps, gone>>

\* mutant: a discard that was forwarded is not journalled.
DiscardForwarded(n) ==
  /\ n \in queue \cup drain.batch \cup inbox
  /\ queue' = queue \ {n}
  /\ IF listeners > 0
       THEN told' = told \cup {n} /\ UNCHANGED journal
       ELSE journal' = [journal EXCEPT ![n] = "discard"] /\ UNCHANGED told
  /\ gone' = gone \cup {n}
  /\ UNCHANGED <<left, key, text, mode, posted, page, listeners, ref, calls, live, drain, inbox, view, autoVars, overlap, taps, made>>

\* CaptureActionReceiver.onReceive, the Discard button of a prompt.
Discard(n) ==
  /\ n \in queue \cup drain.batch \cup inbox
  /\ queue' = queue \ {n}
  /\ journal' = [journal EXCEPT ![n] = "discard"]
  /\ told' = IF listeners > 0 THEN told \cup {n} ELSE told
  /\ gone' = gone \cup {n}
  /\ UNCHANGED <<left, key, text, mode, posted, page, listeners, ref, calls, live, drain, inbox, view, autoVars, overlap, taps, made>>

-----------------------------------------------------------------------------
(* The inbox (capture.ts) and handleParsed *)

\* Any of S for each key that Known lacks: the first of S that has it is taken.
OnePerKey(S, Known) ==
  {R \in SUBSET S : KeysOf(R) = KeysOf(S) \ Known /\ \A m, n \in R : key[m] = key[n] => m = n}

\* What auto mode lets through: neither the stored key nor the text in memory is
\* known; of one text the first is taken.
OnePerText(S) ==
  {R \in SUBSET S :
     /\ TextsOf(R) = TextsOf({n \in S : key[n] \notin imported}) \ recent
     /\ KeysOf(R) \cap imported = {}
     /\ \A m, n \in R : text[m] = text[n] => m = n}

\* Keys of R of which another import has begun and left no trace in the store yet.
Unseen(R) ==
  {key[n] : n \in {r \in R : \E m \in (R \cup autos \cup marking \cup {i \in Notes : journal[i] = "import"}) \ {r} :
                               key[m] = key[r]}}

\* handleParsed for each notification of S, in one synchronous step.
Handle(S) ==
  \/ /\ mode = "ask"
     /\ \E R \in OnePerKey(S, KeysOf(inbox)) : inbox' = inbox \cup R /\ view' = inbox \cup R
     /\ UNCHANGED <<recent, autos, crossed>>
  \/ /\ mode = "auto"
     /\ \E R \in OnePerText(S) :
          /\ autos' = autos \cup R /\ recent' = recent \cup TextsOf(R)
          /\ crossed' = crossed \cup Unseen(R)
     /\ UNCHANGED <<inbox, view>>

\* The listener of subscribeLive; a hidden page is suspended.
HandleLive(n) ==
  /\ page = "visible" /\ n \in live
  /\ live' = live \ {n}
  /\ Handle({n})
  /\ UNCHANGED <<left, key, text, mode, posted, native, page, listeners, ref, calls, told, drain,
                 imported, marking, autoMade, lost, broken, nativeMade, late, taps, made, gone>>

\* applyCaptureAction for a discard that was forwarded.
ApplyLive(n) ==
  /\ page = "visible" /\ n \in told
  /\ told' = told \ {n}
  /\ inbox' = inbox \ {n} /\ view' = inbox'
  /\ UNCHANGED <<left, key, text, mode, posted, native, page, listeners, ref, calls, live, drain, autoVars, overlap, taps, made, gone>>

\* persistTransaction of auto mode: stored, or refused and forgotten; then the key is kept.
AutoStores(n) ==
  /\ n \in autos /\ autos' = autos \ {n}
  /\ \/ made' = made \cup {n} /\ autoMade' = autoMade \cup {n} /\ marking' = marking \cup {n} /\ UNCHANGED <<left, lost>>
     \/ Spend("refuse") /\ lost' = lost \cup {n} /\ UNCHANGED <<made, autoMade, marking>>
  /\ UNCHANGED <<key, text, mode, posted, native, wire, drain, inbox, view, imported, recent, broken, overlap, taps, gone>>

\* mutant: an import leaves no key behind.
AutoMarksNothing(n) ==
  /\ n \in marking /\ marking' = marking \ {n}
  /\ UNCHANGED <<left, key, text, mode, posted, native, wire, drain, inbox, view, imported, recent, autos, autoMade, lost, broken, overlap, taps, made, gone>>

AutoMarks(n) ==
  /\ n \in marking /\ marking' = marking \ {n}
  /\ imported' = imported \cup {key[n]}
  /\ UNCHANGED <<left, key, text, mode, posted, native, wire, drain, inbox, view, recent, autos, autoMade, lost, broken, overlap, taps, made, gone>>

\* DEDUP_WINDOW_MS is over, however long a create of that text takes.
RecentExpires(t) ==
  /\ t \in recent
  /\ recent' = recent \ {t}
  /\ late' = late \cup KeysOf({n \in autos \cup marking : text[n] = t})
  /\ UNCHANGED <<left, key, text, mode, posted, native, wire, drain, inbox, view, imported, autos, marking, autoMade, lost, broken, nativeMade, crossed, taps, made, gone>>

-----------------------------------------------------------------------------
(* drainQueuedCaptures: take the queue, handle it, then peek, apply and      *)
(* acknowledge the journal.                                                  *)

\* A call of drainQueuedCaptures returns at once while another is in flight.
Drained == IF drain = Idle THEN [Idle EXCEPT !.at = "read"] ELSE drain

DrainReads ==
  /\ drain.at = "read"
  /\ drain' = [drain EXCEPT !.at = "add", !.batch = queue]
  /\ queue' = {}
  /\ UNCHANGED <<left, key, text, mode, posted, journal, wire, inbox, view, autoVars, overlap, taps, made, gone>>

DrainAdds ==
  /\ drain.at = "add"
  /\ drain' = [drain EXCEPT !.at = "peek", !.batch = {}]
  /\ Handle(drain.batch)
  /\ UNCHANGED <<left, key, text, mode, posted, native, wire, imported, marking, autoMade, lost, broken, nativeMade, late, taps, made, gone>>

DrainPeeks ==
  /\ drain.at = "peek"
  /\ drain' = [drain EXCEPT !.at = "apply",
                            !.acts = {<<n, journal[n]>> : n \in {m \in Notes : journal[m] # "none"}}]
  /\ UNCHANGED <<left, key, text, mode, posted, native, wire, inbox, view, autoVars, overlap, taps, made, gone>>

\* applyCaptureAction: a discard at once, an import after its row is stored; an
\* import that throws is not acknowledged.
DrainApplies ==
  /\ drain.at = "apply"
  /\ \/ \E a \in drain.acts :
          /\ a[2] = "discard"
          /\ inbox' = inbox \ {a[1]} /\ view' = inbox'
          /\ drain' = [drain EXCEPT !.at = "ack", !.cur = {a}]
     \/ \E a \in drain.acts :
          /\ a[2] = "import"
          /\ drain' = [drain EXCEPT !.at = "adopt", !.cur = {a}]
          /\ UNCHANGED <<inbox, view>>
     \/ /\ drain.acts = {}
        /\ drain' = Idle /\ view' = inbox /\ UNCHANGED inbox
  /\ UNCHANGED <<left, key, text, mode, posted, native, wire, autoVars, overlap, taps, made, gone>>

\* adoptNativeImport once adoptNativeTransaction has answered.
DrainAdopts ==
  /\ drain.at = "adopt"
  /\ \/ \E a \in drain.cur :
          /\ imported' = imported \cup {key[a[1]]}
          /\ inbox' = {n \in inbox : key[n] # key[a[1]]}
          /\ drain' = [drain EXCEPT !.at = "report"]
          /\ UNCHANGED left
     \/ /\ Spend("refuse")
        /\ drain' = [drain EXCEPT !.at = "apply", !.acts = @ \ drain.cur, !.cur = {}]
        /\ UNCHANGED <<imported, inbox>>
  /\ UNCHANGED <<key, text, mode, posted, native, wire, view, recent, autos, marking, autoMade, lost, broken, overlap, taps, made, gone>>

\* reportNativeSyncIssues has answered.
DrainReports ==
  /\ drain.at = "report"
  /\ view' = inbox
  /\ drain' = [drain EXCEPT !.at = "ack"]
  /\ UNCHANGED <<left, key, text, mode, posted, native, wire, inbox, autoVars, overlap, taps, made, gone>>

\* ackCaptureActions: whatever the journal now holds of that capture goes.
DrainAcks ==
  /\ drain.at = "ack"
  /\ journal' = [n \in Notes |-> IF \E a \in drain.cur : a[1] = n THEN "none" ELSE journal[n]]
  /\ drain' = [drain EXCEPT !.at = "apply", !.acts = @ \ drain.cur, !.cur = {}]
  /\ UNCHANGED <<left, key, text, mode, posted, queue, wire, inbox, view, autoVars, overlap, taps, made, gone>>

-----------------------------------------------------------------------------
(* The page and its listeners *)

\* subscribeLive, then a drain: at once when nativeUnsubscribeRef is set.
Resumes ==
  IF ref THEN drain' = Drained /\ UNCHANGED calls
         ELSE calls < MaxCalls /\ calls' = calls + 1 /\ UNCHANGED drain

\* The mount effect, and the events visibilitychange and focus.
Opens ==
  /\ page = "dead" /\ page' = "visible"
  /\ calls' = 1 /\ view' = inbox
  /\ UNCHANGED <<left, key, text, mode, posted, native, listeners, ref, live, told, drain, inbox, autoVars, overlap, taps, made, gone>>

Returns ==
  /\ Spend("show")
  /\ page = "hidden" /\ page' = "visible"
  /\ Resumes
  /\ UNCHANGED <<key, text, mode, posted, native, listeners, ref, live, told, inbox, view, autoVars, overlap, taps, made, gone>>

Focus ==
  /\ Spend("show")
  /\ page = "visible"
  /\ Resumes
  /\ UNCHANGED <<key, text, mode, posted, native, page, listeners, ref, live, told, inbox, view, autoVars, overlap, taps, made, gone>>

\* mutant: the listener is taken away whether or not the ref holds one.
HidesAnyway ==
  /\ page = "visible" /\ page' = "hidden"
  /\ listeners' = listeners - 1
  /\ ref' = FALSE
  /\ UNCHANGED <<left, key, text, mode, posted, native, calls, live, told, drain, inbox, view, autoVars, overlap, taps, made, gone>>

\* unsubscribeLive: the listener of the ref goes.
Hides ==
  /\ page = "visible" /\ page' = "hidden"
  /\ listeners' = IF ref THEN listeners - 1 ELSE listeners
  /\ ref' = FALSE
  /\ UNCHANGED <<left, key, text, mode, posted, native, calls, live, told, drain, inbox, view, autoVars, overlap, taps, made, gone>>

\* The native side has registered the listener of a subscribeLive call.
Subscribed ==
  /\ calls > 0 /\ calls' = calls - 1
  /\ listeners' = listeners + 1 /\ ref' = TRUE
  /\ drain' = Drained
  /\ UNCHANGED <<left, key, text, mode, posted, native, page, live, told, inbox, view, autoVars, overlap, taps, made, gone>>

\* Android kills the process: what was only in memory is gone.
Kill ==
  /\ Spend("kill")
  /\ page # "dead" /\ page' = "dead"
  /\ listeners' = 0 /\ ref' = FALSE /\ calls' = 0 /\ live' = {} /\ told' = {}
  /\ drain' = Idle /\ view' = {} /\ recent' = {}
  /\ autos' = {} /\ marking' = {} /\ approving' = {} /\ removing' = {} /\ sweep' = Swept
  /\ lost' = lost \cup live \cup drain.batch \cup autos
  /\ broken' = broken \cup KeysOf(marking)
  /\ UNCHANGED <<key, text, mode, posted, native, inbox, imported, made, autoMade, overlap, gone>>

SetMode ==
  /\ Spend("mode")
  /\ page = "visible"
  /\ mode' \in {"ask", "auto"} \ {mode}
  /\ UNCHANGED <<key, text, posted, native, wire, drain, inbox, view, autoVars, overlap, taps, made, gone>>

-----------------------------------------------------------------------------
(* Review *)

\* approve: the item is looked up in pendingItems.
Approve(n) ==
  /\ n \in view
  /\ approving' = approving \cup {n}
  /\ UNCHANGED <<left, key, text, mode, posted, native, wire, drain, inbox, view, autoVars, overlap, removing, sweep, made, gone>>

\* mutant: the item leaves the inbox after a refusal too.
ApproveStoresAnyway(n) ==
  /\ n \in approving /\ approving' = approving \ {n}
  /\ removing' = removing \cup {n}
  /\ made' \in {made, made \cup {n}}
  /\ UNCHANGED <<left, key, text, mode, posted, native, wire, drain, inbox, view, autoVars, overlap, sweep, gone>>

\* createTransaction has answered: a refusal leaves the item where it is.
ApproveStores(n) ==
  /\ n \in approving /\ approving' = approving \ {n}
  /\ \/ made' = made \cup {n} /\ removing' = removing \cup {n} /\ UNCHANGED left
     \/ Spend("refuse") /\ UNCHANGED <<made, removing>>
  /\ UNCHANGED <<key, text, mode, posted, native, wire, drain, inbox, view, autoVars, overlap, sweep, gone>>

ApproveRemoves(n) ==
  /\ n \in removing /\ removing' = removing \ {n}
  /\ inbox' = inbox \ {n} /\ view' = inbox'
  /\ imported' = imported \cup {key[n]}
  /\ UNCHANGED <<left, key, text, mode, posted, native, wire, drain, recent, autos, marking, autoMade, lost, broken, overlap, approving, sweep, made, gone>>

\* approveAll: the stored items, one after the other.
ApproveAll ==
  /\ Spend("sweep")
  /\ view # {} /\ sweep = Swept
  /\ sweep' = [left |-> inbox, cur |-> {}]
  /\ UNCHANGED <<key, text, mode, posted, native, wire, drain, inbox, view, autoVars, overlap, approving, removing, made, gone>>

SweepStores(n) ==
  /\ n \in sweep.left /\ sweep.cur = {}
  /\ \/ made' = made \cup {n} /\ sweep' = [sweep EXCEPT !.cur = {n}] /\ UNCHANGED <<left, view>>
     \/ /\ Spend("refuse")
        /\ sweep' = [sweep EXCEPT !.left = @ \ {n}] /\ UNCHANGED made
        /\ view' = IF sweep.left = {n} THEN inbox ELSE view
  /\ UNCHANGED <<key, text, mode, posted, native, wire, drain, inbox, autoVars, overlap, approving, removing, gone>>

\* mutant: the list is not refreshed at the end.
SweepRemovesQuietly ==
  /\ sweep.cur # {}
  /\ inbox' = inbox \ sweep.cur
  /\ imported' = imported \cup KeysOf(sweep.cur)
  /\ sweep' = [left |-> sweep.left \ sweep.cur, cur |-> {}]
  /\ UNCHANGED <<left, key, text, mode, posted, native, wire, drain, view, recent, autos, marking, autoMade, lost, broken, overlap, approving, removing, made, gone>>

SweepRemoves ==
  /\ sweep.cur # {}
  /\ inbox' = inbox \ sweep.cur
  /\ imported' = imported \cup KeysOf(sweep.cur)
  /\ sweep' = [left |-> sweep.left \ sweep.cur, cur |-> {}]
  /\ view' = IF sweep'.left = {} THEN inbox' ELSE view
  /\ UNCHANGED <<left, key, text, mode, posted, native, wire, drain, recent, autos, marking, autoMade, lost, broken, overlap, approving, removing, made, gone>>

Skip(n) ==
  /\ n \in view
  /\ inbox' = inbox \ {n} /\ view' = inbox'
  /\ gone' = gone \cup {n}
  /\ UNCHANGED <<left, key, text, mode, posted, native, wire, drain, autoVars, overlap, taps, made>>

-----------------------------------------------------------------------------

Draining == DrainReads \/ DrainAdds \/ DrainPeeks \/ DrainApplies \/ DrainAdopts \/ DrainReports \/ DrainAcks

Arrives(n) == HandleLive(n) \/ ApplyLive(n) \/ AutoStores(n) \/ AutoMarks(n)
Reviewed(n) == Approve(n) \/ ApproveStores(n) \/ ApproveRemoves(n) \/ SweepStores(n) \/ Skip(n)

Next ==
  \/ \E n \in Notes : Post(n) \/ Discard(n) \/ Arrives(n) \/ Reviewed(n)
  \/ \E t \in Texts : RecentExpires(t)
  \/ Draining \/ Opens \/ Returns \/ Focus \/ Hides \/ Subscribed \/ Kill
  \/ SetMode \/ ApproveAll \/ SweepRemoves

Spec == Init /\ [][Next]_vars

\* The native side answers its calls, and JavaScript runs what it has begun.
FairSpec ==
  /\ Spec /\ WF_vars(Draining) /\ WF_vars(Subscribed)
  /\ \A n \in Notes : WF_vars(Arrives(n))

-----------------------------------------------------------------------------
(* Properties *)

Same(S, n) == \E m \in S : key[m] = key[n]

\* No capture disappears: a notification that was delivered is queued, on its way,
\* under review (perhaps merged with one of the same key), imported, or the user
\* let it go; only a kill while it is handed over, or a refused auto import, takes
\* it (NotificationCaptureProvider drainQueuedCaptures, handleParsed, approve).
Accounted ==
  \A n \in posted :
    \/ n \in queue \cup drain.batch \cup live
    \/ Same(UNION {inbox, autos, made, gone, lost}, n)

\* A discard sticks: once its journal entry is acknowledged the capture is neither
\* queued nor under review, whatever was being drained when the user tapped.
DiscardApplied ==
  \A n \in gone : journal[n] # "discard" => n \notin UNION {queue, drain.batch, inbox}

\* Auto mode in the WebView imports a purchase once, and not again when the native
\* importer did: of two notifications written alike, two are created only if the
\* 30 s window ended or the process died before the first was marked as imported; of
\* two that differ in case or accents, or one of which the native importer took, only
\* if they overlap: the second began before the first was marked or adopted, or the
\* native importer, which compares no keys, came second (NotificationCaptureProvider
\* handleParsed, adoptNativeImport; NativeCaptureImporter.importAuto).
ImportedOnce ==
  \A n \in autoMade :
    /\ \A m \in autoMade \ {n} :
         key[m] = key[n] => key[n] \in broken \cup late \/ (text[m] # text[n] /\ key[n] \in crossed)
    /\ \A m \in nativeMade : key[m] = key[n] => key[n] \in crossed

\* With nothing in flight, the review page shows what is stored.
ViewIsInbox == page = "visible" /\ drain = Idle /\ sweep = Swept => view = inbox

\* NotificationCaptureProvider.tsx:454 "A registered Tauri listener remains alive
\* while Android backgrounds the Activity. Unregister so the native service
\* persists captures for the next foreground drain instead of sending into a
\* suspended WebView."
HiddenIsUnregistered == page = "hidden" /\ calls = 0 => listeners = 0

\* NotificationCaptureQueue.kt:11 "the WebView drains the queue on launch or when
\* it returns to the foreground."
ForegroundDrains == \A n \in Notes : n \in queue /\ page = "visible" ~> n \notin queue \/ page # "visible"

=============================================================================
