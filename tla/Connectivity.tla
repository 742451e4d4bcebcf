---------------------------- MODULE Connectivity ----------------------------
(* When the client talks to the server: the circuit breaker and the cached   *)
(* probe of net.ts, the loop of sync-scheduler.ts that starts sync passes,   *)
(* a writer that sends or queues, and the banner that shows the result.  A   *)
(* pass of the engine is one push here (OfflineSync models what it does).    *)
(* Time is counted in ticks; a timer may fire late, never early.             *)
EXTENDS Naturals, FiniteSets

CONSTANTS SERVER_UNAVAILABLE, \* ticks the breaker stays open
          ONLINE_CACHE,       \* ticks a successful probe is trusted
          ACTIVE_DELAY,       \* ticks to the next pass with operations queued
          IDLE_DELAY,         \* ticks to the next pass without
          MaxChains,          \* bound: timeouts and passes of the scheduler at once
          MaxPending          \* bound: operations queued at once

ASSUME ConnectivityAssumption ==
  /\ {SERVER_UNAVAILABLE, ONLINE_CACHE, ACTIVE_DELAY, IDLE_DELAY} \subseteq Nat \ {0}
  /\ {MaxChains, MaxPending} \subseteq Nat \ {0}

Chains == 1..MaxChains

VARIABLES
  up, link,    \* environment: the server answers; navigator.onLine
  breaker,     \* ticks until serverUnavailableUntil, 0 when it is past
  fresh,       \* ticks the last good probe is still trusted, 0 when it is not
  probe,       \* probeInFlight: "idle" or "sent"
  known,       \* lastKnownOnline: "null", "online" or "offline"
  banner,      \* where OfflineBanner is: "none", "asks", "shown" or "syncs"
  shown,       \* the state it shows
  running, wakeRequested,
  timer,       \* the timeout the variable timer names, 0 for null
  chain,       \* where each timeout or pass of the loop is
  wait,        \* ticks left of a timeout
  sync,        \* syncInFlight, and the result it is about to deliver
  taken,       \* operations the pass in flight pushes
  pending,     \* operations that can be pushed
  write        \* a write of the user: "idle", "probe" or "request"

env == <<up, link>>
net == <<breaker, fresh, probe, known>>
view == <<banner, shown>>
loop == <<running, wakeRequested, timer, wait>>
engine == <<sync, taken>>
vars == <<env, net, view, loop, chain, engine, pending, write>>

Reachable == up /\ link
State(ok) == IF ok THEN "online" ELSE "offline"

\* Every variable of net.ts, the scheduler and the banner stays within its type.
TypeOK ==
  /\ up \in BOOLEAN /\ link \in BOOLEAN
  /\ breaker \in 0..SERVER_UNAVAILABLE /\ fresh \in 0..ONLINE_CACHE
  /\ probe \in {"idle", "sent"} /\ known \in {"null", "online", "offline"}
  /\ banner \in {"none", "asks", "shown", "syncs"} /\ shown \in {"online", "offline"}
  /\ running \in BOOLEAN /\ wakeRequested \in BOOLEAN
  /\ timer \in Chains \cup {0}
  /\ chain \in [Chains -> {"none", "timer", "count", "sync", "probe", "recount"}]
  /\ wait \in [Chains -> Nat]
  /\ sync \in {"idle", "begin", "probe", "push", "offline", "pushed", "failed"}
  /\ taken \in Nat /\ pending \in Nat
  /\ write \in {"idle", "probe", "request"}

Init ==
  /\ up \in BOOLEAN /\ link \in BOOLEAN
  /\ breaker = 0 /\ fresh = 0 /\ probe = "idle" /\ known = "null"
  /\ banner = "none" /\ shown = "offline"
  /\ running = FALSE /\ wakeRequested = FALSE /\ timer = 0
  /\ chain = [c \in Chains |-> "none"]
  /\ wait = [c \in Chains |-> 0]
  /\ sync = "idle" /\ taken = 0 /\ write = "idle"
  /\ pending \in 0..MaxPending

-----------------------------------------------------------------------------
(* net.ts *)

\* emitConnectivity: listeners hear of changes only.
Emits(s) ==
  /\ known' = s
  /\ shown' = IF known # s /\ banner # "none" THEN s ELSE shown

\* markServerUnavailable, and clearServerProbeCache.
Breaks == breaker' = SERVER_UNAVAILABLE /\ fresh' = 0
Clears == breaker' = 0 /\ fresh' = 0

\* What a pass of the loop does when the call it awaits has settled: its finally.
Finally(at) ==
  [c \in Chains |-> IF chain[c] = at THEN IF running THEN "recount" ELSE "none" ELSE chain[c]]

\* isOnline up to its first await: the breaker, the cache, the link, a probe.
IsOnline(no, yes, asks) ==
  \/ breaker > 0 /\ no /\ UNCHANGED <<probe, known, shown>>
  \/ breaker = 0 /\ fresh > 0 /\ yes /\ UNCHANGED <<probe, known, shown>>
  \/ breaker = 0 /\ fresh = 0 /\ ~link /\ no /\ Emits("offline") /\ UNCHANGED probe
  \/ breaker = 0 /\ fresh = 0 /\ link /\ asks /\ probe' = "sent" /\ UNCHANGED <<known, shown>>

\* /health answers, refuses or takes longer than PROBE_TIMEOUT_MS; then those who
\* wait go on: the idle pass of the loop, the engine, the writer and a new banner.
ProbeAnswers ==
  /\ probe = "sent"
  /\ probe' = "idle"
  /\ known' = State(Reachable)
  /\ IF Reachable THEN fresh' = ONLINE_CACHE /\ UNCHANGED breaker ELSE Breaks
  /\ shown' = IF banner = "asks" \/ (banner # "none" /\ known # known') THEN known' ELSE shown
  /\ banner' = IF banner = "asks" THEN "shown" ELSE banner
  /\ sync' = IF sync = "probe" THEN IF Reachable THEN "push" ELSE "offline" ELSE sync
  /\ taken' = IF sync = "probe" /\ Reachable THEN pending ELSE taken
  /\ chain' = Finally("probe")
  /\ write' = IF write = "probe" THEN IF Reachable THEN "request" ELSE "idle" ELSE write
  /\ pending' = IF write = "probe" /\ ~Reachable THEN pending + 1 ELSE pending
  /\ UNCHANGED <<env, loop>>

-----------------------------------------------------------------------------
(* The engine: one pass at a time, shared by all who ask for one. *)

\* performSyncWithLock.
Joined == IF sync = "idle" THEN "begin" ELSE sync

\* performSync asks whether the server can be reached.
SyncBegins ==
  /\ sync = "begin"
  /\ IsOnline(sync' = "offline" /\ UNCHANGED taken,
              sync' = "push" /\ taken' = pending,
              sync' = "probe" /\ UNCHANGED taken)
  /\ UNCHANGED <<env, breaker, fresh, banner, loop, chain, pending, write>>

\* The push: what was queued when it began is acknowledged, or nothing is.
SyncPushes ==
  /\ sync = "push"
  /\ IF Reachable
       THEN sync' = "pushed" /\ pending' = pending - taken
       ELSE sync' = "failed" /\ UNCHANGED pending
  /\ taken' = 0
  /\ UNCHANGED <<env, net, view, loop, chain, write>>

\* The outcome reaches the passes of the loop and the banner's handleSync.
SyncSettles ==
  /\ sync \in {"offline", "pushed", "failed"}
  /\ sync' = "idle"
  /\ chain' = Finally("sync")
  /\ banner' = IF banner = "syncs" THEN "shown" ELSE banner
  /\ shown' = IF banner = "syncs" THEN State(sync # "offline") ELSE shown
  /\ UNCHANGED <<env, net, loop, taken, pending, write>>

-----------------------------------------------------------------------------
(* sync-scheduler.ts *)

\* clearTimeout(timer).
Cleared == [c \in Chains |-> IF c = timer /\ chain[c] = "timer" THEN "none" ELSE chain[c]]

FirstFree(c, f) == f[c] = "none" /\ \A d \in 1..(c - 1) : f[d] # "none"

\* mutant: the request for a wake-up is not cleared.
FireKeepsRequest(c) ==
  /\ chain[c] = "timer" /\ wait[c] = 0
  /\ chain' = [chain EXCEPT ![c] = IF running THEN "count" ELSE "none"]
  /\ UNCHANGED <<env, net, view, loop, engine, pending, write>>

\* pass up to its first await, and the rest of it.
Fire(c) ==
  /\ chain[c] = "timer" /\ wait[c] = 0
  /\ chain' = [chain EXCEPT ![c] = IF running THEN "count" ELSE "none"]
  /\ wakeRequested' = (wakeRequested /\ ~running)
  /\ UNCHANGED <<env, net, view, running, timer, wait, engine, pending, write>>

\* mutant: a pass that finds the breaker open returns before its finally.
CountGivesUp(c) ==
  /\ chain[c] = "count" /\ breaker > 0
  /\ chain' = [chain EXCEPT ![c] = "none"]
  /\ UNCHANGED <<env, net, view, loop, engine, pending, write>>

\* mutant: a pass with nothing to push does not probe.
CountSkipsProbe(c) ==
  /\ chain[c] = "count"
  /\ \/ /\ breaker = 0 /\ pending > 0
        /\ sync' = Joined /\ chain' = [chain EXCEPT ![c] = "sync"]
     \/ /\ breaker > 0 \/ pending = 0
        /\ chain' = [chain EXCEPT ![c] = IF running THEN "recount" ELSE "none"]
        /\ UNCHANGED sync
  /\ UNCHANGED <<env, net, view, loop, taken, pending, write>>

\* mutant: the count of what is left is not used, the next pass waits for a wake-up.
RecountsIdle(c) ==
  /\ chain[c] = "recount"
  /\ chain' = [chain EXCEPT ![c] = IF pending > 0 THEN "timer" ELSE "none"]
  /\ wait' = [wait EXCEPT ![c] = IF pending > 0 THEN ACTIVE_DELAY ELSE 0]
  /\ timer' = c
  /\ UNCHANGED <<env, net, view, running, wakeRequested, engine, pending, write>>

Count(c) ==
  /\ chain[c] = "count"
  /\ \/ /\ breaker = 0 /\ pending > 0
        /\ sync' = Joined /\ chain' = [chain EXCEPT ![c] = "sync"]
        /\ UNCHANGED net
     \/ /\ breaker = 0 /\ pending = 0
        /\ Clears /\ probe' = "sent" /\ chain' = [chain EXCEPT ![c] = "probe"]
        /\ UNCHANGED <<known, sync>>
     \/ /\ breaker > 0
        /\ chain' = [chain EXCEPT ![c] = IF running THEN "recount" ELSE "none"]
        /\ UNCHANGED <<net, sync>>
  /\ UNCHANGED <<env, view, loop, taken, pending, write>>

Recount(c) ==
  /\ chain[c] = "recount"
  /\ chain' = [chain EXCEPT ![c] = "timer"]
  /\ wait' = [wait EXCEPT ![c] = IF pending > 0 THEN ACTIVE_DELAY ELSE IDLE_DELAY]
  /\ timer' = c
  /\ UNCHANGED <<env, net, view, running, wakeRequested, engine, pending, write>>

\* wake: a timeout of zero replaces the one the variable timer names.
Wakes ==
  \E c \in Chains :
    /\ FirstFree(c, Cleared)
    /\ wakeRequested' = TRUE /\ timer' = c
    /\ chain' = [Cleared EXCEPT ![c] = "timer"]
    /\ wait' = [d \in Chains |-> IF d \in {c, timer} THEN 0 ELSE wait[d]]
    /\ UNCHANGED running

Wake ==
  /\ running /\ ~wakeRequested
  /\ Wakes
  /\ UNCHANGED <<env, net, view, engine, pending, write>>

Start ==
  /\ ~running
  /\ running' = TRUE /\ wakeRequested' = FALSE
  /\ \E c \in Chains : FirstFree(c, chain) /\ chain' = [chain EXCEPT ![c] = "count"]
  /\ UNCHANGED <<env, net, view, timer, wait, engine, pending, write>>

Stop ==
  /\ running
  /\ running' = FALSE /\ wakeRequested' = FALSE /\ timer' = 0
  /\ chain' = Cleared
  /\ wait' = [c \in Chains |-> IF c = timer THEN 0 ELSE wait[c]]
  /\ UNCHANGED <<env, net, view, engine, pending, write>>

-----------------------------------------------------------------------------
(* The banner and the writer. *)

Mount ==
  /\ banner = "none"
  /\ \/ /\ known # "null"
        /\ banner' = "shown" /\ shown' = known
        /\ UNCHANGED <<probe, known>>
     \/ /\ known = "null"
        /\ IsOnline(banner' = "shown", banner' = "shown", banner' = "asks")
  /\ UNCHANGED <<env, breaker, fresh, loop, chain, engine, pending, write>>

\* handleSync, by syncAll or retryFailedOperations.
SyncTap ==
  /\ banner = "shown"
  /\ banner' = "syncs" /\ sync' = Joined
  /\ UNCHANGED <<env, net, shown, loop, chain, taken, pending, write>>

\* A mutator of api.ts: queue, or send.
Write ==
  /\ write = "idle" /\ pending < MaxPending
  /\ IsOnline(pending' = pending + 1 /\ UNCHANGED write,
              write' = "request" /\ UNCHANGED pending,
              write' = "probe" /\ UNCHANGED pending)
  /\ UNCHANGED <<env, breaker, fresh, banner, loop, chain, engine>>

\* Its request is answered, or opens the breaker and is queued instead.
WriteSent ==
  /\ write = "request"
  /\ write' = "idle"
  /\ IF Reachable
       THEN UNCHANGED <<breaker, fresh, pending>>
       ELSE Breaks /\ pending' = pending + 1
  /\ UNCHANGED <<env, probe, known, view, loop, chain, engine>>

-----------------------------------------------------------------------------
(* The environment. *)

ServerChanges ==
  /\ up' = ~up
  /\ UNCHANGED <<link, net, view, loop, chain, engine, pending, write>>

\* The events "online" and "offline" of the window; the banner installs the
\* listeners of net.ts, the loop its own.
LinkReturns ==
  /\ ~link /\ link' = TRUE
  /\ IF banner = "none" THEN UNCHANGED <<breaker, fresh, probe>> ELSE Clears /\ probe' = "sent"
  /\ IF running /\ ~wakeRequested THEN Wakes ELSE UNCHANGED <<loop, chain>>
  /\ UNCHANGED <<up, known, view, engine, pending, write>>

LinkDrops ==
  /\ link /\ link' = FALSE
  /\ IF banner = "none" THEN UNCHANGED <<known, shown>> ELSE Emits("offline")
  /\ UNCHANGED <<up, breaker, fresh, probe, banner, loop, chain, engine, pending, write>>

\* mutant: what is past counts on.
LessWithoutEnd(n) == n - 1

Less(n) == IF n = 0 THEN 0 ELSE n - 1

Tick ==
  /\ breaker + fresh > 0 \/ \E c \in Chains : wait[c] > 0
  /\ breaker' = Less(breaker) /\ fresh' = Less(fresh)
  /\ wait' = [c \in Chains |-> Less(wait[c])]
  /\ UNCHANGED <<env, probe, known, view, running, wakeRequested, timer, chain, engine, pending, write>>

Steps(c) == Fire(c) \/ Count(c) \/ Recount(c)
Answers == ProbeAnswers \/ SyncBegins \/ SyncPushes \/ SyncSettles \/ WriteSent
Environment == ServerChanges \/ LinkReturns \/ LinkDrops \/ Wake \/ Start \/ Stop \/ Mount \/ SyncTap \/ Write

Next == Answers \/ Environment \/ Tick \/ \E c \in Chains : Steps(c)

Spec == Init /\ [][Next]_vars

\* Time passes, timeouts fire, and every probe, pass and request is settled: the
\* probe has its timeout, the requests the timeout of the platform.
Fairness ==
  /\ WF_vars(Tick)
  /\ WF_vars(ProbeAnswers) /\ WF_vars(SyncBegins) /\ WF_vars(SyncPushes)
  /\ WF_vars(SyncSettles) /\ WF_vars(WriteSent)
  /\ \A c \in Chains : WF_vars(Steps(c))

FairSpec == Spec /\ Fairness

-----------------------------------------------------------------------------
(* Properties *)

\* No wake-up is lost: while one is requested the loop runs, and a timeout that
\* will clear the request is armed and due (sync-scheduler.ts wake, pass).
WakeIsArmed == wakeRequested => running /\ \E c \in Chains : chain[c] = "timer" /\ wait[c] = 0

\* A running loop never dies: some timeout or pass of it is always alive, so a
\* stop, a start and a wake in any order cannot leave it without one.
LoopLives == running => \E c \in Chains : chain[c] # "none"

Steady == Reachable /\ running

\* Once the server stays reachable and the loop keeps running, every queued
\* operation is pushed, whatever the breaker, the cache and the banner did before.
EventuallyPushed == <>[]Steady => []<>(pending = 0)

\* Reachability is noticed without a push, by the probes of the idle loop; and so
\* is the loss of the server.
NoticesServer ==
  /\ <>[]Steady => <>[](known = "online")
  /\ <>[](running /\ ~Reachable) => <>[](known = "offline")

\* net.ts:39 "Subscribes to API reachability changes and immediately reports the
\* current state."  Once the server stays reachable, the banner says so.
BannerIsCurrent == <>[](Steady /\ banner = "shown") => <>[](shown = "online")

=============================================================================
