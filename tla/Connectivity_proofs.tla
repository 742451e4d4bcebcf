------------------------ MODULE Connectivity_proofs ------------------------
(* The loop of sync-scheduler.ts survives and no wake-up is lost, for every  *)
(* delay and any number of timeouts alive at once: stops, starts, wake-ups   *)
(* and the end of a pass may come in any order.                              *)
EXTENDS Connectivity, TLAPS

\* What the loop's own variables hold; the delays count in naturals.
LoopType ==
  /\ running \in BOOLEAN /\ wakeRequested \in BOOLEAN
  /\ chain \in [Chains -> {"none", "timer", "count", "sync", "probe", "recount"}]
  /\ wait \in [Chains -> Nat]
  /\ timer \in Chains \cup {0}

\* A wake-up that is asked for belongs to a running loop whose timeout is due.
LoopInv == LoopType /\ WakeIsArmed /\ LoopLives

\* A step of the environment, the probe or the engine that leaves every chain
\* where it is, or takes it from where it awaits to its finally, disturbs nothing.
LEMMA Awaiting ==
  ASSUME LoopInv, NEW at \in {"probe", "sync"},
         chain' = Finally(at), UNCHANGED <<running, wakeRequested, timer, wait>>
  PROVE  LoopInv'
<1>1. LoopType'
  BY DEF LoopInv, LoopType, Finally
<1>2. ASSUME NEW c \in Chains, chain[c] # "none", running
      PROVE  chain'[c] # "none"
  BY <1>2 DEF LoopInv, LoopType, Finally
<1>3. ASSUME NEW c \in Chains, chain[c] = "timer"
      PROVE  chain'[c] = "timer"
  BY <1>3 DEF LoopInv, LoopType, Finally
<1>4. WakeIsArmed'
  BY <1>3 DEF LoopInv, WakeIsArmed
<1>5. LoopLives'
  BY <1>2 DEF LoopInv, LoopLives
<1> QED
  BY <1>1, <1>4, <1>5 DEF LoopInv

\* A wake-up arms a timeout that is due, whatever it replaces.
LEMMA Waking ==
  ASSUME LoopInv, Wakes, running
  PROVE  LoopInv'
<1>1. PICK c \in Chains :
        /\ wakeRequested' = TRUE /\ timer' = c
        /\ chain' = [Cleared EXCEPT ![c] = "timer"]
        /\ wait' = [d \in Chains |-> IF d \in {c, timer} THEN 0 ELSE wait[d]]
        /\ running' = running
  BY DEF Wakes
<1>2. LoopType'
  BY <1>1 DEF LoopInv, LoopType, Cleared
<1>3. chain'[c] = "timer" /\ wait'[c] = 0 /\ running'
  BY <1>1 DEF LoopInv, LoopType, Cleared
<1> QED
  BY <1>2, <1>3 DEF LoopInv, WakeIsArmed, LoopLives

\* A timeout fires, and the pass it starts moves on: only the chain itself moves,
\* and not to its end while the loop runs.
LEMMA Passing ==
  ASSUME LoopInv, NEW c \in Chains, Steps(c)
  PROVE  LoopInv'
<1>1. CASE Fire(c)
  <2>1. LoopType'
    BY <1>1 DEF LoopInv, LoopType, Fire
  <2>2. WakeIsArmed'
    BY <1>1 DEF LoopInv, LoopType, WakeIsArmed, Fire
  <2>3. LoopLives'
    BY <1>1 DEF LoopInv, LoopType, LoopLives, Fire
  <2> QED
    BY <2>1, <2>2, <2>3 DEF LoopInv
<1>2. CASE Count(c)
  <2>1. PICK at \in {"sync", "probe", "recount", "none"} :
          /\ chain[c] = "count"
          /\ chain' = [chain EXCEPT ![c] = at]
          /\ running => at # "none"
          /\ UNCHANGED <<running, wakeRequested, timer, wait>>
    BY <1>2 DEF Count, loop
  <2>2. LoopType'
    BY <2>1 DEF LoopInv, LoopType
  <2>3. ASSUME NEW d \in Chains, chain[d] = "timer"
        PROVE  chain'[d] = "timer" /\ wait'[d] = wait[d]
    BY <2>1, <2>3 DEF LoopInv, LoopType
  <2>4. WakeIsArmed'
    BY <2>1, <2>3 DEF LoopInv, WakeIsArmed
  <2>5. running' => chain'[c] # "none"
    BY <2>1 DEF LoopInv, LoopType
  <2>6. LoopLives'
    BY <2>5 DEF LoopLives
  <2> QED
    BY <2>2, <2>4, <2>6 DEF LoopInv
<1>3. CASE Recount(c)
  <2>1. LoopType'
    BY <1>3, ConnectivityAssumption DEF LoopInv, LoopType, Recount
  <2>2. ASSUME NEW d \in Chains, chain[d] = "timer", wait[d] = 0
        PROVE  chain'[d] = "timer" /\ wait'[d] = 0
    BY <1>3, <2>2 DEF LoopInv, LoopType, Recount
  <2>3. WakeIsArmed'
    BY <1>3, <2>2 DEF LoopInv, WakeIsArmed, Recount
  <2>4. chain'[c] # "none"
    BY <1>3 DEF LoopInv, LoopType, Recount
  <2>5. LoopLives'
    BY <2>4 DEF LoopLives
  <2> QED
    BY <2>1, <2>3, <2>5 DEF LoopInv
<1> QED
  BY <1>1, <1>2, <1>3 DEF Steps

\* Nothing of the loop moves.
LEMMA Elsewhere ==
  ASSUME LoopInv, UNCHANGED <<loop, chain>>
  PROVE  LoopInv'
BY DEF LoopInv, LoopType, WakeIsArmed, LoopLives, loop

\* The clock only brings a timeout nearer.
LEMMA Ticking ==
  ASSUME LoopInv, Tick
  PROVE  LoopInv'
<1>1. /\ wait' = [c \in Chains |-> Less(wait[c])]
      /\ UNCHANGED <<running, wakeRequested, timer, chain>>
  BY DEF Tick
<1>2. LoopType'
  BY <1>1 DEF LoopInv, LoopType, Less
<1>3. ASSUME NEW c \in Chains, wait[c] = 0
      PROVE  wait'[c] = 0
  BY <1>1, <1>3 DEF Less
<1>4. WakeIsArmed'
  BY <1>1, <1>3 DEF LoopInv, WakeIsArmed
<1>5. LoopLives'
  BY <1>1 DEF LoopInv, LoopLives
<1> QED
  BY <1>2, <1>4, <1>5 DEF LoopInv

\* The loop is started and stopped.
LEMMA StartStop ==
  ASSUME LoopInv, Start \/ Stop
  PROVE  LoopInv'
<1>1. CASE Start
  <2>1. PICK c \in Chains : chain' = [chain EXCEPT ![c] = "count"]
    BY <1>1 DEF Start
  <2>2. running' = TRUE /\ wakeRequested' = FALSE /\ UNCHANGED <<timer, wait>>
    BY <1>1 DEF Start
  <2>3. LoopType'
    BY <2>1, <2>2 DEF LoopInv, LoopType
  <2>4. chain'[c] # "none"
    BY <2>1 DEF LoopInv, LoopType
  <2> QED
    BY <2>2, <2>3, <2>4 DEF LoopInv, WakeIsArmed, LoopLives
<1>2. CASE Stop
  <2>1. running' = FALSE /\ wakeRequested' = FALSE /\ timer' = 0
    BY <1>2 DEF Stop
  <2>2. chain' = Cleared /\ wait' = [c \in Chains |-> IF c = timer THEN 0 ELSE wait[c]]
    BY <1>2 DEF Stop
  <2>3. LoopType'
    BY <2>1, <2>2 DEF LoopInv, LoopType, Cleared
  <2> QED
    BY <2>1, <2>3 DEF LoopInv, WakeIsArmed, LoopLives
<1> QED
  BY <1>1, <1>2

\* The link comes back: a wake-up, or nothing of the loop.
LEMMA Returning ==
  ASSUME LoopInv, LinkReturns
  PROVE  LoopInv'
<1>1. CASE running /\ ~wakeRequested
  BY <1>1, Waking DEF LinkReturns
<1>2. CASE ~(running /\ ~wakeRequested)
  BY <1>2, Elsewhere DEF LinkReturns
<1> QED
  BY <1>1, <1>2

LEMMA Inductive ==
  ASSUME LoopInv, [Next]_vars
  PROVE  LoopInv'
<1>1. CASE ProbeAnswers
  <2>1. chain' = Finally("probe") /\ UNCHANGED <<running, wakeRequested, timer, wait>>
    BY <1>1 DEF ProbeAnswers, loop
  <2> QED
    BY <2>1, Awaiting
<1>2. CASE SyncSettles
  <2>1. chain' = Finally("sync") /\ UNCHANGED <<running, wakeRequested, timer, wait>>
    BY <1>2 DEF SyncSettles, loop
  <2> QED
    BY <2>1, Awaiting
<1>3. CASE SyncBegins \/ SyncPushes \/ WriteSent
  BY <1>3, Elsewhere DEF SyncBegins, SyncPushes, WriteSent
<1>4. CASE ServerChanges \/ LinkDrops \/ Mount \/ SyncTap \/ Write
  BY <1>4, Elsewhere DEF ServerChanges, LinkDrops, Mount, SyncTap, Write
<1>5. CASE LinkReturns
  BY <1>5, Returning
<1>6. CASE Wake
  BY <1>6, Waking DEF Wake
<1>7. CASE Start \/ Stop
  BY <1>7, StartStop
<1>8. CASE Tick
  BY <1>8, Ticking
<1>9. CASE \E c \in Chains : Steps(c)
  BY <1>9, Passing
<1>10. CASE UNCHANGED vars
  BY <1>10, Elsewhere DEF vars
<1> QED
  BY <1>1, <1>2, <1>3, <1>4, <1>5, <1>6, <1>7, <1>8, <1>9, <1>10 DEF Next, Answers, Environment

LEMMA LoopInvHolds == Spec => []LoopInv
<1>1. Init => LoopInv
  <2>1. Init => LoopType
    <3>1. Init => running \in BOOLEAN /\ wakeRequested \in BOOLEAN
      BY Zenon DEF Init
    <3>2. Init => /\ chain \in [Chains -> {"none", "timer", "count", "sync", "probe", "recount"}]
                  /\ timer \in Chains \cup {0}
      BY DEF Init
    <3>3. Init => wait \in [Chains -> Nat]
      BY DEF Init
    <3> QED
      BY <3>1, <3>2, <3>3 DEF LoopType
  <2>2. Init => ~wakeRequested /\ ~running
    BY DEF Init
  <2> QED
    BY <2>1, <2>2 DEF LoopInv, WakeIsArmed, LoopLives
<1>2. LoopInv /\ [Next]_vars => LoopInv'
  BY Inductive
<1> QED
  BY <1>1, <1>2, PTL DEF Spec

\* No wake-up is lost: while one is requested the loop runs and a timeout that is
\* due will answer it (sync-scheduler.ts wake, pass, stopSyncScheduler).
THEOREM WakeUpsAreKept == Spec => []WakeIsArmed
<1>1. LoopInv => WakeIsArmed
  BY DEF LoopInv
<1> QED
  BY <1>1, LoopInvHolds, PTL

\* A running loop always has a timeout or a pass, whatever was stopped, started
\* or woken in the middle of it (sync-scheduler.ts pass, finally).
THEOREM LoopNeverDies == Spec => []LoopLives
<1>1. LoopInv => LoopLives
  BY DEF LoopInv
<1> QED
  BY <1>1, LoopInvHolds, PTL
=============================================================================
