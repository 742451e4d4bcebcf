------------------------------ MODULE Session ------------------------------
(* The session of the client: three keys of secure storage, the cache in     *)
(* front of them, the single-flight refresh of request.ts, sign-in, sign-out *)
(* and re-reading on focus, and the Android worker that refreshes the same   *)
(* tokens behind the WebView's back. A step is the JavaScript between two   *)
(* awaits, one key read or written by the storage, or one answer.            *)
(* A token is the number of the grant it came with; the value of the user    *)
(* key is the grant whose user it names.  0 is "not there".                  *)
EXTENDS Naturals, Sequences, FiniteSets

CONSTANTS Users,       \* people who sign in on this device
          Requests,    \* API calls that may be in progress at once
          MaxGrants,   \* bound: pairs of tokens the server issues
          Budgets,     \* bound: how often each event of Events happens, per scenario
          Stored,      \* TRUE: the device starts with the session of a user
          None         \* no user

Events == {"login", "wrong", "logout", "focus", "request", "expire", "refuse", "loss",
           "fail", "worker", "restart"}

ASSUME SessionAssumption ==
  /\ None \notin Users
  /\ MaxGrants \in Nat \ {0}
  /\ Budgets \subseteq [Events -> Nat]
  /\ Stored \in BOOLEAN
  /\ Requests \cap {"start", "refresh", "login", "logout", "focus"} = {}

Keys == {"token", "refresh", "user"}
KeyOrder == <<"token", "refresh", "user">>
Grants == 1..MaxGrants
Session == [Keys -> Grants \cup {0}]
NoSession == [k \in Keys |-> 0]
SessionOf(g) == [k \in Keys |-> g]
Flows == {"start", "refresh", "login", "logout", "focus"} \cup Requests

VARIABLES
  owner,     \* server: whom each grant was issued to
  expired,   \* server: grants whose access token is refused by now
  refused,   \* server: grants whose refresh token is refused by now
  store,     \* secure storage
  ipc,       \* storage calls on their way, in the order they were issued
  cache,     \* auth.ts: cache
  loaded,    \* auth.ts: cacheLoaded
  pc,        \* where each flow of the WebView is
  hand,      \* the token a flow holds across an await
  got,       \* what a flow read from storage
  ui,        \* React: the user shown (a grant of that user, or 0)
  worker,    \* SyncWorker.refresh: [at, token]
  left,      \* what is left of the budget
  wanted,    \* history: the session last asked for
  straddled, \* history: a write of the session found another flow in progress
  torn,      \* history: the worker met another person's tokens, or the process ended
             \* with tokens on their way to the storage
  rotated    \* history: the worker has written tokens

app == <<cache, loaded, pc, hand, got, ui>>
vars == <<owner, expired, refused, store, ipc, cache, loaded, pc, hand, got, ui, worker,
          left, wanted, straddled, torn, rotated>>
history == <<wanted, straddled, torn, rotated>>
server == <<owner, expired, refused>>

WorkerIdle == [at |-> "idle", token |-> 0]
Issued == {g \in Grants : owner[g] # None}
User(g) == IF g = 0 THEN None ELSE owner[g]

Init ==
  /\ owner \in {[g \in Grants |-> IF Stored /\ g = 1 THEN u ELSE None] : u \in Users}
  /\ expired = {} /\ refused = {}
  /\ store = IF Stored THEN SessionOf(1) ELSE NoSession
  /\ ipc = <<>>
  /\ cache = NoSession /\ loaded = FALSE
  /\ pc = [f \in Flows |-> IF f = "start" THEN "mount" ELSE "idle"]
  /\ hand = [f \in Flows |-> 0]
  /\ got = [f \in Flows |-> NoSession]
  /\ ui = 0
  /\ worker = WorkerIdle
  /\ left \in Budgets
  /\ wanted = IF Stored THEN 1 ELSE 0
  /\ straddled = FALSE /\ torn = FALSE
  /\ rotated = FALSE

Spend(e) == left[e] > 0 /\ left' = [left EXCEPT ![e] = @ - 1]

\* A grant the server issues; the bound MaxGrants limits how many there are.
Issue(u, g) ==
  /\ g \in Grants /\ g \notin Issued
  /\ \A h \in Grants : h < g => h \in Issued
  /\ owner' = [owner EXCEPT ![g] = u]

-----------------------------------------------------------------------------
(* Storage: calls are executed one after the other by the native side, a key *)
(* at a time; the caller is at next when its last key is done.                *)

Call(op, f, vals, next) == [op |-> op, who |-> f, vals |-> vals, next |-> next, todo |-> KeyOrder]
LoadCall(f, next) == Call("load", f, NoSession, next)
\* Mutants of the calls: the refresh token is not written, the user not deleted.
SetsNoRefresh(f, g) == [Call("set", f, SessionOf(g), "stored") EXCEPT !.todo = <<"token", "user">>]
KeepsUser(f) == [Call("clear", f, NoSession, "cleared") EXCEPT !.todo = <<"token", "refresh">>]
SetCall(f, g) == Call("set", f, SessionOf(g), "stored")
ClearCall(f) == Call("clear", f, NoSession, "cleared")

StoreAfter(c, k) ==
  CASE c.op = "load" -> store
    [] c.op = "set" -> [store EXCEPT ![k] = c.vals[k]]
    [] c.op = "clear" -> [store EXCEPT ![k] = 0]

StorageStep ==
  /\ ipc # <<>>
  /\ LET c == Head(ipc)
         k == Head(c.todo)
         vals == IF c.op = "load" THEN [c.vals EXCEPT ![k] = store[k]] ELSE c.vals
     IN /\ store' = StoreAfter(c, k)
        /\ \/ /\ Len(c.todo) > 1
              /\ ipc' = [ipc EXCEPT ![1] = [c EXCEPT !.todo = Tail(c.todo), !.vals = vals]]
              /\ UNCHANGED <<pc, got>>
           \/ /\ Len(c.todo) = 1
              /\ ipc' = Tail(ipc)
              /\ pc' = [pc EXCEPT ![c.who] = c.next]
              /\ got' = IF c.op = "load" THEN [got EXCEPT ![c.who] = vals] ELSE got
  /\ UNCHANGED <<server, cache, loaded, hand, ui, worker, left, history>>

-----------------------------------------------------------------------------
(* performRefresh and refreshOnce.  A refresh begins with the refresh token   *)
(* of the cache, which is re-read first when a reload is in progress.         *)

Callers == Requests \cup {"start", "login"}

\* Flows that read the storage and will assign what they read to the cache.
Reading == {f \in Flows : pc[f] \in {"load", "loaded", "reloaded"}}

\* Flows that may still show or write a session of before.
InFlight == {f \in Flows : pc[f] # "idle" /\ (f \in Reading \/ f \notin Requests)}

\* History of a write of the session by flow f: what it found in progress among
\* others, what the session is meant to be from now on, and whether the worker has
\* the tokens of anybody but the user u whose tokens are written.
Writes(others) == straddled' = (straddled \/ others # {}) /\ UNCHANGED <<wanted, rotated>>
Changes(others, w) ==
  /\ wanted' = w
  /\ straddled' = (straddled \/ others # {} \/ worker.at # "idle")
  /\ UNCHANGED rotated
MeetsWorker(u) == torn' = (torn \/ (worker.at # "idle" /\ User(worker.token) # u))

ClearsSession(f, pcs) ==
  /\ cache' = NoSession /\ loaded' = TRUE
  /\ ipc' = Append(ipc, ClearCall(f))
  /\ pc' = [pcs EXCEPT ![f] = "clear"]

\* Mutant: the cached user is kept when tokens arrive.
SetsTokens(f, g, pcs) ==
  /\ cache' = [SessionOf(g) EXCEPT !["user"] = cache["user"]] /\ loaded' = TRUE
  /\ ipc' = Append(ipc, SetCall(f, g))
  /\ pc' = [pcs EXCEPT ![f] = "store"]

SetsSession(f, g, pcs) ==
  /\ cache' = SessionOf(g) /\ loaded' = TRUE
  /\ ipc' = Append(ipc, SetCall(f, g))
  /\ pc' = [pcs EXCEPT ![f] = "store"]

\* loadSession assigns the cache whatever happened to it since the keys were read.
Assigns(f) ==
  /\ cache' = got[f] /\ loaded' = TRUE
  /\ got' = [got EXCEPT ![f] = NoSession]

\* performRefresh once the session is loaded.
RefreshWith(s, hands, pcs) ==
  \/ /\ s["refresh"] = 0
     /\ ClearsSession("refresh", pcs) /\ Writes(Reading \ {"refresh"})
     /\ hand' = hands
     /\ UNCHANGED torn
  \/ /\ s["refresh"] # 0
     /\ cache' = s /\ loaded' = TRUE
     /\ hand' = [hands EXCEPT !["refresh"] = s["refresh"]]
     /\ pc' = [pcs EXCEPT !["refresh"] = "post"]
     /\ UNCHANGED <<ipc, history>>

\* A caller that was answered 401 joins the refresh in flight or starts one.
JoinRefresh(f) ==
  LET pcs == [pc EXCEPT ![f] = "wait"] IN
  \/ /\ pc["refresh"] # "idle"
     /\ pc' = pcs
     /\ UNCHANGED <<cache, loaded, hand, ipc, history>>
  \/ /\ pc["refresh"] = "idle" /\ ~loaded
     /\ pc' = [pcs EXCEPT !["refresh"] = "load"]
     /\ ipc' = Append(ipc, LoadCall("refresh", "loaded"))
     /\ UNCHANGED <<cache, loaded, hand, history>>
  \/ /\ pc["refresh"] = "idle" /\ loaded
     /\ RefreshWith(cache, hand, pcs)

RefreshLoaded ==
  /\ pc["refresh"] = "loaded"
  /\ RefreshWith(got["refresh"], hand, pc)
  /\ got' = [got EXCEPT !["refresh"] = NoSession]
  /\ UNCHANGED <<server, store, ui, worker, left>>

\* The server: a refresh token is a signed statement, good until it expires.
RefreshGranted ==
  /\ pc["refresh"] = "post"
  /\ hand["refresh"] \notin refused
  /\ \E g \in Grants :
       /\ Issue(owner[hand["refresh"]], g)
       /\ SetsSession("refresh", g, pc)
  /\ Writes(Reading) /\ MeetsWorker(owner[hand["refresh"]])
  /\ UNCHANGED <<expired, refused, store, hand, got, ui, worker, left>>

\* Any answer that is not a success clears the session: a refusal, or a failure
\* of the server ("fail").
RefreshDenied ==
  /\ pc["refresh"] = "post"
  /\ \/ hand["refresh"] \in refused /\ UNCHANGED left
     \/ Spend("fail")
  /\ ClearsSession("refresh", pc) /\ Changes(InFlight \ {"refresh"}, 0)
  /\ UNCHANGED <<server, store, hand, got, ui, worker, torn>>

\* What a caller does when the refresh it waits for ends well: the retry takes
\* the token of the cache, after loading it when a reload is in progress.
Retried == [f \in Flows |-> IF f = "refresh" THEN "idle"
                            ELSE IF pc[f] = "wait" THEN IF loaded THEN "resent" ELSE "again"
                            ELSE pc[f]]
RetryHand == [f \in Flows |-> IF f = "refresh" THEN 0
                              ELSE IF pc[f] = "wait" /\ loaded THEN cache["token"] ELSE hand[f]]
\* Mutant: a failed refresh leaves its callers waiting.
Abandoned == [pc EXCEPT !["refresh"] = "idle"]
Failed == [f \in Flows |-> IF f = "refresh" \/ pc[f] = "wait" THEN "idle" ELSE pc[f]]
FailedHand == [f \in Flows |-> IF f = "refresh" \/ pc[f] = "wait" THEN 0 ELSE hand[f]]

\* setAuthSession has written its keys: notify, then the waiting callers.
RefreshStored ==
  /\ pc["refresh"] = "stored"
  /\ ui' = cache["user"]
  /\ pc' = Retried
  /\ hand' = RetryHand
  /\ UNCHANGED <<server, store, ipc, cache, loaded, got, worker, left, history>>

\* clearAuthSession has deleted its keys: notify, then the waiting callers fail.
RefreshCleared ==
  /\ pc["refresh"] = "cleared"
  /\ ui' = IF pc["start"] = "wait" /\ cache["token"] = 0 THEN 0 ELSE cache["user"]
  /\ pc' = Failed /\ hand' = FailedHand
  /\ UNCHANGED <<server, store, ipc, cache, loaded, got, worker, left, history>>

\* Unreachable: the session is kept.  (With every grant used the server is
\* taken to be unreachable too: a bound of the model.)
RefreshUnreachable ==
  /\ pc["refresh"] = "post"
  /\ \/ Issued = Grants /\ UNCHANGED left
     \/ Spend("loss")
  /\ ui' = IF pc["start"] = "wait" /\ cache["token"] = 0 THEN 0 ELSE ui
  /\ pc' = Failed /\ hand' = FailedHand
  /\ UNCHANGED <<server, store, ipc, cache, loaded, got, worker, history>>

-----------------------------------------------------------------------------
(* request(): a token from the cache, a call, and one retry after a refresh.  *)

Request(r) ==
  /\ pc[r] = "idle" /\ ui # 0
  /\ Spend("request")
  /\ \/ /\ loaded
        /\ hand' = [hand EXCEPT ![r] = cache["token"]]
        /\ pc' = [pc EXCEPT ![r] = "sent"]
        /\ UNCHANGED ipc
     \/ /\ ~loaded
        /\ ipc' = Append(ipc, LoadCall(r, "loaded"))
        /\ pc' = [pc EXCEPT ![r] = "load"]
        /\ UNCHANGED hand
  /\ UNCHANGED <<server, store, cache, loaded, got, ui, worker, history>>

RequestLoaded(r) ==
  /\ pc[r] = "reloaded" \/ (pc[r] = "loaded" /\ r # "start")
  /\ Assigns(r)
  /\ hand' = [hand EXCEPT ![r] = got[r]["token"]]
  /\ pc' = [pc EXCEPT ![r] = IF @ = "loaded" THEN "sent" ELSE "resent"]
  /\ UNCHANGED <<server, store, ipc, ui, worker, left, history>>

RetryLoad(f) ==
  /\ pc[f] = "again"
  /\ ipc' = Append(ipc, LoadCall(f, "reloaded"))
  /\ pc' = [pc EXCEPT ![f] = "load"]
  /\ UNCHANGED <<server, store, cache, loaded, hand, got, ui, worker, left, history>>

Authorised(t) == t \in Issued /\ t \notin expired
InCall(f) == pc[f] \in {"sent", "resent"}

\* The end of a call.  The one of the start-up is fetchMe, whose answer is shown.
Ends(f, ok) ==
  /\ pc' = [pc EXCEPT ![f] = "idle"]
  /\ hand' = [hand EXCEPT ![f] = 0]
  /\ ui' = IF f # "start" THEN ui
           ELSE IF ok THEN hand[f]
           ELSE IF cache["token"] = 0 THEN 0 ELSE ui

Answered(f) ==
  /\ f # "login" /\ InCall(f) /\ Authorised(hand[f])
  /\ Ends(f, TRUE)
  /\ UNCHANGED <<server, store, ipc, cache, loaded, got, worker, left, history>>

Unauthorised(f) ==
  /\ f # "login" /\ ~Authorised(hand[f])
  /\ \/ /\ pc[f] = "sent"
        /\ JoinRefresh(f)
        /\ UNCHANGED ui
     \/ /\ pc[f] = "resent"
        /\ Ends(f, FALSE)
        /\ UNCHANGED <<ipc, cache, loaded, history>>
  /\ UNCHANGED <<server, store, got, worker, left>>

\* No answer within the time limit, or no server.
Unanswered(f) ==
  /\ InCall(f)
  /\ Spend("loss")
  /\ Ends(f, FALSE)
  /\ UNCHANGED <<server, store, ipc, cache, loaded, got, worker, history>>

-----------------------------------------------------------------------------
(* auth.tsx: start-up, signing in and out, and the reload when the window     *)
(* gets the focus.                                                            *)


Mount ==
  /\ pc["start"] = "mount"
  /\ ipc' = Append(ipc, LoadCall("start", "loaded"))
  /\ pc' = [pc EXCEPT !["start"] = "load"]
  /\ UNCHANGED <<server, store, cache, loaded, hand, got, ui, worker, left, history>>

\* A cached session is shown at once and validated in the background.
Hydrate ==
  /\ pc["start"] = "loaded"
  /\ Assigns("start")
  /\ ui' = IF cache'["token"] = 0 THEN 0
           ELSE IF cache'["user"] # 0 THEN cache'["user"] ELSE ui
  /\ hand' = [hand EXCEPT !["start"] = cache'["token"]]
  /\ pc' = [pc EXCEPT !["start"] = IF cache'["token"] = 0 THEN "idle" ELSE "sent"]
  /\ UNCHANGED <<server, store, ipc, worker, left, history>>

\* The sign-in page is shown while nobody is, once the start-up is done.
Login ==
  /\ ui = 0 /\ pc["login"] = "idle" /\ pc["start"] = "idle"
  /\ Spend("login")
  /\ pc' = [pc EXCEPT !["login"] = "sent"]
  /\ UNCHANGED <<server, store, ipc, cache, loaded, hand, got, ui, worker, history>>

LoginGranted ==
  /\ InCall("login")
  /\ \E u \in Users, g \in Grants :
       /\ Issue(u, g)
       /\ SetsSession("login", g, pc)
       /\ hand' = [hand EXCEPT !["login"] = g]
       /\ Changes(InFlight \ {"login"}, g) /\ MeetsWorker(u)
  /\ UNCHANGED <<expired, refused, store, got, ui, worker, left>>

\* A wrong password is a 401 like any other: the first one tries to refresh.
LoginWrong ==
  /\ \/ /\ pc["login"] = "sent"
        /\ JoinRefresh("login")
     \/ /\ pc["login"] = "resent"
        /\ pc' = [pc EXCEPT !["login"] = "idle"]
        /\ UNCHANGED <<ipc, cache, loaded, hand, history>>
  /\ Spend("wrong")
  /\ UNCHANGED <<server, store, got, ui, worker>>

LoginStored ==
  /\ pc["login"] = "stored"
  /\ ui' = hand["login"]
  /\ pc' = [pc EXCEPT !["login"] = "idle"]
  /\ hand' = [hand EXCEPT !["login"] = 0]
  /\ UNCHANGED <<server, store, ipc, cache, loaded, got, worker, left, history>>

Logout ==
  /\ ui # 0 /\ pc["logout"] = "idle"
  /\ Spend("logout")
  /\ ClearsSession("logout", pc) /\ Changes(InFlight, 0)
  /\ UNCHANGED <<server, store, hand, got, ui, worker, torn>>

LogoutCleared ==
  /\ pc["logout"] = "cleared"
  /\ ui' = 0
  /\ pc' = [pc EXCEPT !["logout"] = "idle"]
  /\ UNCHANGED <<server, store, ipc, cache, loaded, hand, got, worker, left, history>>

\* RootLayout listens while somebody is signed in.
Focus ==
  /\ ui # 0 /\ pc["focus"] = "idle"
  /\ Spend("focus")
  /\ loaded' = FALSE
  /\ ipc' = Append(ipc, LoadCall("focus", "loaded"))
  /\ pc' = [pc EXCEPT !["focus"] = "load"]
  /\ UNCHANGED <<server, store, cache, hand, got, ui, worker, history>>

Reloaded ==
  /\ pc["focus"] = "loaded"
  /\ Assigns("focus")
  /\ ui' = cache'["user"]
  /\ pc' = [pc EXCEPT !["focus"] = "idle"]
  /\ UNCHANGED <<server, store, ipc, hand, worker, left, history>>

-----------------------------------------------------------------------------
(* SyncWorker.refresh: the refresh token is read, posted, and both tokens are *)
(* committed one after the other.                                             *)

\* Changes of the session the storage has not executed yet.
Unwritten == {i \in 1..Len(ipc) : ipc[i].op # "load"}
Tokens == {i \in Unwritten : ipc[i].op = "set"}

WorkerRead ==
  /\ worker.at = "idle"
  /\ store["token"] \in expired /\ store["refresh"] # 0
  /\ Spend("worker")
  /\ worker' = [at |-> "post", token |-> store["refresh"]]
  /\ straddled' = (straddled \/ Unwritten # {})
  /\ torn' = (torn \/ \E i \in Tokens : User(ipc[i].vals["token"]) # User(store["refresh"]))
  /\ UNCHANGED <<server, store, ipc, app, wanted, rotated>>

WorkerGranted ==
  /\ worker.at = "post" /\ worker.token \notin refused
  /\ \E g \in Grants :
       /\ Issue(owner[worker.token], g)
       /\ worker' = [at |-> "token", token |-> g]
  /\ UNCHANGED <<expired, refused, store, ipc, app, left, history>>

\* Refused, unreachable, or killed while waiting: nothing is written.
WorkerGivesUp ==
  /\ worker.at = "post"
  /\ worker' = WorkerIdle
  /\ UNCHANGED <<server, store, ipc, app, left, history>>

WorkerSets ==
  /\ worker.at \in {"token", "refresh"}
  /\ store' = [store EXCEPT ![worker.at] = worker.token]
  /\ worker' = IF worker.at = "token" THEN [worker EXCEPT !.at = "refresh"] ELSE WorkerIdle
  /\ rotated' = TRUE
  /\ UNCHANGED <<server, ipc, app, left, wanted, straddled, torn>>

-----------------------------------------------------------------------------
(* Environment: time passes, the server stops accepting refresh tokens, and   *)
(* the WebView is killed (the worker is not).                                 *)

Expire ==
  /\ Spend("expire")
  /\ expired' = Issued
  /\ UNCHANGED <<owner, refused, store, ipc, app, worker, history>>

\* Mutant: access tokens outlive a change of the signing secret.
RefuseRefresh ==
  /\ Spend("refuse")
  /\ refused' = Issued
  /\ UNCHANGED <<owner, expired, store, ipc, app, worker, history>>

Refuse ==
  /\ Spend("refuse")
  /\ expired' = Issued /\ refused' = Issued
  /\ UNCHANGED <<owner, store, ipc, app, worker, history>>

Restart ==
  /\ Spend("restart")
  /\ ipc' = <<>>
  /\ cache' = NoSession /\ loaded' = FALSE
  /\ pc' = [f \in Flows |-> IF f = "start" THEN "mount" ELSE "idle"]
  /\ hand' = [f \in Flows |-> 0]
  /\ got' = [f \in Flows |-> NoSession]
  /\ ui' = 0
  /\ straddled' = (straddled \/ Unwritten # {}) /\ torn' = (torn \/ Tokens # {})
  /\ UNCHANGED <<server, store, worker, wanted, rotated>>

Caller(f) ==
  \/ RequestLoaded(f) \/ RetryLoad(f) \/ Answered(f) \/ Unauthorised(f) \/ Unanswered(f)

\* What goes on by itself: storage, answers and the code that waits for them.
Progress ==
  \/ StorageStep
  \/ RefreshLoaded \/ RefreshGranted \/ RefreshDenied \/ RefreshStored \/ RefreshCleared
  \/ RefreshUnreachable
  \/ \E f \in Callers : Caller(f)
  \/ Mount \/ Hydrate \/ LoginGranted \/ LoginStored \/ LogoutCleared \/ Reloaded

Next ==
  \/ Progress
  \/ \E r \in Requests : Request(r)
  \/ Login \/ LoginWrong \/ Logout \/ Focus
  \/ WorkerRead \/ WorkerGranted \/ WorkerGivesUp \/ WorkerSets
  \/ Expire \/ Refuse \/ Restart

Spec == Init /\ [][Next]_vars

\* The code goes on, the storage executes its calls, and a call is answered or
\* given up when its time is over.
FairSpec == Spec /\ WF_vars(Progress)

-----------------------------------------------------------------------------
\* Values have the shape their code gives them; a token is only ever one that was
\* issued, and when refresh tokens are refused so are the access tokens of their time.
TypeOK ==
  /\ owner \in [Grants -> Users \cup {None}]
  /\ \A k \in Keys : {store[k], cache[k]} \subseteq Issued \cup {0}
  /\ expired \subseteq Grants /\ refused \subseteq expired
  /\ store \in Session /\ cache \in Session
  /\ loaded \in BOOLEAN /\ straddled \in BOOLEAN /\ rotated \in BOOLEAN
  /\ got \in [Flows -> Session]
  /\ ui \in Grants \cup {0} /\ wanted \in Grants \cup {0}
  /\ hand \in [Flows -> Grants \cup {0}]

\* Nothing is in progress in the WebView.
Quiet == ipc = <<>> /\ \A f \in Flows : pc[f] = "idle"

\* The session in memory is the one last asked for, or none; at rest the cache,
\* the storage and the user shown are exactly that session, unless a flow that was in
\* progress when it changed wrote it afterwards.
Of(g) == {None, User(g)}
SessionIsWanted ==
  ~straddled =>
    /\ \A k \in Keys : User(cache[k]) \in Of(wanted)
    /\ Quiet => /\ \A k \in Keys : User(cache[k]) = User(wanted) /\ User(store[k]) = User(wanted)
                /\ User(ui) = User(wanted)

\* The tokens of one person are never held beside the name of another: requests go
\* out as the person shown.  Only the worker, which writes its two keys while tokens
\* of somebody else are written, or the end of the process between two keys, can mix
\* them.
OneIdentity == ~torn => Cardinality({User(cache[k]) : k \in Keys} \ {None}) <= 1

\* At rest the cache holds what the storage holds, so that a restart finds the
\* session the user had, unless the worker has rotated the tokens.
CacheIsStored == Quiet /\ ~rotated /\ ~straddled => cache = store

\* Every API call settles, whatever happens to the refresh it waits for.
RequestsSettle == \A r \in Requests : pc[r] # "idle" ~> pc[r] = "idle"

\* auth.tsx:66 says that the request layer "clears the session only when the refresh
\* token is genuinely rejected".
ClearedOnlyIfRejected ==
  [][pc["refresh"] = "post" /\ pc'["refresh"] = "clear" => hand["refresh"] \in refused]_vars

=============================================================================
