--------------------------- MODULE Session_proofs ---------------------------
(***************************************************************************)
(* Proofs about Session, for any users, calls, grants and budgets of       *)
(* events: the session in memory is the one asked for, the tokens of one   *)
(* person are never held with the name of another, and at rest the cache   *)
(* holds what the storage holds.                                           *)
(***************************************************************************)
EXTENDS Session, TLAPS, FiniteSetTheorems

USE SessionAssumption

-----------------------------------------------------------------------------
(* The inductive invariant                                                 *)

Lists == {<<"token", "refresh", "user">>, <<"refresh", "user">>, <<"user">>}
CallType == [op : {"load", "set", "clear"}, who : Flows, vals : Session,
             next : {"loaded", "reloaded", "stored", "cleared"}, todo : Lists]
Places == {"idle", "mount", "load", "loaded", "reloaded", "sent", "resent", "wait", "again",
           "post", "store", "stored", "clear", "cleared"}

Shape ==
  /\ owner \in [Grants -> Users \cup {None}]
  /\ store \in Session /\ cache \in Session /\ got \in [Flows -> Session]
  /\ loaded \in BOOLEAN
  /\ straddled \in BOOLEAN /\ torn \in BOOLEAN /\ rotated \in BOOLEAN
  /\ pc \in [Flows -> Places]
  /\ hand \in [Flows -> Grants \cup {0}]
  /\ ui \in Grants \cup {0} /\ wanted \in Grants \cup {0}
  /\ worker \in [at : {"idle", "post", "token", "refresh"}, token : Grants \cup {0}]
  /\ ipc \in Seq(CallType)

\* Whatever holds a token holds one that was issued, or none.
Known(s) == \A k \in Keys : s[k] \in Issued \cup {0}
Held ==
  /\ Known(store) /\ Known(cache)
  /\ \A f \in Flows : Known(got[f]) /\ hand[f] \in Issued \cup {0}
  /\ \A i \in 1 .. Len(ipc) : Known(ipc[i].vals)
  /\ ui \in Issued \cup {0} /\ wanted \in Issued \cup {0}
  /\ worker.at # "idle" => worker.token \in Issued
  /\ pc["refresh"] = "post" => hand["refresh"] # 0

\* A call on its way to the storage, and where its flow waits for it.
Pending(c) ==
  /\ c.op = "load" => pc[c.who] = "load" /\ c.next \in {"loaded", "reloaded"}
  /\ c.op = "set" => /\ c.who \in {"refresh", "login"}
                     /\ pc[c.who] = "store" /\ c.next = "stored"
                     /\ c.vals["token"] # 0 /\ \A k \in Keys : c.vals[k] = c.vals["token"]
  /\ c.op = "clear" => /\ c.who \in {"refresh", "logout"}
                       /\ pc[c.who] = "clear" /\ c.next = "cleared" /\ c.vals = NoSession

\* The storage has only begun the first call, and a flow waits for one at most.
Queue ==
  /\ \A i \in 1 .. Len(ipc) :
       /\ Pending(ipc[i])
       /\ i # 1 => ipc[i].todo = KeyOrder /\ (ipc[i].op = "load" => ipc[i].vals = NoSession)
  /\ \A i, j \in 1 .. Len(ipc) : ipc[i].who = ipc[j].who => i = j
  /\ pc["logout"] \in {"idle", "clear", "cleared"}

\* Keys the storage has still to come to.
Rest(list) == {list[i] : i \in 1 .. Len(list)}

\* The start-up has not read the session yet, and nothing else has begun.
Booting ==
  /\ cache = NoSession /\ ~loaded /\ ui = 0
  /\ pc["start"] \in {"mount", "load", "loaded"}
  /\ \A f \in Flows \ {"start"} : pc[f] = "idle"
  /\ \A i \in 1 .. Len(ipc) : ipc[i].next = "loaded"

Full(s) == \A k \in Keys : User(s[k]) = User(wanted)
NoWrites == \A i \in 1 .. Len(ipc) : ipc[i].op = "load"

\* While no write straddled another flow: what was read, is cached, is on its way to the
\* storage or is there already is the session asked for, the storage up to the key it
\* has come to; nobody reads before a write.
StraightReads ==
  /\ \A f \in Flows : pc[f] \in {"loaded", "reloaded"} => Full(got[f]) /\ NoWrites
  /\ \A i, j \in 1 .. Len(ipc) : i < j /\ ipc[j].op # "load" => ipc[i].op # "load"
StraightStore ==
  /\ \A i \in 1 .. Len(ipc) : ipc[i].op # "load" => Full(ipc[i].vals)
  /\ NoWrites => Full(store)
  /\ Len(ipc) > 0 => \A k \in Keys \ Rest(ipc[1].todo) :
       /\ User(ipc[1].vals[k]) = User(wanted)
       /\ User(store[k]) = User(wanted)
  /\ worker.at # "idle" => User(worker.token) = User(wanted)

\* What the flows hold is of that session too, and the user shown is, or is about to be.
StraightHands ==
  /\ Booting \/ Full(cache)
  /\ pc["refresh"] = "post" => User(hand["refresh"]) = User(wanted)
  /\ pc["login"] \in {"store", "stored"} => User(hand["login"]) = User(wanted)
  /\ pc["start"] \in {"sent", "resent"} => User(hand["start"]) = User(wanted)
  /\ pc["logout"] # "idle" \/ pc["refresh"] \in {"clear", "cleared"} => User(wanted) = None
  /\ \/ User(ui) = User(wanted)
     \/ Booting
     \/ pc["login"] \in {"store", "stored"}
     \/ pc["logout"] # "idle" \/ pc["refresh"] \in {"clear", "cleared"}

\* Unless the worker has rotated the tokens: the cache is what the storage holds, or
\* will hold after the last write on its way.
Aligned ==
  /\ \A f \in Flows : pc[f] \in {"loaded", "reloaded"} => got[f] = store
  /\ NoWrites => cache = store \/ Booting
  /\ \A i \in 1 .. Len(ipc) :
       ipc[i].op # "load" /\ (i = Len(ipc) \/ ipc[i + 1].op = "load") => cache = ipc[i].vals
  /\ Len(ipc) > 0 => \A k \in Keys \ Rest(ipc[1].todo) : store[k] = ipc[1].vals[k]

\* Two tokens are of one person, or one of them is missing.
Agree(g, h) == g = 0 \/ h = 0 \/ owner[g] = owner[h]
One(s) == \A j, k \in Keys : Agree(s[j], s[k])

\* Unless the worker met tokens of somebody else: what is held together is of one
\* person, the storage up to the key it has come to.
Setting == Len(ipc) > 0 /\ ipc[1].op = "set"
Whole ==
  /\ One(cache)
  /\ \A f \in Flows : One(got[f])
  /\ ~Setting => One(store)
  /\ Setting =>
       /\ \A j, k \in Rest(ipc[1].todo) : Agree(store[j], store[k])
       /\ \A k \in Keys \ Rest(ipc[1].todo) : Agree(store[k], ipc[1].vals["token"])
  /\ Len(ipc) > 0 /\ ipc[1].op = "load" =>
       One(ipc[1].vals) /\ \A j, k \in Keys : Agree(ipc[1].vals[j], store[k])
  /\ worker.at # "idle" =>
       /\ \A k \in Keys : Agree(worker.token, store[k]) \/ (Setting /\ Rest(ipc[1].todo) = {k})
       /\ \A i \in 1 .. Len(ipc) : \A k \in Keys : Agree(worker.token, ipc[i].vals[k])

SessionInv ==
  /\ Shape /\ Held /\ Queue
  /\ ~straddled => StraightReads /\ StraightStore /\ StraightHands
  /\ ~straddled /\ ~rotated => Aligned
  /\ ~torn => Whole

-----------------------------------------------------------------------------
(* Lists of keys, and the queue of calls                                   *)

\* The first key of a list is one of the rest; the tail is the list without it.
LEMMA ListFacts ==
  ASSUME NEW l \in Lists
  PROVE  /\ Head(l) \in Rest(l) /\ Rest(l) \subseteq Keys /\ Len(l) \in 1 .. 3
         /\ Len(l) = 1 => Rest(l) = {Head(l)}
         /\ Len(l) > 1 => Tail(l) \in Lists /\ Rest(Tail(l)) = Rest(l) \ {Head(l)}
<1>1. /\ Rest(<<"user">>) = {"user"}
      /\ Rest(<<"refresh", "user">>) = {"refresh", "user"}
      /\ Rest(<<"token", "refresh", "user">>) = {"token", "refresh", "user"}
  BY DEF Rest
<1>2. /\ Tail(<<"token", "refresh", "user">>) = <<"refresh", "user">>
      /\ Tail(<<"refresh", "user">>) = <<"user">>
  OBVIOUS
<1>3. CASE l = <<"token", "refresh", "user">>
  BY <1>1, <1>2, <1>3 DEF Lists, Keys
<1>4. CASE l = <<"refresh", "user">>
  BY <1>1, <1>2, <1>4 DEF Lists, Keys
<1>5. CASE l = <<"user">>
  BY <1>1, <1>5 DEF Lists, Keys
<1> QED
  BY <1>3, <1>4, <1>5 DEF Lists

LEMMA WholeList == KeyOrder \in Lists /\ Rest(KeyOrder) = Keys
<1>1. Rest(<<"token", "refresh", "user">>) = {"token", "refresh", "user"}
  BY DEF Rest
<1> QED
  BY <1>1 DEF KeyOrder, Lists, Keys

\* Appending a call leaves the others where they are.
Adds(c) ==
  /\ Len(ipc') = Len(ipc) + 1
  /\ \A i \in 1 .. Len(ipc) : ipc'[i] = ipc[i]
  /\ ipc'[Len(ipc')] = c
  /\ ipc' \in Seq(CallType)

LEMMA AppendAdds ==
  ASSUME ipc \in Seq(CallType), NEW c \in CallType, ipc' = Append(ipc, c)
  PROVE  Adds(c)
BY DEF Adds

LEMMA CallTypes ==
  ASSUME NEW f \in Flows, NEW g \in Grants, NEW n \in {"loaded", "reloaded"}
  PROVE  /\ LoadCall(f, n) \in CallType /\ SetCall(f, g) \in CallType /\ ClearCall(f) \in CallType
         /\ NoSession \in Session /\ SessionOf(g) \in Session
<1>1. KeyOrder \in Lists
  BY WholeList
<1>2. NoSession \in Session /\ SessionOf(g) \in Session
  BY DEF NoSession, Session, SessionOf
<1> QED
  BY <1>1, <1>2 DEF LoadCall, SetCall, ClearCall, Call, CallType

\* What a step of the storage does: it advances by the key k in the first call, or it
\* finishes that call with k.
Read(k) ==
  IF ipc[1].op = "load" THEN [ipc[1].vals EXCEPT ![k] = store[k]] ELSE ipc[1].vals
Stores(k) ==
  /\ ipc[1].op = "load" => store' = store
  /\ ipc[1].op # "load" => store' = [store EXCEPT ![k] = ipc[1].vals[k]]
Advances(k) ==
  /\ Len(ipc') = Len(ipc)
  /\ \A i \in 2 .. Len(ipc) : ipc'[i] = ipc[i]
  /\ ipc'[1].op = ipc[1].op /\ ipc'[1].who = ipc[1].who /\ ipc'[1].next = ipc[1].next
  /\ ipc'[1].vals = Read(k) /\ Rest(ipc'[1].todo) = Rest(ipc[1].todo) \ {k}
  /\ pc' = pc /\ got' = got
Finishes(k) ==
  /\ Rest(ipc[1].todo) = {k}
  /\ Len(ipc') = Len(ipc) - 1
  /\ \A i \in 1 .. Len(ipc) - 1 : ipc'[i] = ipc[i + 1]
  /\ pc' = [pc EXCEPT ![ipc[1].who] = ipc[1].next]
  /\ got' = IF ipc[1].op = "load" THEN [got EXCEPT ![ipc[1].who] = Read(k)] ELSE got

LEMMA StorageFacts ==
  ASSUME Shape, Queue, StorageStep
  PROVE  /\ Len(ipc) \in Nat \ {0} /\ ipc[1] \in CallType /\ ipc' \in Seq(CallType)
         /\ UNCHANGED <<server, cache, loaded, hand, ui, worker, left, history>>
         /\ \E k \in Rest(ipc[1].todo) :
              k \in Keys /\ Read(k) \in Session /\ Stores(k) /\ (Advances(k) \/ Finishes(k))
<1> DEFINE c == ipc[1]
           k == Head(c.todo)
<1>1. Len(ipc) \in Nat \ {0} /\ c \in CallType /\ Head(ipc) = c
  BY DEF Shape, StorageStep
<1>2. /\ k \in Rest(c.todo) /\ k \in Keys /\ Len(c.todo) \in 1 .. 3
      /\ Len(c.todo) = 1 => Rest(c.todo) = {k}
      /\ Len(c.todo) > 1 => Tail(c.todo) \in Lists /\ Rest(Tail(c.todo)) = Rest(c.todo) \ {k}
  BY <1>1, ListFacts DEF CallType
<1>3. Read(k) \in Session
  BY <1>1, <1>2 DEF Shape, Session, CallType, Read
<1>4. Stores(k)
  <2>1. store' = StoreAfter(c, k)
    BY <1>1 DEF StorageStep
  <2>2. c.op = "clear" => c.vals = NoSession
    BY <1>1 DEF Queue, Pending
  <2>3. c.op \in {"load", "set", "clear"}
    BY <1>1 DEF CallType
  <2> QED
    BY <1>2, <2>1, <2>2, <2>3 DEF Stores, StoreAfter, NoSession
<1>8. \/ /\ Len(c.todo) > 1
         /\ ipc' = [ipc EXCEPT ![1] = [c EXCEPT !.todo = Tail(c.todo), !.vals = Read(k)]]
         /\ UNCHANGED <<pc, got>>
      \/ /\ Len(c.todo) = 1
         /\ ipc' = Tail(ipc)
         /\ pc' = [pc EXCEPT ![c.who] = c.next]
         /\ got' = IF c.op = "load" THEN [got EXCEPT ![c.who] = Read(k)] ELSE got
  <2>1. Head(ipc) = c
    BY <1>1
  <2> QED
    BY <2>1, Zenon DEF StorageStep, Read
<1>5. ASSUME Len(c.todo) > 1
      PROVE  Advances(k) /\ ipc' \in Seq(CallType)
  <2> DEFINE d == [c EXCEPT !.todo = Tail(c.todo), !.vals = Read(k)]
  <2>1. ipc' = [ipc EXCEPT ![1] = d] /\ pc' = pc /\ got' = got
    <3>1. \A n \in 1 .. 3 : n > 1 => n # 1
      OBVIOUS
    <3>2. Len(c.todo) # 1
      BY <1>2, <1>5, <3>1, Zenon
    <3> QED
      BY <1>8, <3>2, Zenon
  <2>2. /\ d \in CallType /\ d.op = c.op /\ d.who = c.who /\ d.next = c.next
        /\ d.vals = Read(k) /\ d.todo = Tail(c.todo)
    BY <1>1, <1>2, <1>3, <1>5 DEF CallType
  <2> HIDE DEF d
  <2>3. ipc' \in Seq(CallType) /\ Len(ipc') = Len(ipc) /\ ipc'[1] = d
    BY <1>1, <2>1, <2>2 DEF Shape
  <2>4. \A i \in 2 .. Len(ipc) : ipc'[i] = ipc[i]
    BY <1>1, <2>1 DEF Shape
  <2> QED
    BY <1>2, <1>5, <2>1, <2>2, <2>3, <2>4 DEF Advances
<1>6. ASSUME Len(c.todo) = 1
      PROVE  Finishes(k) /\ ipc' \in Seq(CallType)
  <2>1. /\ ipc' = Tail(ipc) /\ pc' = [pc EXCEPT ![c.who] = c.next]
        /\ got' = IF c.op = "load" THEN [got EXCEPT ![c.who] = Read(k)] ELSE got
    BY <1>6, <1>8
  <2>2. /\ ipc' \in Seq(CallType) /\ Len(ipc') = Len(ipc) - 1
        /\ \A i \in 1 .. Len(ipc) - 1 : ipc'[i] = ipc[i + 1]
    BY <1>1, <2>1 DEF Shape
  <2> QED
    BY <1>2, <1>6, <2>1, <2>2 DEF Finishes
<1>7. UNCHANGED <<server, cache, loaded, hand, ui, worker, left, history>>
  BY DEF StorageStep
<1>11. Len(c.todo) > 1 \/ Len(c.todo) = 1
  BY <1>8, Zenon
<1>9. Advances(k) \/ Finishes(k)
  BY <1>11, <1>5, <1>6, Zenon
<1>10. ipc' \in Seq(CallType)
  BY <1>2, <1>5, <1>6
<1> HIDE DEF k
<1> QED
  BY <1>1, <1>2, <1>3, <1>4, <1>7, <1>9, <1>10

-----------------------------------------------------------------------------
(* Shape                                                                   *)

\* performRefresh leaves everything in its shape, from a session s and the places pcs.
LEMMA RefreshShape ==
  ASSUME Shape, NEW s \in Session, NEW pcs \in [Flows -> Places], RefreshWith(s, hand, pcs)
  PROVE  /\ cache' \in Session /\ loaded' \in BOOLEAN /\ pc' \in [Flows -> Places]
         /\ hand' \in [Flows -> Grants \cup {0}] /\ ipc' \in Seq(CallType)
         /\ wanted' = wanted /\ straddled' \in BOOLEAN /\ torn' = torn /\ rotated' = rotated
<1>1. "refresh" \in Flows
  BY DEF Flows
<1>2. CASE /\ s["refresh"] = 0
           /\ ClearsSession("refresh", pcs) /\ Writes(Reading \ {"refresh"})
           /\ hand' = hand
           /\ UNCHANGED torn
  <2>1. ClearCall("refresh") \in CallType /\ NoSession \in Session
    BY <1>1, CallTypes, SessionAssumption DEF Grants
  <2>2. ipc' \in Seq(CallType)
    BY <1>2, <2>1 DEF ClearsSession, Shape
  <2> QED
    BY <1>1, <1>2, <2>1, <2>2 DEF ClearsSession, Writes, Shape, Places
<1>3. CASE /\ s["refresh"] # 0
           /\ cache' = s /\ loaded' = TRUE
           /\ hand' = [hand EXCEPT !["refresh"] = s["refresh"]]
           /\ pc' = [pcs EXCEPT !["refresh"] = "post"]
           /\ UNCHANGED <<ipc, history>>
  BY <1>1, <1>3 DEF Shape, Session, Keys, Places, history
<1> QED
  BY <1>2, <1>3 DEF RefreshWith

LEMMA JoinShape ==
  ASSUME Shape, NEW f \in Flows, JoinRefresh(f)
  PROVE  /\ cache' \in Session /\ loaded' \in BOOLEAN /\ pc' \in [Flows -> Places]
         /\ hand' \in [Flows -> Grants \cup {0}] /\ ipc' \in Seq(CallType)
         /\ wanted' = wanted /\ straddled' \in BOOLEAN /\ torn' = torn /\ rotated' = rotated
<1> DEFINE pcs == [pc EXCEPT ![f] = "wait"]
<1>1. "refresh" \in Flows /\ pcs \in [Flows -> Places]
  BY DEF Flows, Shape, Places
<1>2. \/ /\ pc["refresh"] # "idle"
         /\ pc' = pcs
         /\ UNCHANGED <<cache, loaded, hand, ipc, history>>
      \/ /\ pc["refresh"] = "idle" /\ ~loaded
         /\ pc' = [pcs EXCEPT !["refresh"] = "load"]
         /\ ipc' = Append(ipc, LoadCall("refresh", "loaded"))
         /\ UNCHANGED <<cache, loaded, hand, history>>
      \/ /\ pc["refresh"] = "idle" /\ loaded
         /\ RefreshWith(cache, hand, pcs)
  BY DEF JoinRefresh
<1> HIDE DEF pcs
<1>3. CASE /\ pc["refresh"] # "idle"
           /\ pc' = pcs
           /\ UNCHANGED <<cache, loaded, hand, ipc, history>>
  BY <1>1, <1>3 DEF Shape, history
<1>4. CASE /\ pc["refresh"] = "idle" /\ ~loaded
           /\ pc' = [pcs EXCEPT !["refresh"] = "load"]
           /\ ipc' = Append(ipc, LoadCall("refresh", "loaded"))
           /\ UNCHANGED <<cache, loaded, hand, history>>
  <2>1. LoadCall("refresh", "loaded") \in CallType
    BY <1>1, CallTypes, SessionAssumption DEF Grants
  <2>2. ipc' \in Seq(CallType)
    BY <1>4, <2>1 DEF Shape
  <2> QED
    BY <1>1, <1>4, <2>2 DEF Shape, history, Places
<1>5. CASE /\ pc["refresh"] = "idle" /\ loaded
           /\ RefreshWith(cache, hand, pcs)
  BY <1>1, <1>5, RefreshShape DEF Shape
<1> QED
  BY <1>2, <1>3, <1>4, <1>5

LEMMA LoadIsCall ==
  ASSUME NEW f \in Flows, NEW n \in {"loaded", "reloaded"},
         ipc \in Seq(CallType), ipc' = Append(ipc, LoadCall(f, n))
  PROVE  ipc' \in Seq(CallType)
<1>1. LoadCall(f, n) \in CallType
  BY CallTypes, SessionAssumption DEF Grants
<1> QED
  BY <1>1

LEMMA ClearIsCall ==
  ASSUME NEW f \in Flows, ipc \in Seq(CallType), ipc' = Append(ipc, ClearCall(f))
  PROVE  ipc' \in Seq(CallType)
<1>1. ClearCall(f) \in CallType
  BY CallTypes, SessionAssumption DEF Grants
<1> QED
  BY <1>1

LEMMA SetIsCall ==
  ASSUME NEW f \in Flows, NEW g \in Grants, ipc \in Seq(CallType),
         ipc' = Append(ipc, SetCall(f, g))
  PROVE  ipc' \in Seq(CallType)
<1>1. SetCall(f, g) \in CallType
  BY CallTypes
<1> QED
  BY <1>1

\* The names of the flows.
LEMMA FlowNames ==
  /\ {"start", "refresh", "login", "logout", "focus"} \subseteq Flows
  /\ Callers \subseteq Flows /\ Requests \subseteq Flows
  /\ "refresh" \notin Callers /\ "logout" \notin Callers /\ "focus" \notin Callers
  /\ Requests \cap {"start", "refresh", "login", "logout", "focus"} = {}
BY SessionAssumption DEF Flows, Callers

LEMMA Sessions == NoSession \in Session /\ \A g \in Grants : SessionOf(g) \in Session
BY DEF NoSession, SessionOf, Session

LEMMA ShapeStep ==
  ASSUME Shape, Held, Queue, Next
  PROVE  Shape'
<1> USE FlowNames, Sessions
<1>1. CASE StorageStep
  <2>1. /\ Len(ipc) \in Nat \ {0} /\ ipc[1] \in CallType /\ ipc' \in Seq(CallType)
        /\ UNCHANGED <<server, cache, loaded, hand, ui, worker, left, history>>
    BY <1>1, StorageFacts
  <2>2. PICK k \in Rest(ipc[1].todo) :
          k \in Keys /\ Read(k) \in Session /\ Stores(k) /\ (Advances(k) \/ Finishes(k))
    BY <1>1, StorageFacts
  <2>3. /\ ipc[1].vals \in Session /\ ipc[1].who \in Flows /\ ipc[1].next \in Places
        /\ ipc[1].op \in {"load", "set", "clear"}
    BY <2>1 DEF CallType, Places
  <2>4. store' \in Session
    BY <2>2, <2>3 DEF Stores, Shape, Session
  <2>5. pc' \in [Flows -> Places] /\ got' \in [Flows -> Session]
    <3>1. CASE Advances(k)
      BY <3>1 DEF Advances, Shape
    <3>2. CASE Finishes(k)
      <4>1. pc' \in [Flows -> Places]
        BY <2>3, <3>2 DEF Finishes, Shape
      <4>2. got' \in [Flows -> Session]
        BY <2>2, <2>3, <3>2 DEF Finishes, Shape
      <4> QED
        BY <4>1, <4>2
    <3> QED
      BY <2>2, <3>1, <3>2
  <2> QED
    BY <2>1, <2>4, <2>5 DEF Shape, server, history
<1>2. CASE RefreshLoaded
  <2>1. RefreshWith(got["refresh"], hand, pc) /\ got["refresh"] \in Session
    BY <1>2 DEF RefreshLoaded, Shape
  <2>2. got' \in [Flows -> Session]
    BY <1>2 DEF RefreshLoaded, Shape
  <2>3. pc \in [Flows -> Places]
    BY DEF Shape
  <2>4. /\ cache' \in Session /\ loaded' \in BOOLEAN /\ pc' \in [Flows -> Places]
        /\ hand' \in [Flows -> Grants \cup {0}] /\ ipc' \in Seq(CallType)
        /\ wanted' = wanted /\ straddled' \in BOOLEAN /\ torn' = torn /\ rotated' = rotated
    BY <2>1, <2>3, RefreshShape
  <2> QED
    BY <1>2, <2>2, <2>4 DEF RefreshLoaded, Shape, server
<1>3. CASE RefreshGranted
  <2>1. PICK g \in Grants :
          Issue(owner[hand["refresh"]], g) /\ SetsSession("refresh", g, pc)
    BY <1>3 DEF RefreshGranted
  <2>2. ipc' \in Seq(CallType)
    BY <2>1, SetIsCall DEF SetsSession, Shape
  <2>3. owner' \in [Grants -> Users \cup {None}]
    <3>1. hand["refresh"] \in Issued
      BY <1>3 DEF RefreshGranted, Held
    <3>2. owner[hand["refresh"]] \in Users
      BY <3>1 DEF Issued, Shape
    <3> QED
      BY <2>1, <3>2 DEF Issue, Shape
  <2>4. cache' \in Session /\ loaded' \in BOOLEAN /\ pc' \in [Flows -> Places]
    BY <2>1 DEF SetsSession, Shape, Places
  <2>5. straddled' \in BOOLEAN /\ torn' \in BOOLEAN /\ wanted' = wanted /\ rotated' = rotated
    BY <1>3 DEF RefreshGranted, Writes, MeetsWorker
  <2> QED
    BY <1>3, <2>2, <2>3, <2>4, <2>5 DEF RefreshGranted, Shape
<1>4. CASE RefreshDenied
  <2>1. ClearsSession("refresh", pc) /\ Changes(InFlight \ {"refresh"}, 0)
    BY <1>4 DEF RefreshDenied
  <2>2. ipc' \in Seq(CallType)
    BY <2>1, ClearIsCall DEF ClearsSession, Shape
  <2>3. cache' \in Session /\ loaded' \in BOOLEAN /\ pc' \in [Flows -> Places]
    BY <2>1 DEF ClearsSession, Shape, Places
  <2>4. straddled' \in BOOLEAN /\ wanted' \in Grants \cup {0} /\ rotated' = rotated
    BY <2>1 DEF Changes
  <2> QED
    BY <1>4, <2>2, <2>3, <2>4 DEF RefreshDenied, Shape, server
<1>5. CASE RefreshStored
  BY <1>5 DEF RefreshStored, Retried, RetryHand, Places, Session, Keys, Shape, server, history
<1>6. CASE RefreshCleared
  BY <1>6 DEF RefreshCleared, Failed, FailedHand, Places, Session, Keys, Shape, server, history
<1>7. CASE RefreshUnreachable
  BY <1>7 DEF RefreshUnreachable, Failed, FailedHand, Places, Shape, server, history
<1>8. CASE Mount
  <2>1. ipc' \in Seq(CallType)
    BY <1>8, LoadIsCall DEF Mount, Shape
  <2>2. pc' \in [Flows -> Places]
    BY <1>8 DEF Mount, Shape, Places
  <2> QED
    BY <1>8, <2>1, <2>2 DEF Mount, Shape, server, history
<1>9. CASE Hydrate
  BY <1>9 DEF Hydrate, Assigns, Session, Keys, Places, Shape, server, history
<1>10. CASE LoginGranted
  <2>1. PICK u \in Users, g \in Grants :
          /\ Issue(u, g)
          /\ SetsSession("login", g, pc)
          /\ hand' = [hand EXCEPT !["login"] = g]
          /\ Changes(InFlight \ {"login"}, g) /\ MeetsWorker(u)
    BY <1>10 DEF LoginGranted
  <2>2. ipc' \in Seq(CallType)
    BY <2>1, SetIsCall DEF SetsSession, Shape
  <2>3. owner' \in [Grants -> Users \cup {None}]
    BY <2>1 DEF Issue, Shape
  <2>4. cache' \in Session /\ loaded' \in BOOLEAN /\ pc' \in [Flows -> Places]
    BY <2>1 DEF SetsSession, Shape, Places
  <2>5. /\ straddled' \in BOOLEAN /\ torn' \in BOOLEAN /\ wanted' \in Grants /\ rotated' = rotated
        /\ hand' \in [Flows -> Grants \cup {0}]
    BY <2>1 DEF Changes, MeetsWorker, Shape
  <2> QED
    BY <1>10, <2>2, <2>3, <2>4, <2>5 DEF LoginGranted, Shape
<1>11. CASE LoginStored
  BY <1>11 DEF LoginStored, Places, Shape, server, history
<1>12. CASE LogoutCleared
  BY <1>12 DEF LogoutCleared, Places, Shape, server, history
<1>13. CASE Reloaded
  BY <1>13 DEF Reloaded, Assigns, Session, Keys, Places, Shape, server, history
<1>14. CASE Login
  BY <1>14 DEF Login, Places, Shape, server, history
<1>15. CASE LoginWrong
  <2>1. CASE JoinRefresh("login")
    <3>1. /\ cache' \in Session /\ loaded' \in BOOLEAN /\ pc' \in [Flows -> Places]
          /\ hand' \in [Flows -> Grants \cup {0}] /\ ipc' \in Seq(CallType)
          /\ wanted' = wanted /\ straddled' \in BOOLEAN /\ torn' = torn /\ rotated' = rotated
      BY <2>1, JoinShape
    <3> QED
      BY <1>15, <3>1 DEF LoginWrong, Shape, server
  <2>2. CASE /\ pc' = [pc EXCEPT !["login"] = "idle"]
             /\ UNCHANGED <<ipc, cache, loaded, hand, history>>
    BY <1>15, <2>2 DEF LoginWrong, Shape, Places, server, history
  <2> QED
    BY <1>15, <2>1, <2>2 DEF LoginWrong
<1>16. CASE Logout
  <2>1. ClearsSession("logout", pc) /\ Changes(InFlight, 0)
    BY <1>16 DEF Logout
  <2>2. ipc' \in Seq(CallType)
    BY <2>1, ClearIsCall DEF ClearsSession, Shape
  <2>3. cache' \in Session /\ loaded' \in BOOLEAN /\ pc' \in [Flows -> Places]
    BY <2>1 DEF ClearsSession, Shape, Places
  <2>4. straddled' \in BOOLEAN /\ wanted' \in Grants \cup {0} /\ rotated' = rotated
    BY <2>1 DEF Changes
  <2> QED
    BY <1>16, <2>2, <2>3, <2>4 DEF Logout, Shape, server
<1>17. CASE Focus
  <2>1. ipc' \in Seq(CallType)
    BY <1>17, LoadIsCall DEF Focus, Shape
  <2>2. pc' \in [Flows -> Places]
    BY <1>17 DEF Focus, Shape, Places
  <2> QED
    BY <1>17, <2>1, <2>2 DEF Focus, Shape, server, history
<1>18. CASE WorkerRead
  BY <1>18 DEF WorkerRead, app, Session, Keys, Shape, server, history
<1>19. CASE WorkerGranted
  <2>1. owner' \in [Grants -> Users \cup {None}]
    <3>1. PICK g \in Grants : Issue(owner[worker.token], g)
      BY <1>19 DEF WorkerGranted
    <3>2. owner[worker.token] \in Users
      BY <1>19 DEF WorkerGranted, Issued, Held, Shape
    <3> QED
      BY <3>1, <3>2 DEF Issue, Shape
  <2>2. worker' \in [at : {"idle", "post", "token", "refresh"}, token : Grants \cup {0}]
    BY <1>19 DEF WorkerGranted
  <2> QED
    BY <1>19, <2>1, <2>2 DEF WorkerGranted, Shape, app, history
<1>20. CASE WorkerGivesUp
  BY <1>20 DEF WorkerGivesUp, app, WorkerIdle, Shape, server, history
<1>21. CASE WorkerSets
  BY <1>21 DEF WorkerSets, app, WorkerIdle, Session, Shape, server, history
<1>22. CASE Expire
  BY <1>22 DEF Expire, app, Shape, server, history
<1>23. CASE Refuse
  BY <1>23 DEF Refuse, app, Shape, server, history
<1>24. CASE Restart
  <2>1. pc' \in [Flows -> Places] /\ hand' \in [Flows -> Grants \cup {0}]
    BY <1>24 DEF Restart, Places
  <2>2. cache' \in Session /\ got' \in [Flows -> Session]
    BY <1>24 DEF Restart
  <2>3. straddled' \in BOOLEAN /\ torn' \in BOOLEAN /\ ipc' = <<>> /\ loaded' = FALSE /\ ui' = 0
    BY <1>24 DEF Restart
  <2> QED
    <3>0. <<>> \in Seq(CallType)
      OBVIOUS
    <3>1. ipc' \in Seq(CallType) /\ ui' \in Grants \cup {0} /\ loaded' \in BOOLEAN
      BY <2>3, <3>0, Zenon
    <3>2. UNCHANGED <<owner, store, worker, wanted, rotated>>
      BY <1>24 DEF Restart, server
    <3> QED
      BY <2>1, <2>2, <2>3, <3>1, <3>2 DEF Shape
<1>25. ASSUME NEW r \in Requests, Request(r)
      PROVE  Shape'
  <2>1. CASE loaded
    BY <1>25, <2>1 DEF Request, Shape, Session, Keys, Places, server, history
  <2>2. CASE ~loaded
    <3>1. ipc' = Append(ipc, LoadCall(r, "loaded"))
      BY <1>25, <2>2 DEF Request
    <3>2. ipc' \in Seq(CallType) /\ r \in Flows
      BY <3>1, LoadIsCall DEF Shape
    <3>3. pc' \in [Flows -> Places]
      BY <1>25, <2>2, <3>2 DEF Request, Shape, Places
    <3> QED
      BY <1>25, <2>2, <3>2, <3>3 DEF Request, Shape, server, history
  <2> QED
    BY <2>1, <2>2
<1>26. ASSUME NEW f \in Callers, Caller(f)
      PROVE  Shape'
  <2>0. f \in Flows
    OBVIOUS
  <2>1. CASE RequestLoaded(f)
    BY <2>0, <2>1 DEF RequestLoaded, Assigns, Shape, Session, Keys, Places, server, history
  <2>2. CASE RetryLoad(f)
    <3>1. ipc' \in Seq(CallType)
      BY <2>0, <2>2, LoadIsCall DEF RetryLoad, Shape
    <3>2. pc' \in [Flows -> Places]
      BY <2>0, <2>2 DEF RetryLoad, Shape, Places
    <3> QED
      BY <2>2, <3>1, <3>2 DEF RetryLoad, Shape, server, history
  <2>3. CASE Answered(f)
    BY <2>0, <2>3 DEF Answered, Ends, Shape, Places, server, history
  <2>4. CASE Unauthorised(f)
    <3>1. CASE JoinRefresh(f) /\ UNCHANGED ui
      <4>1. /\ cache' \in Session /\ loaded' \in BOOLEAN /\ pc' \in [Flows -> Places]
            /\ hand' \in [Flows -> Grants \cup {0}] /\ ipc' \in Seq(CallType)
            /\ wanted' = wanted /\ straddled' \in BOOLEAN /\ torn' = torn /\ rotated' = rotated
        BY <2>0, <3>1, JoinShape
      <4> QED
        BY <2>4, <3>1, <4>1 DEF Unauthorised, Shape, server
    <3>2. CASE Ends(f, FALSE) /\ UNCHANGED <<ipc, cache, loaded, history>>
      BY <2>0, <2>4, <3>2 DEF Unauthorised, Ends, Shape, Places, server, history
    <3> QED
      BY <2>4, <3>1, <3>2 DEF Unauthorised
  <2>5. CASE Unanswered(f)
    BY <2>0, <2>5 DEF Unanswered, Ends, Shape, Places, server, history
  <2> QED
    BY <1>26, <2>1, <2>2, <2>3, <2>4, <2>5 DEF Caller
<1> QED
  <2>1. CASE Progress
    BY <1>1, <1>2, <1>3, <1>4, <1>5, <1>6, <1>7, <1>8, <1>9, <1>10, <1>11, <1>12, <1>13, <1>26, <2>1 DEF Progress
  <2> QED
    BY <2>1, <1>14, <1>15, <1>16, <1>17, <1>18, <1>19, <1>20, <1>21, <1>22, <1>23, <1>24, <1>25 DEF Next

-----------------------------------------------------------------------------
(* The kinds of steps, by what they do to the queue, the cache and what was read *)

Waiting == {"load", "store", "clear"}
Brought == {"loaded", "reloaded"}

\* Of the other flows none stops waiting, begins to, or is brought a session.
Apart(f) ==
  /\ \A g \in Flows \ {f} :
       /\ pc[g] \in Waiting => pc'[g] = pc[g]
       /\ pc'[g] \in Waiting \cup Brought => pc'[g] = pc[g]
  /\ f # "logout" => pc'["logout"] = pc["logout"]

\* No other flow reads the session; no other flow is in flight, nor the worker.
Unread(f) == \A g \in Flows \ {f} : pc[g] # "load" /\ pc[g] \notin Brought
Alone(f) == InFlight \ {f} = {} /\ worker.at = "idle"

\* A call is answered or given up, a flow is told, time passes.
KeepsStep ==
  /\ UNCHANGED <<owner, store, ipc, cache, loaded, got, worker,
                 wanted, straddled, torn, rotated>>
  /\ \A g \in Flows :
       /\ pc[g] \in Waiting => pc'[g] = pc[g]
       /\ pc'[g] \in Waiting \cup Brought => pc'[g] = pc[g]
  /\ pc'["logout"] \in {pc["logout"], "idle"}
  /\ Booting => Booting'

\* A flow begins to read the session.
LoadStep(f, n) ==
  /\ pc[f] \notin Waiting /\ pc'[f] = "load" /\ f # "logout" /\ Apart(f)
  /\ ipc' = Append(ipc, LoadCall(f, n))
  /\ UNCHANGED <<owner, store, cache, got, worker, wanted, straddled, torn, rotated>>
  /\ Booting => Booting'

\* A flow assigns what it read to the cache.
AssignStep(f) ==
  /\ pc[f] \in Brought /\ pc'[f] \notin Waiting \cup Brought /\ f # "logout" /\ Apart(f)
  /\ cache' = got[f] /\ loaded' = TRUE /\ got' = [got EXCEPT ![f] = NoSession]
  /\ UNCHANGED <<owner, store, ipc, worker, wanted, straddled, torn, rotated>>

\* A flow clears the session: because none is asked for, or nobody is there to mind.
ClearStep(f) ==
  /\ pc[f] \notin Waiting /\ pc'[f] = "clear" /\ Apart(f)
  /\ cache' = NoSession /\ loaded' = TRUE /\ ipc' = Append(ipc, ClearCall(f))
  /\ got' = got \/ got' = [got EXCEPT ![f] = NoSession]
  /\ UNCHANGED <<owner, store, worker, torn, rotated>>
  /\ wanted' \in {wanted, 0}
  /\ ~straddled' =>
       /\ ~straddled /\ Unread(f)
       /\ \/ wanted' = wanted /\ User(wanted) = None
          \/ wanted' = 0 /\ Alone(f)

\* A flow sets the session to a grant g issued to u.
SetStep(f, g, u) ==
  /\ pc[f] \notin Waiting \cup Brought /\ pc'[f] = "store" /\ Apart(f)
  /\ g \notin Issued /\ owner' = [owner EXCEPT ![g] = u]
  /\ cache' = SessionOf(g) /\ loaded' = TRUE /\ ipc' = Append(ipc, SetCall(f, g))
  /\ UNCHANGED <<store, got, worker, rotated>>
  /\ torn' = (torn \/ (worker.at # "idle" /\ User(worker.token) # u))
  /\ wanted' \in {wanted, g}
  /\ ~straddled' =>
       /\ ~straddled /\ Unread(f)
       /\ \/ wanted' = wanted /\ User(wanted) = u
          \/ wanted' = g /\ Alone(f)

Kinds ==
  \/ KeepsStep
  \/ \E f \in Flows, n \in Brought : LoadStep(f, n)
  \/ \E f \in Flows : AssignStep(f)
  \/ \E f \in {"refresh", "logout"} : ClearStep(f)
  \/ \E f \in {"refresh", "login"}, g \in Grants, u \in Users : SetStep(f, g, u)
  \/ StorageStep \/ Restart
  \/ WorkerRead \/ WorkerGranted \/ WorkerGivesUp \/ WorkerSets

\* While the start-up is the only flow, no other one goes on.
LEMMA NotBooting ==
  ASSUME NEW f \in Flows, pc[f] # "idle",
         f # "start" \/ pc[f] \notin {"mount", "load", "loaded"}
  PROVE  ~Booting
BY DEF Booting

\* performRefresh, begun by the refresh itself (f is "refresh") or by a caller f.
LEMMA RefreshKinds ==
  ASSUME SessionInv, NEW f \in Flows, NEW s \in Session, NEW pcs,
         pcs = pc \/ (pcs = [pc EXCEPT ![f] = "wait"] /\ f # "refresh"),
         f # "logout", pc[f] \notin Waiting, pc[f] # "wait" ,
         f # "refresh" => pc[f] \notin Brought,
         pc["refresh"] \in {"idle", "loaded"},
         RefreshWith(s, hand, pcs),
         ~straddled => Full(s),
         UNCHANGED <<owner, store, worker>>
  PROVE  /\ \/ /\ cache' = s /\ loaded' = TRUE /\ ipc' = ipc
               /\ pc'["refresh"] = "post" /\ Apart("refresh")
               /\ UNCHANGED <<wanted, straddled, torn, rotated>>
            \/ /\ cache' = NoSession /\ loaded' = TRUE /\ ipc' = Append(ipc, ClearCall("refresh"))
               /\ pc'["refresh"] = "clear" /\ Apart("refresh")
               /\ UNCHANGED <<wanted, torn, rotated>>
               /\ ~straddled' => ~straddled /\ Unread("refresh") /\ User(wanted) = None
<1> USE FlowNames
<1>1. pc \in [Flows -> Places]
  BY DEF SessionInv, Shape
<1>2. pcs \in [Flows -> Places]
  BY <1>1 DEF Places
<1>3. ASSUME NEW p \in {"post", "clear"}, pc' = [pcs EXCEPT !["refresh"] = p]
      PROVE  pc'["refresh"] = p /\ Apart("refresh")
  <2>1. pc'["refresh"] = p
    BY <1>2, <1>3
  <2>2. \A g \in Flows \ {"refresh"} : pc'[g] = pcs[g]
    BY <1>2, <1>3
  <2>3. \A g \in Flows \ {"refresh"} : pc'[g] = pc[g] \/ (g = f /\ pc'[g] = "wait")
    BY <1>1, <2>2
  <2>4. /\ \A g \in Flows \ {"refresh"} : pc[g] \in Waiting => pc'[g] = pc[g]
        /\ \A g \in Flows \ {"refresh"} : pc'[g] \in Waiting \cup Brought => pc'[g] = pc[g]
    BY <2>3 DEF Waiting, Brought
  <2>5. pc'["logout"] = pc["logout"]
    BY <2>3
  <2> QED
    BY <2>1, <2>4, <2>5 DEF Apart
<1>4. CASE /\ s["refresh"] = 0
           /\ ClearsSession("refresh", pcs) /\ Writes(Reading \ {"refresh"})
           /\ hand' = hand
           /\ UNCHANGED torn
  <2>1. pc' = [pcs EXCEPT !["refresh"] = "clear"]
    BY <1>4 DEF ClearsSession
  <2>2. pc'["refresh"] = "clear" /\ Apart("refresh")
    BY <1>3, <2>1
  <2>3. UNCHANGED <<wanted, torn, rotated>>
    BY <1>4 DEF Writes
  <2>4. ASSUME ~straddled'
        PROVE  ~straddled /\ Unread("refresh") /\ User(wanted) = None
    <3>1. ~straddled /\ Reading \ {"refresh"} = {}
      BY <1>4, <2>4 DEF Writes
    <3>2. Unread("refresh")
      BY <3>1 DEF Unread, Reading, Brought
    <3>3. User(wanted) = None
      BY <1>4, <3>1 DEF Full, Keys, User
    <3> QED
      BY <3>1, <3>2, <3>3
  <2> QED
    BY <1>4, <2>2, <2>3, <2>4 DEF ClearsSession
<1>5. CASE /\ s["refresh"] # 0
           /\ cache' = s /\ loaded' = TRUE
           /\ hand' = [hand EXCEPT !["refresh"] = s["refresh"]]
           /\ pc' = [pcs EXCEPT !["refresh"] = "post"]
           /\ UNCHANGED <<ipc, history>>
  BY <1>3, <1>5 DEF history
<1> QED
  BY <1>4, <1>5 DEF RefreshWith

LEMMA JoinKinds ==
  ASSUME SessionInv, NEW f \in Callers, pc[f] = "sent", JoinRefresh(f),
         UNCHANGED <<owner, store, got, worker>>
  PROVE  KeepsStep \/ LoadStep("refresh", "loaded") \/ ClearStep("refresh")
<1> USE FlowNames
<1> DEFINE pcs == [pc EXCEPT ![f] = "wait"]
<1>1. pc \in [Flows -> Places] /\ cache \in Session
  BY DEF SessionInv, Shape
<1>2. ~Booting
  BY NotBooting
<1>3. \A g \in Flows : pcs[g] = pc[g] \/ (g = f /\ pcs[g] = "wait")
  BY <1>1
<1>4. CASE /\ pc["refresh"] # "idle"
           /\ pc' = pcs
           /\ UNCHANGED <<cache, loaded, hand, ipc, history>>
  BY <1>1, <1>2, <1>4 DEF KeepsStep, Waiting, Brought, history
<1>5. CASE /\ pc["refresh"] = "idle" /\ ~loaded
           /\ pc' = [pcs EXCEPT !["refresh"] = "load"]
           /\ ipc' = Append(ipc, LoadCall("refresh", "loaded"))
           /\ UNCHANGED <<cache, loaded, hand, history>>
  BY <1>1, <1>2, <1>5 DEF LoadStep, Apart, Waiting, Brought, history
<1>6. CASE /\ pc["refresh"] = "idle" /\ loaded
           /\ RefreshWith(cache, hand, pcs)
  <2>1. ~straddled => Full(cache)
    BY <1>2 DEF SessionInv, StraightHands
  <2>2. \/ /\ cache' = cache /\ loaded' = TRUE /\ ipc' = ipc
           /\ pc'["refresh"] = "post" /\ Apart("refresh")
           /\ UNCHANGED <<wanted, straddled, torn, rotated>>
        \/ /\ cache' = NoSession /\ loaded' = TRUE /\ ipc' = Append(ipc, ClearCall("refresh"))
           /\ pc'["refresh"] = "clear" /\ Apart("refresh")
           /\ UNCHANGED <<wanted, torn, rotated>>
           /\ ~straddled' => ~straddled /\ Unread("refresh") /\ User(wanted) = None
    <3>1. f \in Flows /\ f # "refresh" /\ f # "logout"
      OBVIOUS
    <3>2. pc[f] \notin Waiting /\ pc[f] # "wait" /\ pc[f] \notin Brought
      BY DEF Waiting, Brought
    <3> HIDE FlowNames
    <3> QED
      BY <1>1, <1>6, <2>1, <3>1, <3>2, RefreshKinds
  <2>3. ASSUME cache' = cache, loaded' = TRUE, ipc' = ipc,
               pc'["refresh"] = "post", Apart("refresh"),
               UNCHANGED <<wanted, straddled, torn, rotated>>
        PROVE  KeepsStep
    <3>1. loaded' = loaded
      BY <1>6, <2>3 DEF SessionInv, Shape
    <3> QED
      BY <1>2, <1>6, <2>3, <3>1 DEF KeepsStep, Apart, Waiting, Brought
  <2>4. ASSUME cache' = NoSession, loaded' = TRUE, ipc' = Append(ipc, ClearCall("refresh")),
               pc'["refresh"] = "clear", Apart("refresh"),
               UNCHANGED <<wanted, torn, rotated>>,
               ~straddled' => ~straddled /\ Unread("refresh") /\ User(wanted) = None
        PROVE  ClearStep("refresh")
    BY <1>6, <2>4 DEF ClearStep, Waiting
  <2> QED
    BY <2>2, <2>3, <2>4
<1> QED
  BY <1>4, <1>5, <1>6 DEF JoinRefresh

\* The start-up begins to read while nothing else has begun.
LEMMA MountBooting ==
  ASSUME SessionInv, Mount, Booting
  PROVE  Booting'
<1> USE FlowNames
<1>1. /\ pc \in [Flows -> Places] /\ pc' = [pc EXCEPT !["start"] = "load"]
      /\ ipc' = Append(ipc, LoadCall("start", "loaded"))
      /\ UNCHANGED <<cache, loaded, ui>>
  BY DEF Mount, SessionInv, Shape
<1>2. ipc \in Seq(CallType) /\ LoadCall("start", "loaded") \in CallType
  BY CallTypes, SessionAssumption DEF SessionInv, Shape, Grants
<1>3. Adds(LoadCall("start", "loaded"))
  BY <1>1, <1>2, AppendAdds
<1>4. LoadCall("start", "loaded").next = "loaded"
  BY DEF LoadCall, Call
<1>5. \A i \in 1 .. Len(ipc') : ipc'[i].next = "loaded"
  BY <1>2, <1>3, <1>4 DEF Adds, Booting
<1> QED
  BY <1>1, <1>5 DEF Booting

LEMMA NextKinds ==
  ASSUME SessionInv, Next
  PROVE  Kinds
<1> USE FlowNames
<1>1. pc \in [Flows -> Places] /\ cache \in Session /\ got \in [Flows -> Session]
  BY DEF SessionInv, Shape
<1>2. pc["logout"] \in {"idle", "clear", "cleared"}
  BY DEF SessionInv, Queue
<1>3. CASE RefreshLoaded
  <2> DEFINE s == got["refresh"]
  <2>1. /\ pc["refresh"] = "loaded" /\ RefreshWith(s, hand, pc)
        /\ got' = [got EXCEPT !["refresh"] = NoSession]
        /\ UNCHANGED <<owner, store, worker>> /\ s \in Session
    BY <1>1, <1>3 DEF RefreshLoaded, server
  <2>2. ~straddled => Full(s)
    BY <2>1 DEF SessionInv, StraightReads
  <2>3. pc["refresh"] \notin Waiting /\ pc["refresh"] # "wait" /\ "refresh" # "logout"
    BY <2>1 DEF Waiting
  <2> HIDE DEF s
  <2>4. \/ /\ cache' = s /\ loaded' = TRUE /\ ipc' = ipc
           /\ pc'["refresh"] = "post" /\ Apart("refresh")
           /\ UNCHANGED <<wanted, straddled, torn, rotated>>
        \/ /\ cache' = NoSession /\ loaded' = TRUE /\ ipc' = Append(ipc, ClearCall("refresh"))
           /\ pc'["refresh"] = "clear" /\ Apart("refresh")
           /\ UNCHANGED <<wanted, torn, rotated>>
           /\ ~straddled' => ~straddled /\ Unread("refresh") /\ User(wanted) = None
    BY <2>1, <2>2, <2>3, RefreshKinds
  <2>5. ASSUME cache' = s, loaded' = TRUE, ipc' = ipc, pc'["refresh"] = "post",
               Apart("refresh"), UNCHANGED <<wanted, straddled, torn, rotated>>
        PROVE  AssignStep("refresh")
    BY <2>1, <2>5 DEF AssignStep, Waiting, Brought, s
  <2>6. ASSUME cache' = NoSession, loaded' = TRUE, ipc' = Append(ipc, ClearCall("refresh")),
               pc'["refresh"] = "clear", Apart("refresh"), UNCHANGED <<wanted, torn, rotated>>,
               ~straddled' => ~straddled /\ Unread("refresh") /\ User(wanted) = None
        PROVE  ClearStep("refresh")
    BY <2>1, <2>3, <2>6 DEF ClearStep
  <2> QED
    BY <2>4, <2>5, <2>6 DEF Kinds
<1>4. CASE RefreshGranted
  <2>1. PICK g \in Grants :
          Issue(owner[hand["refresh"]], g) /\ SetsSession("refresh", g, pc)
    BY <1>4 DEF RefreshGranted
  <2> DEFINE u == owner[hand["refresh"]]
  <2>2. /\ pc["refresh"] = "post" /\ Writes(Reading) /\ MeetsWorker(u)
        /\ UNCHANGED <<store, got, worker>>
    BY <1>4 DEF RefreshGranted
  <2>3. hand["refresh"] \in Issued /\ u \in Users /\ User(hand["refresh"]) = u
    BY <2>2 DEF SessionInv, Held, Issued, Shape, User, Grants
  <2>4. /\ g \notin Issued /\ owner' = [owner EXCEPT ![g] = u]
    BY <2>1 DEF Issue
  <2> HIDE DEF u
  <2>5. /\ cache' = SessionOf(g) /\ loaded' = TRUE /\ ipc' = Append(ipc, SetCall("refresh", g))
        /\ pc' = [pc EXCEPT !["refresh"] = "store"]
    BY <2>1 DEF SetsSession
  <2>6. Apart("refresh") /\ pc'["refresh"] = "store" /\ pc["refresh"] \notin Waiting \cup Brought
    BY <1>1, <2>2, <2>5 DEF Apart, Waiting, Brought
  <2>7. ASSUME ~straddled'
        PROVE  ~straddled /\ Unread("refresh") /\ wanted' = wanted /\ User(wanted) = u
    BY <2>2, <2>3, <2>7 DEF Writes, Unread, Reading, Brought, SessionInv, StraightHands
  <2>8. /\ rotated' = rotated /\ torn' = (torn \/ (worker.at # "idle" /\ User(worker.token) # u))
        /\ wanted' = wanted
    BY <2>2 DEF Writes, MeetsWorker
  <2>9. SetStep("refresh", g, u)
    BY <2>2, <2>4, <2>5, <2>6, <2>7, <2>8 DEF SetStep
  <2> QED
    BY <2>3, <2>9 DEF Kinds
<1>5. CASE RefreshDenied
  <2>1. /\ pc["refresh"] = "post" /\ ClearsSession("refresh", pc)
        /\ Changes(InFlight \ {"refresh"}, 0)
        /\ UNCHANGED <<owner, store, got, worker, torn>>
    BY <1>5 DEF RefreshDenied, server
  <2>2. /\ cache' = NoSession /\ loaded' = TRUE /\ ipc' = Append(ipc, ClearCall("refresh"))
        /\ pc' = [pc EXCEPT !["refresh"] = "clear"]
    BY <2>1 DEF ClearsSession
  <2>3. Apart("refresh") /\ pc'["refresh"] = "clear" /\ pc["refresh"] \notin Waiting
    BY <1>1, <2>1, <2>2 DEF Apart, Waiting, Brought
  <2>4. rotated' = rotated /\ wanted' = 0
    BY <2>1 DEF Changes
  <2>5. ASSUME ~straddled'
        PROVE  ~straddled /\ Unread("refresh") /\ wanted' = 0 /\ Alone("refresh")
    BY <2>1, <2>5 DEF Changes, Unread, Alone, InFlight, Reading, Brought
  <2>6. ClearStep("refresh")
    BY <2>1, <2>2, <2>3, <2>4, <2>5 DEF ClearStep
  <2> QED
    BY <2>6 DEF Kinds
<1>6. CASE RefreshStored
  <2>1. ~Booting
    BY <1>6, NotBooting DEF RefreshStored
  <2>2. \A g \in Flows : pc'[g] = pc[g] \/ pc'[g] \in {"idle", "resent", "again"}
    BY <1>6 DEF RefreshStored, Retried
  <2>3. \A g \in Flows : pc[g] \in Waiting => pc'[g] = pc[g]
    BY <1>6 DEF RefreshStored, Retried, Waiting
  <2>4. pc'["logout"] = pc["logout"]
    BY <1>2, <1>6 DEF RefreshStored, Retried
  <2>5. KeepsStep
    BY <1>6, <2>1, <2>2, <2>3, <2>4
    DEF RefreshStored, KeepsStep, Waiting, Brought, server, history
  <2> QED
    BY <2>5 DEF Kinds
<1>7. CASE RefreshCleared \/ RefreshUnreachable
  <2>1. ~Booting
    BY <1>7, NotBooting DEF RefreshCleared, RefreshUnreachable
  <2>2. pc["refresh"] \notin Waiting /\ pc' = Failed
    BY <1>7 DEF RefreshCleared, RefreshUnreachable, Waiting
  <2>3. \A g \in Flows : pc'[g] = pc[g] \/ pc'[g] = "idle"
    BY <2>2 DEF Failed
  <2>4. \A g \in Flows : pc[g] \in Waiting => pc'[g] = pc[g]
    BY <2>2 DEF Failed, Waiting
  <2>5. UNCHANGED <<owner, store, ipc, cache, loaded, got, worker, wanted, straddled, torn, rotated>>
    BY <1>7 DEF RefreshCleared, RefreshUnreachable, server, history
  <2>6. KeepsStep
    BY <2>1, <2>3, <2>4, <2>5 DEF KeepsStep, Waiting, Brought
  <2> QED
    BY <2>6 DEF Kinds
<1>8. CASE Mount
  <2>1. /\ pc["start"] = "mount" /\ pc' = [pc EXCEPT !["start"] = "load"]
        /\ ipc' = Append(ipc, LoadCall("start", "loaded"))
        /\ UNCHANGED <<owner, store, cache, loaded, got, ui, worker,
                       wanted, straddled, torn, rotated>>
    BY <1>8 DEF Mount, server, history
  <2>2. Apart("start") /\ pc'["start"] = "load" /\ pc["start"] \notin Waiting
    BY <1>1, <2>1 DEF Apart, Waiting, Brought
  <2>3. Booting => Booting'
    BY <1>8, MountBooting
  <2>4. LoadStep("start", "loaded")
    BY <2>1, <2>2, <2>3 DEF LoadStep
  <2> QED
    BY <2>4 DEF Kinds, Brought
<1>9. CASE Hydrate
  <2>1. /\ pc["start"] = "loaded" /\ Assigns("start")
        /\ pc' = [pc EXCEPT !["start"] = IF cache'["token"] = 0 THEN "idle" ELSE "sent"]
        /\ UNCHANGED <<owner, store, ipc, worker, wanted, straddled, torn, rotated>>
    BY <1>9 DEF Hydrate, server, history
  <2>2. AssignStep("start")
    BY <1>1, <2>1 DEF AssignStep, Assigns, Apart, Waiting, Brought
  <2> QED
    BY <2>2 DEF Kinds
<1>10. CASE LoginGranted
  <2>1. PICK u \in Users, g \in Grants :
          /\ Issue(u, g)
          /\ SetsSession("login", g, pc)
          /\ Changes(InFlight \ {"login"}, g) /\ MeetsWorker(u)
    BY <1>10 DEF LoginGranted
  <2>2. pc["login"] \in {"sent", "resent"} /\ UNCHANGED <<store, got, worker>>
    BY <1>10 DEF LoginGranted, InCall
  <2>3. /\ cache' = SessionOf(g) /\ loaded' = TRUE /\ ipc' = Append(ipc, SetCall("login", g))
        /\ pc' = [pc EXCEPT !["login"] = "store"]
        /\ g \notin Issued /\ owner' = [owner EXCEPT ![g] = u]
    BY <2>1 DEF SetsSession, Issue
  <2>4. Apart("login") /\ pc'["login"] = "store" /\ pc["login"] \notin Waiting \cup Brought
    BY <1>1, <2>2, <2>3 DEF Apart, Waiting, Brought
  <2>5. ASSUME ~straddled'
        PROVE  ~straddled /\ Unread("login") /\ wanted' = g /\ Alone("login")
    BY <2>1, <2>5 DEF Changes, Unread, Alone, InFlight, Reading, Brought
  <2>6. /\ rotated' = rotated /\ torn' = (torn \/ (worker.at # "idle" /\ User(worker.token) # u))
        /\ wanted' = g
    BY <2>1 DEF Changes, MeetsWorker
  <2>7. SetStep("login", g, u)
    BY <2>2, <2>3, <2>4, <2>5, <2>6 DEF SetStep
  <2> QED
    BY <2>7 DEF Kinds
<1>11. CASE LoginStored
  <2>1. /\ pc["login"] = "stored" /\ pc' = [pc EXCEPT !["login"] = "idle"] /\ ~Booting
    BY <1>11, NotBooting DEF LoginStored
  <2>2. KeepsStep
    BY <1>1, <1>11, <2>1 DEF LoginStored, KeepsStep, Waiting, Brought, server, history
  <2> QED
    BY <2>2 DEF Kinds
<1>12. CASE LogoutCleared
  <2>1. /\ pc["logout"] = "cleared" /\ pc' = [pc EXCEPT !["logout"] = "idle"] /\ ~Booting
    BY <1>12, NotBooting DEF LogoutCleared
  <2>2. KeepsStep
    BY <1>1, <1>12, <2>1 DEF LogoutCleared, KeepsStep, Waiting, Brought, server, history
  <2> QED
    BY <2>2 DEF Kinds
<1>13. CASE Reloaded
  <2>1. /\ pc["focus"] = "loaded" /\ Assigns("focus") /\ pc' = [pc EXCEPT !["focus"] = "idle"]
        /\ UNCHANGED <<owner, store, ipc, worker, wanted, straddled, torn, rotated>>
    BY <1>13 DEF Reloaded, server, history
  <2>2. AssignStep("focus")
    BY <1>1, <2>1 DEF AssignStep, Assigns, Apart, Waiting, Brought
  <2> QED
    BY <2>2 DEF Kinds
<1>14. CASE Login
  <2>1. /\ pc["login"] = "idle" /\ pc' = [pc EXCEPT !["login"] = "sent"] /\ ~Booting
    BY <1>14 DEF Login, Booting
  <2>2. KeepsStep
    BY <1>1, <1>14, <2>1 DEF Login, KeepsStep, Waiting, Brought, server, history
  <2> QED
    BY <2>2 DEF Kinds
<1>15. CASE LoginWrong
  <2>1. CASE pc["login"] = "sent" /\ JoinRefresh("login")
    <3>1. UNCHANGED <<owner, store, got, worker>> /\ "login" \in Callers
      BY <1>15 DEF LoginWrong, server, Callers
    <3> QED
      BY <2>1, <3>1, JoinKinds DEF Kinds, Brought
  <2>2. CASE /\ pc["login"] = "resent"
             /\ pc' = [pc EXCEPT !["login"] = "idle"]
             /\ UNCHANGED <<ipc, cache, loaded, hand, history>>
    <3>1. ~Booting
      BY <2>2, NotBooting
    <3>2. KeepsStep
      BY <1>1, <1>15, <2>2, <3>1 DEF LoginWrong, KeepsStep, Waiting, Brought, server, history
    <3> QED
      BY <3>2 DEF Kinds
  <2> QED
    BY <1>15, <2>1, <2>2 DEF LoginWrong
<1>16. CASE Logout
  <2>1. /\ pc["logout"] = "idle" /\ ClearsSession("logout", pc) /\ Changes(InFlight, 0)
        /\ UNCHANGED <<owner, store, got, worker, torn>>
    BY <1>16 DEF Logout, server
  <2>2. /\ cache' = NoSession /\ loaded' = TRUE /\ ipc' = Append(ipc, ClearCall("logout"))
        /\ pc' = [pc EXCEPT !["logout"] = "clear"]
    BY <2>1 DEF ClearsSession
  <2>3. Apart("logout") /\ pc'["logout"] = "clear" /\ pc["logout"] \notin Waiting
    BY <1>1, <2>1, <2>2 DEF Apart, Waiting, Brought
  <2>4. rotated' = rotated /\ wanted' = 0
    BY <2>1 DEF Changes
  <2>5. ASSUME ~straddled'
        PROVE  ~straddled /\ Unread("logout") /\ wanted' = 0 /\ Alone("logout")
    BY <2>1, <2>5 DEF Changes, Unread, Alone, InFlight, Reading, Brought
  <2>6. ClearStep("logout")
    BY <2>1, <2>2, <2>3, <2>4, <2>5 DEF ClearStep
  <2> QED
    BY <2>6 DEF Kinds
<1>17. CASE Focus
  <2>1. /\ pc["focus"] = "idle" /\ pc' = [pc EXCEPT !["focus"] = "load"] /\ ~Booting
    BY <1>17 DEF Focus, Booting
  <2>2. LoadStep("focus", "loaded")
    BY <1>1, <1>17, <2>1 DEF Focus, LoadStep, Apart, Waiting, Brought, server, history
  <2> QED
    BY <2>2 DEF Kinds, Brought
<1>18. CASE Expire \/ Refuse
  <2>1. UNCHANGED <<owner, store, ipc, cache, loaded, pc, got, ui, worker,
                    wanted, straddled, torn, rotated>>
    BY <1>18 DEF Expire, Refuse, app, history
  <2>2. Booting => Booting'
    BY <2>1 DEF Booting
  <2>3. KeepsStep
    BY <2>1, <2>2 DEF KeepsStep
  <2> QED
    BY <2>3 DEF Kinds
<1>19. ASSUME NEW r \in Requests, Request(r)
       PROVE  Kinds
  <2>1. ~Booting /\ pc[r] = "idle" /\ r \in Flows /\ r # "logout"
    BY <1>19 DEF Request, Booting
  <2>2. CASE loaded
    <3>1. KeepsStep
      BY <1>1, <1>19, <2>1, <2>2 DEF Request, KeepsStep, Waiting, Brought, server, history
    <3> QED
      BY <3>1 DEF Kinds
  <2>3. CASE ~loaded
    <3>1. LoadStep(r, "loaded")
      BY <1>1, <1>19, <2>1, <2>3 DEF Request, LoadStep, Apart, Waiting, Brought, server, history
    <3> QED
      BY <2>1, <3>1 DEF Kinds, Brought
  <2> QED
    BY <2>2, <2>3
<1>20. ASSUME NEW f \in Callers, Caller(f)
       PROVE  Kinds
  <2>1. f \in Flows /\ f # "logout" /\ f # "refresh"
    OBVIOUS
  <2>2. CASE RequestLoaded(f)
    <3>1. AssignStep(f)
      BY <1>1, <2>1, <2>2 DEF RequestLoaded, AssignStep, Assigns, Apart, Waiting, Brought, server, history
    <3> QED
      BY <2>1, <3>1 DEF Kinds
  <2>3. CASE RetryLoad(f)
    <3>1. ~Booting
      BY <2>1, <2>3, NotBooting DEF RetryLoad
    <3>2. LoadStep(f, "reloaded")
      BY <1>1, <2>1, <2>3, <3>1 DEF RetryLoad, LoadStep, Apart, Waiting, Brought, server, history
    <3> QED
      BY <2>1, <3>2 DEF Kinds, Brought
  <2>4. CASE Answered(f) \/ Unanswered(f)
    <3>1. pc[f] \in {"sent", "resent"} /\ pc' = [pc EXCEPT ![f] = "idle"]
      BY <2>4 DEF Answered, Unanswered, InCall, Ends
    <3>2. ~Booting
      BY <2>1, <3>1, NotBooting
    <3>3. UNCHANGED <<owner, store, ipc, cache, loaded, got, worker, wanted, straddled, torn, rotated>>
      BY <2>4 DEF Answered, Unanswered, server, history
    <3>4. KeepsStep
      BY <1>1, <2>1, <3>1, <3>2, <3>3 DEF KeepsStep, Waiting, Brought
    <3> QED
      BY <3>4 DEF Kinds
  <2>5. CASE Unauthorised(f)
    <3>1. CASE pc[f] = "sent" /\ JoinRefresh(f)
      <4>1. UNCHANGED <<owner, store, got, worker>>
        BY <2>5 DEF Unauthorised, server
      <4> QED
        BY <3>1, <4>1, JoinKinds DEF Kinds, Brought
    <3>2. CASE pc[f] = "resent" /\ Ends(f, FALSE) /\ UNCHANGED <<ipc, cache, loaded, history>>
      <4>1. ~Booting
        BY <2>1, <3>2, NotBooting
      <4>2. KeepsStep
        BY <1>1, <2>1, <2>5, <3>2, <4>1
        DEF Unauthorised, Ends, KeepsStep, Waiting, Brought, server, history
      <4> QED
        BY <4>2 DEF Kinds
    <3> QED
      BY <2>5, <3>1, <3>2 DEF Unauthorised
  <2> QED
    BY <1>20, <2>2, <2>3, <2>4, <2>5 DEF Caller
<1>21. CASE StorageStep \/ Restart \/ WorkerRead \/ WorkerGranted \/ WorkerGivesUp \/ WorkerSets
  BY <1>21 DEF Kinds
<1> QED
  <2>1. CASE Progress
    BY <1>3, <1>4, <1>5, <1>6, <1>7, <1>8, <1>9, <1>10, <1>11, <1>12, <1>13, <1>20, <1>21, <2>1
    DEF Progress
  <2> QED
    BY <1>14, <1>15, <1>16, <1>17, <1>18, <1>19, <1>21, <2>1 DEF Next

-----------------------------------------------------------------------------
(* Tokens that are held were issued, and keep their user                   *)

LEMMA OwnerStep ==
  ASSUME SessionInv, Kinds
  PROVE  \A g \in Issued : g \in Issued' /\ owner'[g] = owner[g]
<1>1. \/ owner' = owner
      \/ \E g \in Grants \ Issued : \E u : owner' = [owner EXCEPT ![g] = u]
  BY DEF Kinds, KeepsStep, LoadStep, AssignStep, ClearStep, SetStep, StorageStep, Restart,
         WorkerRead, WorkerGranted, WorkerGivesUp, WorkerSets, Issue, server
<1> QED
  BY <1>1 DEF SessionInv, Shape, Issued

\* The calls of the queue after a step of the storage, of the same kind as before.
LEMMA Called ==
  ASSUME SessionInv, NEW c, c \in CallType, ipc' = Append(ipc, c)
  PROVE  Adds(c) /\ Len(ipc) \in Nat
BY AppendAdds DEF SessionInv, Shape

\* What the calls are made of.
LEMMA CallFields ==
  /\ \A f \in Flows, n \in Brought :
       /\ LoadCall(f, n) \in CallType /\ LoadCall(f, n).op = "load" /\ LoadCall(f, n).who = f
       /\ LoadCall(f, n).vals = NoSession /\ LoadCall(f, n).next = n
       /\ LoadCall(f, n).todo = KeyOrder
  /\ \A f \in Flows :
       /\ ClearCall(f) \in CallType /\ ClearCall(f).op = "clear" /\ ClearCall(f).who = f
       /\ ClearCall(f).vals = NoSession /\ ClearCall(f).next = "cleared"
       /\ ClearCall(f).todo = KeyOrder
  /\ \A f \in Flows, g \in Grants :
       /\ SetCall(f, g) \in CallType /\ SetCall(f, g).op = "set" /\ SetCall(f, g).who = f
       /\ SetCall(f, g).vals = SessionOf(g) /\ SetCall(f, g).next = "stored"
       /\ SetCall(f, g).todo = KeyOrder
<1>1. 1 \in Grants
  BY SessionAssumption DEF Grants
<1>2. \A f \in Flows, n \in Brought, g \in Grants :
        LoadCall(f, n) \in CallType /\ SetCall(f, g) \in CallType /\ ClearCall(f) \in CallType
  BY CallTypes DEF Brought
<1>3. ASSUME NEW f \in Flows, NEW n \in Brought
      PROVE  /\ LoadCall(f, n) \in CallType /\ LoadCall(f, n).op = "load" /\ LoadCall(f, n).who = f
             /\ LoadCall(f, n).vals = NoSession /\ LoadCall(f, n).next = n
             /\ LoadCall(f, n).todo = KeyOrder
  <2>1. LoadCall(f, n) \in CallType
    BY <1>1, <1>2
  <2> QED
    BY <2>1 DEF LoadCall, Call
<1>4. ASSUME NEW f \in Flows
      PROVE  /\ ClearCall(f) \in CallType /\ ClearCall(f).op = "clear" /\ ClearCall(f).who = f
             /\ ClearCall(f).vals = NoSession /\ ClearCall(f).next = "cleared"
             /\ ClearCall(f).todo = KeyOrder
  <2>1. ClearCall(f) \in CallType
    BY <1>1, <1>2 DEF Brought
  <2> QED
    BY <2>1 DEF ClearCall, Call
<1>5. ASSUME NEW f \in Flows, NEW g \in Grants
      PROVE  /\ SetCall(f, g) \in CallType /\ SetCall(f, g).op = "set" /\ SetCall(f, g).who = f
             /\ SetCall(f, g).vals = SessionOf(g) /\ SetCall(f, g).next = "stored"
             /\ SetCall(f, g).todo = KeyOrder
  <2>1. SetCall(f, g) \in CallType
    BY <1>2 DEF Brought
  <2> QED
    BY <2>1 DEF SetCall, Call
<1> QED
  BY <1>3, <1>4, <1>5

LEMMA HeldData ==
  ASSUME SessionInv, Kinds
  PROVE  /\ Known(store)' /\ Known(cache)'
         /\ \A f \in Flows : Known(got[f])'
         /\ \A i \in 1 .. Len(ipc') : Known(ipc[i].vals)'
         /\ wanted' \in Issued' \cup {0}
         /\ worker'.at # "idle" => worker'.token \in Issued'
<1> USE FlowNames
<1> DEFINE Data == /\ Known(store)' /\ Known(cache)'
                   /\ \A f \in Flows : Known(got[f])'
                   /\ \A i \in 1 .. Len(ipc') : Known(ipc[i].vals)'
                   /\ wanted' \in Issued' \cup {0}
                   /\ worker'.at # "idle" => worker'.token \in Issued'
<1>1. \A g \in Issued : g \in Issued'
  BY OwnerStep
<1>2. /\ Known(store) /\ Known(cache) /\ \A f \in Flows : Known(got[f])
      /\ \A i \in 1 .. Len(ipc) : Known(ipc[i].vals)
      /\ wanted \in Issued \cup {0}
      /\ worker.at # "idle" => worker.token \in Issued
  BY DEF SessionInv, Held
<1>3. got \in [Flows -> Session] /\ store \in Session /\ ipc \in Seq(CallType)
  BY DEF SessionInv, Shape
<1>4. Known(NoSession) /\ Known(NoSession)'
  BY DEF Known, NoSession
<1>5. ASSUME UNCHANGED <<store, ipc, cache, got, worker, wanted>>
      PROVE  Data
  BY <1>1, <1>2, <1>5 DEF Known
<1>6. ASSUME NEW f \in Flows, NEW n \in Brought, LoadStep(f, n)
      PROVE  Data
  <2>1. LoadCall(f, n) \in CallType /\ LoadCall(f, n).vals = NoSession
    BY CallFields
  <2>2. Adds(LoadCall(f, n)) /\ Len(ipc) \in Nat
    BY <1>6, <2>1, Called DEF LoadStep
  <2>3. \A i \in 1 .. Len(ipc') : Known(ipc[i].vals)'
    BY <1>1, <1>2, <1>4, <2>1, <2>2 DEF Adds, Known
  <2> QED
    BY <1>1, <1>2, <1>6, <2>3 DEF LoadStep, Known
<1>7. ASSUME NEW f \in Flows, AssignStep(f)
      PROVE  Data
  <2>1. \A h \in Flows : got'[h] = got[h] \/ got'[h] = NoSession
    BY <1>3, <1>7 DEF AssignStep
  <2> QED
    BY <1>1, <1>2, <1>4, <1>7, <2>1 DEF AssignStep, Known
<1>8. ASSUME NEW f \in {"refresh", "logout"}, ClearStep(f)
      PROVE  Data
  <2>1. ClearCall(f) \in CallType /\ ClearCall(f).vals = NoSession
    BY CallFields
  <2>2. Adds(ClearCall(f)) /\ Len(ipc) \in Nat
    BY <1>8, <2>1, Called DEF ClearStep
  <2>3. \A i \in 1 .. Len(ipc') : Known(ipc[i].vals)'
    BY <1>1, <1>2, <1>4, <2>1, <2>2 DEF Adds, Known
  <2>4. \A h \in Flows : got'[h] = got[h] \/ got'[h] = NoSession
    BY <1>3, <1>8 DEF ClearStep
  <2> QED
    BY <1>1, <1>2, <1>4, <1>8, <2>3, <2>4 DEF ClearStep, Known
<1>9. ASSUME NEW f \in {"refresh", "login"}, NEW g \in Grants, NEW u \in Users, SetStep(f, g, u)
      PROVE  Data
  <2>1. SetCall(f, g) \in CallType /\ SetCall(f, g).vals = SessionOf(g)
    BY CallFields
  <2>2. Adds(SetCall(f, g)) /\ Len(ipc) \in Nat
    BY <1>9, <2>1, Called DEF SetStep
  <2>3. g \in Issued'
    BY <1>9, SessionAssumption DEF SetStep, Issued, SessionInv, Shape
  <2>4. \A k \in Keys : SessionOf(g)[k] = g
    BY DEF SessionOf
  <2>5. \A i \in 1 .. Len(ipc') : Known(ipc[i].vals)'
    BY <1>1, <1>2, <2>1, <2>2, <2>3, <2>4 DEF Adds, Known
  <2> QED
    BY <1>1, <1>2, <1>9, <2>3, <2>4, <2>5 DEF SetStep, Known
<1>10. ASSUME StorageStep
       PROVE  Data
  <2>1. /\ Len(ipc) \in Nat \ {0} /\ ipc[1] \in CallType /\ ipc' \in Seq(CallType)
        /\ UNCHANGED <<server, cache, loaded, hand, ui, worker, left, history>>
    BY <1>10, StorageFacts DEF SessionInv
  <2>2. PICK k \in Rest(ipc[1].todo) :
          k \in Keys /\ Read(k) \in Session /\ Stores(k) /\ (Advances(k) \/ Finishes(k))
    BY <1>10, StorageFacts DEF SessionInv
  <2>3. Known(ipc[1].vals) /\ ipc[1].who \in Flows
    BY <1>2, <2>1 DEF CallType
  <2>4. \A j \in Keys : Read(k)[j] \in Issued \cup {0}
    BY <1>2, <2>1, <2>2, <2>3 DEF Known, Read, CallType, Session
  <2>5. Known(store)'
    BY <1>1, <1>2, <1>3, <2>2, <2>3 DEF Known, Stores, Session
  <2>6. \A f \in Flows : got'[f] = got[f] \/ got'[f] = Read(k)
    BY <1>3, <2>2 DEF Advances, Finishes
  <2>7. \A i \in 1 .. Len(ipc') : \/ ipc'[i].vals = Read(k)
                                  \/ \E j \in 1 .. Len(ipc) : ipc'[i] = ipc[j]
    <3>1. CASE Advances(k)
      BY <2>1, <3>1 DEF Advances
    <3>2. CASE Finishes(k)
      BY <2>1, <3>2 DEF Finishes
    <3> QED
      BY <2>2, <3>1, <3>2
  <2>8. \A f \in Flows : Known(got[f])'
    BY <1>1, <1>2, <2>4, <2>6 DEF Known
  <2>9. \A i \in 1 .. Len(ipc') : Known(ipc[i].vals)'
    BY <1>1, <1>2, <2>4, <2>7 DEF Known
  <2>10. UNCHANGED <<cache, worker, wanted>>
    BY <2>1 DEF history
  <2> QED
    BY <1>1, <1>2, <2>5, <2>8, <2>9, <2>10 DEF Known
<1>11. ASSUME Restart
       PROVE  Data
  <2>1. /\ cache' = NoSession /\ ipc' = <<>> /\ got' = [f \in Flows |-> NoSession]
        /\ UNCHANGED <<store, worker, wanted>>
    BY <1>11 DEF Restart
  <2> QED
    BY <1>1, <1>2, <1>4, <2>1 DEF Known
<1>12. ASSUME WorkerRead \/ WorkerGivesUp
       PROVE  Data
  <2>1. /\ UNCHANGED <<store, cache, got, ipc, wanted>>
        /\ worker' = [at |-> "post", token |-> store["refresh"]] \/ worker'.at = "idle"
        /\ worker'.at # "idle" => store["refresh"] # 0
    BY <1>12 DEF WorkerRead, WorkerGivesUp, WorkerIdle, app, history
  <2> QED
    BY <1>1, <1>2, <2>1 DEF Known, Keys
<1>13. ASSUME WorkerGranted
       PROVE  Data
  <2>1. PICK g \in Grants :
          Issue(owner[worker.token], g) /\ worker' = [at |-> "token", token |-> g]
    BY <1>13 DEF WorkerGranted
  <2>2. UNCHANGED <<store, cache, got, ipc, wanted>> /\ worker.at # "idle"
    BY <1>13 DEF WorkerGranted, app, history
  <2>3. owner[worker.token] # None
    BY <1>2, <2>2 DEF Issued
  <2>4. g \in Issued'
    BY <2>1, <2>3 DEF Issued, Issue, SessionInv, Shape
  <2> QED
    BY <1>1, <1>2, <2>1, <2>2, <2>4 DEF Known
<1>14. ASSUME WorkerSets
       PROVE  Data
  <2>1. /\ UNCHANGED <<cache, got, ipc, wanted>> /\ worker.at # "idle"
        /\ store' = [store EXCEPT ![worker.at] = worker.token]
        /\ worker'.at # "idle" => worker'.token = worker.token
    BY <1>14 DEF WorkerSets, app, WorkerIdle, SessionInv, Shape
  <2>2. \A k \in Keys : store'[k] = store[k] \/ store'[k] = worker.token
    BY <1>3, <2>1 DEF Session
  <2> QED
    BY <1>1, <1>2, <2>1, <2>2 DEF Known
<1>15. KeepsStep => Data
  BY <1>5 DEF KeepsStep
<1> HIDE DEF Data
<1>16. (\E f \in Flows, n \in Brought : LoadStep(f, n)) => Data
  BY <1>6
<1>17. (\E f \in Flows : AssignStep(f)) => Data
  BY <1>7
<1>18. (\E f \in {"refresh", "logout"} : ClearStep(f)) => Data
  BY <1>8
<1>19. (\E f \in {"refresh", "login"}, g \in Grants, u \in Users : SetStep(f, g, u)) => Data
  BY <1>9
<1>20. Data
  BY <1>10, <1>11, <1>12, <1>13, <1>14, <1>15, <1>16, <1>17, <1>18, <1>19 DEF Kinds
<1> QED
  BY <1>20 DEF Data

\* What the flows hold and the user shown were issued.
LEMMA HeldHands ==
  ASSUME SessionInv, Next
  PROVE  /\ \A f \in Flows : hand'[f] \in Issued' \cup {0}
         /\ ui' \in Issued' \cup {0}
         /\ pc'["refresh"] = "post" => hand'["refresh"] # 0
<1> USE FlowNames
<1> DEFINE Hands == /\ \A f \in Flows : hand'[f] \in Issued' \cup {0}
                    /\ ui' \in Issued' \cup {0}
                    /\ pc'["refresh"] = "post" => hand'["refresh"] # 0
<1>1. \A g \in Issued : g \in Issued'
  BY NextKinds, OwnerStep
<1>2. /\ \A f \in Flows : hand[f] \in Issued \cup {0}
      /\ ui \in Issued \cup {0}
      /\ \A k \in Keys : cache[k] \in Issued \cup {0}
      /\ \A f \in Flows, k \in Keys : got[f][k] \in Issued \cup {0}
      /\ pc["refresh"] = "post" => hand["refresh"] # 0
  BY DEF SessionInv, Held, Known
<1>3. pc \in [Flows -> Places] /\ hand \in [Flows -> Grants \cup {0}] /\ "token" \in Keys
      /\ "user" \in Keys /\ "refresh" \in Keys
  BY DEF SessionInv, Shape, Keys
<1>4. ASSUME NEW s, s["refresh"] \in Issued \cup {0}, NEW pcs \in [Flows -> Places],
             RefreshWith(s, hand, pcs), ui' = ui
      PROVE  Hands
  <2>1. CASE s["refresh"] = 0 /\ ClearsSession("refresh", pcs) /\ hand' = hand
    BY <1>1, <1>2, <1>4, <2>1 DEF ClearsSession
  <2>2. CASE s["refresh"] # 0 /\ hand' = [hand EXCEPT !["refresh"] = s["refresh"]]
    BY <1>1, <1>2, <1>3, <1>4, <2>2
  <2> QED
    BY <1>4, <2>1, <2>2 DEF RefreshWith
<1>5. ASSUME NEW f \in Callers, JoinRefresh(f), ui' = ui
      PROVE  Hands
  <2> DEFINE pcs == [pc EXCEPT ![f] = "wait"]
  <2>1. pcs \in [Flows -> Places] /\ pcs["refresh"] = pc["refresh"]
    BY <1>3 DEF Places
  <2> HIDE DEF Hands
  <2>2. CASE pc["refresh"] = "idle" /\ loaded /\ RefreshWith(cache, hand, pcs)
    BY <1>2, <1>3, <1>4, <1>5, <2>1, <2>2
  <2>3. CASE hand' = hand /\ (pc' = pcs \/ pc' = [pcs EXCEPT !["refresh"] = "load"])
    BY <1>1, <1>2, <1>5, <2>1, <2>3 DEF Hands
  <2> QED
    BY <1>5, <2>2, <2>3 DEF JoinRefresh
<1>6. ASSUME NEW f \in Callers, NEW ok \in BOOLEAN, Ends(f, ok)
      PROVE  Hands
  BY <1>1, <1>2, <1>3, <1>6 DEF Ends
<1>7. ASSUME UNCHANGED <<hand, ui>>, pc'["refresh"] = "post" => pc["refresh"] = "post"
      PROVE  Hands
  BY <1>1, <1>2, <1>7
<1>8. CASE StorageStep
  <2>1. UNCHANGED <<hand, ui>>
    BY <1>8 DEF StorageStep
  <2>2. PICK k \in Rest(ipc[1].todo) : Advances(k) \/ Finishes(k)
    BY <1>8, StorageFacts DEF SessionInv
  <2>3. ipc[1] \in CallType
    BY <1>8, StorageFacts DEF SessionInv
  <2>4. \A f \in Flows : pc'[f] = pc[f] \/ pc'[f] # "post"
    BY <1>3, <2>2, <2>3 DEF Advances, Finishes, CallType
  <2> QED
    BY <1>7, <2>1, <2>4
<1>9. CASE RefreshLoaded
  BY <1>2, <1>3, <1>4, <1>9 DEF RefreshLoaded
<1>10. CASE RefreshGranted
  BY <1>3, <1>7, <1>10 DEF RefreshGranted, SetsSession
<1>11. CASE RefreshDenied
  BY <1>3, <1>7, <1>11 DEF RefreshDenied, ClearsSession
<1>12. CASE RefreshStored
  <2>1. \A f \in Flows : hand'[f] \in {0, cache["token"], hand[f]}
    BY <1>12 DEF RefreshStored, RetryHand
  <2>2. ui' = cache["user"] /\ pc'["refresh"] = "idle"
    BY <1>12 DEF RefreshStored, Retried
  <2> QED
    BY <1>1, <1>2, <1>3, <2>1, <2>2
<1>13. CASE RefreshCleared \/ RefreshUnreachable
  <2>1. \A f \in Flows : hand'[f] \in {0, hand[f]}
    BY <1>13 DEF RefreshCleared, RefreshUnreachable, FailedHand
  <2>2. ui' \in {0, cache["user"], ui} /\ pc'["refresh"] = "idle"
    BY <1>13 DEF RefreshCleared, RefreshUnreachable, Failed
  <2> QED
    BY <1>1, <1>2, <1>3, <2>1, <2>2
<1>14. CASE Mount \/ Login \/ Focus
  BY <1>3, <1>7, <1>14 DEF Mount, Login, Focus
<1>15. CASE Hydrate
  BY <1>1, <1>2, <1>3, <1>15 DEF Hydrate, Assigns
<1>16. CASE LoginGranted
  <2>1. PICK u \in Users, g \in Grants :
          Issue(u, g) /\ SetsSession("login", g, pc) /\ hand' = [hand EXCEPT !["login"] = g]
    BY <1>16 DEF LoginGranted
  <2>2. g \in Issued'
    BY <2>1, SessionAssumption DEF Issue, Issued, SessionInv, Shape
  <2>3. ui' = ui /\ pc'["refresh"] = pc["refresh"]
    BY <1>3, <1>16, <2>1 DEF LoginGranted, SetsSession
  <2> QED
    BY <1>1, <1>2, <1>3, <2>1, <2>2, <2>3
<1>17. CASE LoginStored
  BY <1>1, <1>2, <1>3, <1>17 DEF LoginStored
<1>18. CASE LogoutCleared
  BY <1>1, <1>2, <1>3, <1>18 DEF LogoutCleared
<1>19. CASE Reloaded
  BY <1>1, <1>2, <1>3, <1>19 DEF Reloaded, Assigns
<1>20. CASE LoginWrong
  <2>1. CASE JoinRefresh("login")
    BY <1>5, <1>20, <2>1 DEF LoginWrong, Callers
  <2>2. CASE pc' = [pc EXCEPT !["login"] = "idle"] /\ hand' = hand
    BY <1>3, <1>7, <1>20, <2>2 DEF LoginWrong
  <2> QED
    BY <1>20, <2>1, <2>2 DEF LoginWrong
<1>21. CASE Logout
  BY <1>3, <1>7, <1>21 DEF Logout, ClearsSession
<1>22. CASE WorkerRead \/ WorkerGranted \/ WorkerGivesUp \/ WorkerSets \/ Expire \/ Refuse
  <2>1. UNCHANGED <<pc, hand, ui>>
    BY <1>22 DEF WorkerRead, WorkerGranted, WorkerGivesUp, WorkerSets, Expire, Refuse, app
  <2> QED
    BY <1>7, <2>1
<1>23. CASE Restart
  BY <1>23 DEF Restart
<1>24. ASSUME NEW r \in Requests, Request(r)
       PROVE  Hands
  <2>1. CASE loaded
    BY <1>1, <1>2, <1>3, <1>24, <2>1 DEF Request
  <2>2. CASE ~loaded
    BY <1>3, <1>7, <1>24, <2>2 DEF Request
  <2> QED
    BY <2>1, <2>2
<1>25. ASSUME NEW f \in Callers, Caller(f)
       PROVE  Hands
  <2>1. CASE RequestLoaded(f)
    BY <1>1, <1>2, <1>3, <2>1 DEF RequestLoaded
  <2>2. CASE RetryLoad(f)
    BY <1>3, <1>7, <2>2 DEF RetryLoad
  <2>3. CASE Answered(f) \/ Unanswered(f)
    BY <1>6, <2>3 DEF Answered, Unanswered
  <2>4. CASE Unauthorised(f)
    BY <1>5, <1>6, <2>4 DEF Unauthorised
  <2> QED
    BY <1>25, <2>1, <2>2, <2>3, <2>4 DEF Caller
<1>28. (\E r \in Requests : Request(r)) => Hands
  BY <1>24
<1>29. (\E f \in Callers : Caller(f)) => Hands
  BY <1>25
<1>26. CASE Progress
  BY <1>8, <1>9, <1>10, <1>11, <1>12, <1>13, <1>14, <1>15, <1>16, <1>17, <1>18, <1>19, <1>26, <1>29
  DEF Progress
<1> QED
  BY <1>14, <1>20, <1>21, <1>22, <1>23, <1>26, <1>28 DEF Next

-----------------------------------------------------------------------------
(* The queue                                                               *)

\* A call still pending, and what holds of the calls behind the first.
LEMMA QueueStays ==
  ASSUME SessionInv, NEW c \in CallType, Pending(c), NEW f, Apart(f), c.who # f
  PROVE  Pending(c)'
<1>1. pc[c.who] \in Waiting /\ c.who \in Flows
  BY DEF Pending, Waiting, CallType
<1>2. pc'[c.who] = pc[c.who]
  BY <1>1 DEF Apart
<1> QED
  BY <1>2 DEF Pending

LEMMA QueueAdds ==
  ASSUME SessionInv, NEW f \in Flows, pc[f] \notin Waiting, Apart(f),
         NEW c \in CallType, Adds(c), c.who = f, c.todo = KeyOrder,
         c.op = "load" => c.vals = NoSession, Pending(c)'
  PROVE  /\ \A i \in 1 .. Len(ipc') :
              /\ Pending(ipc[i])'
              /\ i # 1 => /\ ipc'[i].todo = KeyOrder
                          /\ ipc'[i].op = "load" => ipc'[i].vals = NoSession
         /\ \A i, j \in 1 .. Len(ipc') : ipc'[i].who = ipc'[j].who => i = j
<1>1. ipc \in Seq(CallType) /\ Len(ipc) \in Nat
  BY DEF SessionInv, Shape
<1>2. \A i \in 1 .. Len(ipc) : /\ Pending(ipc[i]) /\ ipc[i] \in CallType
                               /\ i # 1 => /\ ipc[i].todo = KeyOrder
                                           /\ ipc[i].op = "load" => ipc[i].vals = NoSession
  BY <1>1 DEF SessionInv, Queue
<1>3. \A i, j \in 1 .. Len(ipc) : ipc[i].who = ipc[j].who => i = j
  BY DEF SessionInv, Queue
<1>4. \A i \in 1 .. Len(ipc) : ipc[i].who # f
  BY <1>2 DEF Pending, Waiting, CallType
<1>5. ASSUME NEW i \in 1 .. Len(ipc')
      PROVE  /\ Pending(ipc[i])'
             /\ i # 1 => /\ ipc'[i].todo = KeyOrder
                         /\ ipc'[i].op = "load" => ipc'[i].vals = NoSession
  <2>1. CASE i \in 1 .. Len(ipc)
    <3>1. ipc'[i] = ipc[i]
      BY <2>1 DEF Adds
    <3>2. Pending(ipc[i])'
      <4>1. PICK e \in CallType : e = ipc[i]
        BY <1>2, <2>1
      <4>2. Pending(e) /\ e.who # f
        BY <1>2, <1>4, <2>1, <4>1
      <4>3. Pending(e)'
        BY <4>2, QueueStays
      <4>4. e = ipc'[i]
        BY <3>1, <4>1
      <4> QED
        BY <4>3, <4>4 DEF Pending
    <3> QED
      BY <1>2, <2>1, <3>1, <3>2
  <2>2. CASE i = Len(ipc')
    <3>1. ipc'[i] = c
      BY <2>2 DEF Adds
    <3>2. Pending(ipc[i])'
      BY <3>1 DEF Pending
    <3> QED
      BY <3>1, <3>2
  <2> QED
    BY <1>1, <2>1, <2>2 DEF Adds
<1>6. \A i, j \in 1 .. Len(ipc') : ipc'[i].who = ipc'[j].who => i = j
  <2>1. \A i \in 1 .. Len(ipc') : i \in 1 .. Len(ipc) \/ i = Len(ipc')
    BY <1>1 DEF Adds
  <2>2. \A i \in 1 .. Len(ipc) : ipc'[i].who = ipc[i].who /\ ipc'[i].who # f
    BY <1>4 DEF Adds
  <2>3. ipc'[Len(ipc')].who = f
    BY DEF Adds
  <2> QED
    BY <1>3, <2>1, <2>2, <2>3
<1> QED
  BY <1>5, <1>6

LEMMA QueueStep ==
  ASSUME SessionInv, Kinds
  PROVE  Queue'
<1> USE FlowNames
<1>1. /\ ipc \in Seq(CallType) /\ Len(ipc) \in Nat /\ pc \in [Flows -> Places]
      /\ \A i \in 1 .. Len(ipc) : ipc[i] \in CallType
  BY DEF SessionInv, Shape
<1>2. /\ \A i \in 1 .. Len(ipc) : /\ Pending(ipc[i])
                                  /\ i # 1 => /\ ipc[i].todo = KeyOrder
                                              /\ ipc[i].op = "load" => ipc[i].vals = NoSession
      /\ \A i, j \in 1 .. Len(ipc) : ipc[i].who = ipc[j].who => i = j
      /\ pc["logout"] \in {"idle", "clear", "cleared"}
  BY DEF SessionInv, Queue
<1>3. ASSUME ipc' = ipc, \A g \in Flows : pc[g] \in Waiting => pc'[g] = pc[g],
             pc'["logout"] \in {pc["logout"], "idle"}
      PROVE  Queue'
  <2>1. \A i \in 1 .. Len(ipc) : pc'[ipc[i].who] = pc[ipc[i].who]
    BY <1>1, <1>2, <1>3 DEF Pending, Waiting, CallType
  <2>2. \A i \in 1 .. Len(ipc) : Pending(ipc[i])'
    BY <1>2, <1>3, <2>1 DEF Pending
  <2> QED
    BY <1>2, <1>3, <2>2 DEF Queue
<1>4. ASSUME NEW f \in Flows, NEW n \in Brought, LoadStep(f, n)
      PROVE  Queue'
  <2>1. PICK c \in CallType : c = LoadCall(f, n)
    BY CallFields
  <2>2. c.op = "load" /\ c.who = f /\ c.vals = NoSession /\ c.next = n /\ c.todo = KeyOrder
    BY <2>1, CallFields
  <2>3. Adds(c) /\ pc[f] \notin Waiting /\ Apart(f) /\ pc'[f] = "load" /\ f # "logout"
    BY <1>4, <2>1, Called DEF LoadStep
  <2>4. Pending(c)'
    BY <2>2, <2>3 DEF Pending, Brought
  <2>5. /\ \A i \in 1 .. Len(ipc') :
              /\ Pending(ipc[i])'
              /\ i # 1 => /\ ipc'[i].todo = KeyOrder
                          /\ ipc'[i].op = "load" => ipc'[i].vals = NoSession
        /\ \A i, j \in 1 .. Len(ipc') : ipc'[i].who = ipc'[j].who => i = j
    BY <2>2, <2>3, <2>4, QueueAdds
  <2>6. pc'["logout"] = pc["logout"]
    BY <2>3 DEF Apart
  <2> QED
    BY <1>2, <2>5, <2>6 DEF Queue
<1>5. ASSUME NEW f \in {"refresh", "logout"}, ClearStep(f)
      PROVE  Queue'
  <2>1. PICK c \in CallType : c = ClearCall(f)
    BY CallFields
  <2>2. c.op = "clear" /\ c.who = f /\ c.vals = NoSession /\ c.next = "cleared" /\ c.todo = KeyOrder
    BY <2>1, CallFields
  <2>3. Adds(c) /\ pc[f] \notin Waiting /\ Apart(f) /\ pc'[f] = "clear"
    BY <1>5, <2>1, Called DEF ClearStep
  <2>4. Pending(c)'
    BY <2>2, <2>3 DEF Pending
  <2>5. /\ \A i \in 1 .. Len(ipc') :
              /\ Pending(ipc[i])'
              /\ i # 1 => /\ ipc'[i].todo = KeyOrder
                          /\ ipc'[i].op = "load" => ipc'[i].vals = NoSession
        /\ \A i, j \in 1 .. Len(ipc') : ipc'[i].who = ipc'[j].who => i = j
    BY <2>2, <2>3, <2>4, QueueAdds
  <2>6. pc'["logout"] \in {"clear", pc["logout"]}
    BY <2>3 DEF Apart
  <2> QED
    BY <1>2, <2>5, <2>6 DEF Queue
<1>6. ASSUME NEW f \in {"refresh", "login"}, NEW g \in Grants, NEW u \in Users, SetStep(f, g, u)
      PROVE  Queue'
  <2>1. PICK c \in CallType : c = SetCall(f, g)
    BY CallFields
  <2>2. c.op = "set" /\ c.who = f /\ c.vals = SessionOf(g) /\ c.next = "stored" /\ c.todo = KeyOrder
    BY <2>1, CallFields
  <2>3. Adds(c) /\ pc[f] \notin Waiting /\ Apart(f) /\ pc'[f] = "store"
    BY <1>6, <2>1, Called DEF SetStep
  <2>4. \A k \in Keys : SessionOf(g)[k] = g /\ g # 0
    BY SessionAssumption DEF SessionOf, Grants
  <2>5. Pending(c)'
    BY <2>2, <2>3, <2>4 DEF Pending, Keys
  <2>6. /\ \A i \in 1 .. Len(ipc') :
              /\ Pending(ipc[i])'
              /\ i # 1 => /\ ipc'[i].todo = KeyOrder
                          /\ ipc'[i].op = "load" => ipc'[i].vals = NoSession
        /\ \A i, j \in 1 .. Len(ipc') : ipc'[i].who = ipc'[j].who => i = j
    BY <2>2, <2>3, <2>5, QueueAdds
  <2>7. pc'["logout"] = pc["logout"]
    BY <2>3 DEF Apart
  <2> QED
    BY <1>2, <2>6, <2>7 DEF Queue
<1>7. ASSUME StorageStep
      PROVE  Queue'
  <2>1. /\ Len(ipc) \in Nat \ {0} /\ ipc[1] \in CallType /\ ipc' \in Seq(CallType)
    BY <1>7, StorageFacts DEF SessionInv
  <2>2. PICK k \in Rest(ipc[1].todo) : Advances(k) \/ Finishes(k)
    BY <1>7, StorageFacts DEF SessionInv
  <2>3. CASE Advances(k)
    <3>1. Pending(ipc[1])'
      BY <1>2, <2>1, <2>3 DEF Advances, Pending, Read
    <3>2. \A i \in 2 .. Len(ipc) : Pending(ipc[i])'
      BY <1>2, <2>1, <2>3 DEF Advances, Pending
    <3>0. \A i \in 1 .. Len(ipc) : i = 1 \/ i \in 2 .. Len(ipc)
      BY <2>1
    <3>3. \A i \in 1 .. Len(ipc) : ipc'[i].who = ipc[i].who
      <4>1. ipc'[1].who = ipc[1].who
        BY <2>3 DEF Advances
      <4>2. \A i \in 2 .. Len(ipc) : ipc'[i].who = ipc[i].who
        BY <2>3 DEF Advances
      <4> QED
        BY <3>0, <4>1, <4>2
    <3>4. \A i \in 2 .. Len(ipc) : /\ ipc'[i].todo = KeyOrder
                                   /\ ipc'[i].op = "load" => ipc'[i].vals = NoSession
      BY <1>2, <2>1, <2>3 DEF Advances
    <3>5. Len(ipc') = Len(ipc) /\ pc' = pc
      BY <2>3 DEF Advances
    <3> QED
      BY <1>2, <3>0, <3>1, <3>2, <3>3, <3>4, <3>5 DEF Queue
  <2>4. CASE Finishes(k)
    <3>1. /\ Len(ipc') = Len(ipc) - 1
          /\ \A i \in 1 .. Len(ipc') : ipc'[i] = ipc[i + 1] /\ i + 1 \in 2 .. Len(ipc)
      BY <2>1, <2>4 DEF Finishes
    <3>2. \A i \in 2 .. Len(ipc) : ipc[i].who # ipc[1].who
      BY <1>2, <2>1
    <3>3. \A g \in Flows \ {ipc[1].who} : pc'[g] = pc[g]
      BY <1>1, <2>4 DEF Finishes
    <3>4. \A i \in 2 .. Len(ipc) : /\ pc'[ipc[i].who] = pc[ipc[i].who]
                                   /\ Pending(ipc[i])
                                   /\ ipc[i].todo = KeyOrder
                                   /\ ipc[i].op = "load" => ipc[i].vals = NoSession
      BY <1>1, <1>2, <2>1, <3>2, <3>3 DEF CallType
    <3>5. \A i \in 1 .. Len(ipc') :
             /\ Pending(ipc[i])'
             /\ ipc'[i].todo = KeyOrder
             /\ ipc'[i].op = "load" => ipc'[i].vals = NoSession
      BY <3>1, <3>4 DEF Pending
    <3>6. \A i, j \in 1 .. Len(ipc') : ipc'[i].who = ipc'[j].who => i = j
      BY <1>2, <2>1, <3>1
    <3>7. pc'["logout"] \in {"idle", "clear", "cleared"}
      <4>1. CASE ipc[1].who = "logout"
        <5>1. ipc[1].next = "cleared"
          BY <1>2, <2>1, <4>1 DEF Pending, CallType
        <5> QED
          BY <1>1, <2>4, <4>1, <5>1 DEF Finishes
      <4>2. CASE ipc[1].who # "logout"
        BY <1>2, <3>3, <4>2
      <4> QED
        BY <4>1, <4>2
    <3> QED
      BY <3>5, <3>6, <3>7 DEF Queue
  <2> QED
    BY <2>2, <2>3, <2>4
<1>8. ASSUME Restart
      PROVE  Queue'
  <2>1. Len(ipc') = 0 /\ pc'["logout"] = "idle"
    BY <1>8 DEF Restart
  <2> QED
    BY <2>1 DEF Queue
<1>9. ASSUME NEW f \in Flows, AssignStep(f)
      PROVE  Queue'
  BY <1>3, <1>9 DEF AssignStep, Apart, Brought, Waiting
<1>10. ASSUME WorkerRead \/ WorkerGranted \/ WorkerGivesUp \/ WorkerSets
       PROVE  Queue'
  <2>1. ipc' = ipc /\ pc' = pc
    BY <1>10 DEF WorkerRead, WorkerGranted, WorkerGivesUp, WorkerSets, app
  <2> QED
    BY <1>3, <2>1
<1>11. KeepsStep => Queue'
  BY <1>3 DEF KeepsStep
<1>12. (\E f \in Flows, n \in Brought : LoadStep(f, n)) => Queue'
  BY <1>4
<1>13. (\E f \in {"refresh", "logout"} : ClearStep(f)) => Queue'
  BY <1>5
<1>14. (\E f \in {"refresh", "login"}, g \in Grants, u \in Users : SetStep(f, g, u)) => Queue'
  BY <1>6
<1>15. (\E f \in Flows : AssignStep(f)) => Queue'
  BY <1>9
<1> QED
  BY <1>7, <1>8, <1>10, <1>11, <1>12, <1>13, <1>14, <1>15 DEF Kinds

-----------------------------------------------------------------------------
(* The session asked for, while no write straddles another flow            *)

\* Nobody reads: no read is on its way.  Nobody is in flight: nothing is.
LEMMA UnreadWrites ==
  ASSUME SessionInv, NEW f, pc[f] \notin Waiting, Unread(f)
  PROVE  \A i \in 1 .. Len(ipc) : ipc[i].op # "load"
<1>1. \A i \in 1 .. Len(ipc) : ipc[i] \in CallType /\ Pending(ipc[i])
  BY DEF SessionInv, Shape, Queue
<1> QED
  BY <1>1 DEF Pending, Unread, Waiting, CallType

LEMMA AloneEmpty ==
  ASSUME SessionInv, NEW f, pc[f] \notin Waiting, Alone(f)
  PROVE  Len(ipc) = 0
<1> USE FlowNames
<1>1. \A i \in 1 .. Len(ipc) : ipc[i] \in CallType /\ Pending(ipc[i])
  BY DEF SessionInv, Shape, Queue
<1>2. ASSUME NEW i \in 1 .. Len(ipc)
      PROVE  FALSE
  <2>1. ipc[i].who \in Flows \ {f} /\ pc[ipc[i].who] \in Waiting
    BY <1>1 DEF Pending, Waiting, CallType
  <2>2. ipc[i].who \notin InFlight
    BY <2>1 DEF Alone
  <2>3. ipc[i].who \in Requests /\ pc[ipc[i].who] # "load"
    BY <2>1, <2>2 DEF InFlight, Reading, Waiting
  <2> QED
    BY <1>1, <2>3 DEF Pending, CallType
<1>3. Len(ipc) \in Nat
  BY DEF SessionInv, Shape
<1> QED
  BY <1>2, <1>3

\* While a read is first in a straight queue there are only reads.
LEMMA ReadsOnly ==
  ASSUME SessionInv, StraightReads, Len(ipc) > 0, ipc[1].op = "load"
  PROVE  NoWrites
<1>1. Len(ipc) \in Nat
  BY DEF SessionInv, Shape
<1> QED
  BY <1>1 DEF StraightReads, NoWrites

LEMMA ReadsStep ==
  ASSUME SessionInv, Kinds, ~straddled, ~straddled'
  PROVE  StraightReads'
<1> USE FlowNames
<1>1. /\ ipc \in Seq(CallType) /\ Len(ipc) \in Nat /\ pc \in [Flows -> Places]
      /\ got \in [Flows -> Session] /\ store \in Session
      /\ \A i \in 1 .. Len(ipc) : ipc[i] \in CallType /\ Pending(ipc[i])
  BY DEF SessionInv, Shape, Queue
<1>2. StraightReads /\ StraightStore
  BY DEF SessionInv
<1>3. /\ \A f \in Flows : pc[f] \in Brought => Full(got[f]) /\ NoWrites
      /\ \A i, j \in 1 .. Len(ipc) : i < j /\ ipc[j].op # "load" => ipc[i].op # "load"
  BY <1>2 DEF StraightReads, Brought
<1>4. /\ \A g \in Issued : owner'[g] = owner[g]
      /\ \A f \in Flows, k \in Keys : got[f][k] \in Issued \cup {0}
      /\ wanted \in Issued \cup {0}
  BY OwnerStep DEF SessionInv, Held, Known
<1>5. ASSUME ipc' = ipc, wanted' = wanted,
             \A f \in Flows : pc'[f] \in Brought => pc'[f] = pc[f] /\ got'[f] = got[f]
      PROVE  StraightReads'
  <2>1. ASSUME NEW f \in Flows, pc'[f] \in Brought
        PROVE  Full(got[f])' /\ NoWrites'
    BY <1>3, <1>4, <1>5, <2>1 DEF Full, User, NoWrites
  <2> QED
    BY <1>3, <1>5, <2>1 DEF StraightReads, Brought
<1>6. ASSUME NEW f \in Flows, NEW n \in Brought, LoadStep(f, n)
      PROVE  StraightReads'
  <2>1. PICK c \in CallType : c = LoadCall(f, n) /\ c.op = "load"
    BY CallFields
  <2>2. Adds(c)
    BY <1>6, <2>1, Called DEF LoadStep
  <2>3. \A i \in 1 .. Len(ipc') : i \in 1 .. Len(ipc) \/ ipc'[i].op = "load"
    BY <1>1, <2>1, <2>2 DEF Adds
  <2>4. ASSUME NEW h \in Flows, pc'[h] \in Brought
        PROVE  Full(got[h])' /\ NoWrites'
    <3>1. pc[h] \in Brought /\ got' = got /\ wanted' = wanted
      BY <1>6, <2>4 DEF LoadStep, Apart, Brought
    <3>2. Full(got[h])'
      BY <1>3, <1>4, <3>1 DEF Full, User
    <3>3. NoWrites'
      BY <1>3, <2>2, <2>3, <3>1 DEF Adds, NoWrites
    <3> QED
      BY <3>2, <3>3
  <2>5. \A i, j \in 1 .. Len(ipc') : i < j /\ ipc'[j].op # "load" => ipc'[i].op # "load"
    <3>1. \A i, j \in 1 .. Len(ipc') : i < j /\ j \in 1 .. Len(ipc) => i \in 1 .. Len(ipc)
      BY <1>1
    <3> QED
      BY <1>3, <2>2, <2>3, <3>1 DEF Adds
  <2> QED
    BY <2>4, <2>5 DEF StraightReads, Brought
<1>7. ASSUME NEW f \in Flows, pc[f] \notin Waiting, pc'[f] \in Waiting, Apart(f), Unread(f),
             NEW c, Adds(c), c.op # "load"
      PROVE  StraightReads'
  <2>1. \A i \in 1 .. Len(ipc) : ipc[i].op # "load"
    BY <1>7, UnreadWrites
  <2>2. \A i \in 1 .. Len(ipc') : ipc'[i].op # "load"
    BY <1>1, <1>7, <2>1 DEF Adds
  <2>3. \A h \in Flows : pc'[h] \notin Brought
    BY <1>7 DEF Apart, Unread, Brought, Waiting
  <2> QED
    BY <2>2, <2>3 DEF StraightReads, Brought
<1>8. ASSUME NEW f \in {"refresh", "logout"}, ClearStep(f)
      PROVE  StraightReads'
  <2>1. PICK c \in CallType : c = ClearCall(f) /\ c.op = "clear"
    BY CallFields
  <2>2. Adds(c) /\ pc[f] \notin Waiting /\ pc'[f] \in Waiting /\ Apart(f) /\ Unread(f)
    BY <1>8, <2>1, Called DEF ClearStep, Waiting
  <2> QED
    BY <1>7, <2>1, <2>2
<1>9. ASSUME NEW f \in {"refresh", "login"}, NEW g \in Grants, NEW u \in Users, SetStep(f, g, u)
      PROVE  StraightReads'
  <2>1. PICK c \in CallType : c = SetCall(f, g) /\ c.op = "set"
    BY CallFields
  <2>2. Adds(c) /\ pc[f] \notin Waiting /\ pc'[f] \in Waiting /\ Apart(f) /\ Unread(f)
    BY <1>9, <2>1, Called DEF SetStep, Waiting
  <2> QED
    BY <1>7, <2>1, <2>2
<1>10. ASSUME StorageStep
       PROVE  StraightReads'
  <2>1. /\ Len(ipc) \in Nat \ {0} /\ ipc[1] \in CallType /\ ipc' \in Seq(CallType)
        /\ wanted' = wanted /\ owner' = owner
    BY <1>10, StorageFacts DEF SessionInv, history, server
  <2>2. PICK k \in Rest(ipc[1].todo) :
          k \in Keys /\ Read(k) \in Session /\ Stores(k) /\ (Advances(k) \/ Finishes(k))
    BY <1>10, StorageFacts DEF SessionInv
  <2>3. CASE Advances(k)
    <3>1. /\ Len(ipc') = Len(ipc) /\ pc' = pc /\ got' = got
          /\ \A i \in 1 .. Len(ipc) : ipc'[i].op = ipc[i].op
      <4>1. \A i \in 1 .. Len(ipc) : i = 1 \/ i \in 2 .. Len(ipc)
        BY <2>1
      <4>2. ipc'[1].op = ipc[1].op /\ \A i \in 2 .. Len(ipc) : ipc'[i].op = ipc[i].op
        BY <2>3 DEF Advances
      <4> QED
        BY <2>3, <4>1, <4>2 DEF Advances
    <3>2. NoWrites' = NoWrites
      BY <3>1 DEF NoWrites
    <3>3. \A f \in Flows : pc'[f] \in Brought => Full(got[f])' /\ NoWrites'
      BY <1>3, <2>1, <3>1, <3>2 DEF Full, User
    <3> QED
      BY <1>3, <3>1, <3>3 DEF StraightReads, Brought
  <2>4. CASE Finishes(k)
    <3>1. /\ Len(ipc') = Len(ipc) - 1
          /\ \A i \in 1 .. Len(ipc') : ipc'[i] = ipc[i + 1] /\ i + 1 \in 2 .. Len(ipc)
      BY <2>1, <2>4 DEF Finishes
    <3>2. \A i, j \in 1 .. Len(ipc') : i < j /\ ipc'[j].op # "load" => ipc'[i].op # "load"
      <4>1. \A i, j \in 1 .. Len(ipc') : i < j => i + 1 < j + 1
        BY <2>1, <3>1
      <4>2. \A i \in 2 .. Len(ipc) : i \in 1 .. Len(ipc)
        BY <2>1
      <4> QED
        BY <1>3, <3>1, <4>1, <4>2
    <3>3. PICK h \in Flows : h = ipc[1].who
      BY <2>1 DEF CallType
    <3>4. PICK s \in Session : s = Read(k)
      BY <2>2
    <3>5. /\ \A g \in Flows \ {h} : pc'[g] = pc[g] /\ got'[g] = got[g]
          /\ pc'[h] = ipc[1].next
          /\ ipc[1].op = "load" => got'[h] = s
      BY <1>1, <2>1, <2>4, <3>3, <3>4 DEF Finishes, CallType
    <3>6. NoWrites => NoWrites'
      BY <2>1, <3>1 DEF NoWrites
    <3>7. ASSUME NEW g \in Flows \ {h}, pc'[g] \in Brought
          PROVE  Full(got[g])' /\ NoWrites'
      BY <1>3, <2>1, <3>5, <3>6, <3>7 DEF Full, User
    <3>8. ASSUME pc'[h] \in Brought
          PROVE  Full(got[h])' /\ NoWrites'
      <4>1. ipc[1].op = "load"
        BY <1>1, <2>1, <3>5, <3>8 DEF Pending, Brought, CallType
      <4>2. NoWrites
        BY <1>2, <2>1, <4>1, ReadsOnly
      <4>3. Full(store) /\ \A j \in Keys \ {k} : User(ipc[1].vals[j]) = User(wanted)
        BY <1>2, <2>1, <2>4, <4>2 DEF StraightStore, Finishes
      <4>4. s[k] = store[k] /\ \A j \in Keys \ {k} : s[j] = ipc[1].vals[j]
        <5>1. s = [ipc[1].vals EXCEPT ![k] = store[k]]
          BY <3>4, <4>1 DEF Read
        <5>2. ipc[1].vals \in [Keys -> Grants \cup {0}]
          BY <2>1 DEF CallType, Session
        <5> QED
          BY <2>2, <5>1, <5>2
      <4>5. \A j \in Keys : User(s[j]) = User(wanted)
        BY <2>2, <4>3, <4>4 DEF Full
      <4>6. Full(got[h])'
        BY <2>1, <3>5, <4>1, <4>5 DEF Full, User
      <4> QED
        BY <3>6, <4>2, <4>6
    <3> QED
      BY <3>2, <3>7, <3>8 DEF StraightReads, Brought
  <2> QED
    BY <2>2, <2>3, <2>4
<1>11. ASSUME NEW f \in Flows, AssignStep(f)
       PROVE  StraightReads'
  <2>1. \A h \in Flows : pc'[h] \in Brought => pc'[h] = pc[h] /\ got'[h] = got[h]
    BY <1>1, <1>11 DEF AssignStep, Apart
  <2> QED
    BY <1>5, <1>11, <2>1 DEF AssignStep
<1>12. ASSUME Restart
       PROVE  StraightReads'
  <2>1. Len(ipc') = 0 /\ \A f \in Flows : pc'[f] \in {"mount", "idle"}
    BY <1>12 DEF Restart
  <2> QED
    BY <2>1 DEF StraightReads
<1>13. ASSUME WorkerRead \/ WorkerGranted \/ WorkerGivesUp \/ WorkerSets
       PROVE  StraightReads'
  <2>1. UNCHANGED <<ipc, pc, got, wanted>>
    BY <1>13 DEF WorkerRead, WorkerGranted, WorkerGivesUp, WorkerSets, app, history
  <2> QED
    BY <1>5, <2>1
<1>14. KeepsStep => StraightReads'
  BY <1>5 DEF KeepsStep
<1>15. (\E f \in Flows, n \in Brought : LoadStep(f, n)) => StraightReads'
  BY <1>6
<1>16. (\E f \in {"refresh", "logout"} : ClearStep(f)) => StraightReads'
  BY <1>8
<1>17. (\E f \in {"refresh", "login"}, g \in Grants, u \in Users : SetStep(f, g, u))
         => StraightReads'
  BY <1>9
<1>18. (\E f \in Flows : AssignStep(f)) => StraightReads'
  BY <1>11
<1> QED
  BY <1>10, <1>12, <1>13, <1>14, <1>15, <1>16, <1>17, <1>18 DEF Kinds

\* Keys the first call has still to come to, when it has just become the first.
LEMMA FreshHead ==
  ASSUME NEW c, c.todo = KeyOrder
  PROVE  Keys \ Rest(c.todo) = {}
BY WholeList

\* The session a clear or a set leaves is the one asked for.
LEMMA ClearedFull ==
  ASSUME NEW f \in {"refresh", "logout"}, ClearStep(f), SessionInv, ~straddled'
  PROVE  /\ \A k \in Keys : NoSession[k] = 0
         /\ User(wanted)' = None
<1>1. wanted \in Issued \cup {0} /\ owner' = owner
  BY DEF SessionInv, Held, ClearStep
<1> QED
  BY <1>1 DEF ClearStep, NoSession, User

LEMMA SetFull ==
  ASSUME NEW f \in {"refresh", "login"}, NEW g \in Grants, NEW u \in Users, SetStep(f, g, u),
         SessionInv, Kinds, ~straddled'
  PROVE  /\ \A k \in Keys : SessionOf(g)[k] = g
         /\ g # 0 /\ owner'[g] = u
         /\ User(wanted)' = u
<1>1. wanted \in Issued \cup {0} /\ \A h \in Issued : owner'[h] = owner[h]
  BY OwnerStep DEF SessionInv, Held
<1>2. g # 0 /\ owner'[g] = u
  BY SessionAssumption DEF SetStep, SessionInv, Shape, Grants
<1> QED
  BY <1>1, <1>2 DEF SetStep, SessionOf, User

LEMMA StoreStep ==
  ASSUME SessionInv, Kinds, ~straddled, ~straddled'
  PROVE  StraightStore'
<1> USE FlowNames
<1>1. /\ ipc \in Seq(CallType) /\ Len(ipc) \in Nat /\ store \in Session
      /\ \A i \in 1 .. Len(ipc) : ipc[i] \in CallType /\ Pending(ipc[i])
  BY DEF SessionInv, Shape, Queue
<1>2. StraightReads /\ StraightStore
  BY DEF SessionInv
<1>3. /\ \A i \in 1 .. Len(ipc) : ipc[i].op # "load" => Full(ipc[i].vals)
      /\ NoWrites => Full(store)
      /\ Len(ipc) > 0 => \A k \in Keys \ Rest(ipc[1].todo) :
           /\ User(ipc[1].vals[k]) = User(wanted)
           /\ User(store[k]) = User(wanted)
      /\ worker.at # "idle" => User(worker.token) = User(wanted)
  BY <1>2 DEF StraightStore
<1>4. /\ \A g \in Issued : owner'[g] = owner[g]
      /\ \A i \in 1 .. Len(ipc), k \in Keys : ipc[i].vals[k] \in Issued \cup {0}
      /\ \A k \in Keys : store[k] \in Issued \cup {0}
      /\ wanted \in Issued \cup {0}
      /\ worker.at # "idle" => worker.token \in Issued
  BY OwnerStep DEF SessionInv, Held, Known
<1>5. ASSUME UNCHANGED <<ipc, store, worker, wanted>>
      PROVE  StraightStore'
  <2>1. \A i \in 1 .. Len(ipc') : ipc'[i].op # "load" => Full(ipc[i].vals)'
    BY <1>3, <1>4, <1>5 DEF Full, User
  <2>2. NoWrites' => Full(store)'
    BY <1>3, <1>4, <1>5 DEF Full, User, NoWrites
  <2>3. Len(ipc') > 0 => \A k \in Keys \ Rest(ipc'[1].todo) :
           /\ User(ipc[1].vals[k])' = User(wanted)'
           /\ User(store[k])' = User(wanted)'
    BY <1>1, <1>3, <1>4, <1>5 DEF User
  <2>4. worker'.at # "idle" => User(worker.token)' = User(wanted)'
    BY <1>3, <1>4, <1>5 DEF User
  <2> QED
    BY <2>1, <2>2, <2>3, <2>4 DEF StraightStore
<1>6. ASSUME NEW c, c \in CallType, Adds(c), c.todo = KeyOrder, UNCHANGED <<store, worker>>,
             c.op # "load" => \A k \in Keys : User(c.vals[k])' = User(wanted)',
             wanted' = wanted \/ (Len(ipc) = 0 /\ worker.at = "idle" /\ c.op # "load")
      PROVE  StraightStore'
  <2>1. ASSUME NEW i \in 1 .. Len(ipc'), ipc'[i].op # "load"
        PROVE  Full(ipc[i].vals)'
    <3>1. CASE i \in 1 .. Len(ipc)
      <4>1. wanted' = wanted /\ ipc'[i] = ipc[i]
        BY <1>1, <1>6, <3>1 DEF Adds
      <4> QED
        BY <1>3, <1>4, <2>1, <3>1, <4>1 DEF Full, User
    <3>2. CASE i = Len(ipc')
      <4>1. ipc'[i] = c
        BY <1>6, <3>2 DEF Adds
      <4> QED
        BY <1>6, <2>1, <4>1 DEF Full, User
    <3> QED
      BY <1>1, <1>6, <3>1, <3>2 DEF Adds
  <2>2. NoWrites' => NoWrites /\ c.op = "load"
    BY <1>1, <1>6 DEF Adds, NoWrites
  <2>3. NoWrites' => Full(store)'
    BY <1>3, <1>4, <1>6, <2>2 DEF Full, User
  <2>4. \A k \in Keys \ Rest(ipc'[1].todo) :
           /\ User(ipc[1].vals[k])' = User(wanted)'
           /\ User(store[k])' = User(wanted)'
    <3>1. CASE Len(ipc) = 0
      <4>1. ipc'[1] = c
        BY <1>1, <1>6, <3>1 DEF Adds
      <4>2. Keys \ Rest(c.todo) = {}
        BY <1>6, FreshHead
      <4> QED
        BY <4>1, <4>2
    <3>2. CASE Len(ipc) > 0
      <4>1. ipc'[1] = ipc[1] /\ wanted' = wanted /\ 1 \in 1 .. Len(ipc)
        BY <1>1, <1>6, <3>2 DEF Adds
      <4> QED
        BY <1>3, <1>4, <1>6, <3>2, <4>1 DEF User
    <3> QED
      BY <1>1, <3>1, <3>2
  <2>5. worker'.at # "idle" => User(worker.token)' = User(wanted)'
    BY <1>3, <1>4, <1>6 DEF User
  <2> QED
    BY <2>1, <2>3, <2>4, <2>5 DEF StraightStore
<1>7. ASSUME NEW f \in Flows, NEW n \in Brought, LoadStep(f, n)
      PROVE  StraightStore'
  <2>1. PICK c \in CallType : c = LoadCall(f, n) /\ c.op = "load" /\ c.todo = KeyOrder
    BY CallFields
  <2>2. Adds(c) /\ UNCHANGED <<store, worker, wanted>>
    BY <1>7, <2>1, Called DEF LoadStep
  <2> QED
    BY <1>6, <2>1, <2>2
<1>8. ASSUME NEW f \in {"refresh", "logout"}, ClearStep(f)
      PROVE  StraightStore'
  <2>1. PICK c \in CallType :
          c = ClearCall(f) /\ c.op = "clear" /\ c.todo = KeyOrder /\ c.vals = NoSession
    BY CallFields
  <2>2. Adds(c) /\ UNCHANGED <<store, worker>>
    BY <1>8, <2>1, Called DEF ClearStep
  <2>3. \A k \in Keys : User(c.vals[k])' = User(wanted)'
    BY <1>8, <2>1, ClearedFull DEF User
  <2>4. wanted' = wanted \/ (Len(ipc) = 0 /\ worker.at = "idle")
    BY <1>8, AloneEmpty DEF ClearStep, Alone
  <2> QED
    BY <1>6, <2>1, <2>2, <2>3, <2>4
<1>9. ASSUME NEW f \in {"refresh", "login"}, NEW g \in Grants, NEW u \in Users, SetStep(f, g, u)
      PROVE  StraightStore'
  <2>1. PICK c \in CallType :
          c = SetCall(f, g) /\ c.op = "set" /\ c.todo = KeyOrder /\ c.vals = SessionOf(g)
    BY CallFields
  <2>2. Adds(c) /\ UNCHANGED <<store, worker>>
    BY <1>9, <2>1, Called DEF SetStep
  <2>3. \A k \in Keys : User(c.vals[k])' = User(wanted)'
    BY <1>9, <2>1, SetFull DEF User
  <2>4. wanted' = wanted \/ (Len(ipc) = 0 /\ worker.at = "idle")
    BY <1>9, AloneEmpty DEF SetStep, Alone
  <2> QED
    BY <1>6, <2>1, <2>2, <2>3, <2>4
<1>10. ASSUME StorageStep
       PROVE  StraightStore'
  <2>1. /\ Len(ipc) \in Nat \ {0} /\ ipc[1] \in CallType /\ ipc' \in Seq(CallType)
        /\ wanted' = wanted /\ owner' = owner /\ worker' = worker
    BY <1>10, StorageFacts DEF SessionInv, history, server
  <2>2. PICK k \in Rest(ipc[1].todo) :
          k \in Keys /\ Read(k) \in Session /\ Stores(k) /\ (Advances(k) \/ Finishes(k))
    BY <1>10, StorageFacts DEF SessionInv
  <2>3. PICK s \in Session : s = Read(k)
    BY <2>2
  <2>4. /\ ipc[1].op = "load" => /\ NoWrites /\ store' = store
                                 /\ s[k] = store[k]
                                 /\ \A j \in Keys \ {k} : s[j] = ipc[1].vals[j]
        /\ ipc[1].op # "load" => /\ Full(ipc[1].vals) /\ s = ipc[1].vals
                                 /\ store'[k] = ipc[1].vals[k]
                                 /\ \A j \in Keys \ {k} : store'[j] = store[j]
    <3>1. ASSUME ipc[1].op = "load"
          PROVE  /\ NoWrites /\ store' = store
                 /\ s[k] = store[k]
                 /\ \A j \in Keys \ {k} : s[j] = ipc[1].vals[j]
      <4>1. s = [ipc[1].vals EXCEPT ![k] = store[k]] /\ store' = store
        BY <2>2, <2>3, <3>1 DEF Read, Stores
      <4>2. ipc[1].vals \in [Keys -> Grants \cup {0}]
        BY <2>1 DEF CallType, Session
      <4>3. NoWrites
        BY <1>2, <2>1, <3>1, ReadsOnly
      <4> QED
        BY <2>2, <4>1, <4>2, <4>3
    <3>2. ASSUME ipc[1].op # "load"
          PROVE  /\ Full(ipc[1].vals) /\ s = ipc[1].vals
                 /\ store'[k] = ipc[1].vals[k]
                 /\ \A j \in Keys \ {k} : store'[j] = store[j]
      <4>1. s = ipc[1].vals /\ store' = [store EXCEPT ![k] = ipc[1].vals[k]]
        BY <2>2, <2>3, <3>2 DEF Read, Stores
      <4>2. Full(ipc[1].vals)
        BY <1>3, <2>1, <3>2
      <4> QED
        BY <1>1, <2>2, <4>1, <4>2 DEF Session
    <3> QED
      BY <3>1, <3>2
  <2>5. CASE Advances(k)
    <3>1. /\ Len(ipc') = Len(ipc)
          /\ ipc'[1].op = ipc[1].op /\ ipc'[1].vals = s
          /\ Rest(ipc'[1].todo) = Rest(ipc[1].todo) \ {k}
          /\ \A i \in 2 .. Len(ipc) : ipc'[i] = ipc[i]
      BY <2>3, <2>5 DEF Advances
    <3>2. \A i \in 1 .. Len(ipc) : i = 1 \/ i \in 2 .. Len(ipc)
      BY <2>1
    <3>3. \A i \in 1 .. Len(ipc') : ipc'[i].op # "load" => Full(ipc[i].vals)'
      BY <1>3, <2>1, <2>4, <3>1, <3>2 DEF Full, User
    <3>4. NoWrites' => ipc[1].op = "load"
      BY <2>1, <3>1 DEF NoWrites
    <3>5. NoWrites' => Full(store)'
      BY <1>3, <2>1, <2>4, <3>4 DEF Full, User
    <3>6. ASSUME NEW j \in Keys \ Rest(ipc'[1].todo)
          PROVE  /\ User(ipc[1].vals[j])' = User(wanted)'
                 /\ User(store[j])' = User(wanted)'
      <4>1. j = k \/ j \in Keys \ Rest(ipc[1].todo)
        BY <3>1
      <4>2. Len(ipc) > 0 /\ ipc'[1].vals[j] = s[j]
        BY <2>1, <3>1
      <4>3. CASE ipc[1].op = "load"
        BY <1>3, <2>1, <2>2, <2>4, <4>1, <4>2, <4>3 DEF Full, User
      <4>4. CASE ipc[1].op # "load"
        BY <1>3, <2>1, <2>2, <2>4, <4>1, <4>2, <4>4 DEF Full, User
      <4> QED
        BY <4>3, <4>4
    <3> QED
      BY <1>3, <2>1, <3>3, <3>5, <3>6 DEF StraightStore, User
  <2>6. CASE Finishes(k)
    <3>1. /\ Rest(ipc[1].todo) = {k}
          /\ Len(ipc') = Len(ipc) - 1
          /\ \A i \in 1 .. Len(ipc') : ipc'[i] = ipc[i + 1] /\ i + 1 \in 2 .. Len(ipc)
      BY <2>1, <2>6 DEF Finishes
    <3>2. \A i \in 2 .. Len(ipc) : i \in 1 .. Len(ipc)
      BY <2>1
    <3>3. \A i \in 1 .. Len(ipc') : ipc'[i].op # "load" => Full(ipc[i].vals)'
      BY <1>3, <2>1, <3>1, <3>2 DEF Full, User
    <3>4. \A j \in Keys : User(store[j])' = User(wanted)'
      <4>1. CASE ipc[1].op = "load"
        BY <1>3, <2>1, <2>4, <4>1 DEF Full, User
      <4>2. CASE ipc[1].op # "load"
        BY <1>3, <2>1, <2>2, <2>4, <3>1, <4>2 DEF Full, User
      <4> QED
        BY <4>1, <4>2
    <3>5. Len(ipc') > 0 => Keys \ Rest(ipc'[1].todo) = {}
      <4>1. ASSUME Len(ipc') > 0
            PROVE  ipc'[1].todo = KeyOrder
        BY <2>1, <3>1, <4>1 DEF SessionInv, Queue
      <4> QED
        BY <4>1, WholeList
    <3>6. NoWrites' => Full(store)'
      BY <3>4 DEF Full, User
    <3>7. worker'.at # "idle" => User(worker.token)' = User(wanted)'
      BY <1>3, <2>1 DEF User
    <3> QED
      BY <3>3, <3>5, <3>6, <3>7 DEF StraightStore
  <2> QED
    BY <2>2, <2>5, <2>6
<1>11. ASSUME NEW f \in Flows, AssignStep(f)
       PROVE  StraightStore'
  BY <1>5, <1>11 DEF AssignStep
<1>12. ASSUME Restart
       PROVE  StraightStore'
  <2>1. Len(ipc') = 0 /\ UNCHANGED <<owner, store, worker, wanted>> /\ Unwritten = {}
    BY <1>12 DEF Restart, server
  <2>2. NoWrites
    BY <2>1 DEF Unwritten, NoWrites
  <2> QED
    BY <1>3, <2>1, <2>2 DEF StraightStore, Full, User
<1>13. ASSUME WorkerRead
       PROVE  StraightStore'
  <2>1. /\ UNCHANGED <<owner, ipc, store, wanted>> /\ Unwritten = {}
        /\ worker'.token = store["refresh"]
    BY <1>13 DEF WorkerRead, app, server
  <2>2. NoWrites
    BY <2>1 DEF Unwritten, NoWrites
  <2>3. User(worker.token)' = User(wanted)'
    BY <1>3, <2>1, <2>2 DEF Full, Keys, User
  <2> QED
    BY <1>3, <2>1, <2>3 DEF StraightStore, Full, User, NoWrites
<1>14. ASSUME WorkerGranted \/ WorkerGivesUp
       PROVE  StraightStore'
  <2>1. UNCHANGED <<ipc, store, wanted>>
    BY <1>14 DEF WorkerGranted, WorkerGivesUp, app, history
  <2>2. worker'.at # "idle" => User(worker.token)' = User(wanted)'
    <3>1. CASE WorkerGivesUp
      BY <3>1 DEF WorkerGivesUp, WorkerIdle
    <3>2. CASE WorkerGranted
      <4>1. PICK g \in Grants :
              Issue(owner[worker.token], g) /\ worker' = [at |-> "token", token |-> g]
        BY <3>2 DEF WorkerGranted
      <4>2. worker.token \in Issued /\ User(worker.token) = User(wanted) /\ worker.token # 0
        BY <1>3, <1>4, <3>2, SessionAssumption DEF WorkerGranted, Issued, Grants
      <4>3. g # 0 /\ owner'[g] = owner[worker.token]
        BY <4>1, SessionAssumption DEF Issue, SessionInv, Shape, Grants
      <4> QED
        BY <1>4, <2>1, <4>1, <4>2, <4>3 DEF User
    <3> QED
      BY <1>14, <3>1, <3>2
  <2>3. \A i \in 1 .. Len(ipc') : ipc'[i].op # "load" => Full(ipc[i].vals)'
    BY <1>3, <1>4, <2>1 DEF Full, User
  <2>4. NoWrites' => Full(store)'
    BY <1>3, <1>4, <2>1 DEF Full, User, NoWrites
  <2>5. Len(ipc') > 0 => \A k \in Keys \ Rest(ipc'[1].todo) :
           /\ User(ipc[1].vals[k])' = User(wanted)'
           /\ User(store[k])' = User(wanted)'
    BY <1>1, <1>3, <1>4, <2>1 DEF User
  <2> QED
    BY <2>2, <2>3, <2>4, <2>5 DEF StraightStore
<1>15. ASSUME WorkerSets
       PROVE  StraightStore'
  <2>1. /\ UNCHANGED <<owner, ipc, wanted>> /\ worker.at # "idle"
        /\ store' = [store EXCEPT ![worker.at] = worker.token]
        /\ worker'.at # "idle" => worker'.token = worker.token
    BY <1>15 DEF WorkerSets, app, server, WorkerIdle, SessionInv, Shape
  <2>2. \A k \in Keys : store'[k] = store[k] \/ store'[k] = worker.token
    BY <1>1, <2>1 DEF Session
  <2>3. \A k \in Keys : User(store[k]) = User(wanted) => User(store[k])' = User(wanted)'
    BY <1>3, <2>1, <2>2 DEF User
  <2>4. NoWrites' => Full(store)'
    BY <1>3, <2>1, <2>3 DEF Full, User, NoWrites
  <2>5. Len(ipc') > 0 => \A k \in Keys \ Rest(ipc'[1].todo) :
           /\ User(ipc[1].vals[k])' = User(wanted)'
           /\ User(store[k])' = User(wanted)'
    BY <1>1, <1>3, <2>1, <2>3 DEF User
  <2>6. \A i \in 1 .. Len(ipc') : ipc'[i].op # "load" => Full(ipc[i].vals)'
    BY <1>3, <2>1 DEF Full, User
  <2>7. worker'.at # "idle" => User(worker.token)' = User(wanted)'
    BY <1>3, <2>1 DEF User
  <2> QED
    BY <2>4, <2>5, <2>6, <2>7 DEF StraightStore
<1>16. KeepsStep => StraightStore'
  BY <1>5 DEF KeepsStep
<1>17. (\E f \in Flows, n \in Brought : LoadStep(f, n)) => StraightStore'
  BY <1>7
<1>18. (\E f \in {"refresh", "logout"} : ClearStep(f)) => StraightStore'
  BY <1>8
<1>19. (\E f \in {"refresh", "login"}, g \in Grants, u \in Users : SetStep(f, g, u))
         => StraightStore'
  BY <1>9
<1>20. (\E f \in Flows : AssignStep(f)) => StraightStore'
  BY <1>11
<1> QED
  BY <1>10, <1>12, <1>13, <1>14, <1>15, <1>16, <1>17, <1>18, <1>19, <1>20 DEF Kinds

\* The storage keeps to the start-up while there is nothing else.
LEMMA BootingStep ==
  ASSUME SessionInv, StorageStep, Booting
  PROVE  Booting'
<1> USE FlowNames
<1>1. /\ Len(ipc) \in Nat \ {0} /\ ipc[1] \in CallType
      /\ UNCHANGED <<cache, loaded, ui>>
  BY StorageFacts DEF SessionInv
<1>2. PICK k \in Rest(ipc[1].todo) : Advances(k) \/ Finishes(k)
  BY StorageFacts DEF SessionInv
<1>3. Pending(ipc[1]) /\ pc \in [Flows -> Places]
  BY <1>1 DEF SessionInv, Queue, Shape
<1>4. ipc[1].who = "start" /\ ipc[1].next = "loaded"
  <2>1. pc[ipc[1].who] # "idle" /\ ipc[1].who \in Flows
    BY <1>1, <1>3 DEF Pending, CallType
  <2> QED
    BY <1>1, <2>1 DEF Booting
<1>5. CASE Advances(k)
  <2>1. \A i \in 1 .. Len(ipc) : i = 1 \/ i \in 2 .. Len(ipc)
    BY <1>1
  <2>2. /\ Len(ipc') = Len(ipc) /\ pc' = pc /\ ipc'[1].next = ipc[1].next
        /\ \A i \in 2 .. Len(ipc) : ipc'[i] = ipc[i]
    BY <1>5 DEF Advances
  <2>3. \A i \in 1 .. Len(ipc') : ipc'[i].next = "loaded"
    BY <1>4, <2>1, <2>2 DEF Booting
  <2> QED
    BY <1>1, <2>2, <2>3 DEF Booting
<1>6. CASE Finishes(k)
  <2>1. /\ Len(ipc') = Len(ipc) - 1
        /\ \A i \in 1 .. Len(ipc') : ipc'[i] = ipc[i + 1] /\ i + 1 \in 1 .. Len(ipc)
        /\ pc' = [pc EXCEPT !["start"] = "loaded"]
    BY <1>1, <1>4, <1>6 DEF Finishes
  <2>2. \A i \in 1 .. Len(ipc') : ipc'[i].next = "loaded"
    BY <2>1 DEF Booting
  <2>3. pc'["start"] = "loaded" /\ \A f \in Flows \ {"start"} : pc'[f] = pc[f]
    BY <1>3, <2>1
  <2> QED
    BY <1>1, <2>2, <2>3 DEF Booting
<1> QED
  BY <1>2, <1>5, <1>6

LEMMA CacheStep ==
  ASSUME SessionInv, Kinds, ~straddled, ~straddled'
  PROVE  Booting' \/ Full(cache)'
<1> USE FlowNames
<1>1. Booting \/ Full(cache)
  BY DEF SessionInv, StraightHands
<1>2. /\ \A g \in Issued : owner'[g] = owner[g]
      /\ \A k \in Keys : cache[k] \in Issued \cup {0}
      /\ \A f \in Flows, k \in Keys : got[f][k] \in Issued \cup {0}
      /\ wanted \in Issued \cup {0}
  BY OwnerStep DEF SessionInv, Held, Known
<1>3. ASSUME UNCHANGED <<cache, wanted>>, Booting => Booting'
      PROVE  Booting' \/ Full(cache)'
  BY <1>1, <1>2, <1>3 DEF Full, User
<1>4. ASSUME NEW f \in Flows, AssignStep(f)
      PROVE  Booting' \/ Full(cache)'
  <2>1. Full(got[f]) /\ UNCHANGED wanted /\ cache' = got[f]
    BY <1>4 DEF AssignStep, Brought, SessionInv, StraightReads
  <2> QED
    BY <1>2, <2>1 DEF Full, User
<1>5. ASSUME NEW f \in {"refresh", "logout"}, ClearStep(f)
      PROVE  Booting' \/ Full(cache)'
  <2>1. cache' = NoSession
    BY <1>5 DEF ClearStep
  <2> QED
    BY <1>5, <2>1, ClearedFull DEF Full, User
<1>6. ASSUME NEW f \in {"refresh", "login"}, NEW g \in Grants, NEW u \in Users, SetStep(f, g, u)
      PROVE  Booting' \/ Full(cache)'
  <2>1. cache' = SessionOf(g)
    BY <1>6 DEF SetStep
  <2> QED
    BY <1>6, <2>1, SetFull DEF Full, User
<1>7. CASE StorageStep
  <2>1. UNCHANGED <<cache, wanted>>
    BY <1>7 DEF StorageStep, history
  <2> QED
    BY <1>3, <1>7, <2>1, BootingStep
<1>8. CASE Restart
  <2>1. /\ cache' = NoSession /\ loaded' = FALSE /\ ui' = 0 /\ Len(ipc') = 0
        /\ pc' = [f \in Flows |-> IF f = "start" THEN "mount" ELSE "idle"]
    BY <1>8 DEF Restart
  <2> QED
    BY <2>1 DEF Booting
<1>9. CASE WorkerRead \/ WorkerGranted \/ WorkerGivesUp \/ WorkerSets
  <2>1. UNCHANGED <<cache, loaded, ui, pc, ipc, wanted>>
    BY <1>9 DEF WorkerRead, WorkerGranted, WorkerGivesUp, WorkerSets, app, history
  <2>2. Booting => Booting'
    BY <2>1 DEF Booting
  <2> QED
    BY <1>3, <2>1, <2>2
<1>10. CASE KeepsStep
  BY <1>3, <1>10 DEF KeepsStep
<1>11. (\E f \in Flows, n \in Brought : LoadStep(f, n)) => Booting' \/ Full(cache)'
  <2>1. ASSUME NEW f \in Flows, NEW n \in Brought, LoadStep(f, n)
        PROVE  Booting' \/ Full(cache)'
    BY <1>3, <2>1 DEF LoadStep
  <2> QED
    BY <2>1
<1>12. (\E f \in {"refresh", "logout"} : ClearStep(f)) => Booting' \/ Full(cache)'
  BY <1>5
<1>13. (\E f \in {"refresh", "login"}, g \in Grants, u \in Users : SetStep(f, g, u))
         => Booting' \/ Full(cache)'
  BY <1>6
<1>14. (\E f \in Flows : AssignStep(f)) => Booting' \/ Full(cache)'
  BY <1>4
<1> QED
  BY <1>7, <1>8, <1>9, <1>10, <1>11, <1>12, <1>13, <1>14 DEF Kinds

LEMMA AlignedStep ==
  ASSUME SessionInv, Kinds, ~straddled, ~straddled', ~rotated, ~rotated'
  PROVE  Aligned'
<1> USE FlowNames
<1>1. /\ ipc \in Seq(CallType) /\ Len(ipc) \in Nat /\ store \in Session
      /\ got \in [Flows -> Session] /\ pc \in [Flows -> Places]
      /\ \A i \in 1 .. Len(ipc) : ipc[i] \in CallType /\ Pending(ipc[i])
  BY DEF SessionInv, Shape, Queue
<1>2. StraightReads /\ Aligned
  BY DEF SessionInv
<1>3. /\ \A f \in Flows : pc[f] \in Brought => got[f] = store /\ NoWrites
      /\ NoWrites => cache = store \/ Booting
      /\ \A i \in 1 .. Len(ipc) :
           ipc[i].op # "load" /\ (i = Len(ipc) \/ ipc[i + 1].op = "load") => cache = ipc[i].vals
      /\ Len(ipc) > 0 => \A k \in Keys \ Rest(ipc[1].todo) : store[k] = ipc[1].vals[k]
      /\ \A i, j \in 1 .. Len(ipc) : i < j /\ ipc[j].op # "load" => ipc[i].op # "load"
  BY <1>2 DEF Aligned, StraightReads, Brought
<1>4. ASSUME UNCHANGED <<ipc, store>>, cache' = cache \/ (NoWrites /\ cache' = store),
             \A f \in Flows : pc'[f] \in Brought => pc'[f] = pc[f] /\ got'[f] = got[f],
             cache' = store \/ (Booting => Booting')
      PROVE  Aligned'
  <2>1. \A f \in Flows : pc'[f] \in Brought => got'[f] = store'
    BY <1>3, <1>4
  <2>2. NoWrites' => cache' = store' \/ Booting'
    BY <1>3, <1>4 DEF NoWrites
  <2>3. \A i \in 1 .. Len(ipc') :
           ipc'[i].op # "load" /\ (i = Len(ipc') \/ ipc'[i + 1].op = "load")
             => cache' = ipc'[i].vals
    BY <1>3, <1>4 DEF NoWrites
  <2>4. Len(ipc') > 0 => \A k \in Keys \ Rest(ipc'[1].todo) : store'[k] = ipc'[1].vals[k]
    BY <1>3, <1>4
  <2> QED
    BY <2>1, <2>2, <2>3, <2>4 DEF Aligned, Brought
<1>5. ASSUME NEW c \in CallType, Adds(c), c.todo = KeyOrder, store' = store
      PROVE  Len(ipc') > 0 => \A k \in Keys \ Rest(ipc'[1].todo) : store'[k] = ipc'[1].vals[k]
  <2>1. CASE Len(ipc) = 0
    <3>1. ipc'[1] = c
      BY <1>1, <1>5, <2>1 DEF Adds
    <3>2. Keys \ Rest(c.todo) = {}
      BY <1>5, FreshHead
    <3> QED
      BY <3>1, <3>2
  <2>2. CASE Len(ipc) > 0
    <3>1. ipc'[1] = ipc[1]
      BY <1>1, <1>5, <2>2 DEF Adds
    <3> QED
      BY <1>3, <1>5, <2>2, <3>1
  <2> QED
    BY <1>1, <2>1, <2>2
<1>6. ASSUME NEW f \in Flows, NEW n \in Brought, LoadStep(f, n)
      PROVE  Aligned'
  <2>1. PICK c \in CallType : c = LoadCall(f, n) /\ c.op = "load" /\ c.todo = KeyOrder
    BY CallFields
  <2>2. Adds(c) /\ UNCHANGED <<store, cache, got>> /\ (Booting => Booting')
    BY <1>6, <2>1, Called DEF LoadStep
  <2>3. \A i \in 1 .. Len(ipc') : i \in 1 .. Len(ipc) \/ i = Len(ipc')
    BY <1>1, <2>2 DEF Adds
  <2>4. \A h \in Flows : pc'[h] \in Brought => got'[h] = store'
    BY <1>3, <1>6, <2>2 DEF LoadStep, Apart, Brought
  <2>5. NoWrites' => NoWrites
    BY <1>1, <2>2 DEF Adds, NoWrites
  <2>6. ASSUME NEW i \in 1 .. Len(ipc'), ipc'[i].op # "load",
               i = Len(ipc') \/ ipc'[i + 1].op = "load"
        PROVE  cache' = ipc'[i].vals
    <3>1. i \in 1 .. Len(ipc) /\ ipc'[i] = ipc[i]
      BY <2>1, <2>2, <2>3, <2>6 DEF Adds
    <3>2. i = Len(ipc) \/ (i + 1 \in 1 .. Len(ipc) /\ ipc'[i + 1] = ipc[i + 1] /\ i # Len(ipc'))
      BY <1>1, <2>2, <3>1 DEF Adds
    <3> QED
      BY <1>3, <2>2, <2>6, <3>1, <3>2
  <2>7. NoWrites' => cache' = store' \/ Booting'
    BY <1>3, <2>2, <2>5
  <2> QED
    BY <1>5, <2>1, <2>2, <2>4, <2>6, <2>7 DEF Aligned, Brought
<1>7. ASSUME NEW f \in Flows, pc[f] \notin Waiting, pc'[f] \in Waiting, Apart(f), Unread(f),
             NEW c \in CallType, Adds(c), c.op # "load", c.todo = KeyOrder,
             store' = store, cache' = c.vals
      PROVE  Aligned'
  <2>1. \A i \in 1 .. Len(ipc) : ipc[i].op # "load"
    BY <1>7, UnreadWrites
  <2>2. /\ \A i \in 1 .. Len(ipc') : ipc'[i].op # "load"
        /\ Len(ipc') \in Nat \ {0} /\ ipc'[Len(ipc')] = c
        /\ \A i \in 1 .. Len(ipc') : i = Len(ipc') \/ i + 1 \in 1 .. Len(ipc')
    BY <1>1, <1>7, <2>1 DEF Adds
  <2>3. \A h \in Flows : pc'[h] \notin Brought
    BY <1>7 DEF Apart, Unread, Brought, Waiting
  <2>4. ~NoWrites'
    BY <2>2 DEF NoWrites
  <2>5. \A i \in 1 .. Len(ipc') :
           ipc'[i].op # "load" /\ (i = Len(ipc') \/ ipc'[i + 1].op = "load")
             => cache' = ipc'[i].vals
    BY <1>7, <2>2
  <2> QED
    BY <1>5, <1>7, <2>3, <2>4, <2>5 DEF Aligned, Brought
<1>8. ASSUME NEW f \in {"refresh", "logout"}, ClearStep(f)
      PROVE  Aligned'
  <2>1. PICK c \in CallType :
          c = ClearCall(f) /\ c.op = "clear" /\ c.todo = KeyOrder /\ c.vals = NoSession
    BY CallFields
  <2>2. /\ Adds(c) /\ pc[f] \notin Waiting /\ pc'[f] \in Waiting /\ Apart(f) /\ Unread(f)
        /\ store' = store /\ cache' = c.vals
    BY <1>8, <2>1, Called DEF ClearStep, Waiting
  <2> QED
    BY <1>7, <2>1, <2>2
<1>9. ASSUME NEW f \in {"refresh", "login"}, NEW g \in Grants, NEW u \in Users, SetStep(f, g, u)
      PROVE  Aligned'
  <2>1. PICK c \in CallType :
          c = SetCall(f, g) /\ c.op = "set" /\ c.todo = KeyOrder /\ c.vals = SessionOf(g)
    BY CallFields
  <2>2. /\ Adds(c) /\ pc[f] \notin Waiting /\ pc'[f] \in Waiting /\ Apart(f) /\ Unread(f)
        /\ store' = store /\ cache' = c.vals
    BY <1>9, <2>1, Called DEF SetStep, Waiting
  <2> QED
    BY <1>7, <2>1, <2>2
<1>10. ASSUME StorageStep
       PROVE  Aligned'
  <2>1. /\ Len(ipc) \in Nat \ {0} /\ ipc[1] \in CallType /\ ipc' \in Seq(CallType)
        /\ cache' = cache
    BY <1>10, StorageFacts DEF SessionInv
  <2>2. PICK k \in Rest(ipc[1].todo) :
          k \in Keys /\ Read(k) \in Session /\ Stores(k) /\ (Advances(k) \/ Finishes(k))
    BY <1>10, StorageFacts DEF SessionInv
  <2>3. PICK s \in Session : s = Read(k)
    BY <2>2
  <2>4. /\ store' \in Session /\ store'[k] = s[k]
        /\ \A j \in Keys \ {k} : store'[j] = store[j] /\ s[j] = ipc[1].vals[j]
        /\ ipc[1].op = "load" => NoWrites /\ store' = store
        /\ ipc[1].op # "load" => s = ipc[1].vals
    <3>1. ipc[1].vals \in [Keys -> Grants \cup {0}]
      BY <2>1 DEF CallType, Session
    <3>2. CASE ipc[1].op = "load"
      <4>1. s = [ipc[1].vals EXCEPT ![k] = store[k]] /\ store' = store
        BY <2>2, <2>3, <3>2 DEF Read, Stores
      <4>2. NoWrites
        BY <1>2, <2>1, <3>2, ReadsOnly
      <4> QED
        BY <1>1, <2>2, <3>1, <3>2, <4>1, <4>2
    <3>3. CASE ipc[1].op # "load"
      <4>1. s = ipc[1].vals /\ store' = [store EXCEPT ![k] = ipc[1].vals[k]]
        BY <2>2, <2>3, <3>3 DEF Read, Stores
      <4> QED
        BY <1>1, <2>2, <3>1, <3>3, <4>1 DEF Session
    <3> QED
      BY <3>2, <3>3
  <2>5. Booting => Booting'
    BY <1>10, BootingStep
  <2>6. CASE Advances(k)
    <3>1. /\ Len(ipc') = Len(ipc) /\ pc' = pc /\ got' = got
          /\ ipc'[1].op = ipc[1].op /\ ipc'[1].vals = s
          /\ Rest(ipc'[1].todo) = Rest(ipc[1].todo) \ {k}
          /\ \A i \in 2 .. Len(ipc) : ipc'[i] = ipc[i]
      BY <2>3, <2>6 DEF Advances
    <3>2. \A i \in 1 .. Len(ipc) : i = 1 \/ i \in 2 .. Len(ipc)
      BY <2>1
    <3>3. /\ \A i \in 1 .. Len(ipc) : ipc'[i].op = ipc[i].op
          /\ \A i \in 1 .. Len(ipc) : ipc[i].op # "load" => ipc'[i].vals = ipc[i].vals
      BY <2>4, <3>1, <3>2
    <3>4. NoWrites' = NoWrites /\ (NoWrites => ipc[1].op = "load")
      BY <2>1, <3>1, <3>3 DEF NoWrites
    <3>5. \A f \in Flows : pc'[f] \in Brought => got'[f] = store'
      BY <1>3, <2>4, <3>1, <3>4
    <3>6. NoWrites' => cache' = store' \/ Booting'
      BY <1>3, <2>1, <2>4, <2>5, <3>4
    <3>7. \A i \in 1 .. Len(ipc') :
             ipc'[i].op # "load" /\ (i = Len(ipc') \/ ipc'[i + 1].op = "load")
               => cache' = ipc'[i].vals
      <4>1. \A i \in 1 .. Len(ipc) : i = Len(ipc) \/ i + 1 \in 1 .. Len(ipc)
        BY <2>1
      <4> QED
        BY <1>3, <2>1, <3>1, <3>3, <4>1
    <3>8. ASSUME NEW j \in Keys \ Rest(ipc'[1].todo)
          PROVE  store'[j] = ipc'[1].vals[j]
      <4>1. j = k \/ j \in Keys \ Rest(ipc[1].todo)
        BY <3>1
      <4> QED
        BY <1>3, <2>1, <2>4, <3>1, <4>1
    <3> QED
      BY <3>5, <3>6, <3>7, <3>8 DEF Aligned, Brought
  <2>7. CASE Finishes(k)
    <3>1. /\ Rest(ipc[1].todo) = {k}
          /\ Len(ipc') = Len(ipc) - 1
          /\ \A i \in 1 .. Len(ipc') : ipc'[i] = ipc[i + 1] /\ i + 1 \in 2 .. Len(ipc)
      BY <2>1, <2>7 DEF Finishes
    <3>2. \A i \in 2 .. Len(ipc) : i \in 1 .. Len(ipc)
      BY <2>1
    <3>3. \A j \in Keys : store'[j] = s[j]
      BY <1>3, <2>1, <2>4, <3>1
    <3>4. store' = s
      BY <2>3, <2>4, <3>3 DEF Session
    <3>5. PICK h \in Flows : h = ipc[1].who
      BY <2>1 DEF CallType
    <3>6. /\ \A g \in Flows \ {h} : pc'[g] = pc[g] /\ got'[g] = got[g]
          /\ pc'[h] = ipc[1].next
          /\ ipc[1].op = "load" => got'[h] = s
      BY <1>1, <2>1, <2>3, <2>7, <3>5 DEF Finishes, CallType
    <3>7. pc'[h] \in Brought => ipc[1].op = "load"
      BY <1>1, <2>1, <3>6 DEF Pending, Brought, CallType
    <3>8. ASSUME NEW g \in Flows, pc'[g] \in Brought
          PROVE  got'[g] = store'
      <4>1. CASE g = h
        BY <3>4, <3>6, <3>7, <3>8, <4>1
      <4>2. CASE g # h
        <5>1. NoWrites /\ got[g] = store
          BY <1>3, <3>6, <3>8, <4>2
        <5>2. ipc[1].op = "load"
          BY <2>1, <5>1 DEF NoWrites
        <5> QED
          BY <2>4, <3>6, <4>2, <5>1, <5>2
      <4> QED
        BY <4>1, <4>2
    <3>9. ASSUME NoWrites'
          PROVE  cache' = store' \/ Booting'
      <4>1. CASE ipc[1].op = "load"
        BY <1>3, <2>1, <2>4, <2>5, <4>1
      <4>2. CASE ipc[1].op # "load"
        <5>1. 1 = Len(ipc) \/ ipc[2].op = "load"
          BY <2>1, <3>1, <3>9 DEF NoWrites
        <5>2. cache = ipc[1].vals
          BY <1>3, <2>1, <4>2, <5>1
        <5> QED
          BY <2>1, <2>4, <3>4, <4>2, <5>2
      <4> QED
        BY <4>1, <4>2
    <3>10. ASSUME NEW i \in 1 .. Len(ipc'), ipc'[i].op # "load",
                  i = Len(ipc') \/ ipc'[i + 1].op = "load"
           PROVE  cache' = ipc'[i].vals
      <4>1. ipc'[i] = ipc[i + 1] /\ i + 1 \in 1 .. Len(ipc)
        BY <3>1, <3>2
      <4>2. i + 1 = Len(ipc) \/ (i # Len(ipc') /\ ipc'[i + 1] = ipc[(i + 1) + 1])
        BY <2>1, <3>1
      <4> QED
        BY <1>3, <2>1, <3>10, <4>1, <4>2
    <3>11. ASSUME Len(ipc') > 0
           PROVE  Keys \ Rest(ipc'[1].todo) = {}
      <4>1. ipc'[1].todo = KeyOrder
        BY <2>1, <3>1, <3>11 DEF SessionInv, Queue
      <4> QED
        BY <4>1, WholeList
    <3> QED
      BY <3>8, <3>9, <3>10, <3>11 DEF Aligned, Brought
  <2> QED
    BY <2>2, <2>6, <2>7
<1>11. ASSUME NEW f \in Flows, AssignStep(f)
       PROVE  Aligned'
  <2>1. \A h \in Flows : pc'[h] \in Brought => pc'[h] = pc[h] /\ got'[h] = got[h]
    BY <1>1, <1>11 DEF AssignStep, Apart
  <2>2. UNCHANGED <<ipc, store>> /\ cache' = store /\ NoWrites
    BY <1>3, <1>11 DEF AssignStep
  <2> QED
    BY <1>4, <2>1, <2>2
<1>12. ASSUME Restart
       PROVE  Aligned'
  <2>1. /\ Len(ipc') = 0 /\ \A f \in Flows : pc'[f] \in {"mount", "idle"}
        /\ cache' = NoSession /\ loaded' = FALSE /\ ui' = 0
        /\ pc' = [f \in Flows |-> IF f = "start" THEN "mount" ELSE "idle"]
    BY <1>12 DEF Restart
  <2>2. Booting'
    BY <2>1 DEF Booting
  <2> QED
    BY <2>1, <2>2 DEF Aligned
<1>13. ASSUME WorkerRead \/ WorkerGranted \/ WorkerGivesUp
       PROVE  Aligned'
  <2>1. UNCHANGED <<ipc, store, pc, got, cache, loaded, ui>>
    BY <1>13 DEF WorkerRead, WorkerGranted, WorkerGivesUp, app
  <2>2. Booting => Booting'
    BY <2>1 DEF Booting
  <2> QED
    BY <1>4, <2>1, <2>2
<1>14. ~WorkerSets
  BY DEF WorkerSets
<1>15. KeepsStep => Aligned'
  BY <1>4 DEF KeepsStep
<1>16. (\E f \in Flows, n \in Brought : LoadStep(f, n)) => Aligned'
  BY <1>6
<1>17. (\E f \in {"refresh", "logout"} : ClearStep(f)) => Aligned'
  BY <1>8
<1>18. (\E f \in {"refresh", "login"}, g \in Grants, u \in Users : SetStep(f, g, u)) => Aligned'
  BY <1>9
<1>19. (\E f \in Flows : AssignStep(f)) => Aligned'
  BY <1>11
<1> QED
  BY <1>10, <1>12, <1>13, <1>14, <1>15, <1>16, <1>17, <1>18, <1>19 DEF Kinds

-----------------------------------------------------------------------------
(* The tokens of one person                                                *)

\* The keys still to come are all, all but the token, or the user alone.
LEMMA RestCases ==
  ASSUME NEW l \in Lists
  PROVE  Rest(l) \in {Keys, {"refresh", "user"}, {"user"}}
<1>1. /\ Rest(<<"user">>) = {"user"}
      /\ Rest(<<"refresh", "user">>) = {"refresh", "user"}
      /\ Rest(<<"token", "refresh", "user">>) = {"token", "refresh", "user"}
  BY DEF Rest
<1> QED
  BY <1>1 DEF Lists, Keys

LEMMA WholeStep ==
  ASSUME SessionInv, Kinds, ~torn'
  PROVE  Whole'
<1> USE FlowNames
<1>1. /\ ipc \in Seq(CallType) /\ Len(ipc) \in Nat /\ store \in Session
      /\ got \in [Flows -> Session]
      /\ \A i \in 1 .. Len(ipc) : ipc[i] \in CallType /\ Pending(ipc[i])
  BY DEF SessionInv, Shape, Queue
<1>2. ~torn
  BY DEF Kinds, KeepsStep, LoadStep, AssignStep, ClearStep, SetStep, StorageStep, Restart,
         WorkerRead, WorkerGranted, WorkerGivesUp, WorkerSets, history
<1>3. /\ One(cache) /\ \A f \in Flows : One(got[f])
      /\ ~Setting => One(store)
      /\ Setting =>
           /\ \A j, k \in Rest(ipc[1].todo) : Agree(store[j], store[k])
           /\ \A k \in Keys \ Rest(ipc[1].todo) : Agree(store[k], ipc[1].vals["token"])
      /\ Len(ipc) > 0 /\ ipc[1].op = "load" =>
           One(ipc[1].vals) /\ \A j, k \in Keys : Agree(ipc[1].vals[j], store[k])
      /\ worker.at # "idle" =>
           /\ \A k \in Keys : \/ Agree(worker.token, store[k])
                              \/ Setting /\ Rest(ipc[1].todo) = {k}
           /\ \A i \in 1 .. Len(ipc) : \A k \in Keys : Agree(worker.token, ipc[i].vals[k])
  BY <1>2 DEF SessionInv, Whole
<1>4. /\ \A g \in Issued : owner'[g] = owner[g]
      /\ \A i \in 1 .. Len(ipc), k \in Keys : ipc[i].vals[k] \in Issued \cup {0}
      /\ \A k \in Keys : store[k] \in Issued \cup {0} /\ cache[k] \in Issued \cup {0}
      /\ \A f \in Flows, k \in Keys : got[f][k] \in Issued \cup {0}
      /\ worker.at # "idle" => worker.token \in Issued
  BY OwnerStep DEF SessionInv, Held, Known
<1>5. /\ One(NoSession) /\ One(NoSession)' /\ \A k \in Keys : NoSession[k] = 0
  BY DEF One, Agree, NoSession
<1>6. Len(ipc) > 0 => Rest(ipc[1].todo) \in {Keys, {"refresh", "user"}, {"user"}}
  BY <1>1, RestCases DEF CallType
<1>7. ASSUME store' = store, Len(ipc) > 0, ipc'[1] = ipc[1]
      PROVE  /\ Setting =>
                  /\ \A j, k \in Rest(ipc'[1].todo) : Agree(store[j], store[k])'
                  /\ \A k \in Keys \ Rest(ipc'[1].todo) : Agree(store[k], ipc[1].vals["token"])'
             /\ ipc[1].op = "load" =>
                  One(ipc[1].vals)' /\ \A j, k \in Keys : Agree(ipc[1].vals[j], store[k])'
  <2>1. /\ \A k \in Keys : store[k] \in Issued \cup {0} /\ ipc[1].vals[k] \in Issued \cup {0}
        /\ Rest(ipc[1].todo) \subseteq Keys /\ "token" \in Keys
    BY <1>1, <1>4, <1>6, <1>7 DEF Keys
  <2>2. Setting =>
          /\ \A j, k \in Rest(ipc[1].todo) : Agree(store[j], store[k])'
          /\ \A k \in Keys \ Rest(ipc[1].todo) : Agree(store[k], ipc[1].vals["token"])'
    BY <1>3, <1>4, <1>7, <2>1 DEF Agree
  <2>3. ipc[1].op = "load" =>
          One(ipc[1].vals)' /\ \A j, k \in Keys : Agree(ipc[1].vals[j], store[k])'
    BY <1>3, <1>4, <1>7, <2>1 DEF One, Agree
  <2> QED
    BY <1>7, <2>2, <2>3

<1>8. ASSUME UNCHANGED <<ipc, store, worker>>, One(cache)', \A f \in Flows : One(got[f])'
      PROVE  Whole'
  <2>1. Setting' = Setting
    BY <1>8 DEF Setting
  <2>2. ~Setting' => One(store)'
    BY <1>3, <1>4, <1>8, <2>1 DEF One, Agree
  <2>3. Setting' =>
          /\ \A j, k \in Rest(ipc'[1].todo) : Agree(store[j], store[k])'
          /\ \A k \in Keys \ Rest(ipc'[1].todo) : Agree(store[k], ipc[1].vals["token"])'
    BY <1>7, <1>8, <2>1 DEF Setting
  <2>4. Len(ipc') > 0 /\ ipc'[1].op = "load" =>
           One(ipc[1].vals)' /\ \A j, k \in Keys : Agree(ipc[1].vals[j], store[k])'
    BY <1>7, <1>8
  <2>5. worker'.at # "idle" =>
           /\ \A k \in Keys : \/ Agree(worker.token, store[k])'
                              \/ Setting' /\ Rest(ipc'[1].todo) = {k}
           /\ \A i \in 1 .. Len(ipc') : \A k \in Keys : Agree(worker.token, ipc[i].vals[k])'
    BY <1>3, <1>4, <1>8, <2>1 DEF Agree
  <2> QED
    BY <1>8, <2>2, <2>3, <2>4, <2>5 DEF Whole
<1>9. ASSUME NEW c \in CallType, Adds(c), c.todo = KeyOrder, UNCHANGED <<store, worker>>,
             c.op # "set" => c.vals = NoSession,
             worker.at # "idle" => \A k \in Keys : Agree(worker.token, c.vals[k])',
             One(cache)', \A f \in Flows : One(got[f])'
      PROVE  Whole'
  <2>1. Rest(c.todo) = Keys /\ Keys \ Rest(c.todo) = {}
    BY <1>9, WholeList
  <2>2. worker'.at # "idle" =>
           \A i \in 1 .. Len(ipc') : \A k \in Keys : Agree(worker.token, ipc[i].vals[k])'
    <3>1. ASSUME worker.at # "idle", NEW i \in 1 .. Len(ipc'), NEW k \in Keys
          PROVE  Agree(worker.token, ipc[i].vals[k])'
      <4>1. CASE i \in 1 .. Len(ipc)
        <5>1. ipc'[i] = ipc[i]
          BY <1>9, <4>1 DEF Adds
        <5> QED
          BY <1>3, <1>4, <1>9, <3>1, <4>1, <5>1 DEF Agree
      <4>2. CASE i = Len(ipc')
        <5>1. ipc'[i] = c
          BY <1>9, <4>2 DEF Adds
        <5> QED
          BY <1>9, <3>1, <5>1 DEF Agree
      <4> QED
        BY <1>1, <1>9, <4>1, <4>2 DEF Adds
    <3> QED
      BY <1>9, <3>1
  <2>3. CASE Len(ipc) = 0
    <3>1. ipc'[1] = c /\ ~Setting
      BY <1>1, <1>9, <2>3 DEF Adds, Setting
    <3>2. \A j, k \in Keys : Agree(store[j], store[k])'
      BY <1>3, <1>4, <1>9, <3>1 DEF One, Agree
    <3>3. c.op = "load" => One(c.vals)' /\ \A j, k \in Keys : Agree(c.vals[j], store[k])'
      BY <1>5, <1>9 DEF One, Agree
    <3>4. worker'.at # "idle" => \A k \in Keys : Agree(worker.token, store[k])'
      BY <1>3, <1>4, <1>9, <3>1 DEF Agree
    <3>5. One(store)'
      BY <3>2 DEF One
    <3>6. Setting' =>
            /\ \A j, k \in Rest(ipc'[1].todo) : Agree(store[j], store[k])'
            /\ \A k \in Keys \ Rest(ipc'[1].todo) : Agree(store[k], ipc[1].vals["token"])'
      BY <2>1, <3>1, <3>2
    <3>7. ipc'[1].op = "load" =>
             One(ipc[1].vals)' /\ \A j, k \in Keys : Agree(ipc[1].vals[j], store[k])'
      BY <3>1, <3>3 DEF One, Agree
    <3> QED
      BY <1>9, <2>2, <3>4, <3>5, <3>6, <3>7 DEF Whole
  <2>4. CASE Len(ipc) > 0
    <3>1. ipc'[1] = ipc[1] /\ Len(ipc') > 0 /\ 1 \in 1 .. Len(ipc)
      BY <1>1, <1>9, <2>4 DEF Adds
    <3>2. Setting' = Setting
      BY <2>4, <3>1 DEF Setting
    <3>3. ~Setting' => One(store)'
      BY <1>3, <1>4, <1>9, <3>2 DEF One, Agree
    <3>4. Setting' =>
            /\ \A j, k \in Rest(ipc'[1].todo) : Agree(store[j], store[k])'
            /\ \A k \in Keys \ Rest(ipc'[1].todo) : Agree(store[k], ipc[1].vals["token"])'
      BY <1>7, <1>9, <2>4, <3>1, <3>2
    <3>5. ipc'[1].op = "load" =>
             One(ipc[1].vals)' /\ \A j, k \in Keys : Agree(ipc[1].vals[j], store[k])'
      BY <1>7, <1>9, <2>4, <3>1
    <3>6. worker'.at # "idle" =>
             \A k \in Keys : \/ Agree(worker.token, store[k])'
                             \/ Setting' /\ Rest(ipc'[1].todo) = {k}
      BY <1>3, <1>4, <1>9, <3>1, <3>2 DEF Agree
    <3> QED
      BY <1>9, <2>2, <3>3, <3>4, <3>5, <3>6 DEF Whole
  <2> QED
    BY <1>1, <2>3, <2>4
<1>10. ASSUME UNCHANGED <<cache>>
       PROVE  One(cache)'
  BY <1>3, <1>4, <1>10 DEF One, Agree
<1>11. ASSUME \A f \in Flows : got'[f] = got[f] \/ got'[f] = NoSession
       PROVE  \A f \in Flows : One(got[f])'
  BY <1>3, <1>4, <1>5, <1>11 DEF One, Agree
<1>12. ASSUME NEW f \in Flows, NEW n \in Brought, LoadStep(f, n)
       PROVE  Whole'
  <2>1. PICK c \in CallType : /\ c = LoadCall(f, n) /\ c.op = "load" /\ c.todo = KeyOrder
                              /\ c.vals = NoSession
    BY CallFields
  <2>2. Adds(c) /\ UNCHANGED <<store, worker, cache, got>>
    BY <1>12, <2>1, Called DEF LoadStep
  <2>3. \A k \in Keys : Agree(worker.token, c.vals[k])'
    BY <1>5, <2>1 DEF Agree
  <2> QED
    BY <1>9, <1>10, <1>11, <2>1, <2>2, <2>3
<1>13. ASSUME NEW f \in Flows, AssignStep(f)
       PROVE  Whole'
  <2>1. UNCHANGED <<ipc, store, worker>> /\ cache' = got[f]
    BY <1>13 DEF AssignStep
  <2>2. \A h \in Flows : got'[h] = got[h] \/ got'[h] = NoSession
    BY <1>1, <1>13 DEF AssignStep
  <2>3. One(cache)'
    BY <1>3, <1>4, <2>1 DEF One, Agree
  <2> QED
    BY <1>8, <1>11, <2>1, <2>2, <2>3
<1>14. ASSUME NEW f \in {"refresh", "logout"}, ClearStep(f)
       PROVE  Whole'
  <2>1. PICK c \in CallType : /\ c = ClearCall(f) /\ c.op = "clear" /\ c.todo = KeyOrder
                              /\ c.vals = NoSession
    BY CallFields
  <2>2. Adds(c) /\ UNCHANGED <<store, worker>> /\ cache' = NoSession
    BY <1>14, <2>1, Called DEF ClearStep
  <2>3. \A k \in Keys : Agree(worker.token, c.vals[k])'
    BY <1>5, <2>1 DEF Agree
  <2>4. One(cache)'
    BY <1>5, <2>2 DEF One, Agree
  <2>5. \A h \in Flows : got'[h] = got[h] \/ got'[h] = NoSession
    BY <1>1, <1>14 DEF ClearStep
  <2> QED
    BY <1>9, <1>11, <2>1, <2>2, <2>3, <2>4, <2>5
<1>15. ASSUME NEW f \in {"refresh", "login"}, NEW g \in Grants, NEW u \in Users, SetStep(f, g, u)
       PROVE  Whole'
  <2>1. PICK c \in CallType : /\ c = SetCall(f, g) /\ c.op = "set" /\ c.todo = KeyOrder
                              /\ c.vals = SessionOf(g)
    BY CallFields
  <2>2. Adds(c) /\ UNCHANGED <<store, worker, got>> /\ cache' = SessionOf(g)
    BY <1>15, <2>1, Called DEF SetStep
  <2>3. owner'[g] = u /\ \A k \in Keys : SessionOf(g)[k] = g
    BY <1>15 DEF SetStep, SessionInv, Shape, SessionOf
  <2>4. worker.at # "idle" => owner[worker.token] = u /\ worker.token # 0
    BY <1>4, <1>15, SessionAssumption DEF SetStep, User, Issued, Grants
  <2>5. worker.at # "idle" => \A k \in Keys : Agree(worker.token, c.vals[k])'
    BY <1>4, <2>1, <2>2, <2>3, <2>4 DEF Agree
  <2>6. One(cache)'
    BY <2>2, <2>3 DEF One, Agree
  <2> QED
    BY <1>9, <1>11, <2>1, <2>2, <2>5, <2>6

<1>16. ASSUME StorageStep
       PROVE  Whole'
  <2>1. /\ Len(ipc) \in Nat \ {0} /\ ipc[1] \in CallType /\ ipc' \in Seq(CallType)
        /\ UNCHANGED <<owner, cache, worker>> /\ 1 \in 1 .. Len(ipc)
    BY <1>16, StorageFacts DEF SessionInv, server
  <2>2. PICK k \in Rest(ipc[1].todo) :
          k \in Keys /\ Read(k) \in Session /\ Stores(k) /\ (Advances(k) \/ Finishes(k))
    BY <1>16, StorageFacts DEF SessionInv
  <2>3. PICK s \in Session : s = Read(k)
    BY <2>2
  <2>4. ipc[1].op = "set" =>
          /\ ipc[1].vals["token"] # 0 /\ \A j \in Keys : ipc[1].vals[j] = ipc[1].vals["token"]
    BY <1>1, <2>1 DEF Pending
  <2>5. ipc[1].op = "clear" => ipc[1].vals = NoSession
    BY <1>1, <2>1 DEF Pending
  <2>6. ipc[1].op \in {"load", "set", "clear"} /\ (Setting <=> ipc[1].op = "set")
    BY <2>1 DEF CallType, Setting
  <2>7. /\ ipc[1].op = "load" => /\ store' = store /\ s[k] = store[k]
                                 /\ \A j \in Keys \ {k} : s[j] = ipc[1].vals[j]
        /\ ipc[1].op # "load" => /\ s = ipc[1].vals /\ store'[k] = ipc[1].vals[k]
                                 /\ \A j \in Keys \ {k} : store'[j] = store[j]
    <3>1. CASE ipc[1].op = "load"
      <4>1. s = [ipc[1].vals EXCEPT ![k] = store[k]] /\ store' = store
        BY <2>2, <2>3, <3>1 DEF Read, Stores
      <4>2. ipc[1].vals \in [Keys -> Grants \cup {0}]
        BY <2>1 DEF CallType, Session
      <4> QED
        BY <2>2, <3>1, <4>1, <4>2
    <3>2. CASE ipc[1].op # "load"
      <4>1. s = ipc[1].vals /\ store' = [store EXCEPT ![k] = ipc[1].vals[k]]
        BY <2>2, <2>3, <3>2 DEF Read, Stores
      <4> QED
        BY <1>1, <2>2, <3>2, <4>1 DEF Session
    <3> QED
      BY <3>1, <3>2
  <2>8. One(cache)'
    BY <1>10, <2>1
  \* What the storage holds after a write, and what has been read.
  <2>9. ipc[1].op # "set" => \A i, j \in Keys : Agree(store'[i], store'[j])
    <3>1. CASE ipc[1].op = "load"
      BY <1>3, <2>6, <2>7, <3>1 DEF One
    <3>2. CASE ipc[1].op = "clear"
      BY <1>3, <1>5, <2>2, <2>5, <2>6, <2>7, <3>2 DEF One, Agree
    <3> QED
      BY <2>6, <3>1, <3>2
  <2>10. ipc[1].op = "set" =>
           /\ \A i, j \in Rest(ipc[1].todo) \ {k} : Agree(store'[i], store'[j])
           /\ \A j \in Keys \ (Rest(ipc[1].todo) \ {k}) : Agree(store'[j], ipc[1].vals["token"])
    <3>1. Rest(ipc[1].todo) \subseteq Keys
      BY <1>6, <2>1 DEF Keys
    <3> QED
      BY <1>3, <2>2, <2>4, <2>6, <2>7, <3>1 DEF Agree
  <2>11. ipc[1].op = "load" =>
           (\A i, j \in Keys : Agree(s[i], s[j])) /\ \A i, j \in Keys : Agree(s[i], store'[j])
    BY <1>3, <2>1, <2>2, <2>6, <2>7 DEF One, Agree
  <2>12. worker.at # "idle" => \A j \in Keys : \/ Agree(worker.token, store'[j])
                                               \/ j # k /\ Setting /\ Rest(ipc[1].todo) = {j}
    <3>1. CASE ipc[1].op = "load"
      BY <1>3, <2>6, <2>7, <3>1
    <3>2. CASE ipc[1].op # "load"
      <4>1. worker.at # "idle" => Agree(worker.token, store'[k])
        BY <1>3, <2>1, <2>2, <2>7, <3>2
      <4> QED
        BY <1>3, <2>2, <2>7, <3>2, <4>1
    <3> QED
      BY <3>1, <3>2
  <2>13. worker.at # "idle" => \A j \in Keys : Agree(worker.token, store'[j])
    BY <2>2, <2>12
  <2>14. worker.at # "idle" => \A j \in Keys : Agree(worker.token, s[j])
    <3>1. CASE ipc[1].op = "load"
      BY <1>3, <2>1, <2>2, <2>6, <2>7, <3>1
    <3>2. CASE ipc[1].op # "load"
      BY <1>3, <2>1, <2>7, <3>2
    <3> QED
      BY <3>1, <3>2
  <2>15. CASE Advances(k)
    <3>1. /\ Len(ipc') = Len(ipc) /\ got' = got
          /\ ipc'[1].op = ipc[1].op /\ ipc'[1].vals = s
          /\ Rest(ipc'[1].todo) = Rest(ipc[1].todo) \ {k}
          /\ \A i \in 2 .. Len(ipc) : ipc'[i] = ipc[i]
      BY <2>3, <2>15 DEF Advances
    <3>2. \A i \in 1 .. Len(ipc) : i = 1 \/ i \in 2 .. Len(ipc)
      BY <2>1
    <3>3. Setting' <=> ipc[1].op = "set"
      BY <2>1, <3>1 DEF Setting
    <3>4. ~Setting' => One(store)'
      BY <2>1, <2>9, <3>3 DEF One, Agree
    <3>5. Setting' =>
            /\ \A i, j \in Rest(ipc'[1].todo) : Agree(store[i], store[j])'
            /\ \A j \in Keys \ Rest(ipc'[1].todo) : Agree(store[j], ipc[1].vals["token"])'
      BY <2>1, <2>7, <2>10, <3>1, <3>3 DEF Agree
    <3>6. ipc'[1].op = "load" =>
             One(ipc[1].vals)' /\ \A i, j \in Keys : Agree(ipc[1].vals[i], store[j])'
      BY <2>1, <2>11, <3>1 DEF One, Agree
    <3>7. worker'.at # "idle" => \A j \in Keys : Agree(worker.token, store[j])'
      BY <2>1, <2>13 DEF Agree
    <3>8. worker'.at # "idle" =>
             \A i \in 1 .. Len(ipc') : \A j \in Keys : Agree(worker.token, ipc[i].vals[j])'
      BY <1>3, <2>1, <2>14, <3>1, <3>2 DEF Agree
    <3>9. \A f \in Flows : One(got[f])'
      BY <1>11, <3>1
    <3> QED
      BY <2>8, <3>4, <3>5, <3>6, <3>7, <3>8, <3>9 DEF Whole
  <2>16. CASE Finishes(k)
    <3>1. /\ Rest(ipc[1].todo) = {k}
          /\ Len(ipc') = Len(ipc) - 1
          /\ \A i \in 1 .. Len(ipc') : ipc'[i] = ipc[i + 1] /\ i + 1 \in 1 .. Len(ipc)
      BY <2>1, <2>16 DEF Finishes
    <3>2. \A i, j \in Keys : Agree(store'[i], store'[j])
      <4>1. CASE ipc[1].op = "set"
        <5>1. \A j \in Keys : Agree(store'[j], ipc[1].vals["token"])
          BY <2>10, <3>1, <4>1
        <5> QED
          BY <2>4, <4>1, <5>1 DEF Agree
      <4> QED
        BY <2>9, <4>1
    <3>3. One(store)'
      BY <2>1, <3>2 DEF One, Agree
    <3>4. Len(ipc') > 0 => /\ Rest(ipc'[1].todo) = Keys
                           /\ ipc'[1].op = "load" => ipc'[1].vals = NoSession
      <4>1. ASSUME Len(ipc') > 0
            PROVE  /\ ipc'[1].todo = KeyOrder
                   /\ ipc'[1].op = "load" => ipc'[1].vals = NoSession
        BY <2>1, <3>1, <4>1 DEF SessionInv, Queue
      <4> QED
        BY <4>1, WholeList
    <3>5. Setting' =>
            /\ \A i, j \in Rest(ipc'[1].todo) : Agree(store[i], store[j])'
            /\ \A j \in Keys \ Rest(ipc'[1].todo) : Agree(store[j], ipc[1].vals["token"])'
      BY <2>1, <3>2, <3>4 DEF Setting, Agree
    <3>6. Len(ipc') > 0 /\ ipc'[1].op = "load" =>
             One(ipc[1].vals)' /\ \A i, j \in Keys : Agree(ipc[1].vals[i], store[j])'
      BY <1>5, <3>4 DEF One, Agree
    <3>7. worker'.at # "idle" => \A j \in Keys : Agree(worker.token, store[j])'
      BY <2>1, <2>13 DEF Agree
    <3>8. worker'.at # "idle" =>
             \A i \in 1 .. Len(ipc') : \A j \in Keys : Agree(worker.token, ipc[i].vals[j])'
      BY <1>3, <2>1, <3>1 DEF Agree
    <3>9. \A f \in Flows : One(got[f])'
      <4>1. \A f \in Flows : got'[f] = got[f] \/ (ipc[1].op = "load" /\ got'[f] = s)
        BY <1>1, <2>3, <2>16 DEF Finishes
      <4> QED
        BY <1>3, <2>1, <2>11, <4>1 DEF One, Agree
    <3> QED
      BY <2>8, <3>3, <3>5, <3>6, <3>7, <3>8, <3>9 DEF Whole
  <2> QED
    BY <2>2, <2>15, <2>16
<1>17. ASSUME Restart
       PROVE  Whole'
  <2>1. /\ UNCHANGED <<owner, store, worker>> /\ Tokens = {} /\ Len(ipc') = 0
        /\ cache' = NoSession /\ got' = [f \in Flows |-> NoSession]
    BY <1>17 DEF Restart, server
  <2>2. ~Setting /\ ~Setting'
    BY <1>1, <2>1 DEF Setting, Tokens, Unwritten
  <2>3. One(cache)' /\ \A f \in Flows : One(got[f])'
    BY <1>5, <2>1 DEF One, Agree
  <2>4. One(store)'
    BY <1>3, <2>1, <2>2 DEF One, Agree
  <2>5. worker'.at # "idle" => \A k \in Keys : Agree(worker.token, store[k])'
    BY <1>3, <2>1, <2>2 DEF Agree
  <2> QED
    BY <2>1, <2>2, <2>3, <2>4, <2>5 DEF Whole
<1>18. ASSUME WorkerRead
       PROVE  Whole'
  <2> DEFINE r == store["refresh"]
  <2>1. /\ UNCHANGED <<owner, store, ipc, cache, got>> /\ worker'.token = r /\ r # 0
        /\ \A i \in Tokens : User(ipc[i].vals["token"]) = User(r)
    BY <1>18 DEF WorkerRead, app, server
  <2>2. \A i \in 1 .. Len(ipc) :
          ipc[i].op = "set" => /\ ipc[i].vals["token"] # 0 /\ owner[ipc[i].vals["token"]] = owner[r]
                               /\ \A k \in Keys : ipc[i].vals[k] = ipc[i].vals["token"]
    BY <1>1, <2>1 DEF Pending, Tokens, Unwritten, User
  <2>3. \A i \in 1 .. Len(ipc), k \in Keys : Agree(r, ipc[i].vals[k])
    <3>1. ASSUME NEW i \in 1 .. Len(ipc), NEW k \in Keys
          PROVE  Agree(r, ipc[i].vals[k])
      <4>1. CASE ipc[i].op = "set"
        BY <2>2, <4>1 DEF Agree
      <4>2. CASE ipc[i].op = "clear"
        BY <1>1, <1>5, <4>2 DEF Pending, Agree
      <4>3. CASE ipc[i].op = "load" /\ i # 1
        BY <1>5, <4>3 DEF SessionInv, Queue, Agree
      <4>4. CASE ipc[i].op = "load" /\ i = 1
        BY <1>1, <1>3, <4>4 DEF Keys, Agree
      <4> QED
        BY <1>1, <4>1, <4>2, <4>3, <4>4 DEF CallType
    <3> QED
      BY <3>1
  <2>4. \A k \in Keys : Agree(r, store[k]) \/ (Setting /\ Rest(ipc[1].todo) = {k})
    <3>1. CASE ~Setting
      BY <1>3, <3>1 DEF One, Keys
    <3>2. CASE Setting
      <4>1. Len(ipc) > 0 /\ ipc[1].op = "set" /\ 1 \in 1 .. Len(ipc)
        BY <1>1, <3>2 DEF Setting
      <4>2. \A k \in Keys \ Rest(ipc[1].todo) : Agree(r, store[k])
        BY <1>3, <2>2, <3>2, <4>1 DEF Agree
      <4>3. CASE "refresh" \in Rest(ipc[1].todo)
        BY <1>3, <3>2, <4>2, <4>3
      <4>4. CASE "refresh" \notin Rest(ipc[1].todo)
        <5>1. Rest(ipc[1].todo) = {"user"}
          BY <1>6, <4>1, <4>4 DEF Keys
        <5> QED
          BY <3>2, <4>2, <5>1
      <4> QED
        BY <4>3, <4>4
    <3> QED
      BY <3>1, <3>2
  <2>5. Setting' = Setting
    BY <2>1 DEF Setting
  <2>6. One(cache)' /\ \A f \in Flows : One(got[f])'
    BY <1>3, <2>1 DEF One, Agree
  <2> HIDE DEF r
  <2>7. worker'.at # "idle" =>
           /\ \A k \in Keys : \/ Agree(worker.token, store[k])'
                              \/ Setting' /\ Rest(ipc'[1].todo) = {k}
           /\ \A i \in 1 .. Len(ipc') : \A k \in Keys : Agree(worker.token, ipc[i].vals[k])'
    BY <2>1, <2>3, <2>4, <2>5 DEF Agree
  <2>8. /\ ~Setting' => One(store)'
        /\ Setting' =>
           /\ \A j, k \in Rest(ipc'[1].todo) : Agree(store[j], store[k])'
           /\ \A k \in Keys \ Rest(ipc'[1].todo) : Agree(store[k], ipc[1].vals["token"])'
        /\ Len(ipc') > 0 /\ ipc'[1].op = "load" =>
           One(ipc[1].vals)' /\ \A j, k \in Keys : Agree(ipc[1].vals[j], store[k])'
    BY <1>3, <2>1, <2>5 DEF One, Agree
  <2> QED
    BY <2>6, <2>7, <2>8 DEF Whole
<1>19. ASSUME WorkerGranted \/ WorkerGivesUp
       PROVE  Whole'
  <2>1. UNCHANGED <<ipc, store, cache, got>>
    BY <1>19 DEF WorkerGranted, WorkerGivesUp, app
  <2>2. worker'.at # "idle" =>
          /\ worker.at # "idle" /\ worker.token # 0 /\ worker.token \in Issued
          /\ owner'[worker'.token] = owner[worker.token]
    <3>1. CASE WorkerGivesUp
      BY <3>1 DEF WorkerGivesUp, WorkerIdle
    <3>2. CASE WorkerGranted
      <4>1. PICK g \in Grants :
              Issue(owner[worker.token], g) /\ worker' = [at |-> "token", token |-> g]
        BY <3>2 DEF WorkerGranted
      <4>2. worker.at # "idle" /\ worker.token \in Issued /\ worker.token # 0
        BY <1>4, <3>2, SessionAssumption DEF WorkerGranted, Issued, Grants
      <4>3. owner'[g] = owner[worker.token]
        BY <4>1 DEF Issue, SessionInv, Shape
      <4> QED
        BY <4>1, <4>2, <4>3
    <3> QED
      BY <1>19, <3>1, <3>2
  <2>3. Setting' = Setting
    BY <2>1 DEF Setting
  <2>4. One(cache)' /\ \A f \in Flows : One(got[f])'
    BY <1>3, <1>4, <2>1 DEF One, Agree
  <2>5. ~Setting' => One(store)'
    BY <1>3, <1>4, <2>1, <2>3 DEF One, Agree
  <2>6. Setting' =>
          /\ \A j, k \in Rest(ipc'[1].todo) : Agree(store[j], store[k])'
          /\ \A k \in Keys \ Rest(ipc'[1].todo) : Agree(store[k], ipc[1].vals["token"])'
    BY <1>7, <2>1, <2>3 DEF Setting
  <2>7. Len(ipc') > 0 /\ ipc'[1].op = "load" =>
           One(ipc[1].vals)' /\ \A j, k \in Keys : Agree(ipc[1].vals[j], store[k])'
    BY <1>7, <2>1
  <2>8. worker'.at # "idle" =>
           /\ \A k \in Keys : \/ Agree(worker.token, store[k])'
                              \/ Setting' /\ Rest(ipc'[1].todo) = {k}
           /\ \A i \in 1 .. Len(ipc') : \A k \in Keys : Agree(worker.token, ipc[i].vals[k])'
    BY <1>3, <1>4, <2>1, <2>2, <2>3 DEF Agree
  <2> QED
    BY <2>4, <2>5, <2>6, <2>7, <2>8 DEF Whole
<1>20. ASSUME WorkerSets
       PROVE  Whole'
  <2>1. /\ UNCHANGED <<owner, ipc, cache, got>> /\ worker.at \in {"token", "refresh"}
        /\ store' = [store EXCEPT ![worker.at] = worker.token]
        /\ worker'.at # "idle" => worker'.token = worker.token
    BY <1>20 DEF WorkerSets, app, server, WorkerIdle, SessionInv, Shape
  <2>2. PICK a \in Keys : a = worker.at /\ a # "user"
    BY <2>1 DEF Keys
  <2>3. store'[a] = worker.token /\ \A k \in Keys \ {a} : store'[k] = store[k]
    BY <1>1, <2>1, <2>2 DEF Session
  <2>4. /\ \A k \in Keys : Agree(worker.token, store[k]) \/ (Setting /\ Rest(ipc[1].todo) = {k})
        /\ \A i \in 1 .. Len(ipc) : \A k \in Keys : Agree(worker.token, ipc[i].vals[k])
    BY <1>3, <2>1
  <2>5. Setting' = Setting
    BY <2>1 DEF Setting
  <2>6. One(cache)' /\ \A f \in Flows : One(got[f])'
    BY <1>3, <2>1 DEF One, Agree
  <2>7. ~Setting' => One(store)'
    BY <1>3, <2>1, <2>3, <2>4, <2>5 DEF One, Agree
  <2>8. ASSUME Setting'
        PROVE  /\ \A j, k \in Rest(ipc'[1].todo) : Agree(store[j], store[k])'
               /\ \A k \in Keys \ Rest(ipc'[1].todo) : Agree(store[k], ipc[1].vals["token"])'
    <3>1. Len(ipc) > 0 /\ 1 \in 1 .. Len(ipc) /\ Rest(ipc[1].todo) \subseteq Keys /\ "token" \in Keys
      BY <1>1, <1>6, <2>5, <2>8 DEF Setting, Keys
    <3>2. \A j, k \in Rest(ipc[1].todo) : Agree(store[j], store[k])
      BY <1>3, <2>5, <2>8
    <3>3. \A k \in Keys \ Rest(ipc[1].todo) : Agree(store[k], ipc[1].vals["token"])
      BY <1>3, <2>5, <2>8
    <3>4. \A j, k \in Rest(ipc[1].todo) : Agree(store'[j], store'[k])
      BY <2>3, <2>4, <3>1, <3>2 DEF Agree
    <3>5. \A k \in Keys \ Rest(ipc[1].todo) : Agree(store'[k], ipc[1].vals["token"])
      BY <2>3, <2>4, <3>1, <3>3
    <3> QED
      BY <2>1, <3>4, <3>5 DEF Agree
  <2>9. Len(ipc') > 0 /\ ipc'[1].op = "load" =>
           One(ipc[1].vals)' /\ \A j, k \in Keys : Agree(ipc[1].vals[j], store[k])'
    BY <1>1, <1>3, <2>1, <2>3, <2>4 DEF One, Agree
  <2>10. worker'.at # "idle" =>
           /\ \A k \in Keys : \/ Agree(worker.token, store[k])'
                              \/ Setting' /\ Rest(ipc'[1].todo) = {k}
           /\ \A i \in 1 .. Len(ipc') : \A k \in Keys : Agree(worker.token, ipc[i].vals[k])'
    BY <2>1, <2>3, <2>4, <2>5 DEF Agree
  <2> QED
    BY <2>6, <2>7, <2>8, <2>9, <2>10 DEF Whole
<1>21. KeepsStep => Whole'
  <2>1. ASSUME KeepsStep
        PROVE  Whole'
    <3>1. UNCHANGED <<ipc, store, worker, cache, got>>
      BY <2>1 DEF KeepsStep
    <3> QED
      BY <1>8, <1>10, <1>11, <3>1
  <2> QED
    BY <2>1
<1>22. (\E f \in Flows, n \in Brought : LoadStep(f, n)) => Whole'
  BY <1>12
<1>23. (\E f \in {"refresh", "logout"} : ClearStep(f)) => Whole'
  BY <1>14
<1>24. (\E f \in {"refresh", "login"}, g \in Grants, u \in Users : SetStep(f, g, u)) => Whole'
  BY <1>15
<1>25. (\E f \in Flows : AssignStep(f)) => Whole'
  BY <1>13
<1> QED
  BY <1>16, <1>17, <1>18, <1>19, <1>20, <1>21, <1>22, <1>23, <1>24, <1>25 DEF Kinds

-----------------------------------------------------------------------------
(* What the flows hold and the user shown                                  *)

LEMMA StraightBefore ==
  ASSUME Kinds, ~straddled', SessionInv
  PROVE  ~straddled
BY DEF Kinds, KeepsStep, LoadStep, AssignStep, ClearStep, SetStep, StorageStep, Restart,
       WorkerRead, WorkerGranted, WorkerGivesUp, WorkerSets, history

\* When the session changes with nobody in flight, the flows that could show it are idle.
LEMMA AloneIdle ==
  ASSUME NEW f \in Flows, InFlight \ {f} = {}
  PROVE  \A g \in {"start", "refresh", "login", "logout", "focus"} \ {f} : pc[g] = "idle"
BY FlowNames DEF InFlight

LEMMA HandsStep ==
  ASSUME SessionInv, Next, Kinds, ~straddled, ~straddled'
  PROVE  StraightHands'
<1> USE FlowNames
<1> DEFINE Sent == {"sent", "resent"}
           Kept == {"store", "stored"}
           Gone == {"clear", "cleared"}
           Hands ==
             /\ pc'["refresh"] = "post" => User(hand["refresh"])' = User(wanted)'
             /\ pc'["login"] \in Kept => User(hand["login"])' = User(wanted)'
             /\ pc'["start"] \in Sent => User(hand["start"])' = User(wanted)'
             /\ pc'["logout"] # "idle" \/ pc'["refresh"] \in Gone => User(wanted)' = None
           Shown ==
             \/ User(ui)' = User(wanted)'
             \/ Booting'
             \/ pc'["login"] \in Kept
             \/ pc'["logout"] # "idle" \/ pc'["refresh"] \in Gone
           Goal == Hands /\ Shown
<1>1. /\ pc["refresh"] = "post" => User(hand["refresh"]) = User(wanted)
      /\ pc["login"] \in Kept => User(hand["login"]) = User(wanted)
      /\ pc["start"] \in Sent => User(hand["start"]) = User(wanted)
      /\ pc["logout"] # "idle" \/ pc["refresh"] \in Gone => User(wanted) = None
      /\ \/ User(ui) = User(wanted)
         \/ Booting
         \/ pc["login"] \in Kept
         \/ pc["logout"] # "idle" \/ pc["refresh"] \in Gone
      /\ ~Booting => \A k \in Keys : User(cache[k]) = User(wanted)
  BY DEF SessionInv, StraightHands, Full
<1>2. /\ \A g \in Issued : owner'[g] = owner[g] /\ owner[g] # None
      /\ \A k \in Keys : cache[k] \in Issued \cup {0}
      /\ \A f \in Flows, k \in Keys : got[f][k] \in Issued \cup {0}
      /\ \A f \in Flows : hand[f] \in Issued \cup {0}
      /\ wanted \in Issued \cup {0} /\ ui \in Issued \cup {0}
  BY OwnerStep DEF SessionInv, Held, Known, Issued
<1>3. /\ pc \in [Flows -> Places] /\ hand \in [Flows -> Grants \cup {0}]
      /\ got \in [Flows -> Session] /\ {"token", "refresh", "user"} \subseteq Keys
      /\ pc["logout"] \in {"idle", "clear", "cleared"}
  BY DEF SessionInv, Shape, Queue, Keys
<1>4. \A f \in Flows : pc[f] \in {"loaded", "reloaded"} =>
        \A k \in Keys : User(got[f][k]) = User(wanted)
  BY DEF SessionInv, StraightReads, Full
<1>5. ASSUME UNCHANGED <<wanted, hand, ui>>,
             pc'["refresh"] = "post" => pc["refresh"] = "post",
             pc'["start"] \in Sent => pc["start"] \in Sent,
             (pc'["login"] \in Kept) <=> (pc["login"] \in Kept),
             (pc'["refresh"] \in Gone) <=> (pc["refresh"] \in Gone),
             (pc'["logout"] = "idle") <=> (pc["logout"] = "idle"),
             Booting => Booting'
      PROVE  Goal
  <2>1. User(wanted)' = User(wanted) /\ User(ui)' = User(ui)
    BY <1>2, <1>5 DEF User
  <2>2. \A f \in Flows : User(hand[f])' = User(hand[f])
    BY <1>2, <1>5 DEF User
  <2> QED
    BY <1>1, <1>5, <2>1, <2>2
<1>6. ASSUME UNCHANGED <<wanted, hand, ui, pc>>, Booting => Booting'
      PROVE  Goal
  BY <1>5, <1>6
\* performRefresh, from a session s.
<1>7. ASSUME NEW s, \A k \in Keys : User(s[k]) = User(wanted) /\ s[k] \in Issued \cup {0},
             NEW pcs \in [Flows -> Places],
             pcs["start"] \in Sent => pc["start"] \in Sent,
             (pcs["login"] \in Kept) <=> (pc["login"] \in Kept),
             (pcs["logout"] = "idle") <=> (pc["logout"] = "idle"),
             pc["refresh"] \notin Gone,
             ~Booting,
             RefreshWith(s, hand, pcs), ui' = ui
      PROVE  Goal
  <2>1. CASE s["refresh"] = 0 /\ ClearsSession("refresh", pcs) /\ hand' = hand
    <3>1. pc' = [pcs EXCEPT !["refresh"] = "clear"] /\ wanted' = wanted
      BY <1>7, <2>1 DEF RefreshWith, ClearsSession, Writes, history
    <3>2. User(wanted) = None /\ User(wanted)' = None
      BY <1>2, <1>3, <1>7, <2>1, <3>1 DEF User
    <3>3. \A f \in Flows : User(hand[f])' = User(hand[f])
      BY <1>2, <2>1 DEF User
    <3>4. /\ pc'["refresh"] = "clear" /\ pc'["start"] = pcs["start"]
          /\ pc'["login"] = pcs["login"] /\ pc'["logout"] = pcs["logout"]
      BY <1>7, <3>1
    <3> QED
      BY <1>1, <1>7, <3>2, <3>3, <3>4
  <2>2. CASE /\ s["refresh"] # 0
             /\ hand' = [hand EXCEPT !["refresh"] = s["refresh"]]
             /\ pc' = [pcs EXCEPT !["refresh"] = "post"]
             /\ UNCHANGED history
    <3>1. User(wanted)' = User(wanted) /\ User(ui)' = User(ui)
      BY <1>2, <1>7, <2>2 DEF User, history
    <3>2. \A f \in Flows \ {"refresh"} : User(hand[f])' = User(hand[f])
      BY <1>2, <1>3, <2>2 DEF User
    <3>3. User(hand["refresh"])' = User(s["refresh"])
      BY <1>2, <1>3, <1>7, <2>2 DEF User
    <3>4. /\ pc'["refresh"] = "post" /\ pc'["start"] = pcs["start"]
          /\ pc'["login"] = pcs["login"] /\ pc'["logout"] = pcs["logout"]
      BY <1>7, <2>2
    <3> QED
      BY <1>1, <1>3, <1>7, <3>1, <3>2, <3>3, <3>4
  <2> QED
    BY <1>7, <2>1, <2>2 DEF RefreshWith
<1>8. ASSUME NEW f \in Callers, pc[f] = "sent", JoinRefresh(f), ui' = ui
      PROVE  Goal
  <2> DEFINE pcs == [pc EXCEPT ![f] = "wait"]
  <2>1. /\ pcs \in [Flows -> Places] /\ ~Booting
        /\ pcs["refresh"] = pc["refresh"] /\ pcs["logout"] = pc["logout"]
        /\ pcs["start"] \in Sent => pc["start"] \in Sent
        /\ (pcs["login"] \in Kept) <=> (pc["login"] \in Kept)
    BY <1>3, <1>8, NotBooting DEF Places
  <2>2. \/ pc["refresh"] # "idle" /\ pc' = pcs /\ UNCHANGED <<hand, history>>
        \/ /\ pc["refresh"] = "idle" /\ pc' = [pcs EXCEPT !["refresh"] = "load"]
           /\ UNCHANGED <<hand, history>>
        \/ pc["refresh"] = "idle" /\ RefreshWith(cache, hand, pcs)
    BY <1>8 DEF JoinRefresh
  <2> HIDE DEF pcs
  <2>3. CASE pc["refresh"] # "idle" /\ pc' = pcs /\ UNCHANGED <<hand, history>>
    BY <1>5, <1>8, <2>1, <2>3 DEF history
  <2>4. CASE /\ pc["refresh"] = "idle" /\ pc' = [pcs EXCEPT !["refresh"] = "load"]
             /\ UNCHANGED <<hand, history>>
    BY <1>5, <1>8, <2>1, <2>4 DEF history
  <2>5. CASE pc["refresh"] = "idle" /\ RefreshWith(cache, hand, pcs)
    BY <1>1, <1>2, <1>7, <1>8, <2>1, <2>5
  <2> QED
    BY <2>2, <2>3, <2>4, <2>5
\* The end of a call.
<1>9. ASSUME NEW f \in Callers, pc[f] \in Sent, NEW ok \in BOOLEAN, Ends(f, ok), wanted' = wanted
      PROVE  Goal
  <2>1. ~Booting
    BY <1>9, NotBooting
  <2>2. /\ \A g \in Flows \ {f} : pc'[g] = pc[g] /\ hand'[g] = hand[g]
        /\ pc'[f] = "idle" /\ hand'[f] = 0
    BY <1>3, <1>9 DEF Ends
  <2>3. User(wanted)' = User(wanted)
    BY <1>2, <1>9 DEF User
  <2>4. \A g \in Flows \ {f} : User(hand[g])' = User(hand[g])
    BY <1>2, <2>2 DEF User
  <2>5. CASE f # "start"
    <3>1. User(ui)' = User(ui)
      BY <1>2, <1>9, <2>5 DEF Ends, User
    <3> QED
      BY <1>1, <1>9, <2>1, <2>2, <2>3, <2>4, <2>5, <3>1
  <2>6. CASE f = "start"
    <3>1. ui' \in {hand["start"], ui} \/ (ui' = 0 /\ cache["token"] = 0)
      BY <1>9, <2>6 DEF Ends
    <3>2. User(ui)' = User(ui) \/ User(ui)' = User(wanted)
      <4>1. CASE ui' = ui
        BY <1>2, <4>1 DEF User
      <4>2. CASE ui' = hand["start"]
        <5>1. User(hand["start"]) = User(wanted)
          BY <1>1, <1>9, <2>6
        <5> QED
          BY <1>2, <4>2, <5>1 DEF User
      <4>3. CASE ui' = 0 /\ cache["token"] = 0
        <5>1. User(cache["token"]) = User(wanted)
          BY <1>1, <1>3, <2>1
        <5> QED
          BY <4>3, <5>1 DEF User
      <4> QED
        BY <3>1, <4>1, <4>2, <4>3
    <3> QED
      BY <1>1, <1>9, <2>1, <2>2, <2>3, <2>4, <2>6, <3>2
  <2> QED
    BY <2>5, <2>6
<1>10. ASSUME StorageStep
       PROVE  Goal
  <2>1. /\ ipc[1] \in CallType /\ UNCHANGED <<hand, ui, wanted>> /\ Pending(ipc[1])
    BY <1>10, StorageFacts DEF SessionInv, Queue, history
  <2>2. PICK k \in Rest(ipc[1].todo) : Advances(k) \/ Finishes(k)
    BY <1>10, StorageFacts DEF SessionInv
  <2>3. Booting => Booting'
    BY <1>10, BootingStep
  <2>4. CASE Advances(k)
    BY <1>6, <2>1, <2>3, <2>4 DEF Advances
  <2>5. CASE Finishes(k)
    <3>1. PICK h \in Flows : h = ipc[1].who
      BY <2>1 DEF CallType
    <3>2. pc'[h] = ipc[1].next /\ \A g \in Flows \ {h} : pc'[g] = pc[g]
      BY <1>3, <2>5, <3>1 DEF Finishes
    <3>3. \/ pc[h] = "load" /\ pc'[h] \in {"loaded", "reloaded"}
          \/ pc[h] = "store" /\ pc'[h] = "stored" /\ h \in {"refresh", "login"}
          \/ pc[h] = "clear" /\ pc'[h] = "cleared" /\ h \in {"refresh", "logout"}
      BY <2>1, <3>1, <3>2 DEF Pending, CallType
    <3>4. h # "logout" \/ pc[h] = "clear"
      BY <1>3, <3>3
    <3> QED
      BY <1>5, <2>1, <2>3, <3>2, <3>3, <3>4
  <2> QED
    BY <2>2, <2>4, <2>5
<1>11. ASSUME RefreshLoaded
       PROVE  Goal
  <2>1. /\ pc["refresh"] = "loaded" /\ RefreshWith(got["refresh"], hand, pc) /\ ui' = ui
    BY <1>11 DEF RefreshLoaded
  <2>2. ~Booting
    BY <2>1, NotBooting
  <2>3. \A k \in Keys : User(got["refresh"][k]) = User(wanted) /\ got["refresh"][k] \in Issued \cup {0}
    BY <1>2, <1>4, <2>1
  <2> QED
    BY <1>3, <1>7, <2>1, <2>2, <2>3
<1>12. ASSUME RefreshGranted
       PROVE  Goal
  <2>1. /\ pc["refresh"] = "post" /\ UNCHANGED <<hand, ui, wanted>>
        /\ pc' = [pc EXCEPT !["refresh"] = "store"]
    BY <1>12 DEF RefreshGranted, SetsSession, Writes
  <2>2. ~Booting
    BY <2>1, NotBooting
  <2> QED
    BY <1>3, <1>5, <2>1, <2>2
<1>13. ASSUME RefreshDenied
       PROVE  Goal
  <2>1. /\ Changes(InFlight \ {"refresh"}, 0) /\ pc' = [pc EXCEPT !["refresh"] = "clear"]
    BY <1>13 DEF RefreshDenied, ClearsSession
  <2>2. wanted' = 0 /\ \A g \in {"start", "login", "logout"} : pc[g] = "idle"
    BY <2>1, AloneIdle DEF Changes
  <2>3. pc'["refresh"] = "clear" /\ \A g \in {"start", "login", "logout"} : pc'[g] = "idle"
    BY <1>3, <2>1, <2>2
  <2> QED
    BY <2>2, <2>3 DEF User
<1>14. ASSUME RefreshStored
       PROVE  Goal
  <2>1. /\ pc["refresh"] = "stored" /\ ui' = cache["user"] /\ wanted' = wanted
    BY <1>14 DEF RefreshStored, history
  <2>2. ~Booting
    BY <2>1, NotBooting
  <2>3. /\ \A f \in Flows : hand'[f] \in {hand[f], 0, cache["token"]}
        /\ pc'["refresh"] = "idle"
        /\ \A f \in {"login", "logout", "start"} :
             \/ pc'[f] = pc[f] /\ hand'[f] = hand[f] /\ pc[f] # "wait"
             \/ pc[f] = "wait" /\ pc'[f] = "resent" /\ hand'[f] = cache["token"]
             \/ pc[f] = "wait" /\ pc'[f] = "again"
    BY <1>14 DEF RefreshStored, Retried, RetryHand
  <2>4. User(cache["token"])' = User(wanted)' /\ User(cache["user"])' = User(wanted)'
    <3>1. User(cache["token"]) = User(wanted) /\ User(cache["user"]) = User(wanted)
      BY <1>1, <1>3, <2>2
    <3>2. cache' = cache /\ cache["token"] \in Issued \cup {0} /\ cache["user"] \in Issued \cup {0}
      BY <1>2, <1>3, <1>14 DEF RefreshStored
    <3> QED
      BY <1>2, <2>1, <3>1, <3>2 DEF User
  <2>5. cache' = cache
    BY <1>14 DEF RefreshStored
  <2>6. User(wanted)' = User(wanted)
    BY <1>2, <2>1 DEF User
  <2>7. \A f \in Flows : hand'[f] = hand[f] => User(hand[f])' = User(hand[f])
    BY <1>2 DEF User
  <2>8. User(ui)' = User(wanted)'
    BY <2>1, <2>4, <2>5 DEF User
  <2>9. pc'["login"] \in Kept => User(hand["login"])' = User(wanted)'
    BY <1>1, <2>3, <2>6, <2>7
  <2>10. pc'["start"] \in Sent => User(hand["start"])' = User(wanted)'
    <3>1. CASE pc'["start"] = pc["start"] /\ hand'["start"] = hand["start"]
      BY <1>1, <2>6, <2>7, <3>1
    <3>2. CASE hand'["start"] = cache["token"]
      BY <2>4, <2>5, <3>2 DEF User
    <3> QED
      BY <2>3, <3>1, <3>2
  <2>11. pc'["logout"] # "idle" => User(wanted)' = None
    BY <1>1, <1>3, <2>3, <2>6
  <2> QED
    BY <2>3, <2>8, <2>9, <2>10, <2>11
<1>15. ASSUME RefreshCleared \/ RefreshUnreachable
       PROVE  Goal
  <2>1. /\ pc["refresh"] \in {"post", "cleared"} /\ wanted' = wanted /\ pc' = Failed
        /\ hand' = FailedHand
    BY <1>15 DEF RefreshCleared, RefreshUnreachable, history
  <2>2. ~Booting
    BY <2>1, NotBooting
  <2>3. /\ pc'["refresh"] = "idle"
        /\ \A f \in {"login", "logout", "start"} :
             \/ pc'[f] = pc[f] /\ hand'[f] = hand[f] /\ pc[f] # "wait"
             \/ pc[f] = "wait" /\ pc'[f] = "idle"
    BY <2>1 DEF Failed, FailedHand
  <2>4. User(wanted)' = User(wanted) /\ \A f \in Flows : hand'[f] = hand[f] => User(hand[f])' = User(hand[f])
    BY <1>2, <2>1 DEF User
  <2>5. Hands
    BY <1>1, <1>3, <2>3, <2>4
  <2>6. \A k \in Keys : User(cache[k]) = User(wanted)
    BY <1>1, <2>2
  <2>7. CASE RefreshCleared
    <3>1. User(wanted) = None
      BY <1>1, <2>7 DEF RefreshCleared
    <3>2. ui' = 0 \/ ui' = cache["user"]
      BY <2>7 DEF RefreshCleared
    <3>3. User(ui)' = None
      BY <1>2, <1>3, <2>6, <3>1, <3>2 DEF User
    <3> QED
      BY <2>4, <2>5, <3>1, <3>3
  <2>8. CASE RefreshUnreachable
    <3>1. pc["refresh"] = "post" /\ (ui' = ui \/ (ui' = 0 /\ cache["token"] = 0))
      BY <2>8 DEF RefreshUnreachable
    <3>2. User(ui)' = User(ui) \/ User(ui)' = User(wanted)
      <4>1. CASE ui' = ui
        BY <1>2, <4>1 DEF User
      <4>2. CASE ui' = 0 /\ cache["token"] = 0
        BY <1>3, <2>6, <4>2 DEF User
      <4> QED
        BY <3>1, <4>1, <4>2
    <3>3. pc["login"] \in Kept => pc'["login"] \in Kept
      BY <2>3
    <3>4. pc["logout"] # "idle" => pc'["logout"] # "idle"
      BY <1>3, <2>3
    <3> QED
      BY <1>1, <2>2, <2>4, <2>5, <3>1, <3>2, <3>3, <3>4
  <2> QED
    BY <1>15, <2>7, <2>8
<1>16. ASSUME Mount
       PROVE  Goal
  <2>1. pc["start"] = "mount" /\ pc' = [pc EXCEPT !["start"] = "load"] /\ UNCHANGED <<hand, ui, wanted>>
    BY <1>16 DEF Mount, history
  <2> QED
    BY <1>3, <1>5, <1>16, <2>1, MountBooting
<1>17. ASSUME Hydrate
       PROVE  Goal
  <2> DEFINE t == got["start"]["token"]
             n == got["start"]["user"]
  <2>1. /\ pc["start"] = "loaded" /\ wanted' = wanted
        /\ ui' = IF t = 0 THEN 0 ELSE IF n # 0 THEN n ELSE ui
        /\ hand' = [hand EXCEPT !["start"] = t]
        /\ pc' = [pc EXCEPT !["start"] = IF t = 0 THEN "idle" ELSE "sent"]
    BY <1>17 DEF Hydrate, Assigns, history
  <2>2. /\ User(t) = User(wanted) /\ User(n) = User(wanted)
        /\ t \in Issued \cup {0} /\ n \in Issued \cup {0}
    BY <1>2, <1>3, <1>4, <2>1
  <2> HIDE DEF t, n
  <2>3. User(wanted)' = User(wanted)
    BY <1>2, <2>1 DEF User
  <2>4. ui' \in {0, n} /\ User(ui)' = User(wanted)
    <3>1. CASE t = 0
      BY <2>1, <2>2, <3>1 DEF User
    <3>2. CASE t # 0 /\ n # 0
      BY <1>2, <2>1, <2>2, <3>2 DEF User
    <3>3. CASE t # 0 /\ n = 0
      BY <1>2, <2>2, <3>3 DEF User
    <3> QED
      BY <3>1, <3>2, <3>3
  <2>5. /\ \A f \in Flows \ {"start"} : pc'[f] = pc[f] /\ hand'[f] = hand[f]
        /\ hand'["start"] = t
    BY <1>3, <2>1
  <2>6. \A f \in Flows \ {"start"} : User(hand[f])' = User(hand[f])
    BY <1>2, <2>5 DEF User
  <2>7. User(hand["start"])' = User(wanted)
    BY <1>2, <2>2, <2>5 DEF User
  <2> QED
    BY <1>1, <2>3, <2>4, <2>5, <2>6, <2>7
<1>18. ASSUME LoginGranted
       PROVE  Goal
  <2>1. PICK u \in Users, g \in Grants :
          /\ SetsSession("login", g, pc) /\ hand' = [hand EXCEPT !["login"] = g]
          /\ Changes(InFlight \ {"login"}, g)
    BY <1>18 DEF LoginGranted
  <2>2. wanted' = g /\ \A h \in {"start", "refresh", "logout"} : pc[h] = "idle"
    BY <2>1, AloneIdle DEF Changes
  <2>3. /\ pc'["login"] = "store" /\ hand'["login"] = g
        /\ \A h \in {"start", "refresh", "logout"} : pc'[h] = "idle"
    BY <1>3, <2>1, <2>2 DEF SetsSession
  <2> QED
    BY <2>2, <2>3 DEF User
<1>19. ASSUME LoginStored
       PROVE  Goal
  <2>1. /\ pc["login"] = "stored" /\ wanted' = wanted /\ ui' = hand["login"]
        /\ pc' = [pc EXCEPT !["login"] = "idle"] /\ hand' = [hand EXCEPT !["login"] = 0]
    BY <1>19 DEF LoginStored, history
  <2>2. /\ \A f \in Flows \ {"login"} : pc'[f] = pc[f] /\ hand'[f] = hand[f]
        /\ pc'["login"] = "idle"
    BY <1>3, <2>1
  <2>3. User(wanted)' = User(wanted)
    BY <1>2, <2>1 DEF User
  <2>4. \A f \in Flows \ {"login"} : User(hand[f])' = User(hand[f])
    BY <1>2, <2>2 DEF User
  <2>5. User(ui)' = User(wanted)
    BY <1>1, <1>2, <2>1 DEF User
  <2> QED
    BY <1>1, <2>2, <2>3, <2>4, <2>5
<1>20. ASSUME LogoutCleared
       PROVE  Goal
  <2>1. /\ pc["logout"] = "cleared" /\ ui' = 0 /\ UNCHANGED <<wanted, hand>>
        /\ pc' = [pc EXCEPT !["logout"] = "idle"]
    BY <1>20 DEF LogoutCleared, history
  <2>2. \A f \in Flows \ {"logout"} : pc'[f] = pc[f]
    BY <1>3, <2>1
  <2>3. User(wanted)' = User(wanted) /\ \A f \in Flows : User(hand[f])' = User(hand[f])
    BY <1>2, <2>1 DEF User
  <2>4. User(ui)' = None
    BY <2>1 DEF User
  <2>5. pc'["logout"] = "idle"
    BY <1>3, <2>1
  <2> QED
    BY <1>1, <2>1, <2>2, <2>3, <2>4, <2>5
<1>21. ASSUME Reloaded
       PROVE  Goal
  <2>1. /\ pc["focus"] = "loaded" /\ ui' = got["focus"]["user"] /\ UNCHANGED <<wanted, hand>>
        /\ pc' = [pc EXCEPT !["focus"] = "idle"]
    BY <1>21 DEF Reloaded, Assigns, history
  <2>2. \A f \in Flows \ {"focus"} : pc'[f] = pc[f]
    BY <1>3, <2>1
  <2>3. User(wanted)' = User(wanted) /\ \A f \in Flows : User(hand[f])' = User(hand[f])
    BY <1>2, <2>1 DEF User
  <2>4. User(got["focus"]["user"]) = User(wanted) /\ got["focus"]["user"] \in Issued \cup {0}
    BY <1>2, <1>3, <1>4, <2>1
  <2>5. User(ui)' = User(wanted)
    BY <1>2, <2>1, <2>4 DEF User
  <2> QED
    BY <1>1, <2>2, <2>3, <2>5
<1>22. ASSUME Login
       PROVE  Goal
  <2>1. /\ pc["login"] = "idle" /\ pc' = [pc EXCEPT !["login"] = "sent"]
        /\ UNCHANGED <<wanted, hand, ui>> /\ ~Booting
    BY <1>22 DEF Login, Booting, history
  <2> QED
    BY <1>3, <1>5, <2>1
<1>23. ASSUME LoginWrong
       PROVE  Goal
  <2>1. CASE pc["login"] = "sent" /\ JoinRefresh("login")
    BY <1>8, <1>23, <2>1 DEF LoginWrong, Callers
  <2>2. CASE /\ pc["login"] = "resent" /\ pc' = [pc EXCEPT !["login"] = "idle"]
             /\ UNCHANGED <<hand, history>>
    <3>1. ~Booting
      BY <2>2, NotBooting
    <3>2. UNCHANGED <<wanted, hand, ui>>
      BY <1>23, <2>2 DEF LoginWrong, history
    <3> QED
      BY <1>3, <1>5, <2>2, <3>1, <3>2
  <2> QED
    BY <1>23, <2>1, <2>2 DEF LoginWrong
<1>24. ASSUME Logout
       PROVE  Goal
  <2>1. Changes(InFlight, 0) /\ pc' = [pc EXCEPT !["logout"] = "clear"]
    BY <1>24 DEF Logout, ClearsSession
  <2>4. wanted' = 0 /\ InFlight = {}
    BY <2>1 DEF Changes
  <2>2. wanted' = 0 /\ \A g \in {"start", "refresh", "login"} : pc[g] = "idle"
    <3>1. InFlight \ {"logout"} = {}
      BY <2>4
    <3> QED
      BY <2>4, <3>1, AloneIdle
  <2>3. pc'["logout"] = "clear" /\ \A g \in {"start", "refresh", "login"} : pc'[g] = "idle"
    BY <1>3, <2>1, <2>2
  <2> QED
    BY <2>2, <2>3 DEF User
<1>25. ASSUME Focus
       PROVE  Goal
  <2>1. /\ pc' = [pc EXCEPT !["focus"] = "load"]
        /\ UNCHANGED <<wanted, hand, ui>> /\ ~Booting
    BY <1>25 DEF Focus, Booting, history
  <2> QED
    BY <1>3, <1>5, <2>1
<1>26. ASSUME WorkerRead \/ WorkerGranted \/ WorkerGivesUp \/ WorkerSets \/ Expire \/ Refuse
       PROVE  Goal
  <2>1. UNCHANGED <<wanted, hand, ui, pc, cache, loaded, ipc>>
    BY <1>26 DEF WorkerRead, WorkerGranted, WorkerGivesUp, WorkerSets, Expire, Refuse, app, history
  <2>2. Booting => Booting'
    BY <2>1 DEF Booting
  <2> QED
    BY <1>6, <2>1, <2>2
<1>27. ASSUME Restart
       PROVE  Goal
  <2>1. /\ cache' = NoSession /\ loaded' = FALSE /\ ui' = 0 /\ Len(ipc') = 0
        /\ pc' = [f \in Flows |-> IF f = "start" THEN "mount" ELSE "idle"]
    BY <1>27 DEF Restart
  <2>2. Booting'
    BY <2>1 DEF Booting
  <2> QED
    BY <2>1, <2>2
<1>28. ASSUME NEW r \in Requests, Request(r)
       PROVE  Goal
  <2>1. /\ r \notin {"start", "refresh", "login", "logout", "focus"} /\ UNCHANGED <<wanted, ui>>
        /\ ~Booting
        /\ \E p : pc' = [pc EXCEPT ![r] = p]
        /\ hand' = hand \/ hand' = [hand EXCEPT ![r] = cache["token"]]
    BY <1>28 DEF Request, history, Booting
  <2>2. /\ \A f \in {"start", "refresh", "login", "logout"} : pc'[f] = pc[f] /\ hand'[f] = hand[f]
    BY <1>3, <2>1
  <2>3. User(wanted)' = User(wanted) /\ User(ui)' = User(ui)
    BY <1>2, <2>1 DEF User
  <2>4. \A f \in {"start", "refresh", "login", "logout"} : User(hand[f])' = User(hand[f])
    BY <1>2, <2>2 DEF User
  <2> QED
    BY <1>1, <2>1, <2>2, <2>3, <2>4
<1>29. ASSUME NEW f \in Callers, Caller(f)
       PROVE  Goal
  <2>1. CASE RequestLoaded(f)
    <3>1. /\ pc[f] \in {"loaded", "reloaded"} /\ UNCHANGED <<wanted, ui>>
          /\ hand' = [hand EXCEPT ![f] = got[f]["token"]]
          /\ pc' = [pc EXCEPT ![f] = IF pc[f] = "loaded" THEN "sent" ELSE "resent"]
          /\ f = "start" => pc[f] = "reloaded"
      BY <2>1 DEF RequestLoaded, history
    <3>2. /\ \A g \in Flows \ {f} : pc'[g] = pc[g] /\ hand'[g] = hand[g]
          /\ pc'[f] \in Sent /\ hand'[f] = got[f]["token"]
      BY <1>3, <3>1
    <3>3. User(got[f]["token"]) = User(wanted) /\ got[f]["token"] \in Issued \cup {0}
      BY <1>2, <1>3, <1>4, <3>1
    <3>4. User(wanted)' = User(wanted) /\ User(ui)' = User(ui)
      BY <1>2, <3>1 DEF User
    <3>5. /\ \A g \in Flows \ {f} : User(hand[g])' = User(hand[g])
          /\ User(hand[f])' = User(wanted)
      BY <1>2, <3>2, <3>3 DEF User
    <3>6. ~Booting
      BY <3>1, NotBooting
    <3> QED
      BY <1>1, <3>1, <3>2, <3>4, <3>5, <3>6
  <2>2. CASE RetryLoad(f)
    <3>1. /\ pc[f] = "again" /\ UNCHANGED <<wanted, ui, hand>> /\ pc' = [pc EXCEPT ![f] = "load"]
      BY <2>2 DEF RetryLoad, history
    <3>2. ~Booting
      BY <3>1, NotBooting
    <3> QED
      BY <1>3, <1>5, <3>1, <3>2
  <2>3. CASE Answered(f) \/ Unanswered(f)
    BY <1>9, <2>3 DEF Answered, Unanswered, InCall, history
  <2>4. CASE Unauthorised(f)
    <3>1. CASE pc[f] = "sent" /\ JoinRefresh(f) /\ UNCHANGED ui
      BY <1>8, <3>1
    <3>2. CASE pc[f] = "resent" /\ Ends(f, FALSE) /\ UNCHANGED history
      BY <1>9, <3>2 DEF history
    <3> QED
      BY <2>4, <3>1, <3>2 DEF Unauthorised
  <2> QED
    BY <1>29, <2>1, <2>2, <2>3, <2>4 DEF Caller
<1>30. (\E r \in Requests : Request(r)) => Goal
  BY <1>28
<1>31. (\E f \in Callers : Caller(f)) => Goal
  BY <1>29
<1>32. Goal
  <2>1. CASE Progress
    BY <1>10, <1>11, <1>12, <1>13, <1>14, <1>15, <1>16, <1>17, <1>18, <1>19, <1>20, <1>21, <1>31, <2>1
    DEF Progress
  <2> QED
    BY <1>22, <1>23, <1>24, <1>25, <1>26, <1>27, <1>30, <2>1 DEF Next
<1>33. Booting' \/ Full(cache)'
  BY CacheStep
<1> QED
  BY <1>32, <1>33 DEF StraightHands

-----------------------------------------------------------------------------
(* The invariant                                                           *)

LEMMA SessionInit ==
  ASSUME Init
  PROVE  SessionInv
<1> USE FlowNames
<1>1. /\ 1 \in Grants /\ NoSession \in Session /\ SessionOf(1) \in Session
      /\ \A k \in Keys : NoSession[k] = 0 /\ SessionOf(1)[k] = 1
  <2>1. 1 \in Grants
    BY SessionAssumption DEF Grants
  <2> QED
    BY <2>1, Sessions DEF NoSession, SessionOf
<1>2. Len(ipc) = 0 /\ ipc \in Seq(CallType)
  BY DEF Init
<1>3. PICK u \in Users : owner = [g \in Grants |-> IF Stored /\ g = 1 THEN u ELSE None]
  BY DEF Init
<1>4. /\ Stored => wanted = 1 /\ store = SessionOf(1) /\ 1 \in Issued
      /\ ~Stored => wanted = 0 /\ store = NoSession
  BY <1>1, <1>3, SessionAssumption DEF Init, Issued
<1>5. Shape
  BY <1>1, <1>2, <1>3 DEF Init, Shape, Places, WorkerIdle
<1>6. Held
  BY <1>1, <1>2, <1>4 DEF Init, Held, Known, WorkerIdle
<1>7. Queue
  BY <1>2 DEF Init, Queue
<1>8. Booting
  BY <1>2 DEF Init, Booting
<1>9. \A k \in Keys : store[k] = wanted
  BY <1>1, <1>4
<1>10. StraightReads
  BY <1>2 DEF Init, StraightReads
<1>11. StraightStore
  BY <1>2, <1>9 DEF Init, StraightStore, Full, WorkerIdle
<1>12. StraightHands
  BY <1>8 DEF Init, StraightHands
<1>13. Aligned
  BY <1>2, <1>8 DEF Init, Aligned
<1>14. Whole
  <2>1. One(cache) /\ \A f \in Flows : One(got[f])
    BY <1>1 DEF Init, One, Agree
  <2>2. One(store)
    BY <1>9 DEF One, Agree
  <2> QED
    BY <1>2, <2>1, <2>2 DEF Init, Whole, Setting, WorkerIdle
<1> QED
  BY <1>5, <1>6, <1>7, <1>10, <1>11, <1>12, <1>13, <1>14 DEF SessionInv

LEMMA SessionStep ==
  ASSUME SessionInv, [Next]_vars
  PROVE  SessionInv'
<1>1. ASSUME Next
      PROVE  SessionInv'
  <2>1. Kinds
    BY <1>1, NextKinds
  <2>2. Shape'
    BY <1>1, ShapeStep DEF SessionInv
  <2>3. Held'
    BY <1>1, <2>1, HeldData, HeldHands DEF Held
  <2>4. Queue'
    BY <2>1, QueueStep
  <2>5. ASSUME ~straddled'
        PROVE  ~straddled /\ StraightReads' /\ StraightStore' /\ StraightHands'
    <3>1. ~straddled
      BY <2>1, <2>5, StraightBefore
    <3> QED
      BY <1>1, <2>1, <2>5, <3>1, ReadsStep, StoreStep, HandsStep
  <2>6. ~rotated' => ~rotated
    BY <2>1 DEF Kinds, KeepsStep, LoadStep, AssignStep, ClearStep, SetStep, StorageStep, Restart,
                WorkerRead, WorkerGranted, WorkerGivesUp, WorkerSets, history
  <2>7. ~straddled' /\ ~rotated' => Aligned'
    BY <2>1, <2>5, <2>6, AlignedStep
  <2>8. ~torn' => Whole'
    BY <2>1, WholeStep
  <2> QED
    BY <2>2, <2>3, <2>4, <2>5, <2>7, <2>8 DEF SessionInv
<1>2. ASSUME UNCHANGED vars
      PROVE  SessionInv'
  BY <1>2 DEF vars, SessionInv, Shape, Held, Known, Issued, Queue, Pending, StraightReads,
              StraightStore, StraightHands, Aligned, Whole, Full, User, NoWrites, Booting,
              Setting, One, Agree
<1> QED
  BY <1>1, <1>2

\* In every reachable state values have their shape, calls to the storage are executed
\* in order and each is awaited by its flow, and as long as no write of the session met
\* another flow, the worker did not rotate the tokens, or nobody else's tokens met his,
\* what is cached, read, on its way and stored belongs to the session asked for, is the
\* same, or is of one person.
THEOREM SessionInvHolds == Spec => []SessionInv
<1>1. Init => SessionInv
  BY SessionInit
<1>2. SessionInv /\ [Next]_vars => SessionInv'
  BY SessionStep
<1> QED
  BY <1>1, <1>2, PTL DEF Spec

\* auth.ts, request.ts, auth.tsx: the session in memory is the one last asked for, or
\* none; at rest the cache, the storage and the user shown are that session, unless a
\* flow that was in progress when it changed wrote it afterwards.
THEOREM SessionAsAsked == Spec => []SessionIsWanted
<1>1. SessionInv => SessionIsWanted
  <2> SUFFICES ASSUME SessionInv, ~straddled
               PROVE  /\ \A k \in Keys : User(cache[k]) \in Of(wanted)
                      /\ Quiet => /\ \A k \in Keys : /\ User(cache[k]) = User(wanted)
                                                     /\ User(store[k]) = User(wanted)
                                  /\ User(ui) = User(wanted)
    BY DEF SessionIsWanted
  <2> USE FlowNames
  <2>1. StraightStore /\ StraightHands
    BY DEF SessionInv
  <2>2. \A k \in Keys : User(cache[k]) \in Of(wanted)
    <3>1. CASE Full(cache)
      BY <3>1 DEF Full, Of
    <3>2. CASE Booting
      BY <3>2 DEF Booting, NoSession, User, Of
    <3> QED
      BY <2>1, <3>1, <3>2 DEF StraightHands
  <2>3. ASSUME Quiet
        PROVE  /\ \A k \in Keys : User(cache[k]) = User(wanted) /\ User(store[k]) = User(wanted)
               /\ User(ui) = User(wanted)
    <3>1. ~Booting /\ NoWrites
      BY <2>3 DEF Quiet, Booting, NoWrites
    <3>2. Full(cache) /\ Full(store)
      BY <2>1, <3>1 DEF StraightStore, StraightHands
    <3>3. User(ui) = User(wanted)
      BY <2>1, <2>3, <3>1 DEF StraightHands, Quiet
    <3> QED
      BY <3>2, <3>3 DEF Full
  <2> QED
    BY <2>2, <2>3
<1> QED
  BY <1>1, SessionInvHolds, PTL

\* request.ts, SyncWorker.kt: requests never go out with the tokens of one person under
\* the name of another, unless the worker met the tokens of somebody else or the process
\* ended with tokens on their way to the storage.
THEOREM NoMixedIdentity == Spec => []OneIdentity
<1>1. SessionInv => OneIdentity
  <2> SUFFICES ASSUME SessionInv, ~torn
               PROVE  Cardinality({User(cache[k]) : k \in Keys} \ {None}) <= 1
    BY DEF OneIdentity
  <2> DEFINE S == {User(cache[k]) : k \in Keys} \ {None}
  <2>1. One(cache)
    BY DEF SessionInv, Whole
  <2>2. \A j, k \in Keys : User(cache[j]) # None /\ User(cache[k]) # None =>
                             User(cache[j]) = User(cache[k])
    BY <2>1 DEF One, Agree, User
  <2>3. \A u, v \in S : u = v
    BY <2>2
  <2> HIDE DEF S
  <2>4. ASSUME S = {}
        PROVE  Cardinality(S) <= 1
    BY <2>4, FS_EmptySet
  <2>5. ASSUME NEW u \in S
        PROVE  Cardinality(S) <= 1
    <3>1. S = {u}
      BY <2>3, <2>5
    <3> QED
      <4>1. Cardinality(S) = 1
        BY <3>1, FS_Singleton, Zenon
      <4> QED
        BY <4>1
  <2> QED
    BY <2>4, <2>5 DEF S
<1> QED
  BY <1>1, SessionInvHolds, PTL

\* auth.ts: at rest the cache holds what the storage holds, so that a restart finds the
\* session the user had, unless the worker has rotated the tokens.
THEOREM RestartFindsSession == Spec => []CacheIsStored
<1>1. SessionInv => CacheIsStored
  <2> SUFFICES ASSUME SessionInv, Quiet, ~rotated, ~straddled
               PROVE  cache = store
    BY DEF CacheIsStored
  <2>1. ~Booting /\ NoWrites
    BY FlowNames DEF Quiet, Booting, NoWrites
  <2> QED
    BY <2>1 DEF SessionInv, Aligned
<1> QED
  BY <1>1, SessionInvHolds, PTL
=============================================================================
