-------------------------- MODULE Captures_proofs --------------------------
(* No capture disappears, a discard sticks, and auto mode imports a purchase *)
(* twice only where nothing it reads could tell: for any number of           *)
(* notifications, texts and keys, and any interleaving of posts, drains,     *)
(* reviews, discards and kills.                                              *)
EXTENDS Captures, TLAPS

Acts == Notes \X {"discard", "import"}
Drains == [at : {"idle", "read", "add", "peek", "apply", "adopt", "report", "ack"},
           batch : SUBSET Notes, acts : SUBSET Acts, cur : SUBSET Acts]

\* The shape of what the proofs read; everything named was posted.
Shape ==
  /\ key \in [Notes -> Keys] /\ text \in [Notes -> Texts]
  /\ \A m, n \in Notes : text[m] = text[n] => key[m] = key[n]
  /\ posted \subseteq Notes
  /\ journal \in [Notes -> {"none", "discard", "import"}]
  /\ drain \in Drains
  /\ sweep \in [left : SUBSET Notes, cur : SUBSET Notes]
  /\ queue \subseteq posted /\ drain.batch \subseteq posted /\ live \subseteq posted
  /\ inbox \subseteq posted /\ view \subseteq posted /\ gone \subseteq posted
  /\ autos \subseteq posted /\ marking \subseteq posted /\ removing \subseteq posted
  /\ made \subseteq posted /\ autoMade \subseteq posted /\ lost \subseteq posted
  /\ nativeMade \subseteq posted
  /\ approving \subseteq posted /\ sweep.left \subseteq posted /\ sweep.cur \subseteq posted
  /\ \A n \in Notes : journal[n] # "none" => n \in posted

\* A capture waits in one place: the queue, the batch being drained, on its way
\* to the listener, or under review; only the batch outlives no step but "add".
Apart ==
  /\ queue \cap drain.batch = {} /\ queue \cap live = {} /\ drain.batch \cap live = {}
  /\ (inbox \cup view) \cap (queue \cup drain.batch \cup live) = {}
  /\ drain.at # "add" => drain.batch = {}
  /\ gone \cap (queue \cup live) = {}

Waiting == queue \cup drain.batch \cup live \cup inbox

\* What the journal says of a capture is so, also after it was read: an import has
\* made its transaction and waits nowhere, a discard is of a capture let go.
Says(n, what) ==
  /\ what = "import" => n \in made /\ n \notin Waiting
  /\ what = "discard" => n \in gone

Named ==
  /\ \A n \in Notes : Says(n, journal[n])
  /\ \A n \in Notes, what \in {"discard", "import"} :
       <<n, what>> \in drain.acts \cup drain.cur => Says(n, what)
  /\ told \subseteq gone
  /\ drain.at \in {"adopt", "report"} => \A a \in drain.cur : a[2] = "import"
  /\ drain.at = "ack" => \A a \in drain.cur : a[1] \notin Waiting

\* Keys and texts are kept of captures that are in hand, made or lost.
Kept ==
  /\ imported \subseteq KeysOf(autos \cup made \cup lost)
  /\ recent \subseteq TextsOf(autos \cup made \cup lost)
  /\ marking \subseteq made /\ removing \subseteq made /\ sweep.cur \subseteq made

\* A native import waits nowhere and stays in the journal until its key is stored;
\* the drain acknowledges it after that.
Adopted ==
  /\ nativeMade \cap (Waiting \cup view \cup gone) = {}
  /\ \A n \in nativeMade : journal[n] = "import" \/ key[n] \in imported
  /\ drain.at \in {"report", "ack"} => \A a \in drain.cur : a[2] = "import" => key[a[1]] \in imported
  /\ \A a, b \in drain.cur : a = b

\* What two captures of one key have against them when both are created.
Excused(m, n) == key[n] \in broken \cup late \/ (text[m] # text[n] /\ key[n] \in crossed)

\* A text in hand is remembered until its window ends, a key that auto mode imported
\* until a kill takes it; and what ImportedOnce says holds of creates in flight too.
Once ==
  /\ marking \subseteq autoMade
  /\ \A n \in autos \cup marking : text[n] \in recent \/ key[n] \in late
  /\ \A n \in autoMade : n \in marking \/ key[n] \in imported \cup broken
  /\ \A m, n \in autos \cup autoMade : key[m] = key[n] /\ m # n => Excused(m, n)
  /\ \A m \in nativeMade, n \in autos \cup autoMade : key[m] = key[n] => key[n] \in crossed

-----------------------------------------------------------------------------
(* Shape *)

\* What handleParsed does: in ask mode the inbox grows by notifications it was
\* given and then has all their keys; in auto mode creates start, one per new text.
Asks(S) ==
  /\ UNCHANGED <<recent, autos, crossed>>
  /\ \E R \in SUBSET S : inbox' = inbox \cup R
  /\ view' = inbox'
  /\ KeysOf(S) \subseteq KeysOf(inbox')

Begins(R) ==
  /\ autos' = autos \cup R /\ recent' = recent \cup TextsOf(R) /\ crossed' = crossed \cup Unseen(R)
  /\ \A n \in R : key[n] \notin imported /\ text[n] \notin recent
  /\ \A m, n \in R : text[m] = text[n] => m = n

Imports(S) ==
  /\ UNCHANGED <<inbox, view>>
  /\ \E R \in SUBSET S :
       /\ Begins(R)
       /\ \A n \in S : key[n] \in imported \/ text[n] \in recent \/ \E r \in R : text[r] = text[n]

LEMMA Handling ==
  ASSUME NEW S, Handle(S), key' = key
  PROVE  Asks(S) \/ Imports(S)
<1>1. CASE mode = "ask" /\ \E R \in OnePerKey(S, KeysOf(inbox)) : inbox' = inbox \cup R /\ view' = inbox \cup R
           /\ UNCHANGED <<recent, autos, crossed>>
  <2>1. PICK R \in OnePerKey(S, KeysOf(inbox)) : inbox' = inbox \cup R /\ view' = inbox \cup R
    BY <1>1
  <2>2. R \in SUBSET S /\ KeysOf(R) = KeysOf(S) \ KeysOf(inbox)
    BY DEF OnePerKey
  <2>3. KeysOf(S) \subseteq KeysOf(inbox \cup R)
    BY <2>2 DEF KeysOf
  <2>4. KeysOf(S) \subseteq KeysOf(inbox')
    BY <2>1, <2>3
  <2> QED
    BY <1>1, <2>1, <2>2, <2>4 DEF Asks
<1>2. CASE mode = "auto" /\ UNCHANGED <<inbox, view>> /\ \E R \in OnePerText(S) :
             autos' = autos \cup R /\ recent' = recent \cup TextsOf(R) /\ crossed' = crossed \cup Unseen(R)
  <2>1. PICK R \in OnePerText(S) :
          autos' = autos \cup R /\ recent' = recent \cup TextsOf(R) /\ crossed' = crossed \cup Unseen(R)
    BY <1>2
  <2>2. /\ R \in SUBSET S /\ TextsOf(R) = TextsOf({n \in S : key[n] \notin imported}) \ recent
        /\ KeysOf(R) \cap imported = {} /\ \A m, n \in R : text[m] = text[n] => m = n
    BY DEF OnePerText
  <2>3. \A n \in R : key[n] \notin imported /\ text[n] \notin recent
    BY <2>2 DEF KeysOf, TextsOf
  <2>4. ASSUME NEW n \in S, key[n] \notin imported, text[n] \notin recent
        PROVE  \E r \in R : text[r] = text[n]
    <3>1. text[n] \in TextsOf(R)
      BY <2>2, <2>4 DEF TextsOf
    <3> QED
      BY <3>1 DEF TextsOf
  <2> QED
    BY <1>2, <2>1, <2>2, <2>3, <2>4 DEF Imports, Begins
<1> QED
  BY <1>1, <1>2 DEF Handle

\* One drain at a time: a call that finds one in flight changes nothing.
LEMMA Draws ==
  ASSUME drain' = Drained
  PROVE  \/ UNCHANGED drain
         \/ drain.batch = {} /\ drain' = [at |-> "read", batch |-> {}, acts |-> {}, cur |-> {}]
BY DEF Drained, Idle

LEMMA Resuming ==
  ASSUME Resumes
  PROVE  \/ UNCHANGED drain
         \/ drain.batch = {} /\ drain' = [at |-> "read", batch |-> {}, acts |-> {}, cur |-> {}]
BY Draws DEF Resumes

\* The drain takes the next entry of the journal it read, or ends.
LEMMA Applies ==
  ASSUME Shape, DrainApplies
  PROVE  /\ drain' \in Drains
         /\ drain'.batch \subseteq drain.batch
         /\ drain'.acts \cup drain'.cur \subseteq drain.acts \cup drain.cur
         /\ drain'.at \in {"idle", "ack", "adopt"}
         /\ drain'.at = "adopt" => inbox' = inbox /\ \A a \in drain'.cur : a[2] = "import"
         /\ drain'.at = "ack" => /\ \A a \in drain'.cur : a \in drain.acts /\ a[2] = "discard" /\ a[1] \notin inbox'
<1> DEFINE Goal(d, box) ==
      /\ d \in Drains
      /\ d.batch \subseteq drain.batch
      /\ d.acts \cup d.cur \subseteq drain.acts \cup drain.cur
      /\ d.at \in {"idle", "ack", "adopt"}
      /\ d.at = "adopt" => box = inbox /\ \A a \in d.cur : a[2] = "import"
      /\ d.at = "ack" => \A a \in d.cur : a \in drain.acts /\ a[2] = "discard" /\ a[1] \notin box
<1>1. ASSUME NEW a \in drain.acts, a[2] = "discard", inbox' = inbox \ {a[1]},
             drain' = [drain EXCEPT !.at = "ack", !.cur = {a}]
      PROVE  Goal(drain', inbox')
  <2> DEFINE cur == {a}
  <2>1. cur \in SUBSET Acts /\ cur \subseteq drain.acts
    BY DEF Shape, Drains
  <2>2. drain' = [drain EXCEPT !.at = "ack", !.cur = cur]
    BY <1>1
  <2>3. \A b \in cur : b \in drain.acts /\ b[2] = "discard" /\ b[1] \notin inbox'
    BY <1>1
  <2> HIDE DEF cur
  <2> QED
    BY <2>1, <2>2, <2>3 DEF Shape, Drains
<1>2. ASSUME NEW a \in drain.acts, a[2] = "import", inbox' = inbox,
             drain' = [drain EXCEPT !.at = "adopt", !.cur = {a}]
      PROVE  Goal(drain', inbox')
  <2> DEFINE cur == {a}
  <2>1. cur \in SUBSET Acts /\ cur \subseteq drain.acts
    BY DEF Shape, Drains
  <2>2. drain' = [drain EXCEPT !.at = "adopt", !.cur = cur]
    BY <1>2
  <2>3. \A b \in cur : b[2] = "import"
    BY <1>2
  <2> HIDE DEF cur
  <2> QED
    BY <1>2, <2>1, <2>2, <2>3 DEF Shape, Drains
<1>3. ASSUME drain' = Idle
      PROVE  Goal(drain', inbox')
  BY <1>3 DEF Idle, Drains
<1>4. Goal(drain', inbox')
  <2> HIDE DEF Goal
  <2> QED
    BY <1>1, <1>2, <1>3 DEF DrainApplies
<1> QED
  BY <1>4

\* The row of an import is stored, or the import throws and is not acknowledged.
LEMMA Adopts ==
  ASSUME Shape, DrainAdopts
  PROVE  /\ drain' \in Drains
         /\ drain'.batch = drain.batch
         /\ drain'.acts \cup drain'.cur \subseteq drain.acts \cup drain.cur
         /\ \/ drain'.at = "report" /\ drain'.cur = drain.cur
            \/ drain'.at = "apply"
<1>1. CASE drain' = [drain EXCEPT !.at = "report"]
  BY <1>1 DEF Shape, Drains
<1>2. CASE drain' = [drain EXCEPT !.at = "apply", !.acts = drain.acts \ drain.cur, !.cur = {}]
  <2> DEFINE acts == drain.acts \ drain.cur
  <2>1. acts \in SUBSET Acts /\ acts \subseteq drain.acts
    BY DEF Shape, Drains
  <2>2. drain' = [drain EXCEPT !.at = "apply", !.acts = acts, !.cur = {}]
    BY <1>2
  <2> HIDE DEF acts
  <2> QED
    BY <2>1, <2>2 DEF Shape, Drains
<1> QED
  BY <1>1, <1>2 DEF DrainAdopts

\* Every step keeps the shape.
LEMMA ShapeStep ==
  ASSUME Shape, [Next]_vars
  PROVE  Shape'
<1>1. ASSUME NEW n \in Notes, Post(n)
      PROVE  Shape'
  BY <1>1 DEF Shape, Drains, Acts, native, wire, autoVars, overlap, taps, Post
<1>2. ASSUME NEW n \in Notes, Discard(n)
      PROVE  Shape'
  BY <1>2 DEF Shape, Drains, Acts, native, wire, autoVars, overlap, taps, Discard
<1>3. ASSUME NEW n \in Notes, HandleLive(n)
      PROVE  Shape'
  <2>1. Asks({n}) \/ Imports({n})
    BY <1>3, Handling DEF HandleLive
  <2> QED
    BY <1>3, <2>1 DEF Asks, Imports, Begins, HandleLive, Shape, Drains, Acts, native, wire, autoVars, overlap, taps
<1>4. ASSUME NEW n \in Notes, ApplyLive(n)
      PROVE  Shape'
  BY <1>4 DEF Shape, Drains, Acts, native, wire, autoVars, overlap, taps, ApplyLive
<1>5. ASSUME NEW n \in Notes, AutoStores(n)
      PROVE  Shape'
  BY <1>5 DEF Shape, Drains, Acts, native, wire, autoVars, overlap, taps, AutoStores
<1>6. ASSUME NEW n \in Notes, AutoMarks(n)
      PROVE  Shape'
  BY <1>6 DEF Shape, Drains, Acts, native, wire, autoVars, overlap, taps, AutoMarks
<1>7. ASSUME NEW n \in Notes, Approve(n)
      PROVE  Shape'
  BY <1>7 DEF Shape, Drains, Acts, native, wire, autoVars, overlap, taps, Approve
<1>8. ASSUME NEW n \in Notes, ApproveStores(n)
      PROVE  Shape'
  BY <1>8 DEF Shape, Drains, Acts, native, wire, autoVars, overlap, taps, ApproveStores
<1>9. ASSUME NEW n \in Notes, ApproveRemoves(n)
      PROVE  Shape'
  BY <1>9 DEF Shape, Drains, Acts, native, wire, autoVars, overlap, taps, ApproveRemoves
<1>10. ASSUME NEW n \in Notes, SweepStores(n)
      PROVE  Shape'
  BY <1>10 DEF Shape, Drains, Acts, native, wire, autoVars, overlap, taps, SweepStores
<1>11. ASSUME NEW n \in Notes, Skip(n)
      PROVE  Shape'
  BY <1>11 DEF Shape, Drains, Acts, native, wire, autoVars, overlap, taps, Skip
<1>12. ASSUME NEW t \in Texts, RecentExpires(t)
      PROVE  Shape'
  BY <1>12 DEF Shape, Drains, Acts, native, wire, autoVars, overlap, taps, RecentExpires
<1>13. CASE DrainReads
  BY <1>13 DEF Shape, Drains, Acts, native, wire, autoVars, overlap, taps, DrainReads
<1>14. CASE DrainAdds
  <2>1. Asks(drain.batch) \/ Imports(drain.batch)
    BY <1>14, Handling DEF DrainAdds
  <2> QED
    BY <1>14, <2>1 DEF Asks, Imports, Begins, DrainAdds, Shape, Drains, Acts, native, wire, autoVars, overlap, taps
<1>15. CASE DrainPeeks
  <2> DEFINE acts == {<<n, journal[n]>> : n \in {m \in Notes : journal[m] # "none"}}
  <2>1. acts \subseteq Acts
    BY DEF Shape, Acts
  <2>2. drain' = [drain EXCEPT !.at = "apply", !.acts = acts]
    BY <1>15 DEF DrainPeeks
  <2> HIDE DEF acts
  <2>3. drain' \in Drains /\ drain'.batch = drain.batch
    BY <2>1, <2>2 DEF Shape, Drains
  <2> QED
    BY <1>15, <2>3 DEF Shape, DrainPeeks, native, wire, autoVars, overlap, taps
<1>16. CASE DrainApplies
  <2>1. inbox' \subseteq inbox /\ view' \in {view, inbox, inbox'}
    BY <1>16 DEF DrainApplies
  <2> QED
    BY <1>16, <2>1, Applies DEF Shape, DrainApplies, native, wire, autoVars, overlap, taps
<1>17. CASE DrainAdopts
  <2>1. inbox' \subseteq inbox
    BY <1>17 DEF DrainAdopts
  <2> QED
    BY <1>17, <2>1, Adopts DEF Shape, DrainAdopts, native, wire, autoVars, overlap, taps
<1>18. CASE DrainReports
  BY <1>18 DEF Shape, Drains, Acts, native, wire, autoVars, overlap, taps, DrainReports
<1>19. CASE DrainAcks
  BY <1>19 DEF Shape, Drains, Acts, native, wire, autoVars, overlap, taps, DrainAcks
<1>20. CASE Opens
  BY <1>20 DEF Shape, Drains, Acts, native, wire, autoVars, overlap, taps, Opens
<1>21. CASE Returns
  BY <1>21, Resuming DEF Returns, Shape, Drains, Acts, native, wire, autoVars, overlap, taps
<1>22. CASE Focus
  BY <1>22, Resuming DEF Focus, Shape, Drains, Acts, native, wire, autoVars, overlap, taps
<1>23. CASE Subscribed
  BY <1>23, Draws DEF Subscribed, Shape, Drains, Acts, native, wire, autoVars, overlap, taps
<1>24. CASE Kill
  BY <1>24 DEF Shape, Drains, Acts, native, wire, autoVars, overlap, taps, Kill, Idle, Swept
<1>25. CASE ApproveAll
  BY <1>25 DEF Shape, Drains, Acts, native, wire, autoVars, overlap, taps, ApproveAll, Swept
<1>26. CASE SweepRemoves
  BY <1>26 DEF Shape, Drains, Acts, native, wire, autoVars, overlap, taps, SweepRemoves
<1>27. CASE Hides \/ SetMode
  BY <1>27 DEF Shape, Drains, Acts, native, wire, autoVars, overlap, taps, Hides, SetMode
<1>28. CASE UNCHANGED vars
  BY <1>28 DEF vars, Shape, Drains, Acts, native, wire, autoVars, overlap, taps
<1> QED
  BY <1>1, <1>2, <1>3, <1>4, <1>5, <1>6, <1>7, <1>8, <1>9, <1>10, <1>11, <1>12, <1>13, <1>14, <1>15, <1>16, <1>17, <1>18, <1>19, <1>20, <1>21, <1>22, <1>23, <1>24, <1>25, <1>26, <1>27, <1>28
  DEF Next, Arrives, Reviewed, Draining

\* Every step leaves a capture in one place at most.
LEMMA ApartStep ==
  ASSUME Shape, Apart, [Next]_vars
  PROVE  Apart'
<1>1. ASSUME NEW n \in Notes, Post(n)
      PROVE  Apart'
  BY <1>1 DEF Apart, native, wire, autoVars, overlap, taps, Post, Shape
<1>2. ASSUME NEW n \in Notes, Discard(n)
      PROVE  Apart'
  BY <1>2 DEF Apart, native, wire, autoVars, overlap, taps, Discard, Shape
<1>3. ASSUME NEW n \in Notes, HandleLive(n)
      PROVE  Apart'
  <2>1. Asks({n}) \/ Imports({n})
    BY <1>3, Handling DEF HandleLive, Shape
  <2>2. drain' = drain /\ queue' = queue /\ gone' = gone /\ live' = live \ {n} /\ n \in live
    BY <1>3 DEF HandleLive, native
  <2>3. inbox' \cup view' \subseteq inbox \cup view \cup {n}
    BY <2>1 DEF Asks, Imports, Begins
  <2> QED
    BY <2>2, <2>3 DEF Apart
<1>4. ASSUME NEW n \in Notes, ApplyLive(n)
      PROVE  Apart'
  BY <1>4 DEF Apart, native, wire, autoVars, overlap, taps, ApplyLive
<1>5. ASSUME NEW n \in Notes, ApproveRemoves(n)
      PROVE  Apart'
  BY <1>5 DEF Apart, native, wire, autoVars, overlap, taps, ApproveRemoves
<1>6. ASSUME NEW n \in Notes, SweepStores(n)
      PROVE  Apart'
  BY <1>6 DEF Apart, native, wire, autoVars, overlap, taps, SweepStores
<1>7. ASSUME NEW n \in Notes, Skip(n)
      PROVE  Apart'
  BY <1>7 DEF Apart, native, wire, autoVars, overlap, taps, Skip
<1>8. CASE DrainReads
  BY <1>8 DEF Apart, native, wire, autoVars, overlap, taps, DrainReads, Shape, Drains
<1>9. CASE DrainAdds
  <2>1. Asks(drain.batch) \/ Imports(drain.batch)
    BY <1>9, Handling DEF DrainAdds
  <2>2. drain'.batch = {} /\ queue' = queue /\ gone' = gone /\ live' = live
    BY <1>9 DEF DrainAdds, native, wire, Shape, Drains
  <2>3. inbox' \cup view' \subseteq inbox \cup view \cup drain.batch
    BY <2>1 DEF Asks, Imports, Begins
  <2> QED
    BY <2>2, <2>3 DEF Apart
<1>10. CASE DrainPeeks
  BY <1>10 DEF Apart, native, wire, autoVars, overlap, taps, DrainPeeks, Shape, Drains
<1>11. CASE DrainApplies
  <2>1. drain.batch = {} /\ UNCHANGED <<queue, live, gone>>
    BY <1>11 DEF Apart, DrainApplies, native, wire
  <2>2. drain'.batch = {}
    BY <1>11, <2>1, Applies
  <2>3. inbox' \cup view' \subseteq inbox \cup view
    BY <1>11 DEF DrainApplies
  <2> QED
    BY <2>1, <2>2, <2>3 DEF Apart
<1>12. CASE DrainAdopts
  BY <1>12 DEF Apart, native, wire, autoVars, overlap, taps, DrainAdopts, Shape, Drains
<1>13. CASE DrainReports
  BY <1>13 DEF Apart, native, wire, autoVars, overlap, taps, DrainReports, Shape, Drains
<1>14. CASE DrainAcks
  BY <1>14 DEF Apart, native, wire, autoVars, overlap, taps, DrainAcks, Shape, Drains
<1>15. CASE Opens
  BY <1>15 DEF Apart, native, wire, autoVars, overlap, taps, Opens
<1>16. CASE Returns
  BY <1>16, Resuming DEF Returns, Shape, Drains, Apart, native, wire, autoVars, overlap, taps
<1>17. CASE Focus
  BY <1>17, Resuming DEF Focus, Shape, Drains, Apart, native, wire, autoVars, overlap, taps
<1>18. CASE Subscribed
  BY <1>18, Draws DEF Subscribed, Shape, Drains, Apart, native, wire, autoVars, overlap, taps
<1>19. CASE Kill
  BY <1>19 DEF Apart, native, wire, autoVars, overlap, taps, Kill, Idle
<1>20. CASE SweepRemoves
  BY <1>20 DEF Apart, native, wire, autoVars, overlap, taps, SweepRemoves
<1>21. CASE Hides \/ SetMode \/ ApproveAll
  BY <1>21 DEF Apart, native, wire, autoVars, overlap, taps, Hides, SetMode, ApproveAll
<1>22. ASSUME NEW n \in Notes, AutoStores(n) \/ AutoMarks(n) \/ Approve(n) \/ ApproveStores(n)
      PROVE  Apart'
  BY <1>22 DEF Apart, native, wire, autoVars, overlap, taps, AutoStores, AutoMarks, Approve, ApproveStores
<1>23. ASSUME NEW t \in Texts, RecentExpires(t)
      PROVE  Apart'
  BY <1>23 DEF Apart, native, wire, autoVars, overlap, taps, RecentExpires
<1>24. CASE UNCHANGED vars
  BY <1>24 DEF vars, Apart, native, wire, autoVars, overlap, taps
<1> QED
  BY <1>1, <1>2, <1>3, <1>4, <1>5, <1>6, <1>7, <1>8, <1>9, <1>10, <1>11, <1>12, <1>13, <1>14, <1>15, <1>16, <1>17, <1>18, <1>19, <1>20, <1>21, <1>22, <1>23, <1>24
  DEF Next, Arrives, Reviewed, Draining

\* What leaves Named alone: nothing made or let go is forgotten, nothing begins to
\* wait, the journal at most forgets, and the drain holds no entry it did not hold.
Quiet ==
  /\ \A n \in Notes : journal'[n] \in {"none", journal[n]}
  /\ made \subseteq made' /\ gone \subseteq gone' /\ told' \subseteq gone'
  /\ Waiting' \subseteq Waiting
  /\ \/ UNCHANGED drain
     \/ /\ drain'.acts \cup drain'.cur \subseteq drain.acts \cup drain.cur
        /\ drain'.at \in {"adopt", "report"} => \A a \in drain'.cur : a[2] = "import"
        /\ drain'.at = "ack" => \A a \in drain'.cur : a[1] \notin Waiting'

LEMMA QuietIsNamed ==
  ASSUME Named, Quiet
  PROVE  Named'
<1>1. ASSUME NEW n \in Notes, NEW what, Says(n, what)
      PROVE  Says(n, what)'
  BY <1>1 DEF Says, Quiet
<1>2. ASSUME NEW n \in Notes
      PROVE  Says(n, journal[n])'
  <2>1. Says(n, journal[n])
    BY DEF Named
  <2>2. Says(n, "none")
    BY DEF Says
  <2>3. journal'[n] \in {"none", journal[n]}
    BY DEF Quiet
  <2> QED
    BY <2>1, <2>2, <2>3, <1>1 DEF Says
<1>3. ASSUME NEW n \in Notes, NEW what \in {"discard", "import"},
             <<n, what>> \in drain'.acts \cup drain'.cur
      PROVE  Says(n, what)'
  <2>1. <<n, what>> \in drain.acts \cup drain.cur
    BY <1>3 DEF Quiet
  <2> QED
    BY <2>1, <1>1 DEF Named
<1>4. told' \subseteq gone'
  BY DEF Quiet
<1>5. drain'.at \in {"adopt", "report"} => \A a \in drain'.cur : a[2] = "import"
  BY DEF Quiet, Named
<1>6. drain'.at = "ack" => \A a \in drain'.cur : a[1] \notin Waiting'
  BY DEF Quiet, Named
<1> QED
  BY <1>2, <1>3, <1>4, <1>5, <1>6 DEF Named

\* Every step keeps what the journal says true.
LEMMA NamedStep ==
  ASSUME Shape, Apart, Named, [Next]_vars
  PROVE  Named'
<1>1. ASSUME NEW n \in Notes, Post(n)
      PROVE  Named'
  <2>1. /\ UNCHANGED <<drain, inbox, gone, told>>
        /\ n \notin posted /\ made \subseteq made'
        /\ \/ queue' \cup live' \subseteq queue \cup live \cup {n} /\ UNCHANGED journal
           \/ queue' \cup live' = queue \cup live /\ n \in made' /\ journal' = [journal EXCEPT ![n] = "import"]
    BY <1>1 DEF Post
  <2>2. n \notin made \cup gone \cup Waiting /\ journal[n] = "none"
    BY <2>1 DEF Shape, Waiting
  <2>3. Waiting' \subseteq Waiting \cup {n}
    BY <2>1 DEF Waiting
  <2>4. ASSUME NEW m \in Notes, NEW what \in {"discard", "import"}, Says(m, what)
        PROVE  Says(m, what)'
    BY <2>1, <2>2, <2>3, <2>4 DEF Says
  <2>5. ASSUME NEW m \in Notes
        PROVE  Says(m, journal[m])'
    <3>1. CASE journal'[m] = journal[m]
      BY <3>1, <2>4 DEF Named, Shape, Says
    <3>2. CASE journal'[m] # journal[m]
      <4>1. m = n /\ journal'[m] = "import" /\ n \in made' /\ queue' \cup live' = queue \cup live
        BY <3>2, <2>1 DEF Shape
      <4>2. n \notin Waiting'
        BY <4>1, <2>1, <2>2 DEF Waiting
      <4> QED
        BY <4>1, <4>2 DEF Says
    <3> QED
      BY <3>1, <3>2
  <2>6. ASSUME drain.at = "ack", NEW a \in drain.cur
        PROVE  a[1] \notin Waiting'
    <3>1. a[1] \in Notes /\ a[2] \in {"discard", "import"} /\ a = <<a[1], a[2]>>
      BY DEF Shape, Drains, Acts
    <3>2. a[1] \in made \cup gone
      BY <3>1 DEF Named, Says
    <3>3. a[1] \notin Waiting
      BY <2>6 DEF Named
    <3> QED
      BY <3>2, <3>3, <2>2, <2>3
  <2> QED
    BY <2>1, <2>4, <2>5, <2>6 DEF Named
<1>2. ASSUME NEW n \in Notes, Discard(n)
      PROVE  Named'
  <2>1. /\ UNCHANGED <<drain, inbox, live, made>>
        /\ n \in Waiting /\ queue' \subseteq queue
        /\ journal' = [journal EXCEPT ![n] = "discard"]
        /\ gone' = gone \cup {n} /\ told' \subseteq told \cup {n}
    BY <1>2 DEF Discard, Waiting
  <2>2. Waiting' \subseteq Waiting
    BY <2>1 DEF Waiting
  <2>3. ASSUME NEW m \in Notes, NEW what, Says(m, what)
        PROVE  Says(m, what)'
    BY <2>1, <2>2, <2>3 DEF Says
  <2>4. ASSUME NEW m \in Notes
        PROVE  Says(m, journal[m])'
    <3>1. CASE m = n
      BY <3>1, <2>1 DEF Says, Shape
    <3>2. CASE m # n
      BY <3>2, <2>1, <2>3 DEF Named, Shape, Says
    <3> QED
      BY <3>1, <3>2
  <2> QED
    BY <2>1, <2>2, <2>3, <2>4 DEF Named
<1>3. ASSUME NEW n \in Notes, HandleLive(n)
      PROVE  Named'
  <2>1. Asks({n}) \/ Imports({n})
    BY <1>3, Handling DEF HandleLive, Shape
  <2>2. Waiting' \subseteq Waiting
    <3>1. inbox' \subseteq inbox \cup {n}
      BY <2>1 DEF Asks, Imports, Begins
    <3>2. drain' = drain /\ queue' = queue /\ live' = live \ {n} /\ n \in live
      BY <1>3 DEF HandleLive, native
    <3> QED
      BY <3>1, <3>2 DEF Waiting
  <2>3. Quiet
    BY <1>3, <2>2 DEF HandleLive, Quiet, Named, native
  <2> QED
    BY <2>3, QuietIsNamed
<1>4. ASSUME NEW n \in Notes, ApplyLive(n)
      PROVE  Named'
  <2>1. Quiet
    BY <1>4 DEF ApplyLive, Quiet, Named, Waiting, native, wire, autoVars, overlap, taps
  <2> QED
    BY <2>1, QuietIsNamed
<1>5. ASSUME NEW n \in Notes, AutoStores(n)
      PROVE  Named'
  <2>1. Quiet
    BY <1>5 DEF AutoStores, Quiet, Named, Waiting, native, wire, autoVars, overlap, taps
  <2> QED
    BY <2>1, QuietIsNamed
<1>6. ASSUME NEW n \in Notes, AutoMarks(n)
      PROVE  Named'
  <2>1. Quiet
    BY <1>6 DEF AutoMarks, Quiet, Named, Waiting, native, wire, autoVars, overlap, taps
  <2> QED
    BY <2>1, QuietIsNamed
<1>7. ASSUME NEW n \in Notes, Approve(n)
      PROVE  Named'
  <2>1. Quiet
    BY <1>7 DEF Approve, Quiet, Named, Waiting, native, wire, autoVars, overlap, taps
  <2> QED
    BY <2>1, QuietIsNamed
<1>8. ASSUME NEW n \in Notes, ApproveStores(n)
      PROVE  Named'
  <2>1. Quiet
    BY <1>8 DEF ApproveStores, Quiet, Named, Waiting, native, wire, autoVars, overlap, taps
  <2> QED
    BY <2>1, QuietIsNamed
<1>9. ASSUME NEW n \in Notes, ApproveRemoves(n)
      PROVE  Named'
  <2>1. Quiet
    BY <1>9 DEF ApproveRemoves, Quiet, Named, Waiting, native, wire, autoVars, overlap, taps
  <2> QED
    BY <2>1, QuietIsNamed
<1>10. ASSUME NEW n \in Notes, SweepStores(n)
      PROVE  Named'
  <2>1. Quiet
    BY <1>10 DEF SweepStores, Quiet, Named, Waiting, native, wire, autoVars, overlap, taps
  <2> QED
    BY <2>1, QuietIsNamed
<1>11. ASSUME NEW n \in Notes, Skip(n)
      PROVE  Named'
  <2>1. Quiet
    BY <1>11 DEF Skip, Quiet, Named, Waiting, native, wire, autoVars, overlap, taps
  <2> QED
    BY <2>1, QuietIsNamed
<1>12. ASSUME NEW t \in Texts, RecentExpires(t)
      PROVE  Named'
  <2>1. Quiet
    BY <1>12 DEF RecentExpires, Quiet, Named, Waiting, native, wire, autoVars, overlap, taps
  <2> QED
    BY <2>1, QuietIsNamed
<1>13. CASE DrainReads
  <2>1. drain'.batch = queue /\ drain'.acts = drain.acts /\ drain'.cur = drain.cur /\ drain'.at = "add"
    BY <1>13 DEF DrainReads, Shape, Drains
  <2>2. Waiting' \subseteq Waiting
    BY <1>13, <2>1 DEF DrainReads, Waiting, wire
  <2>3. Quiet
    BY <1>13, <2>1, <2>2 DEF DrainReads, Quiet, Named, wire
  <2> QED
    BY <2>3, QuietIsNamed
<1>14. CASE DrainAdds
  <2>1. Asks(drain.batch) \/ Imports(drain.batch)
    BY <1>14, Handling DEF DrainAdds, Shape
  <2>2. drain'.batch = {} /\ drain'.acts = drain.acts /\ drain'.cur = drain.cur /\ drain'.at = "peek"
    BY <1>14 DEF DrainAdds, Shape, Drains
  <2>3. Waiting' \subseteq Waiting
    <3>1. inbox' \subseteq inbox \cup drain.batch
      BY <2>1 DEF Asks, Imports, Begins
    <3>2. queue' = queue /\ live' = live
      BY <1>14 DEF DrainAdds, native, wire
    <3> QED
      BY <2>2, <3>1, <3>2 DEF Waiting
  <2>4. Quiet
    BY <1>14, <2>2, <2>3 DEF DrainAdds, Quiet, Named, native, wire
  <2> QED
    BY <2>4, QuietIsNamed
<1>15. CASE DrainPeeks
  <2> DEFINE acts == {<<n, journal[n]>> : n \in {m \in Notes : journal[m] # "none"}}
  <2>1. drain' = [drain EXCEPT !.at = "apply", !.acts = acts]
    BY <1>15 DEF DrainPeeks
  <2>2. ASSUME NEW n \in Notes, NEW what \in {"discard", "import"}, <<n, what>> \in acts
        PROVE  Says(n, what)
    BY <2>2 DEF Named
  <2> HIDE DEF acts
  <2>3. /\ drain'.batch = drain.batch /\ drain'.acts = acts /\ drain'.cur = drain.cur
        /\ drain'.at = "apply"
    BY <2>1 DEF Shape, Drains
  <2>4. UNCHANGED <<journal, queue, live, told, made, gone, inbox>>
    BY <1>15 DEF DrainPeeks, native, wire
  <2>5. Waiting' = Waiting
    BY <2>3, <2>4 DEF Waiting
  <2> QED
    BY <2>2, <2>3, <2>4, <2>5 DEF Named, Says
<1>16. CASE DrainApplies
  <2>1. /\ drain' \in Drains /\ drain'.batch \subseteq drain.batch
        /\ drain'.acts \cup drain'.cur \subseteq drain.acts \cup drain.cur
        /\ drain'.at \in {"idle", "ack", "adopt"}
        /\ drain'.at = "adopt" => \A a \in drain'.cur : a[2] = "import"
        /\ drain'.at = "ack" => \A a \in drain'.cur : a \in drain.acts /\ a[2] = "discard" /\ a[1] \notin inbox'
    BY <1>16, Applies
  <2>2. inbox' \subseteq inbox /\ UNCHANGED <<journal, queue, live, told, made, gone>>
    BY <1>16 DEF DrainApplies, native, wire
  <2>3. drain.batch = {}
    BY <1>16 DEF DrainApplies, Apart
  <2>4. Waiting' \subseteq Waiting
    BY <2>1, <2>2 DEF Waiting
  <2>5. ASSUME drain'.at = "ack", NEW a \in drain'.cur
        PROVE  a[1] \notin Waiting'
    <3>1. a \in drain.acts /\ a[2] = "discard" /\ a[1] \notin inbox'
      BY <2>1, <2>5
    <3>2. a = <<a[1], "discard">> /\ a[1] \in Notes
      BY <3>1 DEF Shape, Drains, Acts
    <3>3. a[1] \in gone
      BY <3>1, <3>2 DEF Named, Says
    <3> QED
      BY <3>1, <3>3, <2>1, <2>2, <2>3 DEF Waiting, Apart
  <2>6. drain'.at \in {"adopt", "report"} => \A a \in drain'.cur : a[2] = "import"
    BY <2>1
  <2>7. Quiet
    BY <2>1, <2>2, <2>4, <2>5, <2>6 DEF Quiet, Named
  <2> QED
    BY <2>7, QuietIsNamed
<1>17. CASE DrainAdopts
  <2>1. /\ drain'.batch = drain.batch
        /\ drain'.acts \cup drain'.cur \subseteq drain.acts \cup drain.cur
        /\ \/ drain'.at = "report" /\ drain'.cur = drain.cur
           \/ drain'.at = "apply"
    BY <1>17, Adopts
  <2>2. inbox' \subseteq inbox /\ UNCHANGED <<journal, queue, live, told, made, gone>> /\ drain.at = "adopt"
    BY <1>17 DEF DrainAdopts, native, wire, taps
  <2>3. Quiet
    BY <2>1, <2>2 DEF Quiet, Named, Waiting
  <2> QED
    BY <2>3, QuietIsNamed
<1>18. CASE DrainReports
  <2>1. /\ drain'.batch = drain.batch /\ drain'.acts = drain.acts /\ drain'.cur = drain.cur
        /\ drain'.at = "ack" /\ drain.at = "report"
    BY <1>18 DEF DrainReports, Shape, Drains
  <2>2. UNCHANGED <<journal, queue, live, told, made, gone, inbox>>
    BY <1>18 DEF DrainReports, native, wire
  <2>3. ASSUME NEW a \in drain.cur
        PROVE  a[1] \notin Waiting'
    <3>1. a = <<a[1], "import">> /\ a[1] \in Notes
      BY <2>1 DEF Named, Shape, Drains, Acts
    <3> QED
      BY <3>1, <2>1, <2>2 DEF Named, Says, Waiting
  <2>4. Quiet
    BY <2>1, <2>2, <2>3 DEF Quiet, Named, Waiting
  <2> QED
    BY <2>4, QuietIsNamed
<1>19. CASE DrainAcks
  <2>1. drain'.batch = drain.batch /\ drain'.at = "apply" /\ drain'.cur = {} /\ drain'.acts \subseteq drain.acts
    BY <1>19 DEF DrainAcks, Shape, Drains
  <2>2. UNCHANGED <<queue, live, told, made, gone, inbox>>
    BY <1>19 DEF DrainAcks, wire
  <2>3. \A n \in Notes : journal'[n] \in {"none", journal[n]}
    BY <1>19 DEF DrainAcks
  <2>4. Quiet
    BY <2>1, <2>2, <2>3 DEF Quiet, Named, Waiting
  <2> QED
    BY <2>4, QuietIsNamed
<1>20. CASE Opens
  <2>1. Quiet
    BY <1>20 DEF Opens, Quiet, Named, Waiting, native, wire, autoVars, overlap, taps
  <2> QED
    BY <2>1, QuietIsNamed
<1>21. CASE Returns
  <2>1. \/ UNCHANGED drain
        \/ drain.batch = {} /\ drain' = [at |-> "read", batch |-> {}, acts |-> {}, cur |-> {}]
    BY <1>21, Resuming DEF Returns
  <2>2. UNCHANGED <<journal, queue, live, told, made, gone, inbox>>
    BY <1>21 DEF Returns, native, wire
  <2>3. Quiet
    BY <2>1, <2>2 DEF Quiet, Named, Waiting
  <2> QED
    BY <2>3, QuietIsNamed
<1>22. CASE Focus
  <2>1. \/ UNCHANGED drain
        \/ drain.batch = {} /\ drain' = [at |-> "read", batch |-> {}, acts |-> {}, cur |-> {}]
    BY <1>22, Resuming DEF Focus
  <2>2. UNCHANGED <<journal, queue, live, told, made, gone, inbox>>
    BY <1>22 DEF Focus, native, wire
  <2>3. Quiet
    BY <2>1, <2>2 DEF Quiet, Named, Waiting
  <2> QED
    BY <2>3, QuietIsNamed
<1>23. CASE Hides
  <2>1. Quiet
    BY <1>23 DEF Hides, Quiet, Named, Waiting, native, wire, autoVars, overlap, taps
  <2> QED
    BY <2>1, QuietIsNamed
<1>24. CASE Subscribed
  <2>1. \/ UNCHANGED drain
        \/ drain.batch = {} /\ drain' = [at |-> "read", batch |-> {}, acts |-> {}, cur |-> {}]
    BY <1>24, Draws DEF Subscribed
  <2>2. UNCHANGED <<journal, queue, live, told, made, gone, inbox>>
    BY <1>24 DEF Subscribed, native, wire
  <2>3. Quiet
    BY <2>1, <2>2 DEF Quiet, Named, Waiting
  <2> QED
    BY <2>3, QuietIsNamed
<1>25. CASE Kill
  <2>1. Quiet
    BY <1>25 DEF Kill, Quiet, Named, Waiting, native, wire, autoVars, overlap, taps, Idle
  <2> QED
    BY <2>1, QuietIsNamed
<1>26. CASE SetMode
  <2>1. Quiet
    BY <1>26 DEF SetMode, Quiet, Named, Waiting, native, wire, autoVars, overlap, taps
  <2> QED
    BY <2>1, QuietIsNamed
<1>27. CASE ApproveAll
  <2>1. Quiet
    BY <1>27 DEF ApproveAll, Quiet, Named, Waiting, native, wire, autoVars, overlap, taps
  <2> QED
    BY <2>1, QuietIsNamed
<1>28. CASE SweepRemoves
  <2>1. Quiet
    BY <1>28 DEF SweepRemoves, Quiet, Named, Waiting, native, wire, autoVars, overlap, taps
  <2> QED
    BY <2>1, QuietIsNamed
<1>29. CASE UNCHANGED vars
  BY <1>29, QuietIsNamed DEF vars, Quiet, Named, Waiting, native, wire, autoVars, overlap, taps
<1> QED
  BY <1>1, <1>2, <1>3, <1>4, <1>5, <1>6, <1>7, <1>8, <1>9, <1>10, <1>11, <1>12, <1>13, <1>14, <1>15, <1>16, <1>17, <1>18, <1>19, <1>20, <1>21, <1>22, <1>23, <1>24, <1>25, <1>26, <1>27, <1>28, <1>29
  DEF Next, Arrives, Reviewed, Draining

-----------------------------------------------------------------------------
(* A discard sticks *)

Pile == queue \cup drain.batch \cup inbox

LEMMA CalmDiscards ==
  ASSUME Shape, DiscardApplied, UNCHANGED journal, gone' \subseteq gone, Pile' \subseteq Pile
  PROVE  DiscardApplied'
BY DEF DiscardApplied, Pile, Shape

\* A discard is not undone by any step.
LEMMA DiscardStep ==
  ASSUME Shape, Apart, Named, DiscardApplied, [Next]_vars
  PROVE  DiscardApplied'
<1>1. ASSUME NEW n \in Notes, Post(n)
      PROVE  DiscardApplied'
  <2>1. n \notin posted /\ UNCHANGED <<drain, inbox, gone>> /\ queue' \subseteq queue \cup {n}
        /\ \A m \in Notes : m # n => journal'[m] = journal[m]
    BY <1>1 DEF Post, Shape
  <2>2. n \notin gone /\ gone \subseteq Notes
    BY <2>1 DEF Shape
  <2> QED
    BY <2>1, <2>2 DEF DiscardApplied
<1>2. ASSUME NEW n \in Notes, Discard(n)
      PROVE  DiscardApplied'
  <2>1. /\ UNCHANGED <<drain, inbox>> /\ queue' \subseteq queue /\ gone' = gone \cup {n}
        /\ journal' = [journal EXCEPT ![n] = "discard"]
    BY <1>2 DEF Discard
  <2> QED
    BY <2>1 DEF DiscardApplied, Shape
<1>3. ASSUME NEW n \in Notes, HandleLive(n)
      PROVE  DiscardApplied'
  <2>1. Asks({n}) \/ Imports({n})
    BY <1>3, Handling DEF HandleLive, Shape
  <2>2. inbox' \subseteq inbox \cup {n}
    BY <2>1 DEF Asks, Imports, Begins
  <2>3. n \notin gone /\ UNCHANGED <<journal, gone, queue, drain>>
    BY <1>3 DEF HandleLive, Apart, native
  <2> QED
    BY <2>2, <2>3 DEF DiscardApplied, Shape
<1>4. ASSUME NEW n \in Notes, ApplyLive(n)
      PROVE  DiscardApplied'
  <2>1. UNCHANGED journal /\ gone' \subseteq gone /\ Pile' \subseteq Pile
    BY <1>4 DEF ApplyLive, Pile, native, wire, autoVars, overlap, taps
  <2> QED
    BY <2>1, CalmDiscards
<1>5. ASSUME NEW n \in Notes, AutoStores(n)
      PROVE  DiscardApplied'
  <2>1. UNCHANGED journal /\ gone' \subseteq gone /\ Pile' \subseteq Pile
    BY <1>5 DEF AutoStores, Pile, native, wire, autoVars, overlap, taps
  <2> QED
    BY <2>1, CalmDiscards
<1>6. ASSUME NEW n \in Notes, AutoMarks(n)
      PROVE  DiscardApplied'
  <2>1. UNCHANGED journal /\ gone' \subseteq gone /\ Pile' \subseteq Pile
    BY <1>6 DEF AutoMarks, Pile, native, wire, autoVars, overlap, taps
  <2> QED
    BY <2>1, CalmDiscards
<1>7. ASSUME NEW n \in Notes, Approve(n)
      PROVE  DiscardApplied'
  <2>1. UNCHANGED journal /\ gone' \subseteq gone /\ Pile' \subseteq Pile
    BY <1>7 DEF Approve, Pile, native, wire, autoVars, overlap, taps
  <2> QED
    BY <2>1, CalmDiscards
<1>8. ASSUME NEW n \in Notes, ApproveStores(n)
      PROVE  DiscardApplied'
  <2>1. UNCHANGED journal /\ gone' \subseteq gone /\ Pile' \subseteq Pile
    BY <1>8 DEF ApproveStores, Pile, native, wire, autoVars, overlap, taps
  <2> QED
    BY <2>1, CalmDiscards
<1>9. ASSUME NEW n \in Notes, ApproveRemoves(n)
      PROVE  DiscardApplied'
  <2>1. UNCHANGED journal /\ gone' \subseteq gone /\ Pile' \subseteq Pile
    BY <1>9 DEF ApproveRemoves, Pile, native, wire, autoVars, overlap, taps
  <2> QED
    BY <2>1, CalmDiscards
<1>10. ASSUME NEW n \in Notes, SweepStores(n)
      PROVE  DiscardApplied'
  <2>1. UNCHANGED journal /\ gone' \subseteq gone /\ Pile' \subseteq Pile
    BY <1>10 DEF SweepStores, Pile, native, wire, autoVars, overlap, taps
  <2> QED
    BY <2>1, CalmDiscards
<1>11. ASSUME NEW n \in Notes, Skip(n)
      PROVE  DiscardApplied'
  <2>1. /\ UNCHANGED <<drain, journal, queue>> /\ inbox' = inbox \ {n} /\ gone' = gone \cup {n}
        /\ n \in view
    BY <1>11 DEF Skip, native
  <2> QED
    BY <2>1 DEF DiscardApplied, Shape, Apart
<1>12. ASSUME NEW t \in Texts, RecentExpires(t)
      PROVE  DiscardApplied'
  <2>1. UNCHANGED journal /\ gone' \subseteq gone /\ Pile' \subseteq Pile
    BY <1>12 DEF RecentExpires, Pile, native, wire, autoVars, overlap, taps
  <2> QED
    BY <2>1, CalmDiscards
<1>13. CASE DrainReads
  <2>1. drain'.batch = queue
    BY <1>13 DEF DrainReads, Shape, Drains
  <2>2. UNCHANGED journal /\ gone' \subseteq gone /\ Pile' \subseteq Pile
    BY <1>13, <2>1 DEF DrainReads, Pile, wire
  <2> QED
    BY <2>2, CalmDiscards
<1>14. CASE DrainAdds
  <2>1. Asks(drain.batch) \/ Imports(drain.batch)
    BY <1>14, Handling DEF DrainAdds, Shape
  <2>2. inbox' \subseteq inbox \cup drain.batch
    BY <2>1 DEF Asks, Imports, Begins
  <2>3. drain'.batch = {} /\ UNCHANGED <<journal, gone, queue>>
    BY <1>14 DEF DrainAdds, Shape, Drains, native
  <2> QED
    BY <2>2, <2>3, CalmDiscards DEF Pile
<1>15. CASE DrainPeeks
  <2>1. drain'.batch = drain.batch /\ UNCHANGED <<journal, gone, queue, inbox>>
    BY <1>15 DEF DrainPeeks, Shape, Drains, native
  <2> QED
    BY <2>1, CalmDiscards DEF Pile
<1>16. CASE DrainApplies
  <2>1. drain'.batch \subseteq drain.batch
    BY <1>16, Applies
  <2>2. inbox' \subseteq inbox /\ UNCHANGED <<journal, gone, queue>>
    BY <1>16 DEF DrainApplies, native, taps
  <2> QED
    BY <2>1, <2>2, CalmDiscards DEF Pile
<1>17. CASE DrainAdopts
  <2>1. drain'.batch \subseteq drain.batch
    BY <1>17, Adopts
  <2>2. inbox' \subseteq inbox /\ UNCHANGED <<journal, gone, queue>>
    BY <1>17 DEF DrainAdopts, native, taps
  <2> QED
    BY <2>1, <2>2, CalmDiscards DEF Pile
<1>18. CASE DrainReports
  <2>1. drain'.batch = drain.batch /\ UNCHANGED <<journal, gone, queue, inbox>>
    BY <1>18 DEF DrainReports, Shape, Drains, native
  <2> QED
    BY <2>1, CalmDiscards DEF Pile
<1>19. CASE DrainAcks
  <2>1. drain.at = "ack" /\ drain'.batch = drain.batch /\ UNCHANGED <<gone, queue, inbox>>
    BY <1>19 DEF DrainAcks, Shape, Drains
  <2>2. ASSUME NEW n \in Notes, journal'[n] # journal[n]
        PROVE  n \notin Pile
    <3>1. PICK a \in drain.cur : a[1] = n
      BY <1>19, <2>2 DEF DrainAcks, Shape
    <3> QED
      BY <2>1, <3>1 DEF Named, Waiting, Pile
  <2>3. Pile' = Pile
    BY <2>1 DEF Pile
  <2> QED
    BY <2>1, <2>2, <2>3 DEF DiscardApplied, Pile, Shape
<1>20. CASE Opens
  <2>1. UNCHANGED journal /\ gone' \subseteq gone /\ Pile' \subseteq Pile
    BY <1>20 DEF Opens, Pile, native, wire, autoVars, overlap, taps
  <2> QED
    BY <2>1, CalmDiscards
<1>21. CASE Returns
  <2>1. UNCHANGED journal /\ gone' \subseteq gone /\ Pile' \subseteq Pile
    BY <1>21, Resuming DEF Returns, Pile, native, wire, autoVars, overlap, taps
  <2> QED
    BY <2>1, CalmDiscards
<1>22. CASE Focus
  <2>1. UNCHANGED journal /\ gone' \subseteq gone /\ Pile' \subseteq Pile
    BY <1>22, Resuming DEF Focus, Pile, native, wire, autoVars, overlap, taps
  <2> QED
    BY <2>1, CalmDiscards
<1>23. CASE Hides
  <2>1. UNCHANGED journal /\ gone' \subseteq gone /\ Pile' \subseteq Pile
    BY <1>23 DEF Hides, Pile, native, wire, autoVars, overlap, taps
  <2> QED
    BY <2>1, CalmDiscards
<1>24. CASE Subscribed
  <2>1. UNCHANGED journal /\ gone' \subseteq gone /\ Pile' \subseteq Pile
    BY <1>24, Draws DEF Subscribed, Pile, native, wire, autoVars, overlap, taps
  <2> QED
    BY <2>1, CalmDiscards
<1>25. CASE Kill
  <2>1. UNCHANGED journal /\ gone' \subseteq gone /\ Pile' \subseteq Pile
    BY <1>25 DEF Kill, Pile, native, wire, autoVars, overlap, taps, Idle
  <2> QED
    BY <2>1, CalmDiscards
<1>26. CASE SetMode
  <2>1. UNCHANGED journal /\ gone' \subseteq gone /\ Pile' \subseteq Pile
    BY <1>26 DEF SetMode, Pile, native, wire, autoVars, overlap, taps
  <2> QED
    BY <2>1, CalmDiscards
<1>27. CASE ApproveAll
  <2>1. UNCHANGED journal /\ gone' \subseteq gone /\ Pile' \subseteq Pile
    BY <1>27 DEF ApproveAll, Pile, native, wire, autoVars, overlap, taps
  <2> QED
    BY <2>1, CalmDiscards
<1>28. CASE SweepRemoves
  <2>1. UNCHANGED journal /\ gone' \subseteq gone /\ Pile' \subseteq Pile
    BY <1>28 DEF SweepRemoves, Pile, native, wire, autoVars, overlap, taps
  <2> QED
    BY <2>1, CalmDiscards
<1>29. CASE UNCHANGED vars
  BY <1>29 DEF vars, DiscardApplied, Pile, native, wire, autoVars, overlap, taps
<1> QED
  BY <1>1, <1>2, <1>3, <1>4, <1>5, <1>6, <1>7, <1>8, <1>9, <1>10, <1>11, <1>12, <1>13, <1>14, <1>15, <1>16, <1>17, <1>18, <1>19, <1>20, <1>21, <1>22, <1>23, <1>24, <1>25, <1>26, <1>27, <1>28, <1>29
  DEF Next, Arrives, Reviewed, Draining

-----------------------------------------------------------------------------
(* Nothing disappears *)

Held == UNION {inbox, autos, made, gone, lost}
Coming == queue \cup drain.batch \cup live

Sources == autos \cup made \cup lost

\* Every capture that auto mode passes over has its key among those in hand, made or lost.
LEMMA PassedOver ==
  ASSUME Shape, Kept, NEW S \in SUBSET Notes, Imports(S), UNCHANGED <<key, made, lost>>
  PROVE  KeysOf(S) \subseteq KeysOf(Sources')
<1>1. PICK R \in SUBSET S :
        /\ Begins(R)
        /\ \A n \in S : key[n] \in imported \/ text[n] \in recent \/ \E r \in R : text[r] = text[n]
  BY DEF Imports
<1>2. Sources' = Sources \cup R
  BY <1>1 DEF Begins, Sources
<1>3. Sources' \subseteq Notes
  BY <1>2 DEF Shape, Sources
<1>4. ASSUME NEW n \in S
      PROVE  \E h \in Sources' : key[h] = key[n]
  <2>1. CASE key[n] \in imported
    BY <2>1, <1>2 DEF Kept, KeysOf, Sources
  <2>2. CASE text[n] \in recent
    <3>1. PICK h \in Sources : text[h] = text[n]
      BY <2>2 DEF Kept, TextsOf, Sources
    <3> QED
      BY <3>1, <1>2, <1>3 DEF Shape
  <2>3. CASE \E r \in R : text[r] = text[n]
    BY <2>3, <1>2, <1>3 DEF Shape
  <2> QED
    BY <1>1, <2>1, <2>2, <2>3
<1> QED
  BY <1>4 DEF KeysOf

\* What a step must do to every capture that was delivered.
LEMMA StillAccounted ==
  ASSUME Accounted, key' = key, posted' = posted,
         KeysOf(Held) \subseteq KeysOf(Held'),
         \A n \in Coming : n \in Coming' \/ key[n] \in KeysOf(Held')
  PROVE  Accounted'
<1>1. ASSUME NEW n, Same(Held, n)
      PROVE  key[n] \in KeysOf(Held)
  BY <1>1 DEF Same, KeysOf
<1>2. ASSUME NEW n, key[n] \in KeysOf(Held')
      PROVE  Same(Held, n)'
  BY <1>2 DEF Same, KeysOf
<1>3. ASSUME NEW n \in posted'
      PROVE  n \in Coming' \/ Same(Held, n)'
  <2>1. n \in Coming \/ Same(Held, n)
    BY <1>3 DEF Accounted, Coming, Held
  <2> QED
    BY <2>1, <1>1, <1>2
<1> QED
  BY <1>3 DEF Accounted, Coming, Held

LEMMA MoreHeld ==
  ASSUME Accounted, key' = key, posted' = posted, Held \subseteq Held',
         Coming \subseteq Coming' \cup Held'
  PROVE  Accounted'
<1>1. KeysOf(Held) \subseteq KeysOf(Held')
  BY DEF KeysOf
<1>2. \A n \in Held' : key[n] \in KeysOf(Held')
  BY DEF KeysOf
<1> QED
  BY <1>1, <1>2, StillAccounted

\* No step makes a capture disappear.
LEMMA AccountedStep ==
  ASSUME Shape, Apart, Named, Kept, Accounted, [Next]_vars
  PROVE  Accounted'
<1>1. ASSUME NEW n \in Notes, Post(n)
      PROVE  Accounted'
  <2>1. /\ key' = key /\ posted' = posted \cup {n} /\ UNCHANGED <<drain, inbox, autos, gone, lost>>
        /\ n \in queue' \cup live' \cup made'
        /\ queue \subseteq queue' /\ live \subseteq live' /\ made \subseteq made'
    BY <1>1 DEF Post, autoVars
  <2>2. Held \subseteq Held' /\ Coming \subseteq Coming'
    BY <2>1 DEF Held, Coming
  <2>3. n \in Coming' \/ n \in Held'
    BY <2>1 DEF Held, Coming
  <2>4. ASSUME NEW m \in posted'
        PROVE  m \in Coming' \/ \E h \in Held' : key[h] = key[m]
    <3>1. CASE m = n
      BY <3>1, <2>3
    <3>2. CASE m \in posted
      <4>1. m \in Coming \/ \E h \in Held : key[h] = key[m]
        BY <3>2 DEF Accounted, Same, Coming, Held
      <4> QED
        BY <4>1, <2>2
    <3> QED
      BY <2>1, <3>1, <3>2
  <2> QED
    BY <2>1, <2>4 DEF Accounted, Same, Coming, Held
<1>2. ASSUME NEW n \in Notes, Discard(n)
      PROVE  Accounted'
  <2>1. key' = key /\ posted' = posted /\ Held \subseteq Held' /\ Coming \subseteq Coming' \cup Held'
    BY <1>2 DEF Discard, Held, Coming, native, wire, autoVars, overlap, taps
  <2> QED
    BY <2>1, MoreHeld
<1>3. ASSUME NEW n \in Notes, HandleLive(n)
      PROVE  Accounted'
  <2>1. Asks({n}) \/ Imports({n})
    BY <1>3, Handling DEF HandleLive, Shape
  <2>2. /\ key' = key /\ posted' = posted /\ UNCHANGED <<queue, made, gone, lost, imported>>
        /\ live' = live \ {n} /\ UNCHANGED drain
    BY <1>3 DEF HandleLive, Shape, Drains, native, wire
  <2>3. Held \subseteq Held'
    BY <2>1, <2>2 DEF Asks, Imports, Begins, Held
  <2>4. KeysOf(Held) \subseteq KeysOf(Held')
    BY <2>3 DEF KeysOf
  <2>5. KeysOf({n}) \subseteq KeysOf(Held')
    <3>1. CASE Asks({n})
      <4>1. KeysOf(inbox') \subseteq KeysOf(Held')
        BY DEF KeysOf, Held
      <4> QED
        BY <3>1, <4>1 DEF Asks
    <3>2. CASE Imports({n})
      <4>1. {n} \in SUBSET Notes
        BY DEF Shape
      <4>2. KeysOf({n}) \subseteq KeysOf(Sources')
        BY <3>2, <4>1, <2>2, PassedOver
      <4>3. KeysOf(Sources') \subseteq KeysOf(Held')
        BY DEF KeysOf, Held, Sources
      <4> QED
        BY <4>2, <4>3
    <3> QED
      BY <2>1, <3>1, <3>2
  <2>6. \A m \in Coming : m \in Coming' \/ key[m] \in KeysOf(Held')
    BY <2>2, <2>5 DEF Coming, KeysOf
  <2> QED
    BY <2>2, <2>4, <2>6, StillAccounted
<1>4. ASSUME NEW n \in Notes, ApplyLive(n)
      PROVE  Accounted'
  <2>1. key' = key /\ posted' = posted /\ Held \subseteq Held' /\ Coming \subseteq Coming' \cup Held'
    BY <1>4 DEF ApplyLive, Held, Coming, native, wire, autoVars, overlap, taps, Named
  <2> QED
    BY <2>1, MoreHeld
<1>5. ASSUME NEW n \in Notes, AutoStores(n)
      PROVE  Accounted'
  <2>1. key' = key /\ posted' = posted /\ Held \subseteq Held' /\ Coming \subseteq Coming' \cup Held'
    BY <1>5 DEF AutoStores, Held, Coming, native, wire, autoVars, overlap, taps
  <2> QED
    BY <2>1, MoreHeld
<1>6. ASSUME NEW n \in Notes, AutoMarks(n)
      PROVE  Accounted'
  <2>1. key' = key /\ posted' = posted /\ Held \subseteq Held' /\ Coming \subseteq Coming' \cup Held'
    BY <1>6 DEF AutoMarks, Held, Coming, native, wire, autoVars, overlap, taps
  <2> QED
    BY <2>1, MoreHeld
<1>7. ASSUME NEW n \in Notes, Approve(n)
      PROVE  Accounted'
  <2>1. key' = key /\ posted' = posted /\ Held \subseteq Held' /\ Coming \subseteq Coming' \cup Held'
    BY <1>7 DEF Approve, Held, Coming, native, wire, autoVars, overlap, taps
  <2> QED
    BY <2>1, MoreHeld
<1>8. ASSUME NEW n \in Notes, ApproveStores(n)
      PROVE  Accounted'
  <2>1. key' = key /\ posted' = posted /\ Held \subseteq Held' /\ Coming \subseteq Coming' \cup Held'
    BY <1>8 DEF ApproveStores, Held, Coming, native, wire, autoVars, overlap, taps
  <2> QED
    BY <2>1, MoreHeld
<1>9. ASSUME NEW n \in Notes, ApproveRemoves(n)
      PROVE  Accounted'
  <2>1. key' = key /\ posted' = posted /\ Held \subseteq Held' /\ Coming \subseteq Coming' \cup Held'
    BY <1>9 DEF ApproveRemoves, Held, Coming, native, wire, autoVars, overlap, taps, Kept
  <2> QED
    BY <2>1, MoreHeld
<1>10. ASSUME NEW n \in Notes, SweepStores(n)
      PROVE  Accounted'
  <2>1. key' = key /\ posted' = posted /\ Held \subseteq Held' /\ Coming \subseteq Coming' \cup Held'
    BY <1>10 DEF SweepStores, Held, Coming, native, wire, autoVars, overlap, taps
  <2> QED
    BY <2>1, MoreHeld
<1>11. ASSUME NEW n \in Notes, Skip(n)
      PROVE  Accounted'
  <2>1. key' = key /\ posted' = posted /\ Held \subseteq Held' /\ Coming \subseteq Coming' \cup Held'
    BY <1>11 DEF Skip, Held, Coming, native, wire, autoVars, overlap, taps
  <2> QED
    BY <2>1, MoreHeld
<1>12. ASSUME NEW t \in Texts, RecentExpires(t)
      PROVE  Accounted'
  <2>1. key' = key /\ posted' = posted /\ Held \subseteq Held' /\ Coming \subseteq Coming' \cup Held'
    BY <1>12 DEF RecentExpires, Held, Coming, native, wire, autoVars, overlap, taps
  <2> QED
    BY <2>1, MoreHeld
<1>13. CASE DrainReads
  <2>1. drain'.batch = queue
    BY <1>13 DEF DrainReads, Shape, Drains
  <2>2. key' = key /\ posted' = posted /\ Held \subseteq Held' /\ Coming \subseteq Coming' \cup Held'
    BY <1>13, <2>1 DEF DrainReads, Held, Coming, Apart, native, wire, autoVars, overlap, taps
  <2> QED
    BY <2>2, MoreHeld
<1>14. CASE DrainAdds
  <2>1. Asks(drain.batch) \/ Imports(drain.batch)
    BY <1>14, Handling DEF DrainAdds, Shape
  <2>2. /\ key' = key /\ posted' = posted /\ UNCHANGED <<queue, made, gone, lost, imported>>
        /\ drain'.batch = {} /\ UNCHANGED live
    BY <1>14 DEF DrainAdds, Shape, Drains, native, wire
  <2>3. Held \subseteq Held'
    BY <2>1, <2>2 DEF Asks, Imports, Begins, Held
  <2>4. KeysOf(Held) \subseteq KeysOf(Held')
    BY <2>3 DEF KeysOf
  <2>5. KeysOf(drain.batch) \subseteq KeysOf(Held')
    <3>1. CASE Asks(drain.batch)
      <4>1. KeysOf(inbox') \subseteq KeysOf(Held')
        BY DEF KeysOf, Held
      <4> QED
        BY <3>1, <4>1 DEF Asks
    <3>2. CASE Imports(drain.batch)
      <4>1. drain.batch \in SUBSET Notes
        BY DEF Shape
      <4>2. KeysOf(drain.batch) \subseteq KeysOf(Sources')
        BY <3>2, <4>1, <2>2, PassedOver
      <4>3. KeysOf(Sources') \subseteq KeysOf(Held')
        BY DEF KeysOf, Held, Sources
      <4> QED
        BY <4>2, <4>3
    <3> QED
      BY <2>1, <3>1, <3>2
  <2>6. \A n \in Coming : n \in Coming' \/ key[n] \in KeysOf(Held')
    BY <2>2, <2>5 DEF Coming, KeysOf
  <2> QED
    BY <2>2, <2>4, <2>6, StillAccounted
<1>15. CASE DrainPeeks
  <2>1. drain'.batch = drain.batch
    BY <1>15 DEF DrainPeeks, Shape, Drains
  <2>2. key' = key /\ posted' = posted /\ Held \subseteq Held' /\ Coming \subseteq Coming' \cup Held'
    BY <1>15, <2>1 DEF DrainPeeks, Held, Coming, Apart, native, wire, autoVars, overlap, taps
  <2> QED
    BY <2>2, MoreHeld
<1>16. CASE DrainApplies
  <2>1. drain.batch = {} /\ UNCHANGED <<key, posted, queue, live, autos, made, gone, lost>>
    BY <1>16 DEF DrainApplies, Apart, native, wire, autoVars
  <2>2. ASSUME NEW n \in inbox, n \notin inbox'
        PROVE  n \in gone
    <3>1. PICK a \in drain.acts : a[2] = "discard" /\ inbox' = inbox \ {a[1]}
      BY <1>16, <2>2 DEF DrainApplies
    <3>2. a = <<a[1], "discard">> /\ a[1] = n /\ n \in Notes
      BY <3>1, <2>2 DEF Shape, Drains, Acts
    <3> QED
      BY <3>2 DEF Named, Says
  <2>3. Held \subseteq Held' /\ Coming \subseteq Coming'
    BY <2>1, <2>2 DEF Held, Coming
  <2> QED
    BY <2>1, <2>3, MoreHeld
<1>17. CASE DrainAdopts
  <2>1. drain'.batch = drain.batch /\ UNCHANGED <<key, posted, queue, live, autos, made, gone, lost>>
    BY <1>17, Adopts DEF DrainAdopts, native, wire, taps
  <2>2. ASSUME NEW n \in inbox, n \notin inbox'
        PROVE  \E m \in made : key[m] = key[n]
    <3>1. PICK a \in drain.cur : key[n] = key[a[1]]
      BY <1>17, <2>2 DEF DrainAdopts
    <3>2. drain.at = "adopt"
      BY <1>17 DEF DrainAdopts
    <3>3. a = <<a[1], "import">> /\ a[1] \in Notes
      BY <3>2 DEF Shape, Drains, Acts, Named
    <3>4. a[1] \in made
      BY <3>3 DEF Named, Says
    <3> QED
      BY <3>1, <3>4
  <2>3. Coming' = Coming
    BY <2>1 DEF Coming
  <2>4. KeysOf(Held) \subseteq KeysOf(Held')
    BY <2>1, <2>2 DEF KeysOf, Held
  <2> QED
    BY <2>1, <2>3, <2>4, StillAccounted
<1>18. CASE DrainReports
  <2>1. drain'.batch = drain.batch
    BY <1>18 DEF DrainReports, Shape, Drains
  <2>2. key' = key /\ posted' = posted /\ Held \subseteq Held' /\ Coming \subseteq Coming' \cup Held'
    BY <1>18, <2>1 DEF DrainReports, Held, Coming, Apart, native, wire, autoVars, overlap, taps
  <2> QED
    BY <2>2, MoreHeld
<1>19. CASE DrainAcks
  <2>1. drain'.batch = drain.batch
    BY <1>19 DEF DrainAcks, Shape, Drains
  <2>2. key' = key /\ posted' = posted /\ Held \subseteq Held' /\ Coming \subseteq Coming' \cup Held'
    BY <1>19, <2>1 DEF DrainAcks, Held, Coming, Apart, native, wire, autoVars, overlap, taps
  <2> QED
    BY <2>2, MoreHeld
<1>20. CASE Opens
  <2>1. key' = key /\ posted' = posted /\ Held \subseteq Held' /\ Coming \subseteq Coming' \cup Held'
    BY <1>20 DEF Opens, Held, Coming, native, wire, autoVars, overlap, taps
  <2> QED
    BY <2>1, MoreHeld
<1>21. CASE Returns
  <2>1. key' = key /\ posted' = posted /\ Held \subseteq Held' /\ Coming \subseteq Coming' \cup Held'
    BY <1>21, Resuming DEF Returns, Held, Coming, native, wire, autoVars, overlap, taps
  <2> QED
    BY <2>1, MoreHeld
<1>22. CASE Focus
  <2>1. key' = key /\ posted' = posted /\ Held \subseteq Held' /\ Coming \subseteq Coming' \cup Held'
    BY <1>22, Resuming DEF Focus, Held, Coming, native, wire, autoVars, overlap, taps
  <2> QED
    BY <2>1, MoreHeld
<1>23. CASE Hides
  <2>1. key' = key /\ posted' = posted /\ Held \subseteq Held' /\ Coming \subseteq Coming' \cup Held'
    BY <1>23 DEF Hides, Held, Coming, native, wire, autoVars, overlap, taps
  <2> QED
    BY <2>1, MoreHeld
<1>24. CASE Subscribed
  <2>1. key' = key /\ posted' = posted /\ Held \subseteq Held' /\ Coming \subseteq Coming' \cup Held'
    BY <1>24, Draws DEF Subscribed, Held, Coming, native, wire, autoVars, overlap, taps
  <2> QED
    BY <2>1, MoreHeld
<1>25. CASE Kill
  <2>1. key' = key /\ posted' = posted /\ Held \subseteq Held' /\ Coming \subseteq Coming' \cup Held'
    BY <1>25 DEF Kill, Held, Coming, native, wire, autoVars, overlap, taps, Idle
  <2> QED
    BY <2>1, MoreHeld
<1>26. CASE SetMode
  <2>1. key' = key /\ posted' = posted /\ Held \subseteq Held' /\ Coming \subseteq Coming' \cup Held'
    BY <1>26 DEF SetMode, Held, Coming, native, wire, autoVars, overlap, taps
  <2> QED
    BY <2>1, MoreHeld
<1>27. CASE ApproveAll
  <2>1. key' = key /\ posted' = posted /\ Held \subseteq Held' /\ Coming \subseteq Coming' \cup Held'
    BY <1>27 DEF ApproveAll, Held, Coming, native, wire, autoVars, overlap, taps
  <2> QED
    BY <2>1, MoreHeld
<1>28. CASE SweepRemoves
  <2>1. key' = key /\ posted' = posted /\ Held \subseteq Held' /\ Coming \subseteq Coming' \cup Held'
    BY <1>28 DEF SweepRemoves, Held, Coming, native, wire, autoVars, overlap, taps, Kept
  <2> QED
    BY <2>1, MoreHeld
<1>29. CASE UNCHANGED vars
  <2>1. key' = key /\ posted' = posted /\ Held' = Held /\ Coming' = Coming
    BY <1>29 DEF vars, Held, Coming, native, wire, autoVars, overlap, taps
  <2> QED
    BY <2>1, MoreHeld
<1> QED
  BY <1>1, <1>2, <1>3, <1>4, <1>5, <1>6, <1>7, <1>8, <1>9, <1>10, <1>11, <1>12, <1>13, <1>14, <1>15, <1>16, <1>17, <1>18, <1>19, <1>20, <1>21, <1>22, <1>23, <1>24, <1>25, <1>26, <1>27, <1>28, <1>29
  DEF Next, Arrives, Reviewed, Draining

-----------------------------------------------------------------------------
(* Keys are kept of captures in hand, made or lost *)

Claimed == marking \cup removing \cup sweep.cur

LEMMA KeptGrows ==
  ASSUME Kept, key' = key, made \subseteq made', Sources \subseteq Sources',
         text' = text, imported' \subseteq imported \cup KeysOf(Sources'),
         recent' \subseteq recent \cup TextsOf(Sources'),
         Claimed' \subseteq Claimed \cup made'
  PROVE  Kept'
<1>1. KeysOf(Sources) \subseteq KeysOf(Sources') /\ TextsOf(Sources) \subseteq TextsOf(Sources')
  BY DEF KeysOf, TextsOf
<1>2. imported' \subseteq KeysOf(Sources') /\ recent' \subseteq TextsOf(Sources')
  BY <1>1 DEF Kept, Sources
<1>3. KeysOf(Sources') = KeysOf(Sources)' /\ TextsOf(Sources') = TextsOf(Sources)'
  BY DEF KeysOf, TextsOf
<1> QED
  BY <1>2, <1>3 DEF Kept, Sources, Claimed

\* A key or a text is kept only of a capture that is in hand, made or lost.
LEMMA KeptStep ==
  ASSUME Shape, Named, Kept, [Next]_vars
  PROVE  Kept'
<1>1. ASSUME NEW n \in Notes, Post(n)
      PROVE  Kept'
  <2>1. key' = key /\ text' = text /\ made \subseteq made' /\ Sources \subseteq Sources'
    BY <1>1 DEF Post, Sources, native, wire, autoVars, overlap, taps
  <2>2. imported' \subseteq imported \cup KeysOf(Sources') /\ recent' \subseteq recent \cup TextsOf(Sources')
    BY <1>1 DEF Post, Sources, KeysOf, TextsOf, native, wire, autoVars, overlap, taps, Kept
  <2>3. Claimed' \subseteq Claimed \cup made'
    BY <1>1 DEF Post, Claimed, native, wire, autoVars, overlap, taps
  <2> QED
    BY <2>1, <2>2, <2>3, KeptGrows
<1>2. ASSUME NEW n \in Notes, Discard(n)
      PROVE  Kept'
  <2>1. key' = key /\ text' = text /\ made \subseteq made' /\ Sources \subseteq Sources'
    BY <1>2 DEF Discard, Sources, native, wire, autoVars, overlap, taps
  <2>2. imported' \subseteq imported \cup KeysOf(Sources') /\ recent' \subseteq recent \cup TextsOf(Sources')
    BY <1>2 DEF Discard, Sources, KeysOf, TextsOf, native, wire, autoVars, overlap, taps, Kept
  <2>3. Claimed' \subseteq Claimed \cup made'
    BY <1>2 DEF Discard, Claimed, native, wire, autoVars, overlap, taps
  <2> QED
    BY <2>1, <2>2, <2>3, KeptGrows
<1>3. ASSUME NEW n \in Notes, HandleLive(n)
      PROVE  Kept'
  <2>1. Asks({n}) \/ Imports({n})
    BY <1>3, Handling DEF HandleLive
  <2>2. UNCHANGED <<key, text, made, lost, imported, marking, removing, sweep>>
    BY <1>3 DEF HandleLive, taps
  <2>3. Sources \subseteq Sources'
    BY <2>1, <2>2 DEF Asks, Imports, Begins, Sources
  <2>4. recent' \subseteq recent \cup TextsOf(Sources')
    BY <2>1, <2>2 DEF Asks, Imports, Begins, Sources, TextsOf
  <2> QED
    BY <2>2, <2>3, <2>4, KeptGrows DEF Claimed
<1>4. ASSUME NEW n \in Notes, ApplyLive(n)
      PROVE  Kept'
  <2>1. key' = key /\ text' = text /\ made \subseteq made' /\ Sources \subseteq Sources'
    BY <1>4 DEF ApplyLive, Sources, native, wire, autoVars, overlap, taps
  <2>2. imported' \subseteq imported \cup KeysOf(Sources') /\ recent' \subseteq recent \cup TextsOf(Sources')
    BY <1>4 DEF ApplyLive, Sources, KeysOf, TextsOf, native, wire, autoVars, overlap, taps, Kept
  <2>3. Claimed' \subseteq Claimed \cup made'
    BY <1>4 DEF ApplyLive, Claimed, native, wire, autoVars, overlap, taps
  <2> QED
    BY <2>1, <2>2, <2>3, KeptGrows
<1>5. ASSUME NEW n \in Notes, AutoStores(n)
      PROVE  Kept'
  <2>1. key' = key /\ text' = text /\ made \subseteq made' /\ Sources \subseteq Sources'
    BY <1>5 DEF AutoStores, Sources, native, wire, autoVars, overlap, taps
  <2>2. imported' \subseteq imported \cup KeysOf(Sources') /\ recent' \subseteq recent \cup TextsOf(Sources')
    BY <1>5 DEF AutoStores, Sources, KeysOf, TextsOf, native, wire, autoVars, overlap, taps, Kept
  <2>3. Claimed' \subseteq Claimed \cup made'
    BY <1>5 DEF AutoStores, Claimed, native, wire, autoVars, overlap, taps
  <2> QED
    BY <2>1, <2>2, <2>3, KeptGrows
<1>6. ASSUME NEW n \in Notes, AutoMarks(n)
      PROVE  Kept'
  <2>1. key' = key /\ text' = text /\ made \subseteq made' /\ Sources \subseteq Sources'
    BY <1>6 DEF AutoMarks, Sources, native, wire, autoVars, overlap, taps
  <2>2. imported' \subseteq imported \cup KeysOf(Sources') /\ recent' \subseteq recent \cup TextsOf(Sources')
    BY <1>6 DEF AutoMarks, Sources, KeysOf, TextsOf, native, wire, autoVars, overlap, taps, Kept
  <2>3. Claimed' \subseteq Claimed \cup made'
    BY <1>6 DEF AutoMarks, Claimed, native, wire, autoVars, overlap, taps
  <2> QED
    BY <2>1, <2>2, <2>3, KeptGrows
<1>7. ASSUME NEW n \in Notes, Approve(n)
      PROVE  Kept'
  <2>1. key' = key /\ text' = text /\ made \subseteq made' /\ Sources \subseteq Sources'
    BY <1>7 DEF Approve, Sources, native, wire, autoVars, overlap, taps
  <2>2. imported' \subseteq imported \cup KeysOf(Sources') /\ recent' \subseteq recent \cup TextsOf(Sources')
    BY <1>7 DEF Approve, Sources, KeysOf, TextsOf, native, wire, autoVars, overlap, taps, Kept
  <2>3. Claimed' \subseteq Claimed \cup made'
    BY <1>7 DEF Approve, Claimed, native, wire, autoVars, overlap, taps
  <2> QED
    BY <2>1, <2>2, <2>3, KeptGrows
<1>8. ASSUME NEW n \in Notes, ApproveStores(n)
      PROVE  Kept'
  <2>1. key' = key /\ text' = text /\ made \subseteq made' /\ Sources \subseteq Sources'
    BY <1>8 DEF ApproveStores, Sources, native, wire, autoVars, overlap, taps
  <2>2. imported' \subseteq imported \cup KeysOf(Sources') /\ recent' \subseteq recent \cup TextsOf(Sources')
    BY <1>8 DEF ApproveStores, Sources, KeysOf, TextsOf, native, wire, autoVars, overlap, taps, Kept
  <2>3. Claimed' \subseteq Claimed \cup made'
    BY <1>8 DEF ApproveStores, Claimed, native, wire, autoVars, overlap, taps
  <2> QED
    BY <2>1, <2>2, <2>3, KeptGrows
<1>9. ASSUME NEW n \in Notes, ApproveRemoves(n)
      PROVE  Kept'
  <2>1. key' = key /\ text' = text /\ made \subseteq made' /\ Sources \subseteq Sources'
    BY <1>9 DEF ApproveRemoves, Sources, native, wire, autoVars, overlap, taps
  <2>2. imported' \subseteq imported \cup KeysOf(Sources') /\ recent' \subseteq recent \cup TextsOf(Sources')
    BY <1>9 DEF ApproveRemoves, Sources, KeysOf, TextsOf, native, wire, autoVars, overlap, taps, Kept
  <2>3. Claimed' \subseteq Claimed \cup made'
    BY <1>9 DEF ApproveRemoves, Claimed, native, wire, autoVars, overlap, taps
  <2> QED
    BY <2>1, <2>2, <2>3, KeptGrows
<1>10. ASSUME NEW n \in Notes, SweepStores(n)
      PROVE  Kept'
  <2>1. made \subseteq made' /\ sweep'.cur \subseteq sweep.cur \cup made' /\ UNCHANGED <<key, text, imported, recent, autos, lost, marking, removing>>
    BY <1>10 DEF SweepStores, Shape, autoVars
  <2> QED
    BY <2>1, KeptGrows DEF Sources, Claimed
<1>11. ASSUME NEW n \in Notes, Skip(n)
      PROVE  Kept'
  <2>1. key' = key /\ text' = text /\ made \subseteq made' /\ Sources \subseteq Sources'
    BY <1>11 DEF Skip, Sources, native, wire, autoVars, overlap, taps
  <2>2. imported' \subseteq imported \cup KeysOf(Sources') /\ recent' \subseteq recent \cup TextsOf(Sources')
    BY <1>11 DEF Skip, Sources, KeysOf, TextsOf, native, wire, autoVars, overlap, taps, Kept
  <2>3. Claimed' \subseteq Claimed \cup made'
    BY <1>11 DEF Skip, Claimed, native, wire, autoVars, overlap, taps
  <2> QED
    BY <2>1, <2>2, <2>3, KeptGrows
<1>12. ASSUME NEW t \in Texts, RecentExpires(t)
      PROVE  Kept'
  <2>1. key' = key /\ text' = text /\ made \subseteq made' /\ Sources \subseteq Sources'
    BY <1>12 DEF RecentExpires, Sources, native, wire, autoVars, overlap, taps
  <2>2. imported' \subseteq imported \cup KeysOf(Sources') /\ recent' \subseteq recent \cup TextsOf(Sources')
    BY <1>12 DEF RecentExpires, Sources, KeysOf, TextsOf, native, wire, autoVars, overlap, taps, Kept
  <2>3. Claimed' \subseteq Claimed \cup made'
    BY <1>12 DEF RecentExpires, Claimed, native, wire, autoVars, overlap, taps
  <2> QED
    BY <2>1, <2>2, <2>3, KeptGrows
<1>13. CASE DrainReads
  <2>1. key' = key /\ text' = text /\ made \subseteq made' /\ Sources \subseteq Sources'
    BY <1>13 DEF DrainReads, Sources, native, wire, autoVars, overlap, taps
  <2>2. imported' \subseteq imported \cup KeysOf(Sources') /\ recent' \subseteq recent \cup TextsOf(Sources')
    BY <1>13 DEF DrainReads, Sources, KeysOf, TextsOf, native, wire, autoVars, overlap, taps, Kept
  <2>3. Claimed' \subseteq Claimed \cup made'
    BY <1>13 DEF DrainReads, Claimed, native, wire, autoVars, overlap, taps
  <2> QED
    BY <2>1, <2>2, <2>3, KeptGrows
<1>14. CASE DrainAdds
  <2>1. Asks(drain.batch) \/ Imports(drain.batch)
    BY <1>14, Handling DEF DrainAdds
  <2>2. UNCHANGED <<key, text, made, lost, imported, marking, removing, sweep>>
    BY <1>14 DEF DrainAdds, taps
  <2>3. Sources \subseteq Sources'
    BY <2>1, <2>2 DEF Asks, Imports, Begins, Sources
  <2>4. recent' \subseteq recent \cup TextsOf(Sources')
    BY <2>1, <2>2 DEF Asks, Imports, Begins, Sources, TextsOf
  <2> QED
    BY <2>2, <2>3, <2>4, KeptGrows DEF Claimed
<1>15. CASE DrainPeeks
  <2>1. key' = key /\ text' = text /\ made \subseteq made' /\ Sources \subseteq Sources'
    BY <1>15 DEF DrainPeeks, Sources, native, wire, autoVars, overlap, taps
  <2>2. imported' \subseteq imported \cup KeysOf(Sources') /\ recent' \subseteq recent \cup TextsOf(Sources')
    BY <1>15 DEF DrainPeeks, Sources, KeysOf, TextsOf, native, wire, autoVars, overlap, taps, Kept
  <2>3. Claimed' \subseteq Claimed \cup made'
    BY <1>15 DEF DrainPeeks, Claimed, native, wire, autoVars, overlap, taps
  <2> QED
    BY <2>1, <2>2, <2>3, KeptGrows
<1>16. CASE DrainApplies
  <2>1. key' = key /\ text' = text /\ made \subseteq made' /\ Sources \subseteq Sources'
    BY <1>16 DEF DrainApplies, Sources, native, wire, autoVars, overlap, taps
  <2>2. imported' \subseteq imported \cup KeysOf(Sources') /\ recent' \subseteq recent \cup TextsOf(Sources')
    BY <1>16 DEF DrainApplies, Sources, KeysOf, TextsOf, native, wire, autoVars, overlap, taps, Kept
  <2>3. Claimed' \subseteq Claimed \cup made'
    BY <1>16 DEF DrainApplies, Claimed, native, wire, autoVars, overlap, taps
  <2> QED
    BY <2>1, <2>2, <2>3, KeptGrows
<1>17. CASE DrainAdopts
  <2>1. UNCHANGED <<key, text, made, lost, autos, recent, marking, removing, sweep>>
    BY <1>17 DEF DrainAdopts, taps
  <2>2. \A a \in drain.cur : a[1] \in made
    <3>1. drain.at = "adopt"
      BY <1>17 DEF DrainAdopts
    <3>2. ASSUME NEW a \in drain.cur
          PROVE  a[1] \in made
      <4>1. a = <<a[1], "import">> /\ a[1] \in Notes
        BY <3>1 DEF Shape, Drains, Acts, Named
      <4> QED
        BY <4>1 DEF Named, Says
    <3> QED
      BY <3>2
  <2>3. imported' \subseteq imported \cup KeysOf(made)
    BY <1>17, <2>2 DEF DrainAdopts, KeysOf
  <2>4. imported' \subseteq imported \cup KeysOf(Sources') /\ recent' \subseteq recent \cup TextsOf(Sources')
    BY <2>1, <2>3 DEF KeysOf, Sources
  <2> QED
    BY <2>1, <2>4, KeptGrows DEF Sources, Claimed
<1>18. CASE DrainReports
  <2>1. key' = key /\ text' = text /\ made \subseteq made' /\ Sources \subseteq Sources'
    BY <1>18 DEF DrainReports, Sources, native, wire, autoVars, overlap, taps
  <2>2. imported' \subseteq imported \cup KeysOf(Sources') /\ recent' \subseteq recent \cup TextsOf(Sources')
    BY <1>18 DEF DrainReports, Sources, KeysOf, TextsOf, native, wire, autoVars, overlap, taps, Kept
  <2>3. Claimed' \subseteq Claimed \cup made'
    BY <1>18 DEF DrainReports, Claimed, native, wire, autoVars, overlap, taps
  <2> QED
    BY <2>1, <2>2, <2>3, KeptGrows
<1>19. CASE DrainAcks
  <2>1. key' = key /\ text' = text /\ made \subseteq made' /\ Sources \subseteq Sources'
    BY <1>19 DEF DrainAcks, Sources, native, wire, autoVars, overlap, taps
  <2>2. imported' \subseteq imported \cup KeysOf(Sources') /\ recent' \subseteq recent \cup TextsOf(Sources')
    BY <1>19 DEF DrainAcks, Sources, KeysOf, TextsOf, native, wire, autoVars, overlap, taps, Kept
  <2>3. Claimed' \subseteq Claimed \cup made'
    BY <1>19 DEF DrainAcks, Claimed, native, wire, autoVars, overlap, taps
  <2> QED
    BY <2>1, <2>2, <2>3, KeptGrows
<1>20. CASE Opens
  <2>1. key' = key /\ text' = text /\ made \subseteq made' /\ Sources \subseteq Sources'
    BY <1>20 DEF Opens, Sources, native, wire, autoVars, overlap, taps
  <2>2. imported' \subseteq imported \cup KeysOf(Sources') /\ recent' \subseteq recent \cup TextsOf(Sources')
    BY <1>20 DEF Opens, Sources, KeysOf, TextsOf, native, wire, autoVars, overlap, taps, Kept
  <2>3. Claimed' \subseteq Claimed \cup made'
    BY <1>20 DEF Opens, Claimed, native, wire, autoVars, overlap, taps
  <2> QED
    BY <2>1, <2>2, <2>3, KeptGrows
<1>21. CASE Returns
  <2>1. key' = key /\ text' = text /\ made \subseteq made' /\ Sources \subseteq Sources'
    BY <1>21 DEF Returns, Sources, native, wire, autoVars, overlap, taps
  <2>2. imported' \subseteq imported \cup KeysOf(Sources') /\ recent' \subseteq recent \cup TextsOf(Sources')
    BY <1>21 DEF Returns, Sources, KeysOf, TextsOf, native, wire, autoVars, overlap, taps, Kept
  <2>3. Claimed' \subseteq Claimed \cup made'
    BY <1>21 DEF Returns, Claimed, native, wire, autoVars, overlap, taps
  <2> QED
    BY <2>1, <2>2, <2>3, KeptGrows
<1>22. CASE Focus
  <2>1. key' = key /\ text' = text /\ made \subseteq made' /\ Sources \subseteq Sources'
    BY <1>22 DEF Focus, Sources, native, wire, autoVars, overlap, taps
  <2>2. imported' \subseteq imported \cup KeysOf(Sources') /\ recent' \subseteq recent \cup TextsOf(Sources')
    BY <1>22 DEF Focus, Sources, KeysOf, TextsOf, native, wire, autoVars, overlap, taps, Kept
  <2>3. Claimed' \subseteq Claimed \cup made'
    BY <1>22 DEF Focus, Claimed, native, wire, autoVars, overlap, taps
  <2> QED
    BY <2>1, <2>2, <2>3, KeptGrows
<1>23. CASE Hides
  <2>1. key' = key /\ text' = text /\ made \subseteq made' /\ Sources \subseteq Sources'
    BY <1>23 DEF Hides, Sources, native, wire, autoVars, overlap, taps
  <2>2. imported' \subseteq imported \cup KeysOf(Sources') /\ recent' \subseteq recent \cup TextsOf(Sources')
    BY <1>23 DEF Hides, Sources, KeysOf, TextsOf, native, wire, autoVars, overlap, taps, Kept
  <2>3. Claimed' \subseteq Claimed \cup made'
    BY <1>23 DEF Hides, Claimed, native, wire, autoVars, overlap, taps
  <2> QED
    BY <2>1, <2>2, <2>3, KeptGrows
<1>24. CASE Subscribed
  <2>1. key' = key /\ text' = text /\ made \subseteq made' /\ Sources \subseteq Sources'
    BY <1>24 DEF Subscribed, Sources, native, wire, autoVars, overlap, taps
  <2>2. imported' \subseteq imported \cup KeysOf(Sources') /\ recent' \subseteq recent \cup TextsOf(Sources')
    BY <1>24 DEF Subscribed, Sources, KeysOf, TextsOf, native, wire, autoVars, overlap, taps, Kept
  <2>3. Claimed' \subseteq Claimed \cup made'
    BY <1>24 DEF Subscribed, Claimed, native, wire, autoVars, overlap, taps
  <2> QED
    BY <2>1, <2>2, <2>3, KeptGrows
<1>25. CASE Kill
  <2>1. key' = key /\ text' = text /\ made \subseteq made' /\ Sources \subseteq Sources'
    BY <1>25 DEF Kill, Sources, native, wire, autoVars, overlap, taps, Idle, Swept
  <2>2. imported' \subseteq imported \cup KeysOf(Sources') /\ recent' \subseteq recent \cup TextsOf(Sources')
    BY <1>25 DEF Kill, Sources, KeysOf, TextsOf, native, wire, autoVars, overlap, taps, Kept, Idle, Swept
  <2>3. Claimed' \subseteq Claimed \cup made'
    BY <1>25 DEF Kill, Claimed, native, wire, autoVars, overlap, taps, Idle, Swept
  <2> QED
    BY <2>1, <2>2, <2>3, KeptGrows
<1>26. CASE SetMode
  <2>1. key' = key /\ text' = text /\ made \subseteq made' /\ Sources \subseteq Sources'
    BY <1>26 DEF SetMode, Sources, native, wire, autoVars, overlap, taps
  <2>2. imported' \subseteq imported \cup KeysOf(Sources') /\ recent' \subseteq recent \cup TextsOf(Sources')
    BY <1>26 DEF SetMode, Sources, KeysOf, TextsOf, native, wire, autoVars, overlap, taps, Kept
  <2>3. Claimed' \subseteq Claimed \cup made'
    BY <1>26 DEF SetMode, Claimed, native, wire, autoVars, overlap, taps
  <2> QED
    BY <2>1, <2>2, <2>3, KeptGrows
<1>27. CASE ApproveAll
  <2>1. key' = key /\ text' = text /\ made \subseteq made' /\ Sources \subseteq Sources'
    BY <1>27 DEF ApproveAll, Sources, native, wire, autoVars, overlap, taps, Swept
  <2>2. imported' \subseteq imported \cup KeysOf(Sources') /\ recent' \subseteq recent \cup TextsOf(Sources')
    BY <1>27 DEF ApproveAll, Sources, KeysOf, TextsOf, native, wire, autoVars, overlap, taps, Kept, Swept
  <2>3. Claimed' \subseteq Claimed \cup made'
    BY <1>27 DEF ApproveAll, Claimed, native, wire, autoVars, overlap, taps, Swept
  <2> QED
    BY <2>1, <2>2, <2>3, KeptGrows
<1>28. CASE SweepRemoves
  <2>1. key' = key /\ text' = text /\ made \subseteq made' /\ Sources \subseteq Sources'
    BY <1>28 DEF SweepRemoves, Sources, native, wire, autoVars, overlap, taps, Shape
  <2>2. imported' \subseteq imported \cup KeysOf(Sources') /\ recent' \subseteq recent \cup TextsOf(Sources')
    BY <1>28 DEF SweepRemoves, Sources, KeysOf, TextsOf, native, wire, autoVars, overlap, taps, Kept, Shape
  <2>3. Claimed' \subseteq Claimed \cup made'
    BY <1>28 DEF SweepRemoves, Claimed, native, wire, autoVars, overlap, taps, Shape
  <2> QED
    BY <2>1, <2>2, <2>3, KeptGrows
<1>29. CASE UNCHANGED vars
  BY <1>29 DEF vars, Kept, KeysOf, TextsOf, native, wire, autoVars, overlap, taps
<1> QED
  BY <1>1, <1>2, <1>3, <1>4, <1>5, <1>6, <1>7, <1>8, <1>9, <1>10, <1>11, <1>12, <1>13, <1>14, <1>15, <1>16, <1>17, <1>18, <1>19, <1>20, <1>21, <1>22, <1>23, <1>24, <1>25, <1>26, <1>27, <1>28, <1>29
  DEF Next, Arrives, Reviewed, Draining

-----------------------------------------------------------------------------
(* A native import is journalled until its key is stored *)

\* What leaves Adopted alone: no native import is made, waits or leaves the journal,
\* and the drain holds what it held or nothing.
LEMMA CalmAdopted ==
  ASSUME Adopted, UNCHANGED <<key, nativeMade>>, imported \subseteq imported',
         \A n \in nativeMade : journal'[n] = journal[n],
         Waiting' \cup view' \cup gone' \subseteq Waiting \cup view \cup gone,
         \/ drain'.cur = {}
         \/ drain'.cur = drain.cur /\ (drain'.at \in {"report", "ack"} => drain.at \in {"report", "ack"})
  PROVE  Adopted'
BY DEF Adopted

\* Every step keeps a native import in the journal or its key in the store.
LEMMA AdoptedStep ==
  ASSUME Shape, Apart, Named, Adopted, [Next]_vars
  PROVE  Adopted'
<1>1. ASSUME NEW n \in Notes, Post(n)
      PROVE  Adopted'
  <2>1. /\ n \notin posted /\ UNCHANGED <<key, imported, drain, inbox, view, gone>>
        /\ \/ queue' \cup live' \subseteq queue \cup live \cup {n} /\ UNCHANGED <<journal, nativeMade>>
           \/ /\ queue' \cup live' = queue \cup live
              /\ journal' = [journal EXCEPT ![n] = "import"] /\ nativeMade' = nativeMade \cup {n}
    BY <1>1 DEF Post, autoVars, overlap
  <2>2. n \notin Waiting \cup view \cup gone \cup nativeMade
    BY <2>1 DEF Shape, Waiting
  <2>3. nativeMade' \cap (Waiting' \cup view' \cup gone') = {}
    BY <2>1, <2>2 DEF Adopted, Waiting
  <2>4. ASSUME NEW m \in nativeMade'
        PROVE  journal'[m] = "import" \/ key[m] \in imported
    BY <2>1, <2>2 DEF Adopted, Shape
  <2> QED
    BY <2>1, <2>3, <2>4 DEF Adopted
<1>2. ASSUME NEW n \in Notes, Discard(n)
      PROVE  Adopted'
  <2>1. /\ UNCHANGED <<key, nativeMade, imported, drain, inbox, view, live>>
        /\ n \in Waiting /\ queue' \subseteq queue /\ gone' = gone \cup {n}
        /\ journal' = [journal EXCEPT ![n] = "discard"]
    BY <1>2 DEF Discard, Waiting, autoVars, overlap
  <2>2. \A m \in nativeMade : journal'[m] = journal[m]
    BY <2>1 DEF Adopted, Shape
  <2>3. Waiting' \cup view' \cup gone' \subseteq Waiting \cup view \cup gone
    BY <2>1 DEF Waiting
  <2> QED
    BY <2>1, <2>2, <2>3, CalmAdopted
<1>3. ASSUME NEW n \in Notes, HandleLive(n)
      PROVE  Adopted'
  <2>1. Asks({n}) \/ Imports({n})
    BY <1>3, Handling DEF HandleLive
  <2>2. UNCHANGED <<key, nativeMade, imported, drain, queue, journal, gone>> /\ live' = live \ {n} /\ n \in live
    BY <1>3 DEF HandleLive, native
  <2>3. Waiting' \cup view' \cup gone' \subseteq Waiting \cup view \cup gone
    BY <2>1, <2>2 DEF Asks, Imports, Waiting
  <2> QED
    BY <2>2, <2>3, CalmAdopted
<1>4. ASSUME NEW n \in Notes, ApplyLive(n)
      PROVE  Adopted'
  <2>1. UNCHANGED <<key, nativeMade, drain, journal>> /\ imported \subseteq imported'
    BY <1>4 DEF ApplyLive, native, wire, autoVars, overlap, taps
  <2>2. Waiting' \cup view' \cup gone' \subseteq Waiting \cup view \cup gone
    BY <1>4 DEF ApplyLive, Waiting, native, wire, autoVars, overlap, taps
  <2> QED
    BY <2>1, <2>2, CalmAdopted
<1>5. ASSUME NEW n \in Notes, AutoStores(n)
      PROVE  Adopted'
  <2>1. UNCHANGED <<key, nativeMade, drain, journal>> /\ imported \subseteq imported'
    BY <1>5 DEF AutoStores, native, wire, autoVars, overlap, taps
  <2>2. Waiting' \cup view' \cup gone' \subseteq Waiting \cup view \cup gone
    BY <1>5 DEF AutoStores, Waiting, native, wire, autoVars, overlap, taps
  <2> QED
    BY <2>1, <2>2, CalmAdopted
<1>6. ASSUME NEW n \in Notes, AutoMarks(n)
      PROVE  Adopted'
  <2>1. UNCHANGED <<key, nativeMade, drain, journal>> /\ imported \subseteq imported'
    BY <1>6 DEF AutoMarks, native, wire, autoVars, overlap, taps
  <2>2. Waiting' \cup view' \cup gone' \subseteq Waiting \cup view \cup gone
    BY <1>6 DEF AutoMarks, Waiting, native, wire, autoVars, overlap, taps
  <2> QED
    BY <2>1, <2>2, CalmAdopted
<1>7. ASSUME NEW n \in Notes, Approve(n)
      PROVE  Adopted'
  <2>1. UNCHANGED <<key, nativeMade, drain, journal>> /\ imported \subseteq imported'
    BY <1>7 DEF Approve, native, wire, autoVars, overlap, taps
  <2>2. Waiting' \cup view' \cup gone' \subseteq Waiting \cup view \cup gone
    BY <1>7 DEF Approve, Waiting, native, wire, autoVars, overlap, taps
  <2> QED
    BY <2>1, <2>2, CalmAdopted
<1>8. ASSUME NEW n \in Notes, ApproveStores(n)
      PROVE  Adopted'
  <2>1. UNCHANGED <<key, nativeMade, drain, journal>> /\ imported \subseteq imported'
    BY <1>8 DEF ApproveStores, native, wire, autoVars, overlap, taps
  <2>2. Waiting' \cup view' \cup gone' \subseteq Waiting \cup view \cup gone
    BY <1>8 DEF ApproveStores, Waiting, native, wire, autoVars, overlap, taps
  <2> QED
    BY <2>1, <2>2, CalmAdopted
<1>9. ASSUME NEW n \in Notes, ApproveRemoves(n)
      PROVE  Adopted'
  <2>1. UNCHANGED <<key, nativeMade, drain, journal>> /\ imported \subseteq imported'
    BY <1>9 DEF ApproveRemoves, native, wire, autoVars, overlap, taps
  <2>2. Waiting' \cup view' \cup gone' \subseteq Waiting \cup view \cup gone
    BY <1>9 DEF ApproveRemoves, Waiting, native, wire, autoVars, overlap, taps
  <2> QED
    BY <2>1, <2>2, CalmAdopted
<1>10. ASSUME NEW n \in Notes, SweepStores(n)
      PROVE  Adopted'
  <2>1. UNCHANGED <<key, nativeMade, drain, journal>> /\ imported \subseteq imported'
    BY <1>10 DEF SweepStores, native, wire, autoVars, overlap, taps
  <2>2. Waiting' \cup view' \cup gone' \subseteq Waiting \cup view \cup gone
    BY <1>10 DEF SweepStores, Waiting, native, wire, autoVars, overlap, taps
  <2> QED
    BY <2>1, <2>2, CalmAdopted
<1>11. ASSUME NEW n \in Notes, Skip(n)
      PROVE  Adopted'
  <2>1. UNCHANGED <<key, nativeMade, drain, journal>> /\ imported \subseteq imported'
    BY <1>11 DEF Skip, native, wire, autoVars, overlap, taps
  <2>2. Waiting' \cup view' \cup gone' \subseteq Waiting \cup view \cup gone
    BY <1>11 DEF Skip, Waiting, native, wire, autoVars, overlap, taps
  <2> QED
    BY <2>1, <2>2, CalmAdopted
<1>12. ASSUME NEW t \in Texts, RecentExpires(t)
      PROVE  Adopted'
  <2>1. UNCHANGED <<key, nativeMade, drain, journal, imported, queue, live, inbox, view, gone>>
    BY <1>12 DEF RecentExpires, native, wire
  <2>2. Waiting' = Waiting
    BY <2>1 DEF Waiting
  <2> QED
    BY <2>1, <2>2, CalmAdopted
<1>13. CASE DrainReads
  <2>1. drain'.batch = queue /\ drain'.cur = drain.cur /\ drain'.at = "add"
    BY <1>13 DEF DrainReads, Shape, Drains
  <2>2. UNCHANGED <<key, nativeMade, journal, imported, live, inbox, view, gone>> /\ queue' = {}
    BY <1>13 DEF DrainReads, wire, autoVars, overlap
  <2>3. Waiting' \subseteq Waiting
    BY <2>1, <2>2 DEF Waiting
  <2> QED
    BY <2>1, <2>2, <2>3, CalmAdopted
<1>14. CASE DrainAdds
  <2>1. Asks(drain.batch) \/ Imports(drain.batch)
    BY <1>14, Handling DEF DrainAdds
  <2>2. drain'.batch = {} /\ drain'.cur = drain.cur /\ drain'.at = "peek"
    BY <1>14 DEF DrainAdds, Shape, Drains
  <2>3. UNCHANGED <<key, nativeMade, imported, queue, live, journal, gone>>
    BY <1>14 DEF DrainAdds, native, wire
  <2>4. Waiting' \cup view' \cup gone' \subseteq Waiting \cup view \cup gone
    BY <2>1, <2>2, <2>3 DEF Asks, Imports, Waiting
  <2> QED
    BY <2>2, <2>3, <2>4, CalmAdopted
<1>15. CASE DrainPeeks
  <2> DEFINE acts == {<<n, journal[n]>> : n \in {m \in Notes : journal[m] # "none"}}
  <2>1. drain' = [drain EXCEPT !.at = "apply", !.acts = acts]
    BY <1>15 DEF DrainPeeks
  <2> HIDE DEF acts
  <2>2. drain'.batch = drain.batch /\ drain'.cur = drain.cur /\ drain'.at = "apply"
    BY <2>1 DEF Shape, Drains
  <2>3. UNCHANGED <<key, nativeMade, imported, queue, live, journal, inbox, view, gone>>
    BY <1>15 DEF DrainPeeks, native, wire, autoVars, overlap
  <2>4. Waiting' = Waiting
    BY <2>2, <2>3 DEF Waiting
  <2> QED
    BY <2>2, <2>3, <2>4, CalmAdopted
<1>16. CASE DrainApplies
  <2>1. /\ UNCHANGED <<key, nativeMade, imported, queue, live, journal, gone>>
        /\ inbox' \subseteq inbox /\ view' \subseteq inbox \cup view
    BY <1>16 DEF DrainApplies, native, wire, autoVars, overlap
  <2>2. drain'.batch \subseteq drain.batch /\ drain'.at # "report"
        /\ (drain'.at = "ack" => \A a \in drain'.cur : a[2] = "discard")
    BY <1>16, Applies
  <2>3. \A a, b \in drain'.cur : a = b
    <3>1. ASSUME NEW c \in drain.acts, NEW at,
                 drain' = [drain EXCEPT !.at = at, !.cur = {c}]
          PROVE  \A a, b \in drain'.cur : a = b
      <4>1. drain'.cur = {c}
        BY <3>1 DEF Shape, Drains
      <4> QED
        BY <4>1
    <3>2. CASE drain' = Idle
      BY <3>2 DEF Idle
    <3> QED
      BY <1>16, <3>1, <3>2 DEF DrainApplies
  <2>4. Waiting' \cup view' \cup gone' \subseteq Waiting \cup view \cup gone
    BY <2>1, <2>2 DEF Waiting
  <2> QED
    BY <2>1, <2>2, <2>3, <2>4 DEF Adopted
<1>17. CASE DrainAdopts
  <2>1. /\ UNCHANGED <<key, nativeMade, queue, live, journal, view, gone>>
        /\ inbox' \subseteq inbox /\ imported \subseteq imported'
    BY <1>17 DEF DrainAdopts, native, wire, taps, overlap
  <2>2. drain'.batch = drain.batch
    BY <1>17, Adopts
  <2>3. Waiting' \cup view' \cup gone' \subseteq Waiting \cup view \cup gone
    BY <2>1, <2>2 DEF Waiting
  <2>4. CASE drain' = [drain EXCEPT !.at = "report"] /\ \E a \in drain.cur : imported' = imported \cup {key[a[1]]}
    <3>1. drain'.cur = drain.cur
      BY <2>4 DEF Shape, Drains
    <3>2. \A a \in drain'.cur : key[a[1]] \in imported'
      BY <2>4, <3>1 DEF Adopted
    <3> QED
      BY <2>1, <2>3, <3>1, <3>2 DEF Adopted
  <2>5. CASE drain' = [drain EXCEPT !.at = "apply", !.acts = @ \ drain.cur, !.cur = {}]
    <3>1. drain'.cur = {}
      BY <2>5 DEF Shape, Drains
    <3> QED
      BY <2>1, <2>3, <3>1, CalmAdopted
  <2> QED
    BY <1>17, <2>4, <2>5 DEF DrainAdopts
<1>18. CASE DrainReports
  <2>1. /\ drain'.batch = drain.batch /\ drain'.cur = drain.cur /\ drain'.at = "ack" /\ drain.at = "report"
    BY <1>18 DEF DrainReports, Shape, Drains
  <2>2. UNCHANGED <<key, nativeMade, imported, journal, queue, live, gone, inbox>> /\ view' = inbox
    BY <1>18 DEF DrainReports, native, wire, autoVars, overlap
  <2>3. Waiting' \cup view' \cup gone' \subseteq Waiting \cup view \cup gone
    BY <2>1, <2>2 DEF Waiting
  <2> QED
    BY <2>1, <2>2, <2>3, CalmAdopted
<1>19. CASE DrainAcks
  <2>1. drain'.batch = drain.batch /\ drain'.cur = {}
    BY <1>19 DEF DrainAcks, Shape, Drains
  <2>2. UNCHANGED <<key, nativeMade, imported, queue, live, gone, inbox, view>> /\ drain.at = "ack"
        /\ journal' = [n \in Notes |-> IF \E a \in drain.cur : a[1] = n THEN "none" ELSE journal[n]]
    BY <1>19 DEF DrainAcks, wire, autoVars, overlap
  <2>3. Waiting' \cup view' \cup gone' \subseteq Waiting \cup view \cup gone
    BY <2>1, <2>2 DEF Waiting
  <2>4. ASSUME NEW a \in drain.cur, a[1] \in nativeMade
        PROVE  key[a[1]] \in imported
    <3>1. a[1] \in Notes /\ a[2] \in {"discard", "import"} /\ a = <<a[1], a[2]>>
      BY DEF Shape, Drains, Acts
    <3>2. CASE a[2] = "discard"
      <4>1. a[1] \in gone
        BY <3>1, <3>2 DEF Named, Says
      <4> QED
        BY <4>1, <2>4 DEF Adopted
    <3>3. CASE a[2] = "import"
      BY <3>3, <2>2 DEF Adopted
    <3> QED
      BY <3>1, <3>2, <3>3
  <2>5. ASSUME NEW n \in nativeMade
        PROVE  journal'[n] = "import" \/ key[n] \in imported
    <3>1. n \in Notes
      BY DEF Shape
    <3>2. CASE \E a \in drain.cur : a[1] = n
      BY <3>2, <2>4
    <3>3. CASE ~ \E a \in drain.cur : a[1] = n
      BY <3>1, <3>3, <2>2 DEF Adopted
    <3> QED
      BY <3>2, <3>3
  <2> QED
    BY <2>1, <2>2, <2>3, <2>5 DEF Adopted
<1>20. CASE Opens
  <2>1. UNCHANGED <<key, nativeMade, imported, drain, queue, journal, live, inbox, gone>> /\ view' = inbox
    BY <1>20 DEF Opens, native, wire, autoVars, overlap
  <2>2. Waiting' \cup view' \cup gone' \subseteq Waiting \cup view \cup gone
    BY <2>1 DEF Waiting
  <2> QED
    BY <2>1, <2>2, CalmAdopted
<1>21. CASE Returns
  <2>1. \/ UNCHANGED drain
        \/ drain.batch = {} /\ drain' = [at |-> "read", batch |-> {}, acts |-> {}, cur |-> {}]
    BY <1>21, Resuming DEF Returns
  <2>2. UNCHANGED <<key, nativeMade, imported, journal, queue, live, inbox, view, gone>>
    BY <1>21 DEF Returns, native, wire, autoVars, overlap
  <2>3. Waiting' = Waiting
    BY <2>1, <2>2 DEF Waiting
  <2> QED
    BY <2>1, <2>2, <2>3, CalmAdopted
<1>22. CASE Focus
  <2>1. \/ UNCHANGED drain
        \/ drain.batch = {} /\ drain' = [at |-> "read", batch |-> {}, acts |-> {}, cur |-> {}]
    BY <1>22, Resuming DEF Focus
  <2>2. UNCHANGED <<key, nativeMade, imported, journal, queue, live, inbox, view, gone>>
    BY <1>22 DEF Focus, native, wire, autoVars, overlap
  <2>3. Waiting' = Waiting
    BY <2>1, <2>2 DEF Waiting
  <2> QED
    BY <2>1, <2>2, <2>3, CalmAdopted
<1>24. CASE Subscribed
  <2>1. \/ UNCHANGED drain
        \/ drain.batch = {} /\ drain' = [at |-> "read", batch |-> {}, acts |-> {}, cur |-> {}]
    BY <1>24, Draws DEF Subscribed
  <2>2. UNCHANGED <<key, nativeMade, imported, journal, queue, live, inbox, view, gone>>
    BY <1>24 DEF Subscribed, native, wire, autoVars, overlap
  <2>3. Waiting' = Waiting
    BY <2>1, <2>2 DEF Waiting
  <2> QED
    BY <2>1, <2>2, <2>3, CalmAdopted
<1>23. CASE Hides
  <2>1. UNCHANGED <<key, nativeMade, drain, journal>> /\ imported \subseteq imported'
    BY <1>23 DEF Hides, native, wire, autoVars, overlap, taps
  <2>2. Waiting' \cup view' \cup gone' \subseteq Waiting \cup view \cup gone
    BY <1>23 DEF Hides, Waiting, native, wire, autoVars, overlap, taps
  <2> QED
    BY <2>1, <2>2, CalmAdopted
<1>26. CASE SetMode
  <2>1. UNCHANGED <<key, nativeMade, drain, journal>> /\ imported \subseteq imported'
    BY <1>26 DEF SetMode, native, wire, autoVars, overlap, taps
  <2>2. Waiting' \cup view' \cup gone' \subseteq Waiting \cup view \cup gone
    BY <1>26 DEF SetMode, Waiting, native, wire, autoVars, overlap, taps
  <2> QED
    BY <2>1, <2>2, CalmAdopted
<1>27. CASE ApproveAll
  <2>1. UNCHANGED <<key, nativeMade, drain, journal>> /\ imported \subseteq imported'
    BY <1>27 DEF ApproveAll, native, wire, autoVars, overlap, taps
  <2>2. Waiting' \cup view' \cup gone' \subseteq Waiting \cup view \cup gone
    BY <1>27 DEF ApproveAll, Waiting, native, wire, autoVars, overlap, taps
  <2> QED
    BY <2>1, <2>2, CalmAdopted
<1>28. CASE SweepRemoves
  <2>1. UNCHANGED <<key, nativeMade, drain, journal>> /\ imported \subseteq imported'
    BY <1>28 DEF SweepRemoves, native, wire, autoVars, overlap, taps
  <2>2. Waiting' \cup view' \cup gone' \subseteq Waiting \cup view \cup gone
    BY <1>28 DEF SweepRemoves, Waiting, native, wire, autoVars, overlap, taps
  <2> QED
    BY <2>1, <2>2, CalmAdopted
<1>25. CASE Kill
  <2>1. UNCHANGED <<key, nativeMade, imported, queue, journal, inbox, gone>> /\ live' = {} /\ view' = {} /\ drain' = Idle
    BY <1>25 DEF Kill, native, overlap
  <2>2. drain'.cur = {} /\ drain'.batch = {}
    BY <2>1 DEF Idle
  <2>3. Waiting' \cup view' \cup gone' \subseteq Waiting \cup view \cup gone
    BY <2>1, <2>2 DEF Waiting
  <2> QED
    BY <2>1, <2>2, <2>3, CalmAdopted
<1>29. CASE UNCHANGED vars
  <2>1. UNCHANGED <<key, nativeMade, imported, drain, queue, journal, live, inbox, view, gone>>
    BY <1>29 DEF vars, native, wire, autoVars, overlap
  <2>2. Waiting' = Waiting
    BY <2>1 DEF Waiting
  <2> QED
    BY <2>1, <2>2, CalmAdopted
<1> QED
  BY <1>1, <1>2, <1>3, <1>4, <1>5, <1>6, <1>7, <1>8, <1>9, <1>10, <1>11, <1>12, <1>13, <1>14, <1>15, <1>16, <1>17, <1>18, <1>19, <1>20, <1>21, <1>22, <1>23, <1>24, <1>25, <1>26, <1>27, <1>28, <1>29
  DEF Next, Arrives, Reviewed, Draining

-----------------------------------------------------------------------------
(* Auto mode imports a purchase once *)

same == <<key, text, autos, marking, autoMade, nativeMade, broken, late, crossed, recent>>

LEMMA CalmImports ==
  ASSUME Once, UNCHANGED same, imported \subseteq imported'
  PROVE  Once'
<1>1. UNCHANGED <<key, text, autos, marking, autoMade, nativeMade, broken, late, crossed, recent>>
  BY DEF same
<1> QED
  BY <1>1 DEF Once, Excused

\* What auto mode begins is excused against each capture of its key: those in hand
\* have another text or a window that ended, those made were lost by a kill.
LEMMA Starting ==
  ASSUME Shape, Adopted, Once, NEW S \in SUBSET Waiting, Imports(S),
         UNCHANGED <<key, text, imported, marking, autoMade, broken, nativeMade, late>>
  PROVE  Once'
<1>1. PICK R \in SUBSET S : Begins(R)
  BY DEF Imports
<1>2. /\ autos' = autos \cup R /\ recent' = recent \cup TextsOf(R) /\ crossed' = crossed \cup Unseen(R)
      /\ \A n \in R : key[n] \notin imported /\ text[n] \notin recent
      /\ \A m, n \in R : text[m] = text[n] => m = n
  BY <1>1 DEF Begins
<1>3. \A n \in R : text[n] \in recent'
  BY <1>2 DEF TextsOf
<1>4. ASSUME NEW n \in R, NEW m, m # n, key[m] = key[n],
             m \in R \cup autos \cup marking \/ (m \in Notes /\ journal[m] = "import")
      PROVE  key[n] \in crossed'
  <2>1. key[n] \in Unseen(R)
    BY <1>4 DEF Unseen
  <2> QED
    BY <2>1, <1>2
<1>5. ASSUME NEW n \in R, NEW m \in autos' \cup autoMade, m # n, key[m] = key[n]
      PROVE  Excused(m, n)'
  <2>1. CASE m \in R
    BY <2>1, <1>2, <1>4, <1>5 DEF Excused
  <2>2. CASE m \in autos \cup marking
    <3>1. text[m] \in recent \/ key[m] \in late
      BY <2>2 DEF Once
    <3>2. key[n] \in crossed'
      BY <2>2, <1>4, <1>5
    <3>3. text[m] # text[n] \/ key[n] \in late
      BY <3>1, <1>2, <1>5
    <3> QED
      BY <3>2, <3>3 DEF Excused
  <2>3. CASE m \in autoMade /\ m \notin marking
    <3>1. key[m] \in imported \cup broken
      BY <2>3 DEF Once
    <3> QED
      BY <3>1, <1>2, <1>5 DEF Excused
  <2> QED
    BY <1>2, <1>5, <2>1, <2>2, <2>3
<1>6. ASSUME NEW m, NEW n, Excused(m, n), key[m] = key[n]
      PROVE  Excused(m, n)' /\ Excused(n, m)'
  BY <1>6, <1>2 DEF Excused
<1>7. ASSUME NEW m \in autos' \cup autoMade', NEW n \in autos' \cup autoMade', key[m] = key[n], m # n
      PROVE  Excused(m, n)'
  <2>1. CASE n \in R
    BY <2>1, <1>5, <1>7
  <2>2. CASE m \in R
    <3>1. Excused(n, m)'
      BY <2>2, <1>5, <1>7
    <3> QED
      BY <3>1, <1>7 DEF Excused
  <2>3. CASE m \in autos \cup autoMade /\ n \in autos \cup autoMade
    BY <2>3, <1>6, <1>7 DEF Once
  <2> QED
    BY <1>2, <1>7, <2>1, <2>2, <2>3
<1>8. ASSUME NEW m \in nativeMade, NEW n \in autos' \cup autoMade, key[m] = key[n]
      PROVE  key[n] \in crossed'
  <2>1. CASE n \in autos \cup autoMade
    BY <2>1, <1>2, <1>8 DEF Once
  <2>2. CASE n \in R
    <3>1. m # n /\ m \in Notes
      BY <2>2 DEF Adopted, Shape
    <3>2. journal[m] = "import"
      BY <2>2, <1>2, <1>8 DEF Adopted
    <3> QED
      BY <3>1, <3>2, <2>2, <1>4, <1>8
  <2> QED
    BY <1>2, <2>1, <2>2
<1>9. \A n \in autos' \cup marking' : text[n] \in recent' \/ key[n] \in late'
  BY <1>2, <1>3 DEF Once
<1>10. marking' \subseteq autoMade' /\ \A n \in autoMade' : n \in marking' \/ key'[n] \in imported' \cup broken'
  BY DEF Once
<1>11. (\A m, n \in autos \cup autoMade : key[m] = key[n] /\ m # n => Excused(m, n))'
  BY <1>7
<1>12. (\A m \in nativeMade, n \in autos \cup autoMade : key[m] = key[n] => key[n] \in crossed)'
  BY <1>8
<1> QED
  BY <1>9, <1>10, <1>11, <1>12 DEF Once

\* No step starts a second import of a key that auto mode has in hand or remembers.
LEMMA OnceStep ==
  ASSUME Shape, Named, Adopted, Once, [Next]_vars
  PROVE  Once'
<1>1. ASSUME NEW n \in Notes, Post(n)
      PROVE  Once'
  <2>1. /\ UNCHANGED <<key, text, autos, marking, autoMade, broken, late, recent, imported>>
        /\ \/ UNCHANGED <<nativeMade, crossed>>
           \/ /\ nativeMade' = nativeMade \cup {n}
              /\ crossed' = crossed \cup (KeysOf({n}) \cap KeysOf(autos \cup autoMade))
    BY <1>1 DEF Post, autoVars, overlap
  <2>2. ASSUME NEW o \in autos \cup autoMade, key[o] = key[n]
        PROVE  key[o] \in KeysOf({n}) \cap KeysOf(autos \cup autoMade)
    BY <2>2 DEF KeysOf
  <2>3. (\A m \in nativeMade, o \in autos \cup autoMade : key[m] = key[o] => key[o] \in crossed)'
    <3> SUFFICES ASSUME NEW m \in nativeMade', NEW o \in autos \cup autoMade, key[m] = key[o]
                 PROVE  key[o] \in crossed'
      BY <2>1
    <3>1. CASE m \in nativeMade
      BY <3>1, <2>1 DEF Once
    <3>2. CASE m \notin nativeMade
      BY <3>2, <2>1, <2>2
    <3> QED
      BY <3>1, <3>2
  <2>4. crossed \subseteq crossed'
    BY <2>1
  <2> QED
    BY <2>1, <2>3, <2>4 DEF Once, Excused
<1>2. ASSUME NEW n \in Notes, Discard(n)
      PROVE  Once'
  <2>1. UNCHANGED same /\ imported \subseteq imported'
    BY <1>2 DEF Discard, native, wire, autoVars, overlap, taps, same
  <2> QED
    BY <2>1, CalmImports
<1>3. ASSUME NEW n \in Notes, HandleLive(n)
      PROVE  Once'
  <2>1. Asks({n}) \/ Imports({n})
    BY <1>3, Handling DEF HandleLive
  <2>2. UNCHANGED <<key, text, imported, marking, autoMade, broken, nativeMade, late>>
    BY <1>3 DEF HandleLive
  <2>3. CASE Asks({n})
    BY <2>2, <2>3, CalmImports DEF Asks, same
  <2>4. {n} \subseteq Waiting
    BY <1>3 DEF HandleLive, Waiting
  <2> QED
    BY <2>1, <2>2, <2>3, <2>4, Starting
<1>4. ASSUME NEW n \in Notes, ApplyLive(n)
      PROVE  Once'
  <2>1. UNCHANGED same /\ imported \subseteq imported'
    BY <1>4 DEF ApplyLive, native, wire, autoVars, overlap, taps, same
  <2> QED
    BY <2>1, CalmImports
<1>5. ASSUME NEW n \in Notes, AutoStores(n)
      PROVE  Once'
  <2>1. /\ n \in autos /\ autos' = autos \ {n}
        /\ UNCHANGED <<key, text, imported, recent, broken, nativeMade, late, crossed>>
        /\ \/ UNCHANGED <<autoMade, marking>>
           \/ autoMade' = autoMade \cup {n} /\ marking' = marking \cup {n}
    BY <1>5 DEF AutoStores, overlap
  <2>2. autos' \cup autoMade' \subseteq autos \cup autoMade /\ autos' \cup marking' \subseteq autos \cup marking
    BY <2>1
  <2>3. \A o \in autoMade' : o \in autoMade \/ o \in marking'
    BY <2>1
  <2>4. marking \subseteq marking'
    BY <2>1
  <2> QED
    BY <2>1, <2>2, <2>3, <2>4 DEF Once, Excused
<1>6. ASSUME NEW n \in Notes, AutoMarks(n)
      PROVE  Once'
  <2>1. /\ n \in marking /\ marking' = marking \ {n} /\ imported' = imported \cup {key[n]}
        /\ UNCHANGED <<key, text, autos, autoMade, broken, recent, nativeMade, late, crossed>>
    BY <1>6 DEF AutoMarks, overlap
  <2> QED
    BY <2>1 DEF Once, Excused
<1>7. ASSUME NEW n \in Notes, Approve(n)
      PROVE  Once'
  <2>1. UNCHANGED same /\ imported \subseteq imported'
    BY <1>7 DEF Approve, native, wire, autoVars, overlap, taps, same
  <2> QED
    BY <2>1, CalmImports
<1>8. ASSUME NEW n \in Notes, ApproveStores(n)
      PROVE  Once'
  <2>1. UNCHANGED same /\ imported \subseteq imported'
    BY <1>8 DEF ApproveStores, native, wire, autoVars, overlap, taps, same
  <2> QED
    BY <2>1, CalmImports
<1>9. ASSUME NEW n \in Notes, ApproveRemoves(n)
      PROVE  Once'
  <2>1. UNCHANGED same /\ imported \subseteq imported'
    BY <1>9 DEF ApproveRemoves, native, wire, autoVars, overlap, taps, same
  <2> QED
    BY <2>1, CalmImports
<1>10. ASSUME NEW n \in Notes, SweepStores(n)
      PROVE  Once'
  <2>1. UNCHANGED same /\ imported \subseteq imported'
    BY <1>10 DEF SweepStores, native, wire, autoVars, overlap, taps, same
  <2> QED
    BY <2>1, CalmImports
<1>11. ASSUME NEW n \in Notes, Skip(n)
      PROVE  Once'
  <2>1. UNCHANGED same /\ imported \subseteq imported'
    BY <1>11 DEF Skip, native, wire, autoVars, overlap, taps, same
  <2> QED
    BY <2>1, CalmImports
<1>12. ASSUME NEW t \in Texts, RecentExpires(t)
      PROVE  Once'
  <2>1. /\ UNCHANGED <<key, text, imported, autos, marking, autoMade, broken, nativeMade, crossed>>
        /\ recent' = recent \ {t} /\ late' = late \cup KeysOf({n \in autos \cup marking : text[n] = t})
    BY <1>12 DEF RecentExpires
  <2>2. ASSUME NEW n \in autos \cup marking
        PROVE  text[n] \in recent' \/ key[n] \in late'
    <3>1. CASE text[n] = t
      BY <3>1, <2>1 DEF KeysOf
    <3>2. CASE text[n] # t
      BY <3>2, <2>1 DEF Once
    <3> QED
      BY <3>1, <3>2
  <2>3. late \subseteq late'
    BY <2>1
  <2> QED
    BY <2>1, <2>2, <2>3 DEF Once, Excused
<1>13. CASE DrainReads
  <2>1. UNCHANGED same /\ imported \subseteq imported'
    BY <1>13 DEF DrainReads, native, wire, autoVars, overlap, taps, same
  <2> QED
    BY <2>1, CalmImports
<1>14. CASE DrainAdds
  <2>1. Asks(drain.batch) \/ Imports(drain.batch)
    BY <1>14, Handling DEF DrainAdds
  <2>2. UNCHANGED <<key, text, imported, marking, autoMade, broken, nativeMade, late>>
    BY <1>14 DEF DrainAdds
  <2>3. CASE Asks(drain.batch)
    BY <2>2, <2>3, CalmImports DEF Asks, same
  <2>4. drain.batch \subseteq Waiting
    BY <1>14 DEF DrainAdds, Waiting
  <2> QED
    BY <2>1, <2>2, <2>3, <2>4, Starting
<1>15. CASE DrainPeeks
  <2>1. UNCHANGED same /\ imported \subseteq imported'
    BY <1>15 DEF DrainPeeks, native, wire, autoVars, overlap, taps, same
  <2> QED
    BY <2>1, CalmImports
<1>16. CASE DrainApplies
  <2>1. UNCHANGED same /\ imported \subseteq imported'
    BY <1>16 DEF DrainApplies, native, wire, autoVars, overlap, taps, same
  <2> QED
    BY <2>1, CalmImports
<1>17. CASE DrainAdopts
  <2>1. UNCHANGED same /\ imported \subseteq imported'
    BY <1>17 DEF DrainAdopts, native, wire, autoVars, overlap, taps, same
  <2> QED
    BY <2>1, CalmImports
<1>18. CASE DrainReports
  <2>1. UNCHANGED same /\ imported \subseteq imported'
    BY <1>18 DEF DrainReports, native, wire, autoVars, overlap, taps, same
  <2> QED
    BY <2>1, CalmImports
<1>19. CASE DrainAcks
  <2>1. UNCHANGED same /\ imported \subseteq imported'
    BY <1>19 DEF DrainAcks, native, wire, autoVars, overlap, taps, same
  <2> QED
    BY <2>1, CalmImports
<1>20. CASE Opens
  <2>1. UNCHANGED same /\ imported \subseteq imported'
    BY <1>20 DEF Opens, native, wire, autoVars, overlap, taps, same
  <2> QED
    BY <2>1, CalmImports
<1>21. CASE Returns
  <2>1. UNCHANGED same /\ imported \subseteq imported'
    BY <1>21 DEF Returns, native, wire, autoVars, overlap, taps, same
  <2> QED
    BY <2>1, CalmImports
<1>22. CASE Focus
  <2>1. UNCHANGED same /\ imported \subseteq imported'
    BY <1>22 DEF Focus, native, wire, autoVars, overlap, taps, same
  <2> QED
    BY <2>1, CalmImports
<1>23. CASE Hides
  <2>1. UNCHANGED same /\ imported \subseteq imported'
    BY <1>23 DEF Hides, native, wire, autoVars, overlap, taps, same
  <2> QED
    BY <2>1, CalmImports
<1>24. CASE Subscribed
  <2>1. UNCHANGED same /\ imported \subseteq imported'
    BY <1>24 DEF Subscribed, native, wire, autoVars, overlap, taps, same
  <2> QED
    BY <2>1, CalmImports
<1>25. CASE Kill
  <2>1. /\ UNCHANGED <<key, text, imported, autoMade, nativeMade, late, crossed>>
        /\ autos' = {} /\ marking' = {} /\ broken' = broken \cup KeysOf(marking)
    BY <1>25 DEF Kill, overlap
  <2>2. \A n \in marking : key[n] \in broken'
    BY <2>1 DEF KeysOf
  <2> QED
    BY <2>1, <2>2 DEF Once, Excused
<1>26. CASE SetMode
  <2>1. UNCHANGED same /\ imported \subseteq imported'
    BY <1>26 DEF SetMode, native, wire, autoVars, overlap, taps, same
  <2> QED
    BY <2>1, CalmImports
<1>27. CASE ApproveAll
  <2>1. UNCHANGED same /\ imported \subseteq imported'
    BY <1>27 DEF ApproveAll, native, wire, autoVars, overlap, taps, same
  <2> QED
    BY <2>1, CalmImports
<1>28. CASE SweepRemoves
  <2>1. UNCHANGED same /\ imported \subseteq imported'
    BY <1>28 DEF SweepRemoves, native, wire, autoVars, overlap, taps, same
  <2> QED
    BY <2>1, CalmImports
<1>29. CASE UNCHANGED vars
  <2>1. UNCHANGED same /\ imported' = imported
    BY <1>29 DEF vars, autoVars, overlap, same
  <2> QED
    BY <2>1, CalmImports
<1> QED
  BY <1>1, <1>2, <1>3, <1>4, <1>5, <1>6, <1>7, <1>8, <1>9, <1>10, <1>11, <1>12, <1>13, <1>14, <1>15, <1>16, <1>17, <1>18, <1>19, <1>20, <1>21, <1>22, <1>23, <1>24, <1>25, <1>26, <1>27, <1>28, <1>29
  DEF Next, Arrives, Reviewed, Draining

-----------------------------------------------------------------------------
(* What the page shows *)

\* The list is stale only between an adoption and its report, while approve-all has
\* items left, and on a page that is gone; an item approve-all stored is still on its
\* list.
Shown ==
  /\ view = inbox \/ page = "dead" \/ drain.at = "report" \/ sweep.left # {}
  /\ sweep.cur \subseteq sweep.left

\* A step that refreshes the list, or touches neither it nor what may leave it stale.
LEMMA StillShown ==
  ASSUME Shown, UNCHANGED sweep,
         \/ view' = inbox'
         \/ UNCHANGED <<view, inbox, page, drain>>
         \/ UNCHANGED <<view, inbox, page>> /\ drain.at # "report"
         \/ page' = "dead"
  PROVE  Shown'
BY DEF Shown

LEMMA ShownStep ==
  ASSUME Shape, Shown, [Next]_vars
  PROVE  Shown'
<1> USE DEF native, wire, autoVars, overlap, taps
<1>1. ASSUME NEW n \in Notes, Post(n) \/ Discard(n) \/ AutoStores(n) \/ AutoMarks(n) \/ Approve(n) \/ ApproveStores(n)
      PROVE  Shown'
  <2>1. UNCHANGED <<view, inbox, page, drain, sweep>>
    BY <1>1 DEF Post, Discard, AutoStores, AutoMarks, Approve, ApproveStores
  <2> QED
    BY <2>1, StillShown
<1>2. ASSUME NEW n \in Notes, HandleLive(n)
      PROVE  Shown'
  <2>1. UNCHANGED <<page, drain, sweep>> /\ (view' = inbox' \/ UNCHANGED <<view, inbox>>)
    BY <1>2 DEF HandleLive, Handle
  <2> QED
    BY <2>1, StillShown
<1>3. ASSUME NEW n \in Notes, ApplyLive(n) \/ ApproveRemoves(n) \/ Skip(n)
      PROVE  Shown'
  <2>1. view' = inbox' /\ UNCHANGED sweep
    BY <1>3 DEF ApplyLive, ApproveRemoves, Skip
  <2> QED
    BY <2>1, StillShown
<1>4. ASSUME NEW n \in Notes, SweepStores(n)
      PROVE  Shown'
  <2>1. n \in sweep.left /\ sweep.cur = {} /\ UNCHANGED <<inbox, page, drain>>
    BY <1>4 DEF SweepStores
  <2>2. CASE sweep' = [sweep EXCEPT !.cur = {n}] /\ UNCHANGED view
    <3>1. sweep'.left = sweep.left /\ sweep'.cur = {n}
      BY <2>2 DEF Shape
    <3> QED
      BY <2>1, <3>1 DEF Shown
  <2>3. CASE sweep' = [sweep EXCEPT !.left = @ \ {n}] /\ view' = IF sweep.left = {n} THEN inbox ELSE view
    <3>1. sweep'.left = sweep.left \ {n} /\ sweep'.cur = {}
      BY <2>1, <2>3 DEF Shape
    <3>2. view' = inbox' \/ sweep'.left # {}
      BY <2>1, <2>3, <3>1
    <3> QED
      BY <3>1, <3>2 DEF Shown
  <2> QED
    BY <1>4, <2>2, <2>3 DEF SweepStores
<1>5. ASSUME NEW t \in Texts, RecentExpires(t)
      PROVE  Shown'
  <2>1. UNCHANGED <<view, inbox, page, drain, sweep>>
    BY <1>5 DEF RecentExpires
  <2> QED
    BY <2>1, StillShown
<1>6. CASE DrainReads \/ DrainPeeks \/ DrainAcks
  <2>1. UNCHANGED <<view, inbox, page, sweep>> /\ drain.at # "report"
    BY <1>6 DEF DrainReads, DrainPeeks, DrainAcks
  <2> QED
    BY <2>1, StillShown
<1>7. CASE DrainAdds
  <2>1. UNCHANGED <<page, sweep>> /\ drain.at # "report" /\ (view' = inbox' \/ UNCHANGED <<view, inbox>>)
    BY <1>7 DEF DrainAdds, Handle
  <2> QED
    BY <2>1, StillShown
<1>8. CASE DrainApplies
  <2>1. UNCHANGED <<page, sweep>> /\ drain.at # "report" /\ (view' = inbox' \/ UNCHANGED <<view, inbox>>)
    BY <1>8 DEF DrainApplies
  <2> QED
    BY <2>1, StillShown
<1>9. CASE DrainAdopts
  <2>1. UNCHANGED <<page, sweep, view>> /\ drain.at # "report"
    BY <1>9 DEF DrainAdopts
  <2>2. UNCHANGED inbox \/ drain'.at = "report"
    BY <1>9 DEF DrainAdopts, Shape, Drains
  <2> QED
    BY <2>1, <2>2 DEF Shown
<1>10. CASE DrainReports
  <2>1. view' = inbox' /\ UNCHANGED sweep
    BY <1>10 DEF DrainReports
  <2> QED
    BY <2>1, StillShown
<1>11. CASE Opens
  <2>1. view' = inbox' /\ UNCHANGED sweep
    BY <1>11 DEF Opens
  <2> QED
    BY <2>1, StillShown
<1>12. CASE Returns \/ Focus \/ Subscribed
  <2>1. UNCHANGED <<view, inbox, sweep>> /\ (page' = "dead" \/ page # "dead" \/ UNCHANGED page)
    BY <1>12 DEF Returns, Focus, Subscribed
  <2>2. UNCHANGED drain \/ drain.at # "report"
    BY <1>12 DEF Returns, Focus, Subscribed, Resumes, Drained, Idle
  <2> QED
    BY <2>1, <2>2 DEF Shown
<1>13. CASE Hides
  <2>1. UNCHANGED <<view, inbox, sweep, drain>> /\ page # "dead"
    BY <1>13 DEF Hides
  <2> QED
    BY <2>1 DEF Shown
<1>14. CASE Kill
  <2>1. page' = "dead" /\ sweep' = [left |-> {}, cur |-> {}]
    BY <1>14 DEF Kill, Swept
  <2> QED
    BY <2>1 DEF Shown
<1>15. CASE SetMode \/ UNCHANGED vars
  <2>1. UNCHANGED <<view, inbox, page, drain, sweep>>
    BY <1>15 DEF SetMode, vars
  <2> QED
    BY <2>1, StillShown
<1>16. CASE ApproveAll
  <2>1. UNCHANGED <<view, inbox, page, drain>> /\ sweep' = [left |-> inbox, cur |-> {}] /\ sweep = [left |-> {}, cur |-> {}]
    BY <1>16 DEF ApproveAll, Swept
  <2> QED
    BY <2>1 DEF Shown
<1>17. CASE SweepRemoves
  <2>1. /\ UNCHANGED <<page, drain>>
        /\ sweep' = [left |-> sweep.left \ sweep.cur, cur |-> {}]
        /\ sweep'.left = {} => view' = inbox'
    BY <1>17 DEF SweepRemoves
  <2> QED
    BY <2>1 DEF Shown
<1> QED
  BY <1>1, <1>2, <1>3, <1>4, <1>5, <1>6, <1>7, <1>8, <1>9, <1>10, <1>11, <1>12, <1>13, <1>14, <1>15, <1>16, <1>17
  DEF Next, Arrives, Reviewed, Draining

-----------------------------------------------------------------------------
(* Theorems *)

Inv ==
  /\ Shape /\ Apart /\ Named /\ Kept /\ Adopted /\ Once
  /\ Accounted /\ DiscardApplied /\ Shown

LEMMA Starts ==
  ASSUME Init
  PROVE  Inv
<1>1. \A n \in Notes : journal[n] = "none"
  BY DEF Init
<1>2. Shape
  BY DEF Init, Shape, Drains, Acts, Idle, Swept
<1>3. Apart
  BY DEF Init, Apart, Idle
<1>4. Named
  BY <1>1 DEF Init, Named, Says, Idle
<1>5. Kept /\ Adopted /\ Once
  BY DEF Init, Kept, Adopted, Once, Waiting, Idle, Swept
<1>6. Accounted /\ DiscardApplied
  BY DEF Init, Accounted, DiscardApplied
<1>7. Shown
  BY DEF Init, Shown, Swept
<1> QED
  BY <1>2, <1>3, <1>4, <1>5, <1>6, <1>7 DEF Inv

LEMMA Steps ==
  ASSUME Inv, [Next]_vars
  PROVE  Inv'
BY ShapeStep, ApartStep, NamedStep, KeptStep, AccountedStep, DiscardStep, AdoptedStep, OnceStep, ShownStep DEF Inv

\* Whatever is killed, hidden, drained or merged, a delivered notification is
\* queued, under review, imported, let go by the user or lost in a hand-over
\* (drainQueuedCaptures, handleParsed, approve).
THEOREM NothingDisappears == Spec => []Accounted
<1>1. Inv => Accounted
  BY DEF Inv
<1> QED
  BY Starts, Steps, <1>1, PTL DEF Spec

\* An acknowledged discard leaves the capture neither queued nor under review
\* (CaptureActionReceiver, applyCaptureAction, ackCaptureActions).
THEOREM DiscardsStick == Spec => []DiscardApplied
<1>1. Inv => DiscardApplied
  BY DEF Inv
<1> QED
  BY Starts, Steps, <1>1, PTL DEF Spec

\* Auto mode in the WebView creates no transaction for a purchase that it or the
\* native importer has imported: two creates of one text need a window that ended or a
\* kill between the create and the write of its key, two of different texts, or one
\* beside a native import, must overlap (handleParsed, recentImportsRef,
\* markCaptureImported, adoptNativeImport, NativeCaptureImporter.importAuto).
THEOREM ImportsOnce == Spec => []ImportedOnce
<1>1. Inv => ImportedOnce
  BY DEF Inv, Once, Excused, ImportedOnce
<1> QED
  BY Starts, Steps, <1>1, PTL DEF Spec

\* What the review page shows is what is stored, unless a drain or approve-all is at
\* work or the page is gone (drainQueuedCaptures, adoptNativeImport, approveAll).
THEOREM ReviewShowsInbox == Spec => []ViewIsInbox
<1>1. Inv => ViewIsInbox
  BY DEF Inv, Shown, ViewIsInbox, Idle, Swept
<1> QED
  BY Starts, Steps, <1>1, PTL DEF Spec

=============================================================================
