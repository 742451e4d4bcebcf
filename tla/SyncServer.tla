----------------------------- MODULE SyncServer -----------------------------
(***************************************************************************)
(* The effect of one pushed operation on the row it names: the body of     *)
(* apply_operation in backend/src/routes/sync.rs, for the three entity     *)
(* types.  A row is abstracted to the value the user edits and the         *)
(* updated_at stamp the pull compares; the client UUID of a create becomes *)
(* the server's primary key, so one identifier names the row on both       *)
(* sides.                                                                  *)
(***************************************************************************)
EXTENDS Naturals

CONSTANTS
  Ids,    \* client UUIDs
  Vals,   \* payloads
  Kind,   \* entity type of each id
  None    \* no row, no value

Kinds == {"transaction", "category", "account"}
OpTypes == {"create", "update", "delete"}

ServerRow == [val : Vals, upd : Nat]

ASSUME SyncServerAssumption ==
  /\ Ids # {}
  /\ Vals # {}
  /\ Kind \in [Ids -> Kinds]
  /\ None \notin Ids
  /\ None \notin Vals
  /\ None \notin ServerRow

\* What a handler leaves in the table and what it reports.
Outcome == [row : ServerRow \cup {None}, status : {"ok", "conflict", "error"}]

\* A transaction whose idempotency key exists is left alone, an account is
\* upserted, a second category INSERT trips over the primary key.
CreateOutcome(op, row, now) ==
  CASE row # None /\ Kind[op.cid] = "transaction" ->
         [row |-> row, status |-> "ok"]
    [] row # None /\ Kind[op.cid] = "category" ->
         [row |-> row, status |-> "error"]
    [] OTHER -> [row |-> [val |-> op.val, upd |-> now], status |-> "ok"]

\* Editing a row that is not there is NOT_FOUND.
UpdateOutcome(op, row, now) ==
  IF row = None
    THEN [row |-> None, status |-> "error"]
    ELSE [row |-> [val |-> op.val, upd |-> now], status |-> "ok"]

\* Deleting a row that is not there succeeds.
DeleteOutcome == [row |-> None, status |-> "ok"]

Applied(op, row, now) ==
  CASE op.type = "create" -> CreateOutcome(op, row, now)
    [] op.type = "update" -> UpdateOutcome(op, row, now)
    [] op.type = "delete" -> DeleteOutcome

\* A rejection changes nothing: the handler returns before it writes, or its
\* database transaction rolls back.  CONFLICT is reported for a plan whose bill
\* is settled and for an account that still has entries; all else is "error".
Rejections(op, row) ==
  {[row |-> row, status |-> s] : s \in
     {"error"} \cup
     {c \in {"conflict"} :
        /\ row # None
        /\ <<Kind[op.cid], op.type>> \in
             {<<"transaction", "update">>, <<"account", "delete">>}}}

=============================================================================
