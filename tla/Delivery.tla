------------------------------ MODULE Delivery ------------------------------
(***************************************************************************)
(* What the offline client promises of a row created on the device, said   *)
(* without queue, batches, mirror or crashes: once asked for, the row is   *)
(* pending until the server has it or the user gives it up.  OfflineSync   *)
(* implements this (its definition CreatesDelivered).                      *)
(***************************************************************************)
CONSTANTS
  Ids,      \* rows
  Initial   \* rows the server has from the start

VARIABLES
  asked,    \* rows ever asked for
  wanted,   \* rows the user still wants
  pending,  \* rows whose creation waits on the device
  stored,   \* rows the server has had
  waived    \* rows given up, or changed by others

vars == <<asked, wanted, pending, stored, waived>>

Init ==
  /\ asked = Initial /\ wanted = Initial /\ stored = Initial
  /\ pending = {} /\ waived = {}

\* A row is asked for on the device: it is pending from that step on.
Ask(id) ==
  /\ id \notin asked
  /\ asked' = asked \cup {id}
  /\ wanted' = wanted \cup {id}
  /\ pending' = pending \cup {id}
  /\ UNCHANGED <<stored, waived>>

\* A row is asked for on the server, which confirms it or does not answer: then
\* the device asks again under a new id.
AskServer(id) ==
  /\ id \notin asked
  /\ asked' = asked \cup {id}
  /\ UNCHANGED <<wanted, pending, stored, waived>>

Confirm(id) ==
  /\ wanted' = wanted \cup {id}
  /\ stored' = stored \cup {id}
  /\ UNCHANGED <<asked, pending, waived>>

AskAgain(old, id) ==
  /\ id \notin asked
  /\ asked' = asked \cup {id}
  /\ wanted' = (wanted \ {old}) \cup {id}
  /\ pending' = pending \cup {id}
  /\ UNCHANGED <<stored, waived>>

\* The server stores a row.
Store(id) ==
  /\ stored' = stored \cup {id}
  /\ UNCHANGED <<asked, wanted, pending, waived>>

\* A row is no longer pending: only when the server has had it, or nobody waits
\* for it any more.
Settle(id) ==
  /\ id \in stored \/ id \notin wanted \/ id \in waived
  /\ pending' = pending \ {id}
  /\ UNCHANGED <<asked, wanted, stored, waived>>

\* The user deletes the row, with its pending creation or without; a row taken back
\* counts as given up.
Withdraw(id) ==
  /\ wanted' = wanted \ {id}
  /\ pending' \in {pending, pending \ {id}}
  /\ waived' \in {waived, waived \cup {id}}
  /\ UNCHANGED <<asked, stored>>

\* A creation read before it was dropped is written back.
Requeue(id) ==
  /\ pending' = pending \cup {id}
  /\ UNCHANGED <<asked, wanted, stored, waived>>

\* The user chooses to drop a change of the row, or someone else changes it.
Waive(id) ==
  /\ waived' = waived \cup {id}
  /\ UNCHANGED <<asked, wanted, pending, stored>>

Next ==
  \E id \in Ids :
    \/ Ask(id) \/ AskServer(id) \/ Confirm(id) \/ \E old \in Ids : AskAgain(old, id)
    \/ Store(id) \/ Settle(id) \/ Withdraw(id) \/ Requeue(id) \/ Waive(id)

Spec == Init /\ [][Next]_vars

=============================================================================
