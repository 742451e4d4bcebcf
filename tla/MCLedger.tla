------------------------------- MODULE MCLedger -------------------------------
(* Instances of Ledger small enough for TLC. *)
EXTENDS Ledger, TLC

CONSTANTS c1, c2, c3

ThreeClients == {c1, c2, c3}
Symmetry3 == Permutations(ThreeClients)

\* Amounts only tell what was there before from what is written: every row starts
\* with one, and every charge, edit and anticipation sends the other.  The second
\* installment starts posted or missing; the first also unposted or migrated.
NewAmounts ==
  \A c \in Clients :
    (~Busy(c) /\ Busy(c)' /\ req'[c].op \notin Fragile) => req'[c].amount = 2
StartRows ==
  made = 1 => /\ \A i \in Existing : row[i].amount = 1
              /\ 2 \in Existing => row[2].link = Own

=============================================================================
