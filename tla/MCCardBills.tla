----------------------------- MODULE MCCardBills -----------------------------
(* Instances of CardBills small enough for TLC. *)
EXTENDS CardBills, TLC

CONSTANTS c1, c2

TwoClients == {c1, c2}
Symmetry == Permutations({c1, c2})

=============================================================================
