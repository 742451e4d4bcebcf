----------------------------- MODULE MCCaptures -----------------------------
(* Bounds for TLC: notifications are interchangeable, as are keys and texts.  *)
(* A behaviour has one of the budgets: what they allow together is too much   *)
(* for one run.                                                               *)
EXTENDS Captures, TLC

Budget(kill, mod, show, refuse, all) ==
  [kill |-> kill, mode |-> mod, show |-> show, refuse |-> refuse, sweep |-> all]

MCBudgets == {Budget(1, 0, 1, 0, 0), Budget(0, 1, 1, 0, 0), Budget(0, 0, 1, 1, 0), Budget(0, 0, 0, 1, 1)}

Symmetry == Permutations(Notes) \cup Permutations(Keys) \cup Permutations(Texts)

=============================================================================
