----------------------------- MODULE MCSession -----------------------------
(* Instances of Session small enough for TLC: one user or two, one or two    *)
(* calls, and scenarios of events.                                           *)
EXTENDS Session, TLC

CONSTANTS A, B, r1, r2

Once(S) == [e \in Events |-> IF e \in S THEN 1 ELSE 0]
Scenarios == {
  Once({"expire", "request", "logout", "login", "focus", "loss"}),
  Once({"expire", "request", "logout", "login", "worker"}),
  Once({"refuse", "expire", "request", "focus", "fail", "loss"}),
  Once({"logout", "login", "wrong", "request", "expire", "refuse"}),
  Once({"logout", "login", "restart", "expire", "worker"})}

=============================================================================
