--------------------------- MODULE MCOfflineSync ---------------------------
(* Instances of OfflineSync small enough for TLC. *)
EXTENDS OfflineSync, TLC

CONSTANTS t1, t2, c1, a1, v1, v2

KindOf == (t1 :> "transaction") @@ (t2 :> "transaction") @@ (c1 :> "category") @@ (a1 :> "account")
KindOn(S) == [id \in S |-> KindOf[id]]

IdsT == {t1}
KindT == KindOn(IdsT)
IdsTC == {t1, c1}
KindTC == KindOn(IdsTC)
IdsTTA == {t1, t2, a1}
KindTTA == KindOn(IdsTTA)
TwoVals == {v1, v2}
\* Rows of one kind and values are interchangeable; used without liveness only.
Symmetry == Permutations({t1, t2}) \cup Permutations({v1, v2})

=============================================================================
