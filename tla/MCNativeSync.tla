---------------------------- MODULE MCNativeSync ----------------------------
(* Instances of NativeSync small enough for TLC. *)
EXTENDS NativeSync, TLC

CONSTANTS t1, v1, v2, w1, w2

IdsT == {t1}
KindT == [id \in IdsT |-> "transaction"]
TwoVals == {v1, v2}
Symmetry == Permutations({v1, v2})

=============================================================================
