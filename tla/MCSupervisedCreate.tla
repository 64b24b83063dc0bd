------------------------- MODULE MCSupervisedCreate -------------------------
(* Small instances of SupervisedCreate for TLC. *)
EXTENDS SupervisedCreate, TLC

(* Two versions of a file with different bytes, or one of each. *)
CONSTANTS f1, f2, c1, c2
TwoVersions == f1 :> c1 @@ f2 :> c2
OneVersion  == f1 :> c1
NoFiles     == [f \in {} |-> None]

IdSymmetry == Permutations(RemoteIds)
=============================================================================
