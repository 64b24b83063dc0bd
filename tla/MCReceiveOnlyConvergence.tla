---------------------- MODULE MCReceiveOnlyConvergence ----------------------
(* A small tree for TLC: two nested folders with a file in the inner one,  *)
(* and a second file beside it that may move over the first. One of the    *)
(* two contents of the provider has another size than the rest.            *)
EXTENDS ReceiveOnlyConvergence

CONSTANTS f, g, d, e, P, Q, R, S, b1, b2, u

TreeAbove == [p \in Paths |-> CASE p = Q -> {P} [] p = R -> {P, Q} [] OTHER -> {}]
TreeHomes == [i \in Items |-> CASE i = d -> {P} [] i = e -> {Q}
                                [] i = f -> {R, S} [] i = g -> {R}]
TwoSizes  == [b \in Blobs |-> IF b = b2 THEN 2 ELSE 1]

(* Three disturbances in all: any two of one sort with one of another.     *)
Budget == edits + changes + failures + crashes <= 3
=============================================================================
