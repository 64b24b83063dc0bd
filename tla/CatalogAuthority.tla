-------------------------- MODULE CatalogAuthority --------------------------
(***************************************************************************)
(* What the durable catalog promises its readers (the convergence planner, *)
(* the write-authority checks, the status command): at every moment there  *)
(* is one tree, complete below the root, that belongs to one position of   *)
(* the provider's feed. The tree and the position change in one step, the  *)
(* position never goes back, a tree is built afresh only when there is     *)
(* none or when the one there is had caught up, and authority once         *)
(* established is never lost.                                              *)
(***************************************************************************)
EXTENDS CatalogTrees, Naturals

VARIABLES
  authority, \* "none", "catching_up" or "current"
  cursor,    \* the position of the feed the tree belongs to
  catalog,   \* the tree
  end        \* the length of the provider's feed

vars == <<authority, cursor, catalog, end>>

Init ==
  /\ authority = "none"
  /\ cursor = 0
  /\ catalog = Nothing
  /\ end = 0

Grow ==
  /\ end' = end + 1
  /\ UNCHANGED <<authority, cursor, catalog>>

Replace ==
  /\ cursor' \in cursor..end
  /\ catalog' \in Trees
  /\ Complete(catalog')
  /\ UNCHANGED end

(* A tree built by listing the folders, at the fence read beforehand.      *)
Install ==
  /\ authority \in {"none", "current"}
  /\ authority' = "catching_up"
  /\ Replace

(* The tree after the changes up to a later position.                      *)
Advance ==
  /\ authority # "none"
  /\ authority' = "current"
  /\ Replace

Next == Grow \/ Install \/ Advance

Spec == Init /\ [][Next]_vars
=============================================================================
