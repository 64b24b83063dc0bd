---------------------------- MODULE CatalogTrees ----------------------------
(***************************************************************************)
(* The catalog of a selected root as a tree: the function from an item to  *)
(* its parent. The operators are those of RootCatalogProjection, which     *)
(* walks such a tree from its root.                                        *)
(***************************************************************************)
EXTENDS FiniteSets

CONSTANTS
  Items,   \* the provider's items other than the selected root
  Folders, \* the items that are folders
  Root,    \* the canonical remote root
  None     \* the parent of an item the tree does not hold

ASSUME ItemsAssumption ==
  /\ Folders \subseteq Items
  /\ Root \notin Items
  /\ None \notin Items \cup {Root}

Trees == [Items -> Folders \cup {Root, None}]

Nothing == [i \in Items |-> None]

Held(tree) == {i \in Items : tree[i] # None}

(* The items below top: the least set that is closed under children. It is *)
(* what the breadth-first walks of the code collect.                       *)
Under(parent, top) ==
  {i \in Items :
     \A S \in SUBSET Items :
       (\A k \in Items : parent[k] \in S \cup {top} => k \in S) => i \in S}

(* is_complete: the walk from the root reaches every item.                 *)
Complete(tree) == Held(tree) \subseteq Under(tree, Root)

WithSubtreeDeleted(tree, i) ==
  [k \in Items |-> IF k = i \/ k \in Under(tree, i) THEN None ELSE tree[k]]

(* The rows of found replace those of tree; the other rows are kept.       *)
Overlaid(tree, found) ==
  [k \in Items |-> IF found[k] # None THEN found[k] ELSE tree[k]]
=============================================================================
