------------------------- MODULE MCRemoteWriteStore -------------------------
(* Small instances of RemoteWriteStore for TLC. *)
EXTENDS RemoteWriteStore, TLC

(* Provider ids are interchangeable. *)
IdSymmetry == Permutations(RemoteIds)

(* Paths too: nothing orders them. *)
StoreSymmetry == Permutations(RemoteIds) \cup Permutations(Paths)

(* Bounds of the runs.  A root that went back to receive-only with intents *)
(* can never be activated again, so nothing is explored beyond that step;  *)
(* a first inventory is always taken before the catalog moves.             *)
DeactivationEnds == mode = "two_way" \/ Rows(intents) = {}
InventoryFirst   == inventory.generation = 0 =>
                      window = None /\ authority = None

(* Two paths and two ids over two generations of files at one cursor, or   *)
(* one path and one id, of a file or a folder, over all bounds.            *)
UsedPaths == {p \in Paths : \/ baseline[p] # None
                            \/ \E k \in Rows(events) : k[2] = p}
UsedIds   == OwnedIds \cup {r \in RemoteIds : receipts[r] # None \/ catalog[r] # "absent"}
FilesOnly == /\ \A p \in Paths : baseline[p] \notin FolderMeta
             /\ \A k \in Rows(events) : {events[k].from, events[k].to} \subseteq {"file", "none"}
Wide == /\ inventory.generation <= 2 /\ cursor = 0 /\ FilesOnly
        /\ window \in {None, [base |-> 0, complete |-> TRUE]}
        /\ authority \in {None, [cursor |-> 0, canAddChildren |-> TRUE]}
        /\ \A r \in RemoteIds : catalog[r] # "other"
        /\ \A k \in Rows(intents) : intents[k].attempts <= 1
Deep == /\ Cardinality(UsedPaths) <= 1 /\ Cardinality(UsedIds) <= 1
        /\ inventory.generation = 3 =>
             /\ cursor = 0 /\ window = None
             /\ \A k \in Rows(intents) : intents[k].attempts <= 1
Explored == DeactivationEnds /\ InventoryFirst /\ (Wide \/ Deep)
=============================================================================
