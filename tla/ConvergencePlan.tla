--------------------------- MODULE ConvergencePlan ---------------------------
(***************************************************************************)
(* What a receive-only run plans from three durable or observable facts:   *)
(* the catalog (what the provider is known to hold), the receipts (which   *)
(* local entries this program wrote, and whether the provider has changed  *)
(* them since) and a scan of the synchronized directory.                   *)
(*                                                                         *)
(* An item keeps its kind for life.  A path is a whole relative path, and  *)
(* Above[p] the paths of the directories it lies in.                       *)
(***************************************************************************)
EXTENDS Naturals, FiniteSets

CONSTANTS
  Items, Folders,   \* provider ids; those that name folders
  Paths, Above,     \* relative paths; the directories each one lies in
  Blobs, SizeOf,    \* file contents up to their digest; their sizes
  Nodes,            \* inode numbers
  MaxEdits,         \* bound on the user's changes, which are numbered
  BatchLimit,       \* SUPERVISED_*_MAX_ACTIONS
  None, Dir

ASSUME PlanAssumption ==
  /\ Folders \subseteq Items /\ IsFiniteSet(Items)
  /\ Above \in [Paths -> SUBSET Paths]
  /\ \A p \in Paths : p \notin Above[p]
  /\ \A p, q \in Paths : q \in Above[p] => Above[q] \subseteq Above[p]
  /\ SizeOf \in [Blobs -> Nat]
  /\ MaxEdits \in Nat
  /\ BatchLimit \in Nat \ {0}
  /\ None # Dir

(* A file on disk: its inode, its contents, and the number of the user's   *)
(* edit that wrote it (0 for this program), which stands for its change    *)
(* time.                                                                   *)
Files == [node : Nodes, blob : Blobs, stamp : 0..MaxEdits]

Catalogued == [path : Paths, size : Nat]
Receipts   == [path : Paths, state : {"current", "stale"},
               blob : Blobs \cup {None}]

ASSUME EntryAssumption ==
  /\ None \notin Files \cup Catalogued \cup Receipts
  /\ Dir \notin Files

VARIABLES
  catalog,      \* provider items of the root as last applied
  receipts,     \* ownership receipt of every item
  disk,         \* the synchronized directory
  temp,         \* download beside a path, under a name of its own
  backup,       \* hard link to the file being replaced
  quarantine    \* entry moved aside for deletion

tree == <<disk, temp, backup, quarantine>>

-----------------------------------------------------------------------------
(* The scan.  Temporary names lie in the directory of the path they serve  *)
(* and a scan reports them like any other entry.                           *)
IsFile(x) == x \in Files
KindOf(i) == IF i \in Folders THEN "dir" ELSE "file"
Shape(p)  == IF disk[p] = None THEN "absent"
             ELSE IF disk[p] = Dir THEN "dir" ELSE "file"

(* Mutant: the scan passes over downloads and backups.                     *)
VisibleLeftovers == {p \in Paths : quarantine[p] # None}

Leftovers == {p \in Paths : {temp[p], backup[p], quarantine[p]} # {None}}

EmptyFolder(p) ==
  \A q \in Paths : p \in Above[q] => disk[q] = None /\ q \notin Leftovers

Reachable(p) == \A q \in Above[p] : disk[q] = Dir

-----------------------------------------------------------------------------
(* The plan.                                                               *)
Expected == {i \in Items : catalog[i] # None}
Owned    == {i \in Items : receipts[i] # None}

ExpectedAt(p) == \E i \in Expected : catalog[i].path = p
LocalOnly     == {p \in Paths : disk[p] # None /\ ~ExpectedAt(p)}

Matching(i) == Shape(catalog[i].path) = KindOf(i)
Absent(i)   == Shape(catalog[i].path) = "absent"

(* Two catalog items on one path: the catalog gives no plan at all.        *)
Collision == \E i, j \in Expected : i # j /\ catalog[i].path = catalog[j].path

(* Two receipts on one path (DuplicateReceiptPath): no plan either.        *)
SharedPath == \E i, j \in Owned : i # j /\ receipts[i].path = receipts[j].path

(* Mutant: the receipts at the item's path are not looked at.              *)
ReceiptElsewhere(i) == i \in Owned /\ receipts[i].path # catalog[i].path

(* The item's receipt names another path, or its path carries the receipt  *)
(* of another item.                                                        *)
ReceiptConflict(i) ==
  \/ i \in Owned /\ receipts[i].path # catalog[i].path
  \/ \E j \in Owned \ {i} : receipts[j].path = catalog[i].path

Undisputed == {i \in Expected : ~ReceiptConflict(i)}
Stale(i)   == i \in Owned /\ receipts[i].state = "stale"

(* An entry the provider no longer holds and this program wrote.           *)
Disposable ==
  {i \in Owned \ Expected : Stale(i) /\ Shape(receipts[i].path) = KindOf(i)
                            /\ ~ExpectedAt(receipts[i].path)}

Phases == {"create", "materialize", "verify", "replace", "delete", "rmdir"}

Plan ==
  [create      |-> {i \in Undisputed \cap Folders : Absent(i)},
   materialize |-> {i \in Undisputed \ Folders : Absent(i)},
   verify      |-> {i \in Undisputed \ Folders : Matching(i) /\ i \notin Owned},
   replace     |-> {i \in Undisputed \ Folders : Matching(i) /\ Stale(i)},
   delete      |-> Disposable \ Folders,
   rmdir       |-> {i \in Disposable \cap Folders :
                      EmptyFolder(receipts[i].path)}]

(* Entries for which no action is safe: receipts in conflict, an entry of  *)
(* the other kind, a folder whose ownership went stale, a local entry that *)
(* is not a disposable one (or a folder with contents), a receipt whose    *)
(* entry disappeared, and every leftover of an earlier run.                *)
Blocked ==
  \/ Expected # Undisputed
  \/ \E i \in Undisputed : ~Absent(i) /\ ~Matching(i)
  \/ \E i \in Undisputed \cap Folders : Matching(i) /\ Stale(i)
  \/ \E p \in LocalOnly :
       p \notin {receipts[i].path : i \in Plan.delete \cup Plan.rmdir}
  \/ \E i \in Owned : /\ Shape(receipts[i].path) = "absent"
                      /\ ~(i \in Expected /\ catalog[i].path = receipts[i].path)
  \/ Leftovers # {}

Active == {phase \in Phases : Plan[phase] # {}}

(* ready_for_directory_phase of the materialization plan.                  *)
ReadyForDirectories ==
  /\ LocalOnly = {} /\ Leftovers = {}
  /\ \A i \in Expected : Absent(i) \/ Matching(i)

(* One phase per step: missing folders go first whatever else is planned,  *)
(* any other mixture of classes stops, and so does an oversized batch.     *)
Decision ==
  IF Collision \/ SharedPath \/ Blocked THEN "refused"
  ELSE IF Active = {} THEN "converged"
  ELSE IF "create" \in Active THEN "create"
  ELSE IF \E phase \in Phases :
            Active = {phase} /\ Cardinality(Plan[phase]) <= BatchLimit
  THEN CHOOSE phase \in Phases : Active = {phase}
  ELSE "manual"

=============================================================================
