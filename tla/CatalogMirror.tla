--------------------------- MODULE CatalogMirror ---------------------------
(***************************************************************************)
(* How the catalog of a selected root is built and kept: the bootstrap     *)
(* (fence, traversal of the folders, promotion of the staged rows), the    *)
(* change window (one provider page per call, kept durably until it is     *)
(* complete), the execution of a complete window (membership of every      *)
(* change, hydration of new folders, projection of the catalog, commit)    *)
(* and the rebaseline of a two-way root that has fallen far behind.        *)
(*                                                                         *)
(* The provider is an environment.  It keeps one parent per item and a     *)
(* feed of changed items.  A change page carries the metadata the provider *)
(* has when the page is read, while the membership of a change and the     *)
(* children of a new folder are looked up when the window is executed,     *)
(* possibly much later: that difference is what this module is about.      *)
(*                                                                         *)
(* Names, sizes and modification times are left out, and so is the content *)
(* of files: the catalog is the function from an item to its parent.       *)
(***************************************************************************)
EXTENDS CatalogTrees, Naturals, Sequences

CONSTANTS
  Outside,          \* a place that is not below the root: elsewhere or the trash
  Gone,             \* the place of an item that was deleted for ever
  Homes,            \* the places the items start from
  PageSize,         \* changes in a full page of the provider's feed
  BacklogPages,     \* 64: pages an incomplete window needs to be abandoned
  MaxEvents         \* bound on the changes, the interruptions and the local work

Places == Folders \cup {Root, Outside}

ASSUME PlacesAssumption ==
  /\ Outside \notin Items /\ Gone \notin Items
  /\ Outside \notin {Root, None} /\ Gone \notin {Root, None, Outside}
ASSUME HomesAssumption ==
  /\ Homes \in [Items -> Places]
  /\ \A i \in Items : i \notin Under(Homes, i)
ASSUME BoundsAssumption ==
  /\ PageSize \in Nat \ {0} /\ BacklogPages \in Nat \ {0}
  /\ MaxEvents \in Nat

VARIABLES
  place,         \* the provider: the parent of every item, or Gone
  feed,          \* the provider: the changed items, oldest first
  inventory,     \* sync_root_remote_inventory_state: the flags and the cursor
  catalog,       \* sync_root_remote_items: the parent of every item held
  window,        \* sync_root_change_window_state and its events
  staged,        \* sync_root_remote_inventory_staging
  local,         \* whether local work is settled, and the local generation
  run,           \* the call in progress; lost by an error or a crash
  interruptions, \* the runs cut short so far
  torn           \* history: items whose parent may be held without them

provider == <<place, feed>>
durable == <<inventory, catalog, window, staged>>
vars == <<place, feed, inventory, catalog, window, staged, local, run,
          interruptions, torn>>
----------------------------------------------------------------------------
(* The provider.                                                           *)

ChildrenAt(f) == {k \in Items : place[k] = f}

Deleted(i) == i \in Under(place, Gone)
Below(i) == i \in Under(place, Root)
----------------------------------------------------------------------------
(* Records.                                                                *)

Change(i, p) == [item |-> i, at |-> p]
Changes == [item : Items \cup {Root}, at : Places \cup {Gone}]

NoWindow == [open |-> FALSE, base |-> 0, changes |-> <<>>, pages |-> 0,
             complete |-> FALSE, since |-> 0]

(* `since` is history: the length of the feed when the first page was read. *)
Windows == [open : BOOLEAN, base : Nat, changes : Seq(Changes), pages : Nat,
            complete : BOOLEAN, since : Nat]

Tasks == {"idle", "bootstrap", "rebaseline", "execute", "hydrate", "hang"}

Idle == [task |-> "idle", fence |-> 0, queue |-> {}, generation |-> 0,
         next |-> 1, tree |-> Nothing, found |-> Nothing, lost |-> {}, left |-> {}]

Runs == [task : Tasks, fence : Nat, queue : SUBSET (Folders \cup {Root}),
         generation : Nat, next : Nat \ {0}, tree : Trees, found : Trees,
         lost : SUBSET Items, left : SUBSET Items]

(* The cursor the next page is read from. While the snapshot catches up it *)
(* is catchup_from_cursor, afterwards change_cursor; a window in progress  *)
(* keeps it as its base.                                                   *)
Cursor == inventory.cursor

WindowEnd == window.base + Len(window.changes)
----------------------------------------------------------------------------
Init ==
  /\ place = Homes
  /\ feed = <<>>
  /\ inventory = [snapshot |-> FALSE, caughtUp |-> FALSE, cursor |-> 0]
  /\ catalog = Nothing
  /\ window = NoWindow
  /\ staged = Nothing
  /\ local = [clear |-> TRUE, generation |-> 0]
  /\ run = Idle
  /\ interruptions = 0
  /\ torn = {}
----------------------------------------------------------------------------
(* The provider and its users.                                             *)

MoreEvents == Len(feed) + interruptions + local.generation < MaxEvents

Report(i) ==
  /\ MoreEvents
  /\ feed' = Append(feed, i)
  /\ UNCHANGED <<durable, local, run, interruptions, torn>>

(* An item is moved, or changed where it is when p is its parent already.  *)
Move(i, p) ==
  /\ ~Deleted(i)
  /\ p \in Items => ~Deleted(p) /\ p # i /\ p \notin Under(place, i)
  /\ place' = [place EXCEPT ![i] = p]
  /\ Report(i)

(* A folder is deleted with all it holds; the feed names the folder.       *)
Delete(i) ==
  /\ ~Deleted(i)
  /\ place' = [place EXCEPT ![i] = Gone]
  /\ Report(i)

RenameRoot ==
  /\ UNCHANGED place
  /\ Report(Root)
----------------------------------------------------------------------------
(* Local work: pending journal events and remote-write intents that are    *)
(* not settled keep a rebaseline out; a refreshed baseline has a new       *)
(* generation.                                                             *)
LocalWork ==
  /\ local.clear
  /\ MoreEvents
  /\ local' = [local EXCEPT !.clear = FALSE]
  /\ UNCHANGED <<provider, durable, run, interruptions, torn>>

SettleLocalWork ==
  /\ ~local.clear
  /\ local' = [clear |-> TRUE, generation |-> local.generation + 1]
  /\ UNCHANGED <<provider, durable, run, interruptions, torn>>
----------------------------------------------------------------------------
(* The traversal: bootstrap_selected_root_snapshot and                     *)
(* rebaseline_selected_root_remote_snapshot.                               *)

(* The fence is read before the first folder is listed.                    *)
BeginTraversal(task) ==
  /\ run' = [Idle EXCEPT !.task = task, !.fence = Len(feed), !.queue = {Root},
                         !.generation = local.generation]
  /\ staged' = Nothing
  /\ UNCHANGED <<provider, inventory, catalog, window, local, interruptions, torn>>

BeginBootstrap ==
  /\ run.task = "idle"
  /\ ~inventory.snapshot
  /\ BeginTraversal("bootstrap")

Backlogged == window.open /\ ~window.complete /\ window.pages >= BacklogPages

BeginRebaseline ==
  /\ run.task = "idle"
  /\ local.clear
  /\ Backlogged
  /\ BeginTraversal("rebaseline")

(* A call gives up: its memory is lost, and its staged rows are cleared if *)
(* that succeeds.                                                          *)
GiveUp ==
  /\ run' = Idle
  /\ staged' \in {staged, Nothing}
  /\ UNCHANGED <<provider, inventory, catalog, window, local, interruptions, torn>>

Traversing == run.task \in {"bootstrap", "rebaseline"}

(* The children the provider lists: those of a folder in the trash are not *)
(* listed.                                                                 *)
Listings(f) ==
  IF f = Root \/ Below(f) THEN {ChildrenAt(f)} ELSE {ChildrenAt(f), {}}

(* Rows of a listing, and the folders to list because of them.             *)
Rows(f, listing) == [k \in Items |-> IF k \in listing THEN f ELSE None]
NextFolders(f, listing) == (run.queue \ {f}) \cup (listing \cap Folders)

(* History: the items a listing leaves out.                                *)
Hidden(f, listing) == ChildrenAt(f) \ listing

(* An item listed twice, or a folder that is gone, refuses the traversal.  *)
StageFolder(f) ==
  /\ Traversing /\ f \in run.queue
  /\ f \in Items => ~Deleted(f)
  /\ \E listing \in Listings(f) :
       /\ listing \cap Held(staged) = {}
       /\ staged' = Overlaid(staged, Rows(f, listing))
       /\ run' = [run EXCEPT !.queue = NextFolders(f, listing),
                             !.lost = @ \cup Hidden(f, listing)]
  /\ UNCHANGED <<provider, inventory, catalog, window, local, interruptions, torn>>

RefuseFolder(f) ==
  /\ Traversing /\ f \in run.queue
  /\ \/ f \in Items /\ Deleted(f)
     \/ \E listing \in Listings(f) : listing \cap Held(staged) # {}
  /\ GiveUp

(* Mutant of Promote: the cursor is read when the traversal ends.          *)
PromoteAtTheEnd ==
  /\ catalog' = staged
  /\ inventory' = [snapshot |-> TRUE, caughtUp |-> FALSE, cursor |-> Len(feed)]
  /\ staged' = Nothing
  /\ run' = Idle
  /\ torn' = run.lost
  /\ UNCHANGED <<provider, local, interruptions>>

(* The staged rows become the catalog, the fence its cursor, and any       *)
(* window is forgotten.                                                    *)
Promote ==
  /\ catalog' = staged
  /\ inventory' = [snapshot |-> TRUE, caughtUp |-> FALSE, cursor |-> run.fence]
  /\ staged' = Nothing
  /\ run' = Idle
  /\ torn' = run.lost
  /\ UNCHANGED <<provider, local, interruptions>>

CommitBootstrap ==
  /\ run.task = "bootstrap" /\ run.queue = {}
  /\ Promote
  /\ UNCHANGED window

(* Mutant of Rebaselinable: a catalog that is catching up is replaced.     *)
RebaselinableAnyTime == local.clear /\ local.generation = run.generation

(* The rebaseline is refused unless the snapshot had caught up and the     *)
(* local state is still the one it started from.                           *)
Rebaselinable ==
  /\ local.clear
  /\ local.generation = run.generation
  /\ inventory.caughtUp

CommitRebaseline ==
  /\ run.task = "rebaseline" /\ run.queue = {}
  /\ Rebaselinable
  /\ Promote
  /\ window' = NoWindow

RefuseRebaseline ==
  /\ run.task = "rebaseline" /\ run.queue = {}
  /\ ~Rebaselinable
  /\ GiveUp
----------------------------------------------------------------------------
(* Collection: collect_selected_root_change_window_page and                *)
(* stage_sync_root_change_window_page.                                     *)

(* What a page says of a changed item when the page is read.               *)
Reading(i) ==
  IF i = Root THEN Change(i, Root)
  ELSE Change(i, IF Deleted(i) THEN Gone ELSE place[i])

PageEnd(from) ==
  IF Len(feed) - from <= PageSize THEN Len(feed) ELSE from + PageSize

PageAfter(from) ==
  [n \in 1..(PageEnd(from) - from) |-> Reading(feed[from + n])]

Opened == IF window.open THEN window
          ELSE [NoWindow EXCEPT !.open = TRUE, !.base = Cursor, !.since = Len(feed)]

(* The page that reaches the end of the feed carries the checkpoint.       *)
CollectPage ==
  /\ run.task = "idle"
  /\ inventory.snapshot
  /\ ~window.complete
  /\ LET from == Opened.base + Len(Opened.changes) IN
     window' = [Opened EXCEPT !.changes = @ \o PageAfter(from),
                              !.pages = @ + 1,
                              !.complete = PageEnd(from) = Len(feed)]
  /\ UNCHANGED <<provider, inventory, catalog, staged, local, run, interruptions, torn>>
----------------------------------------------------------------------------
(* Execution: execute_completed_selected_root_change_window.               *)

BeginExecution ==
  /\ run.task = "idle"
  /\ window.complete
  /\ Complete(catalog)
  /\ run' = [Idle EXCEPT !.task = "execute", !.tree = catalog, !.lost = torn]
  /\ UNCHANGED <<provider, durable, local, interruptions, torn>>

Resolving == run.task = "execute" /\ run.next <= Len(window.changes)
NextChange == window.changes[run.next]

(* resolve_change_membership: the walk starts from the parent the page     *)
(* named and follows the parents the provider has now. A parent that was   *)
(* deleted cannot be fetched.                                              *)
ParentLost == NextChange.at \in Items /\ Deleted(NextChange.at)
IsDescendant ==
  NextChange.at = Root \/ (NextChange.at \in Items /\ Below(NextChange.at))

Resolved(tree, lost, left) ==
  /\ run' = [run EXCEPT !.next = @ + 1, !.tree = tree, !.lost = lost, !.left = left]
  /\ UNCHANGED <<provider, durable, local, interruptions, torn>>

RevalidateRoot ==
  /\ Resolving /\ NextChange.item = Root
  /\ Resolved(run.tree, run.lost, run.left)

(* Mutant of UpsertItem: a new folder is taken over without its contents.  *)
UpsertAnyItem ==
  LET i == NextChange.item IN
  /\ Resolving /\ i # Root
  /\ ~ParentLost /\ IsDescendant
  /\ Resolved([run.tree EXCEPT ![i] = NextChange.at], run.lost \ {i}, run.left \ {i})

(* A file, or a folder the projection holds, takes the parent of the page. *)
UpsertItem ==
  LET i == NextChange.item IN
  /\ Resolving /\ i # Root
  /\ ~ParentLost /\ IsDescendant
  /\ i \notin Folders \/ i \in Held(run.tree)
  /\ Resolved([run.tree EXCEPT ![i] = NextChange.at], run.lost \ {i}, run.left \ {i})

Leaves == ~ParentLost /\ ~IsDescendant

(* History: what is left out because of a folder that is outside now.      *)
LeftWith(i) == IF NextChange.at \in Items THEN run.left \cup {i} ELSE run.left

(* Deleted, trashed, moved away, or below a folder that is outside now.    *)
DeleteSubtree ==
  LET i == NextChange.item IN
  /\ Resolving /\ i # Root /\ Leaves
  /\ i \in Held(run.tree) /\ i \notin Under(run.tree, i)
  /\ Resolved(WithSubtreeDeleted(run.tree, i), run.lost, LeftWith(i))

(* The walk of delete_subtree keeps no set of the items it has met: it     *)
(* never ends when the projection holds a cycle.                           *)
DeleteCycle ==
  LET i == NextChange.item IN
  /\ Resolving /\ i # Root /\ Leaves
  /\ i \in Held(run.tree) /\ i \in Under(run.tree, i)
  /\ run' = [run EXCEPT !.task = "hang"]
  /\ UNCHANGED <<provider, durable, local, interruptions, torn>>

IgnoreChange ==
  LET i == NextChange.item IN
  /\ Resolving /\ i # Root /\ Leaves
  /\ i \notin Held(run.tree)
  /\ Resolved(run.tree, run.lost, LeftWith(i))

(* A folder that is new to the projection is listed with all it holds.     *)
BeginHydration ==
  LET i == NextChange.item IN
  /\ Resolving /\ i \in Folders
  /\ ~ParentLost /\ IsDescendant
  /\ i \notin Held(run.tree)
  /\ run' = [run EXCEPT !.task = "hydrate", !.queue = {i},
                        !.found = [Nothing EXCEPT ![i] = NextChange.at]]
  /\ UNCHANGED <<provider, durable, local, interruptions, torn>>

HydrateFolder(f) ==
  /\ run.task = "hydrate" /\ f \in run.queue
  /\ ~Deleted(f)
  /\ \E listing \in Listings(f) :
       /\ listing \cap Held(run.found) = {}
       /\ run' = [run EXCEPT !.found = Overlaid(@, Rows(f, listing)),
                             !.queue = NextFolders(f, listing),
                             !.lost = @ \cup Hidden(f, listing)]
  /\ UNCHANGED <<provider, durable, local, interruptions, torn>>

FinishHydration ==
  /\ run.task = "hydrate" /\ run.queue = {}
  /\ run' = [run EXCEPT !.task = "execute", !.next = @ + 1,
                        !.tree = Overlaid(@, run.found), !.found = Nothing,
                        !.lost = @ \ Held(run.found), !.left = @ \ Held(run.found)]
  /\ UNCHANGED <<provider, durable, local, interruptions, torn>>

Executed == run.task = "execute" /\ run.next = Len(window.changes) + 1

(* An item of which, or of an ancestor of which, the feed has a change     *)
(* after position n.                                                       *)
ChangedSince(i, n) ==
  \E m \in (n + 1)..Len(feed) : feed[m] = i \/ i \in Under(place, feed[m])

(* History: of what was left out because of a folder that was outside, the *)
(* items that a later move of such a folder can have brought back.         *)
NowTorn == run.lost \cup {k \in run.left : ChangedSince(k, WindowEnd)}

(* Mutant of CommitWindow: validate_complete is not called.                *)
CommitUnchecked ==
  /\ Executed
  /\ catalog' = run.tree
  /\ inventory' = [inventory EXCEPT !.caughtUp = TRUE, !.cursor = WindowEnd]
  /\ window' = NoWindow
  /\ torn' = NowTorn
  /\ run' = Idle
  /\ UNCHANGED <<provider, staged, local, interruptions>>

(* commit_sync_root_catalog_change_window: the mutations, the cursor and   *)
(* the end of the window in one transaction.                               *)
CommitWindow ==
  /\ Executed
  /\ Complete(run.tree)
  /\ catalog' = run.tree
  /\ inventory' = [inventory EXCEPT !.caughtUp = TRUE, !.cursor = WindowEnd]
  /\ window' = NoWindow
  /\ torn' = NowTorn
  /\ run' = Idle
  /\ UNCHANGED <<provider, staged, local, interruptions>>

(* What makes an execution fail for a reason a retry does not remove.      *)
Refused ==
  \/ Resolving /\ NextChange.item # Root /\ ParentLost
  \/ /\ run.task = "hydrate"
     /\ \E f \in run.queue :
          \/ Deleted(f)
          \/ \E listing \in Listings(f) : listing \cap Held(run.found) # {}
  \/ Executed /\ ~Complete(run.tree)

RefuseExecution ==
  /\ Refused
  /\ run' = Idle
  /\ UNCHANGED <<provider, durable, local, interruptions, torn>>
----------------------------------------------------------------------------
(* An I/O error or a crash at any step of a run. Its memory is lost; the   *)
(* rows staged by a traversal stay after a crash.                          *)
Interrupt ==
  /\ run.task # "idle"
  /\ MoreEvents
  /\ interruptions' = interruptions + 1
  /\ run' = Idle
  /\ staged' \in {staged, Nothing}
  /\ UNCHANGED <<provider, inventory, catalog, window, local, torn>>

Environment ==
  \/ \E i \in Items, p \in Places : Move(i, p)
  \/ \E i \in Items : Delete(i)
  \/ RenameRoot
  \/ LocalWork
  \/ SettleLocalWork
  \/ Interrupt

Traversal ==
  \/ \E f \in Folders \cup {Root} : StageFolder(f) \/ RefuseFolder(f)
  \/ CommitBootstrap
  \/ CommitRebaseline
  \/ RefuseRebaseline

Execution ==
  \/ RevalidateRoot
  \/ UpsertItem
  \/ DeleteSubtree
  \/ DeleteCycle
  \/ IgnoreChange
  \/ BeginHydration
  \/ \E f \in Folders : HydrateFolder(f)
  \/ FinishHydration
  \/ CommitWindow
  \/ RefuseExecution

Next ==
  \/ Environment
  \/ BeginBootstrap
  \/ BeginRebaseline
  \/ Traversal
  \/ CollectPage
  \/ BeginExecution
  \/ Execution

Spec == Init /\ [][Next]_vars
----------------------------------------------------------------------------
(* Properties.                                                             *)

(* Type invariant: the flags, the cursor, the window, the staged rows and  *)
(* the run are of their kinds, and no window is open without a snapshot.   *)
MirrorTypeOK ==
  /\ place \in [Items -> Places \cup {Gone}]
  /\ feed \in Seq(Items \cup {Root})
  /\ inventory \in [snapshot : BOOLEAN, caughtUp : BOOLEAN, cursor : Nat]
  /\ catalog \in Trees /\ staged \in Trees
  /\ window \in Windows
  /\ window.open => inventory.snapshot
  /\ local \in [clear : BOOLEAN, generation : Nat]
  /\ run \in Runs
  /\ interruptions \in Nat
  /\ torn \in SUBSET Items

(* The durable catalog is a tree below the root whatever was interrupted,  *)
(* so RootCatalogProjection::new accepts it and no later execution is      *)
(* refused for the catalog it starts from.                                 *)
CatalogIsATree == Complete(catalog)

(* An item no change of which, nor of a folder above it, is still to be    *)
(* read is held exactly where the provider has it, or not at all when it   *)
(* is not below the root: the executor of a window combines the metadata   *)
(* of the pages with the ancestors and children of a later moment. Left    *)
(* out are the items of `torn` and those below them.                       *)
Unread(i) == ChangedSince(i, Cursor)

Torn(i) == \E k \in torn : i = k \/ i \in Under(place, k)

Mirrored(i) == catalog[i] = IF Below(i) THEN place[i] ELSE None

CaughtUpMirrors ==
  inventory.caughtUp => \A i \in Items : Unread(i) \/ Torn(i) \/ Mirrored(i)

(* The same of every item, the torn ones included: "the fence captured     *)
(* before traversal ensures concurrent changes are recovered by the        *)
(* subsequent catch-up".                                                   *)
NothingIsLost ==
  inventory.caughtUp => \A i \in Items : Unread(i) \/ Mirrored(i)

(* An execution that is refused is the doing of a change after the first   *)
(* page of the window was read, or of an item that was lost earlier: a     *)
(* provider that has been quiet since then is mirrored by the first try,   *)
(* unless the walk of delete_subtree never ends.                           *)
RefusedOnlyAfterAChange ==
  Refused => Len(feed) > window.since \/ torn # {}

(* The projection has a cycle, on which that walk never ends, only while   *)
(* an item on the cycle has a change that is not applied yet: two folders  *)
(* each other's parent are what two moments of the provider make of them.  *)
CyclesAreTransient ==
  run.task \in {"execute", "hydrate", "hang"} =>
    \A i \in Items : i \in Under(run.tree, i) =>
      \E k \in Under(run.tree, i), n \in (window.base + run.next)..Len(feed) :
        feed[n] = k

(* The mirror keeps the promise of CatalogAuthority through interrupted    *)
(* traversals and executions, pages read and rebaselines.                  *)
Authority == INSTANCE CatalogAuthority WITH
  authority <- IF ~inventory.snapshot THEN "none"
               ELSE IF inventory.caughtUp THEN "current" ELSE "catching_up",
  cursor <- Cursor,
  catalog <- catalog,
  end <- Len(feed)

KeepsAuthority == Authority!Spec
=============================================================================
