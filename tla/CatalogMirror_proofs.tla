----------------------- MODULE CatalogMirror_proofs -----------------------
(***************************************************************************)
(* CatalogMirror keeps its types, its catalog is a tree at every moment,   *)
(* it implements CatalogAuthority, and what it says of the provider is     *)
(* true, for every set of items, forest of homes, page size and bound.     *)
(*                                                                         *)
(* Inv adds to the types where the window and the fence lie with respect   *)
(* to the durable cursor, and that the staged rows are a tree while a      *)
(* traversal goes on. MirrorInv adds that every tree of the system is true *)
(* of the provider row by row, at its own position of the feed: the        *)
(* catalog at the cursor, the staged rows at the fence, the projection at  *)
(* the change it has come to, what a hydration found one change later.     *)
(* SteadyInv adds what is known while the provider keeps quiet.            *)
(***************************************************************************)
EXTENDS CatalogMirror, TLAPS

(* The window goes on from the durable cursor, and neither it nor a fence  *)
(* is ahead of the feed.                                                   *)
Positions ==
  /\ Cursor <= Len(feed)
  /\ window.open => window.base = Cursor /\ WindowEnd <= Len(feed)
  /\ window.complete => window.open
  /\ Traversing => Cursor <= run.fence /\ run.fence <= Len(feed)

Phases ==
  /\ inventory.caughtUp => inventory.snapshot
  /\ run.task = "bootstrap" => ~inventory.snapshot
  /\ run.task \in {"execute", "hydrate", "hang"} => window.open

(* A traversal only lists folders it has staged, so what it stages is a    *)
(* tree below the root.                                                    *)
StagedIsATree ==
  Traversing => /\ Complete(staged)
                /\ run.queue \subseteq Held(staged) \cup {Root}

Inv ==
  /\ MirrorTypeOK
  /\ CatalogIsATree
  /\ Positions
  /\ Phases
  /\ StagedIsATree
-----------------------------------------------------------------------------
(* Trees.                                                                  *)

(* Hanging items that are not held below the root or below a held folder   *)
(* leaves a tree complete.                                                 *)
LEMMA HangBelow ==
  ASSUME NEW tree \in Trees, Complete(tree),
         NEW f \in Folders \cup {Root}, f \in Held(tree) \cup {Root},
         NEW listing \in SUBSET Items, listing \cap Held(tree) = {}
  PROVE  /\ Overlaid(tree, Rows(f, listing)) \in Trees
         /\ Complete(Overlaid(tree, Rows(f, listing)))
         /\ Held(Overlaid(tree, Rows(f, listing))) = Held(tree) \cup listing
<1> DEFINE new == Overlaid(tree, Rows(f, listing))
<1>1. f # None
  BY ItemsAssumption
<1>2. \A k \in Items : new[k] = IF k \in listing THEN f ELSE tree[k]
  BY <1>1 DEF Overlaid, Rows
<1>3. new \in Trees
  BY <1>2 DEF Overlaid, Rows, Trees
<1>4. Held(new) = Held(tree) \cup listing
  BY <1>1, <1>2 DEF Held
<1>5. ASSUME NEW i \in Held(new), NEW S \in SUBSET Items,
             \A k \in Items : new[k] \in S \cup {Root} => k \in S
      PROVE  i \in S
  <2>1. \A k \in Items : tree[k] \in S \cup {Root} => k \in S
    <3> SUFFICES ASSUME NEW k \in Items, tree[k] \in S \cup {Root}
                 PROVE  k \in S
      OBVIOUS
    <3>1. tree[k] # None
      BY ItemsAssumption
    <3>2. k \notin listing
      BY <3>1 DEF Held
    <3> QED
      BY <3>2, <1>2, <1>5
  <2>2. Held(tree) \subseteq S
    BY <2>1 DEF Complete, Under, Held
  <2>3. f \in S \cup {Root}
    BY <2>2
  <2>4. listing \subseteq S
    BY <2>3, <1>2, <1>5
  <2> QED
    BY <2>2, <2>4, <1>4
<1>6. Complete(new)
  BY <1>5 DEF Complete, Under, Held
<1> QED
  BY <1>3, <1>4, <1>6

LEMMA UpsertKeepsTrees ==
  ASSUME NEW tree \in Trees, NEW i \in Items, NEW p \in Folders \cup {Root}
  PROVE  [tree EXCEPT ![i] = p] \in Trees
BY DEF Trees

LEMMA OverlayKeepsTrees ==
  ASSUME NEW tree \in Trees, NEW found \in Trees
  PROVE  Overlaid(tree, found) \in Trees
BY DEF Trees, Overlaid

LEMMA DeletionKeepsTrees ==
  ASSUME NEW tree \in Trees, NEW i \in Items
  PROVE  WithSubtreeDeleted(tree, i) \in Trees
BY DEF Trees, WithSubtreeDeleted

LEMMA NothingIsATree == Nothing \in Trees /\ Complete(Nothing) /\ Held(Nothing) = {}
BY DEF Nothing, Trees, Complete, Held, Under

LEMMA IdleIsARun == Idle \in Runs /\ Idle.task = "idle"
BY NothingIsATree DEF Idle, Runs, Tasks
-----------------------------------------------------------------------------
(* Pages.                                                                  *)

LEMMA ReadingIsAChange ==
  ASSUME MirrorTypeOK, NEW i \in Items \cup {Root}
  PROVE  Reading(i) \in Changes
<1>1. CASE i = Root
  BY <1>1 DEF Reading, Change, Changes, Places
<1>2. CASE i # Root
  <2>1. place[i] \in Places \cup {Gone}
    BY <1>2 DEF MirrorTypeOK
  <2> QED
    BY <1>2, <2>1 DEF Reading, Change, Changes, Places
<1> QED
  BY <1>1, <1>2

(* A page holds changes, and it ends no later than the feed.               *)
LEMMA PageIsASequence ==
  ASSUME MirrorTypeOK, NEW from \in Nat, from <= Len(feed)
  PROVE  /\ PageAfter(from) \in Seq(Changes)
         /\ from + Len(PageAfter(from)) = PageEnd(from)
         /\ PageEnd(from) \in Nat /\ PageEnd(from) <= Len(feed)
<1>1. Len(feed) \in Nat
  BY DEF MirrorTypeOK
<1>2. /\ PageEnd(from) \in Nat
      /\ from <= PageEnd(from)
      /\ PageEnd(from) <= Len(feed)
  BY <1>1, BoundsAssumption DEF PageEnd
<1>3. \A n \in 1..(PageEnd(from) - from) : Reading(feed[from + n]) \in Changes
  <2> SUFFICES ASSUME NEW n \in 1..(PageEnd(from) - from)
               PROVE  Reading(feed[from + n]) \in Changes
    OBVIOUS
  <2>1. from + n \in 1..Len(feed)
    BY <1>1, <1>2
  <2>2. feed[from + n] \in Items \cup {Root}
    BY <2>1 DEF MirrorTypeOK
  <2> QED
    BY <2>2, ReadingIsAChange
<1>4. PageEnd(from) - from \in Nat
  BY <1>1, <1>2
<1>5. PageAfter(from) \in [1..(PageEnd(from) - from) -> Changes]
  BY <1>3 DEF PageAfter
<1>6. PageAfter(from) \in Seq(Changes) /\ Len(PageAfter(from)) = PageEnd(from) - from
  BY <1>4, <1>5
<1> QED
  BY <1>1, <1>2, <1>6
-----------------------------------------------------------------------------
(* The invariant holds initially.                                          *)

LEMMA InitInv == Init => Inv
<1> SUFFICES ASSUME Init PROVE Inv
  OBVIOUS
<1> USE DEF Init
<1>1. MirrorTypeOK
  <2>1. window \in Windows
    BY DEF NoWindow, Windows
  <2>2. run \in Runs
    BY NothingIsATree DEF Idle, Runs, Tasks
  <2>3. place \in [Items -> Places \cup {Gone}]
    BY HomesAssumption
  <2> QED
    BY <2>1, <2>2, <2>3, NothingIsATree DEF MirrorTypeOK, NoWindow
<1>2. CatalogIsATree
  BY NothingIsATree DEF CatalogIsATree
<1>3. Positions
  BY DEF Positions, NoWindow, Cursor, Traversing, Idle
<1>4. Phases
  BY DEF Phases, Idle
<1>5. StagedIsATree
  BY DEF StagedIsATree, Traversing, Idle
<1> QED
  BY <1>1, <1>2, <1>3, <1>4, <1>5 DEF Inv
-----------------------------------------------------------------------------
(* Every step keeps the invariant.                                         *)

(* The feed only grows.                                                    *)
LEMMA ProviderKeepsInv ==
  ASSUME Inv, NEW i \in Items \cup {Root}, Report(i),
         place' \in [Items -> Places \cup {Gone}]
  PROVE  Inv'
<1> USE DEF Inv, Report, durable
<1>1. /\ Len(feed) \in Nat
      /\ feed' \in Seq(Items \cup {Root})
      /\ Len(feed') = Len(feed) + 1
  BY DEF MirrorTypeOK
<1>2. MirrorTypeOK'
  BY <1>1 DEF MirrorTypeOK
<1>3. CatalogIsATree'
  BY DEF CatalogIsATree
<1>4. Positions'
  BY <1>1 DEF Positions, MirrorTypeOK, Windows, Runs, WindowEnd, Cursor, Traversing
<1>5. Phases'
  BY DEF Phases
<1>6. StagedIsATree'
  BY DEF StagedIsATree, Traversing
<1> QED
  BY <1>2, <1>3, <1>4, <1>5, <1>6

LEMMA LocalWorkKeepsInv ==
  ASSUME Inv, UNCHANGED <<provider, durable, run, interruptions, torn>>,
         local' \in [clear : BOOLEAN, generation : Nat]
  PROVE  Inv'
<1> USE DEF Inv, provider, durable
<1>1. MirrorTypeOK'
  BY DEF MirrorTypeOK
<1>2. CatalogIsATree' /\ Positions' /\ Phases' /\ StagedIsATree'
  BY DEF CatalogIsATree, Positions, Phases, StagedIsATree, WindowEnd, Cursor, Traversing
<1> QED
  BY <1>1, <1>2

(* A call that ends without a commit.                                      *)
LEMMA GivingUpKeepsInv ==
  ASSUME Inv, run' = Idle, staged' \in {staged, Nothing}, interruptions' \in Nat,
         UNCHANGED <<provider, inventory, catalog, window, local, torn>>
  PROVE  Inv'
<1> USE DEF Inv, provider
<1>1. Idle \in Runs
  BY NothingIsATree DEF Idle, Runs, Tasks
<1>2. MirrorTypeOK'
  BY <1>1, NothingIsATree DEF MirrorTypeOK
<1>3. CatalogIsATree'
  BY DEF CatalogIsATree
<1>4. Positions' /\ Phases' /\ StagedIsATree'
  BY DEF Positions, Phases, StagedIsATree, WindowEnd, Cursor, Traversing, Idle
<1> QED
  BY <1>2, <1>3, <1>4

LEMMA BeginTraversalKeepsInv ==
  ASSUME Inv, NEW task \in {"bootstrap", "rebaseline"}, BeginTraversal(task),
         task = "bootstrap" => ~inventory.snapshot
  PROVE  Inv'
<1> USE DEF Inv, BeginTraversal, provider
<1>1. Len(feed) \in Nat /\ local.generation \in Nat
  BY DEF MirrorTypeOK
<1>2. /\ run' \in Runs
      /\ run'.task = task /\ run'.fence = Len(feed) /\ run'.queue = {Root}
  BY <1>1, IdleIsARun DEF Runs, Tasks
<1>3. MirrorTypeOK'
  BY <1>2, NothingIsATree DEF MirrorTypeOK
<1>4. CatalogIsATree'
  BY DEF CatalogIsATree
<1>5. Positions'
  BY <1>1, <1>2 DEF Positions, WindowEnd, Cursor, Traversing
<1>6. Phases'
  BY <1>2 DEF Phases
<1>7. StagedIsATree'
  BY <1>2, NothingIsATree DEF StagedIsATree
<1> QED
  BY <1>3, <1>4, <1>5, <1>6, <1>7

(* A listing adds rows below a row that is staged already.                 *)
LEMMA StageFolderKeepsInv ==
  ASSUME Inv, NEW f \in Folders \cup {Root}, StageFolder(f)
  PROVE  Inv'
<1> USE DEF Inv, StageFolder, provider
<1>1. PICK listing \in Listings(f) :
        /\ listing \cap Held(staged) = {}
        /\ staged' = Overlaid(staged, Rows(f, listing))
        /\ run' = [run EXCEPT !.queue = NextFolders(f, listing),
                              !.lost = @ \cup Hidden(f, listing)]
  OBVIOUS
<1>2. listing \in SUBSET Items
  BY DEF Listings, ChildrenAt
<1>3. Hidden(f, listing) \subseteq Items
  BY DEF Hidden, ChildrenAt
<1>4. /\ staged \in Trees /\ Complete(staged)
      /\ run.queue \subseteq Held(staged) \cup {Root}
  BY DEF MirrorTypeOK, StagedIsATree
<1>5. f \in Held(staged) \cup {Root}
  BY <1>4
<1>6. /\ staged' \in Trees
      /\ Complete(staged')
      /\ Held(staged') = Held(staged) \cup listing
  BY <1>1, <1>2, <1>4, <1>5, HangBelow
<1>7. /\ run' \in Runs
      /\ run'.task = run.task /\ run'.fence = run.fence
      /\ run'.queue = NextFolders(f, listing)
  <2>1. run \in Runs
    BY DEF MirrorTypeOK
  <2> QED
    BY <2>1, <1>1, <1>2, <1>3 DEF Runs, NextFolders
<1>8. MirrorTypeOK'
  BY <1>6, <1>7 DEF MirrorTypeOK
<1>9. CatalogIsATree'
  BY DEF CatalogIsATree
<1>10. Positions' /\ Phases'
  BY <1>7 DEF Positions, Phases, WindowEnd, Cursor, Traversing
<1>11. StagedIsATree'
  BY <1>4, <1>6, <1>7 DEF StagedIsATree, NextFolders
<1> QED
  BY <1>8, <1>9, <1>10, <1>11

(* The staged tree becomes the catalog, at the fence.                      *)
LEMMA PromotionKeepsInv ==
  ASSUME Inv, Traversing, Promote, window' = NoWindow \/ (UNCHANGED window /\ ~window.open)
  PROVE  Inv'
<1> USE DEF Inv, Promote, provider
<1>1. /\ Idle \in Runs /\ NoWindow \in Windows
      /\ run.fence \in Nat /\ run.lost \in SUBSET Items
  BY NothingIsATree DEF Idle, Runs, Tasks, NoWindow, Windows, MirrorTypeOK
<1>2. MirrorTypeOK'
  BY <1>1, NothingIsATree DEF MirrorTypeOK, NoWindow
<1>3. CatalogIsATree'
  BY DEF CatalogIsATree, StagedIsATree
<1>4. Positions' /\ Phases' /\ StagedIsATree'
  BY DEF Positions, Phases, StagedIsATree, WindowEnd, Cursor, Traversing, Idle, NoWindow
<1> QED
  BY <1>2, <1>3, <1>4

(* The window a page is added to.                                          *)
LEMMA OpenedContinuesTheCursor ==
  ASSUME Inv
  PROVE  /\ Opened \in Windows
         /\ Opened.open /\ Opened.base = Cursor
         /\ Opened.base + Len(Opened.changes) \in Nat
         /\ Opened.base + Len(Opened.changes) <= Len(feed)
<1>1. CASE window.open
  <2>1. Opened = window /\ window \in Windows
    BY <1>1 DEF Opened, Inv, MirrorTypeOK
  <2>2. window.base \in Nat /\ Len(window.changes) \in Nat
    BY <2>1 DEF Windows
  <2> QED
    BY <1>1, <2>1, <2>2 DEF Inv, Positions, WindowEnd
<1>2. CASE ~window.open
  <2>1. Cursor \in Nat /\ Len(feed) \in Nat /\ Cursor <= Len(feed)
    BY DEF Inv, MirrorTypeOK, Cursor, Positions
  <2>2. ASSUME NEW n \in Nat, NEW m \in Nat
        PROVE  [open |-> TRUE, base |-> n, changes |-> <<>>, pages |-> 0,
                complete |-> FALSE, since |-> m] \in Windows
    BY DEF Windows
  <2>3. Opened = [open |-> TRUE, base |-> Cursor, changes |-> <<>>, pages |-> 0,
                  complete |-> FALSE, since |-> Len(feed)]
    BY <1>2 DEF Opened, NoWindow
  <2>4. Opened \in Windows
    BY <2>1, <2>2, <2>3
  <2>5. /\ Opened.open /\ Opened.base = Cursor
        /\ Opened.base + Len(Opened.changes) = Cursor
    BY <2>1, <2>3
  <2> QED
    BY <2>1, <2>4, <2>5
<1> QED
  BY <1>1, <1>2

(* A page continues the window from the durable cursor.                    *)
LEMMA CollectPageKeepsInv ==
  ASSUME Inv, CollectPage
  PROVE  Inv'
<1> USE DEF Inv, CollectPage, provider
<1> DEFINE from == Opened.base + Len(Opened.changes)
<1>1. /\ Opened \in Windows
      /\ Opened.open /\ Opened.base = Cursor
      /\ from \in Nat /\ from <= Len(feed)
  BY OpenedContinuesTheCursor
<1>2. /\ PageAfter(from) \in Seq(Changes)
      /\ from + Len(PageAfter(from)) = PageEnd(from)
      /\ PageEnd(from) \in Nat /\ PageEnd(from) <= Len(feed)
  BY <1>1, PageIsASequence
<1> DEFINE done == PageEnd(from) = Len(feed)
<1>3. window' = [Opened EXCEPT !.changes = Opened.changes \o PageAfter(from),
                               !.pages = Opened.pages + 1, !.complete = done]
  OBVIOUS
<1>4. done \in BOOLEAN
  OBVIOUS
<1> HIDE DEF from, done, CollectPage
<1>5. /\ Opened.changes \o PageAfter(from) \in Seq(Changes)
      /\ Len(Opened.changes \o PageAfter(from)) = Len(Opened.changes) + Len(PageAfter(from))
      /\ Len(Opened.changes) \in Nat /\ Len(PageAfter(from)) \in Nat
      /\ Opened.base \in Nat /\ Opened.pages + 1 \in Nat
  BY <1>1, <1>2 DEF Windows
<1>6. /\ window' \in Windows
      /\ window'.open /\ window'.base = Cursor
      /\ window'.changes = Opened.changes \o PageAfter(from)
  BY <1>1, <1>3, <1>4, <1>5 DEF Windows
<1>7. WindowEnd' = PageEnd(from)
  <2>1. Len(window'.changes) = Len(Opened.changes) + Len(PageAfter(from))
    BY <1>5, <1>6
  <2>2. window'.base = Opened.base
    BY <1>1, <1>6
  <2>3. Opened.base + (Len(Opened.changes) + Len(PageAfter(from))) = from + Len(PageAfter(from))
    <3>1. from = Opened.base + Len(Opened.changes)
      BY DEF from
    <3>2. \A l, m, n \in Nat : l + (m + n) = (l + m) + n
      OBVIOUS
    <3> QED
      BY <3>1, <3>2, <1>5
  <2> QED
    BY <2>1, <2>2, <2>3, <1>2 DEF WindowEnd
<1> USE DEF CollectPage
<1>8. MirrorTypeOK'
  BY <1>6 DEF MirrorTypeOK
<1>9. Positions'
  BY <1>2, <1>6, <1>7 DEF Positions, Cursor, Traversing
<1>10. CatalogIsATree' /\ Phases' /\ StagedIsATree'
  BY <1>6 DEF CatalogIsATree, Phases, StagedIsATree, Traversing
<1> QED
  BY <1>8, <1>9, <1>10

(* A step of an execution that changes nothing durable.                    *)
LEMMA RunKeepsInv ==
  ASSUME Inv, run.task \in {"execute", "hydrate"}, run' \in Runs,
         run'.task \in {"execute", "hydrate", "hang"},
         UNCHANGED <<provider, durable, local, interruptions, torn>>
  PROVE  Inv'
<1> USE DEF Inv, provider, durable
<1>1. MirrorTypeOK'
  BY DEF MirrorTypeOK
<1>2. CatalogIsATree'
  BY DEF CatalogIsATree
<1>3. Positions' /\ Phases' /\ StagedIsATree'
  BY DEF Positions, Phases, StagedIsATree, WindowEnd, Cursor, Traversing
<1> QED
  BY <1>1, <1>2, <1>3

LEMMA BeginExecutionKeepsInv == Inv /\ BeginExecution => Inv'
<1> SUFFICES ASSUME Inv, BeginExecution PROVE Inv'
  OBVIOUS
<1> USE DEF Inv, BeginExecution, provider, durable
<1>1. catalog \in Trees /\ torn \in SUBSET Items
  BY DEF MirrorTypeOK
<1>2. run' \in Runs /\ run'.task = "execute"
  BY <1>1, IdleIsARun DEF Runs, Tasks
<1>3. MirrorTypeOK'
  BY <1>2 DEF MirrorTypeOK
<1>4. CatalogIsATree' /\ Positions' /\ Phases' /\ StagedIsATree'
  BY <1>2 DEF CatalogIsATree, Positions, Phases, StagedIsATree, WindowEnd, Cursor, Traversing
<1> QED
  BY <1>3, <1>4

LEMMA ResolvedKeepsInv ==
  ASSUME Inv, Resolving, NEW tree \in Trees, NEW lost \in SUBSET Items,
         NEW left \in SUBSET Items, Resolved(tree, lost, left)
  PROVE  Inv'
<1>1. run \in Runs /\ run.task = "execute"
  BY DEF Inv, MirrorTypeOK, Resolving
<1>2. run' = [run EXCEPT !.next = @ + 1, !.tree = tree, !.lost = lost, !.left = left]
  BY DEF Resolved
<1>3. run.next + 1 \in Nat \ {0}
  BY <1>1 DEF Runs
<1>4. run' \in Runs /\ run'.task = "execute"
  BY <1>1, <1>2, <1>3 DEF Runs
<1> QED
  BY <1>1, <1>4, RunKeepsInv DEF Resolved

(* The change being resolved, and the parent an accepted one names.        *)
LEMMA NextChangeType ==
  ASSUME Inv, Resolving
  PROVE  /\ NextChange \in Changes
         /\ run \in Runs
         /\ IsDescendant => NextChange.at \in Folders \cup {Root}
<1>1. run \in Runs /\ window.changes \in Seq(Changes)
  BY DEF Inv, MirrorTypeOK, Windows
<1>2. run.next \in 1..Len(window.changes)
  BY <1>1 DEF Runs, Resolving
<1>3. NextChange \in Changes
  BY <1>1, <1>2 DEF NextChange
<1>4. ASSUME IsDescendant PROVE NextChange.at \in Folders \cup {Root}
  BY <1>3, <1>4, PlacesAssumption DEF IsDescendant, Changes, Places
<1> QED
  BY <1>1, <1>3, <1>4

LEMMA ExecutionKeepsInv == Inv /\ Execution => Inv'
<1> SUFFICES ASSUME Inv, Execution PROVE Inv'
  OBVIOUS
<1> DEFINE i == NextChange.item
<1>1. run \in Runs /\ staged \in Trees /\ interruptions \in Nat
  BY DEF Inv, MirrorTypeOK
<1>2. run.tree \in Trees /\ run.found \in Trees /\ run.lost \in SUBSET Items
  BY <1>1 DEF Runs
<1>3. ASSUME Resolving, i # Root PROVE i \in Items
  BY <1>3, NextChangeType DEF Changes
<1>4. run.left \in SUBSET Items /\ \A k \in Items : LeftWith(k) \in SUBSET Items
  BY <1>1 DEF LeftWith, Runs
<1>5. CASE RevalidateRoot
  BY <1>5, <1>2, <1>4, ResolvedKeepsInv DEF RevalidateRoot
<1>6. CASE UpsertItem
  <2>1. /\ Resolving /\ i \in Items
        /\ NextChange.at \in Folders \cup {Root}
        /\ Resolved([run.tree EXCEPT ![i] = NextChange.at], run.lost \ {i}, run.left \ {i})
    BY <1>3, <1>6, NextChangeType DEF UpsertItem
  <2>2. [run.tree EXCEPT ![i] = NextChange.at] \in Trees
    BY <1>2, <2>1, UpsertKeepsTrees
  <2> QED
    BY <1>2, <1>4, <2>1, <2>2, ResolvedKeepsInv
<1>7. CASE DeleteSubtree
  <2>1. Resolving /\ i \in Items
    BY <1>3, <1>7 DEF DeleteSubtree
  <2>2. WithSubtreeDeleted(run.tree, i) \in Trees
    BY <1>2, <2>1, DeletionKeepsTrees
  <2> QED
    BY <1>2, <1>4, <1>7, <2>1, <2>2, ResolvedKeepsInv DEF DeleteSubtree
<1>8. CASE IgnoreChange
  <2>1. Resolving /\ i \in Items
    BY <1>3, <1>8 DEF IgnoreChange
  <2> QED
    BY <1>2, <1>4, <1>8, <2>1, ResolvedKeepsInv DEF IgnoreChange
<1>9. CASE DeleteCycle
  <2>1. run' \in Runs /\ run'.task = "hang"
    BY <1>1, <1>9 DEF DeleteCycle, Runs, Tasks
  <2> QED
    BY <2>1, <1>9, RunKeepsInv DEF DeleteCycle, Resolving
<1>10. CASE BeginHydration
  <2>1. /\ Resolving /\ i \in Folders /\ i \in Items
        /\ NextChange.at \in Folders \cup {Root}
    BY <1>10, NextChangeType, ItemsAssumption DEF BeginHydration
  <2>2. [Nothing EXCEPT ![i] = NextChange.at] \in Trees
    BY <2>1, NothingIsATree, UpsertKeepsTrees
  <2>3. run' = [run EXCEPT !.task = "hydrate", !.queue = {i},
                          !.found = [Nothing EXCEPT ![i] = NextChange.at]]
    BY <1>10 DEF BeginHydration
  <2>4. run' \in Runs /\ run'.task = "hydrate"
    BY <1>1, <2>1, <2>2, <2>3 DEF Runs, Tasks
  <2> QED
    BY <2>4, <1>10, RunKeepsInv DEF BeginHydration, Resolving
<1>11. CASE \E f \in Folders : HydrateFolder(f)
  <2>1. PICK f \in Folders : HydrateFolder(f)
    BY <1>11
  <2>2. PICK listing \in Listings(f) :
          run' = [run EXCEPT !.found = Overlaid(@, Rows(f, listing)),
                             !.queue = NextFolders(f, listing),
                             !.lost = @ \cup Hidden(f, listing)]
    BY <2>1 DEF HydrateFolder
  <2>3. listing \subseteq Items /\ Hidden(f, listing) \subseteq Items
    BY DEF Listings, ChildrenAt, Hidden
  <2>4. Rows(f, listing) \in Trees
    BY DEF Rows, Trees
  <2>5. Overlaid(run.found, Rows(f, listing)) \in Trees
    BY <1>2, <2>4, OverlayKeepsTrees
  <2>6. /\ NextFolders(f, listing) \in SUBSET (Folders \cup {Root})
        /\ run.lost \cup Hidden(f, listing) \in SUBSET Items
    BY <1>1, <1>2, <2>3 DEF NextFolders, Runs
  <2>7. run' \in Runs /\ run'.task = run.task
    BY <1>1, <2>2, <2>5, <2>6 DEF Runs
  <2> QED
    BY <2>1, <2>7, RunKeepsInv DEF HydrateFolder
<1>12. CASE FinishHydration
  <2>1. /\ run.next + 1 \in Nat \ {0}
        /\ Overlaid(run.tree, run.found) \in Trees
        /\ run.lost \ Held(run.found) \in SUBSET Items
        /\ run.left \ Held(run.found) \in SUBSET Items
    BY <1>1, <1>2, <1>4, OverlayKeepsTrees DEF Runs
  <2>2. run' = [run EXCEPT !.task = "execute", !.next = @ + 1,
                        !.tree = Overlaid(@, run.found), !.found = Nothing,
                        !.lost = @ \ Held(run.found), !.left = @ \ Held(run.found)]
    BY <1>12 DEF FinishHydration
  <2>3. run' \in Runs /\ run'.task = "execute"
    BY <1>1, <2>1, <2>2, NothingIsATree DEF Runs, Tasks
  <2> QED
    BY <2>3, <1>12, RunKeepsInv DEF FinishHydration
<1>13. CASE CommitWindow
  <2>1. Idle \in Runs /\ NoWindow \in Windows
    BY NothingIsATree DEF Idle, Runs, Tasks, NoWindow, Windows
  <2>2. /\ window.open /\ inventory.snapshot
        /\ WindowEnd \in Nat /\ WindowEnd <= Len(feed)
    BY <1>13 DEF CommitWindow, Executed, Inv, Phases, Positions, MirrorTypeOK, WindowEnd, Windows
  <2> DEFINE new == NowTorn
  <2>6. new \in SUBSET Items
    BY <1>2, <1>4 DEF NowTorn
  <2>7. torn' = new
    BY <1>13 DEF CommitWindow
  <2> HIDE DEF new
  <2>3. MirrorTypeOK'
    BY <1>2, <1>13, <2>1, <2>2, <2>6, <2>7 DEF CommitWindow, Inv, MirrorTypeOK, NoWindow, provider
  <2>4. CatalogIsATree'
    BY <1>13 DEF CommitWindow, CatalogIsATree
  <2>5. Positions' /\ Phases' /\ StagedIsATree'
    BY <1>13, <2>2 DEF CommitWindow, Inv, MirrorTypeOK, Positions, Phases, StagedIsATree,
                       WindowEnd, Cursor, Traversing, Idle, NoWindow, provider
  <2> QED
    BY <2>3, <2>4, <2>5 DEF Inv
<1>14. CASE RefuseExecution
  BY <1>1, <1>14, GivingUpKeepsInv DEF RefuseExecution, durable
<1> QED
  BY <1>5, <1>6, <1>7, <1>8, <1>9, <1>10, <1>11, <1>12, <1>13, <1>14 DEF Execution

LEMMA EnvironmentKeepsInv == Inv /\ Environment => Inv'
<1> SUFFICES ASSUME Inv, Environment PROVE Inv'
  OBVIOUS
<1>1. /\ place \in [Items -> Places \cup {Gone}]
      /\ local \in [clear : BOOLEAN, generation : Nat]
      /\ staged \in Trees /\ interruptions \in Nat
  BY DEF Inv, MirrorTypeOK
<1>2. CASE \E i \in Items, p \in Places : Move(i, p)
  <2>1. PICK i \in Items, p \in Places : Move(i, p)
    BY <1>2
  <2>2. Report(i) /\ place' \in [Items -> Places \cup {Gone}]
    BY <1>1, <2>1 DEF Move
  <2> QED
    BY <2>2, ProviderKeepsInv
<1>3. CASE \E i \in Items : Delete(i)
  <2>1. PICK i \in Items : Delete(i)
    BY <1>3
  <2>2. Report(i) /\ place' \in [Items -> Places \cup {Gone}]
    BY <1>1, <2>1 DEF Delete
  <2> QED
    BY <2>2, ProviderKeepsInv
<1>4. CASE RenameRoot
  BY <1>1, <1>4, ProviderKeepsInv DEF RenameRoot
<1>5. CASE LocalWork
  BY <1>1, <1>5, LocalWorkKeepsInv DEF LocalWork
<1>6. CASE SettleLocalWork
  BY <1>1, <1>6, LocalWorkKeepsInv DEF SettleLocalWork
<1>7. CASE Interrupt
  <2>1. interruptions' \in Nat
    BY <1>1, <1>7 DEF Interrupt
  <2> QED
    BY <1>7, <2>1, GivingUpKeepsInv DEF Interrupt
<1> QED
  BY <1>2, <1>3, <1>4, <1>5, <1>6, <1>7 DEF Environment

LEMMA TraversalKeepsInv == Inv /\ Traversal => Inv'
<1> SUFFICES ASSUME Inv, Traversal PROVE Inv'
  OBVIOUS
<1>1. interruptions \in Nat
  BY DEF Inv, MirrorTypeOK
<1>2. GiveUp => Inv'
  BY <1>1, GivingUpKeepsInv DEF GiveUp
<1>3. CASE \E f \in Folders \cup {Root} : StageFolder(f)
  BY <1>3, StageFolderKeepsInv
<1>4. CASE \E f \in Folders \cup {Root} : RefuseFolder(f)
  BY <1>2, <1>4 DEF RefuseFolder
<1>5. CASE CommitBootstrap
  <2>1. ~window.open
    BY <1>5 DEF CommitBootstrap, Inv, Phases, MirrorTypeOK
  <2> QED
    BY <1>5, <2>1, PromotionKeepsInv DEF CommitBootstrap, Traversing
<1>6. CASE CommitRebaseline
  BY <1>6, PromotionKeepsInv DEF CommitRebaseline, Traversing
<1>7. CASE RefuseRebaseline
  BY <1>2, <1>7 DEF RefuseRebaseline
<1> QED
  BY <1>3, <1>4, <1>5, <1>6, <1>7 DEF Traversal

LEMMA NextInv == Inv /\ [Next]_vars => Inv'
<1> SUFFICES ASSUME Inv, [Next]_vars PROVE Inv'
  OBVIOUS
<1>1. CASE Environment
  BY <1>1, EnvironmentKeepsInv
<1>2. CASE BeginBootstrap
  BY <1>2, BeginTraversalKeepsInv DEF BeginBootstrap
<1>3. CASE BeginRebaseline
  BY <1>3, BeginTraversalKeepsInv DEF BeginRebaseline
<1>4. CASE Traversal
  BY <1>4, TraversalKeepsInv
<1>5. CASE CollectPage
  BY <1>5, CollectPageKeepsInv
<1>6. CASE BeginExecution
  BY <1>6, BeginExecutionKeepsInv
<1>7. CASE Execution
  BY <1>7, ExecutionKeepsInv
<1>8. CASE UNCHANGED vars
  BY <1>8 DEF vars, Inv, MirrorTypeOK, CatalogIsATree, Positions, Phases, StagedIsATree,
              WindowEnd, Cursor, Traversing
<1> QED
  BY <1>1, <1>2, <1>3, <1>4, <1>5, <1>6, <1>7, <1>8 DEF Next

LEMMA AlwaysInv == Spec => []Inv
<1>1. Init => Inv
  BY InitInv
<1>2. Inv /\ [Next]_vars => Inv'
  BY NextInv
<1> QED
  BY <1>1, <1>2, PTL DEF Spec

(* The flags, the cursor, the window, the staged rows and the call in      *)
(* progress are of their kinds after any sequence of calls, and no change  *)
(* window is open before a snapshot was promoted.                          *)
THEOREM MirrorTypeCorrect == Spec => []MirrorTypeOK
<1>1. Inv => MirrorTypeOK
  BY DEF Inv
<1> QED
  BY <1>1, AlwaysInv, PTL

(* The durable catalog hangs together below the root after every promotion *)
(* and every window commit, whatever the provider did during the traversal *)
(* or between a page and its execution, and whatever was interrupted.      *)
THEOREM CatalogStaysATree == Spec => []CatalogIsATree
<1>1. Inv => CatalogIsATree
  BY DEF Inv
<1> QED
  BY <1>1, AlwaysInv, PTL
-----------------------------------------------------------------------------
(* The refinement.                                                         *)

(* The two modules speak of the same trees.                                *)
LEMMA SameTrees ==
  /\ Authority!Trees = Trees /\ Authority!Nothing = Nothing
  /\ \A tree : Authority!Complete(tree) <=> Complete(tree)
BY DEF Authority!Trees, Trees, Authority!Nothing, Nothing, Authority!Complete, Complete,
       Authority!Held, Held, Authority!Under, Under

LEMMA InitMaps == Init => Authority!Init
BY SameTrees DEF Init, Authority!Init, Cursor

(* A step that touches neither the catalog nor the feed is a stutter.      *)
LEMMA QuietStep ==
  ASSUME UNCHANGED <<inventory, catalog, feed>>
  PROVE  UNCHANGED Authority!vars
BY DEF Authority!vars, Cursor

LEMMA FeedGrows ==
  ASSUME Inv, NEW i, Report(i)
  PROVE  Authority!Grow
<1>1. Len(feed') = Len(feed) + 1
  BY DEF Report, Inv, MirrorTypeOK
<1> QED
  BY <1>1 DEF Authority!Grow, Report, durable, Cursor

(* Both promotions install a tree at their fence.                          *)
LEMMA PromotionInstalls ==
  ASSUME Inv, Traversing, Promote, ~inventory.snapshot \/ inventory.caughtUp
  PROVE  Authority!Install
<1>1. /\ Cursor' = run.fence /\ catalog' = staged /\ feed' = feed
      /\ inventory'.snapshot /\ ~inventory'.caughtUp
  BY DEF Promote, provider, Cursor
<1>2. Cursor \in Nat /\ Len(feed) \in Nat /\ run.fence \in Nat /\ staged \in Trees
  BY DEF Inv, MirrorTypeOK, Runs, Cursor
<1>3. Cursor' \in Cursor..Len(feed)
  BY <1>1, <1>2 DEF Inv, Positions
<1>4. catalog' \in Trees /\ Complete(catalog')
  BY <1>1, <1>2 DEF Inv, StagedIsATree
<1>5. Authority!Replace
  BY <1>1, <1>3, <1>4, SameTrees DEF Authority!Replace
<1> QED
  BY <1>1, <1>5 DEF Authority!Install

LEMMA WindowAdvances ==
  ASSUME Inv, CommitWindow
  PROVE  Authority!Advance
<1>1. /\ window.open /\ inventory.snapshot /\ window.base = Cursor
      /\ run.tree \in Trees
  BY DEF CommitWindow, Executed, Inv, Phases, Positions, MirrorTypeOK, Runs
<1>2. /\ Cursor' = WindowEnd /\ catalog' = run.tree /\ feed' = feed
      /\ inventory'.snapshot /\ inventory'.caughtUp
  BY <1>1 DEF CommitWindow, provider, Cursor, Inv, MirrorTypeOK
<1>3. Cursor' \in Cursor..Len(feed)
  BY <1>1, <1>2 DEF Inv, Positions, MirrorTypeOK, Windows, WindowEnd, Cursor
<1>4. Authority!Replace
  BY <1>1, <1>2, <1>3, SameTrees DEF Authority!Replace, CommitWindow
<1> QED
  BY <1>1, <1>2, <1>4 DEF Authority!Advance

LEMMA StepMaps == Inv /\ [Next]_vars => [Authority!Next]_Authority!vars
<1> SUFFICES ASSUME Inv, [Next]_vars PROVE Authority!Next \/ UNCHANGED Authority!vars
  OBVIOUS
<1>1. CASE Environment
  BY <1>1, FeedGrows, QuietStep DEF Environment, Move, Delete, RenameRoot, LocalWork,
     SettleLocalWork, Interrupt, provider, durable, Authority!Next
<1>2. CASE BeginBootstrap \/ BeginRebaseline
  BY <1>2, QuietStep DEF BeginBootstrap, BeginRebaseline, BeginTraversal, provider
<1>3. CASE Traversal
  <2>1. CASE \E f \in Folders \cup {Root} : StageFolder(f) \/ RefuseFolder(f)
    BY <2>1, QuietStep DEF StageFolder, RefuseFolder, GiveUp, provider
  <2>2. CASE CommitBootstrap
    <3>1. ~inventory.snapshot
      BY <2>2 DEF CommitBootstrap, Inv, Phases
    <3> QED
      BY <2>2, <3>1, PromotionInstalls DEF CommitBootstrap, Traversing, Authority!Next
  <2>3. CASE CommitRebaseline
    BY <2>3, PromotionInstalls DEF CommitRebaseline, Rebaselinable, Traversing, Authority!Next
  <2>4. CASE RefuseRebaseline
    BY <2>4, QuietStep DEF RefuseRebaseline, GiveUp, provider
  <2> QED
    BY <1>3, <2>1, <2>2, <2>3, <2>4 DEF Traversal
<1>4. CASE CollectPage
  BY <1>4, QuietStep DEF CollectPage, provider
<1>5. CASE BeginExecution
  BY <1>5, QuietStep DEF BeginExecution, provider, durable
<1>6. CASE Execution
  <2>1. CASE CommitWindow
    BY <2>1, WindowAdvances DEF Authority!Next
  <2>2. CASE ~CommitWindow
    BY <1>6, <2>2, QuietStep DEF Execution, RevalidateRoot, UpsertItem, DeleteSubtree,
       DeleteCycle, IgnoreChange, BeginHydration, HydrateFolder, FinishHydration,
       RefuseExecution, Resolved, provider, durable
  <2> QED
    BY <2>1, <2>2
<1>7. CASE UNCHANGED vars
  BY <1>7, QuietStep DEF vars
<1> QED
  BY <1>1, <1>2, <1>3, <1>4, <1>5, <1>6, <1>7 DEF Next

(* The mirror implements CatalogAuthority: its readers see one tree and    *)
(* one position that change together and never go back, through every      *)
(* interrupted traversal, page, execution and rebaseline.                  *)
THEOREM MirrorKeepsAuthority == Spec => KeepsAuthority
<1>1. Init => Authority!Init
  BY InitMaps
<1>2. Inv /\ [Next]_vars => [Authority!Next]_Authority!vars
  BY StepMaps
<1> QED
  BY <1>1, <1>2, AlwaysInv, PTL DEF Spec, KeepsAuthority, Authority!Spec
-----------------------------------------------------------------------------
(* What the trees say of the provider.                                     *)

(* The log has an entry of i after position n.                             *)
Later(log, i, n) == \E m \in (n + 1)..Len(log) : log[m] = i

(* Row by row, a tree of position n is the provider's: a row it has is     *)
(* true unless the item has changed since, and of the children of `tops`   *)
(* it has every row, those of `out` excepted.                              *)
Mirrors(tree, tops, out, n, parent, log) ==
  /\ \A i \in Items : tree[i] # None => Later(log, i, n) \/ tree[i] = parent[i]
  /\ \A i \in Items : parent[i] \in tops =>
       \/ Later(log, i, n)
       \/ i \in Under(parent, Gone)
       \/ i \in out
       \/ tree[i] = parent[i]

(* The provider's folders are a forest.                                    *)
NoLoops == \A i \in Items : i \notin Under(place, i)

CatalogMirrors ==
  inventory.snapshot =>
    Mirrors(catalog, Held(catalog) \cup {Root}, torn, Cursor, place, feed)

(* A traversal has the children of the folders it has listed.              *)
StagedMirrors ==
  Traversing =>
    Mirrors(staged, (Held(staged) \cup {Root}) \ run.queue, run.lost,
            run.fence, place, feed)

(* A page names the parent an item has, unless it has changed again.       *)
PagesMirror ==
  window.open =>
    \A n \in 1..Len(window.changes) :
      LET c == window.changes[n] IN
      /\ c.item = feed[window.base + n]
      /\ c.item \in Items =>
           \/ Later(feed, c.item, window.base + n)
           \/ c.at = place[c.item]
           \/ c.at = Gone /\ Deleted(c.item)

Executing == run.task \in {"execute", "hydrate", "hang"}

(* The position whose changes the projection has applied.                  *)
Applied == window.base + run.next - 1

(* An execution takes the catalog from the cursor to the end of the window *)
(* change by change. What it leaves out because of a folder that is        *)
(* outside stays outside until that folder, or the item, changes.          *)
ProjectionMirrors ==
  Executing =>
    /\ window.complete
    /\ run.next <= Len(window.changes) + 1
    /\ run.task # "execute" => run.next <= Len(window.changes)
    /\ Mirrors(run.tree, Held(run.tree) \cup {Root}, run.lost \cup run.left,
               Applied, place, feed)
    /\ \A i \in run.left :
         \/ Later(feed, i, Applied)
         \/ ChangedSince(i, WindowEnd)
         \/ ~Below(i)

(* A hydration has the children of the folders it has listed.              *)
HydrationMirrors ==
  run.task = "hydrate" =>
    /\ NextChange.item \in Held(run.found)
    /\ Mirrors(run.found, Held(run.found) \ run.queue, run.lost,
               Applied + 1, place, feed)

Mirroring ==
  /\ NoLoops
  /\ CatalogMirrors
  /\ StagedMirrors
  /\ PagesMirror
  /\ ProjectionMirrors
  /\ HydrationMirrors

MirrorInv == Inv /\ Mirroring
-----------------------------------------------------------------------------
(* Forests.                                                                *)

(* Under is closed under children, ...                                     *)
LEMMA UnderIsClosed ==
  ASSUME NEW parent, NEW top, NEW i \in Items,
         parent[i] = top \/ parent[i] \in Under(parent, top)
  PROVE  i \in Under(parent, top)
<1> SUFFICES ASSUME NEW S \in SUBSET Items,
                    \A k \in Items : parent[k] \in S \cup {top} => k \in S
             PROVE  i \in S
  BY DEF Under
<1> QED
  BY DEF Under

(* ... the least such set, ...                                             *)
LEMMA UnderIsLeast ==
  ASSUME NEW parent, NEW top, NEW S \in SUBSET Items,
         \A k \in Items : parent[k] \in S \cup {top} => k \in S
  PROVE  Under(parent, top) \subseteq S
BY DEF Under

(* ... and a set of items.                                                 *)
LEMMA UnderIsItems ==
  ASSUME NEW parent, NEW top
  PROVE  Under(parent, top) \subseteq Items
BY DEF Under

(* An item is below another only through its parent.                       *)
LEMMA UnderHasParent ==
  ASSUME NEW parent, NEW top, NEW i \in Under(parent, top)
  PROVE  parent[i] = top \/ parent[i] \in Under(parent, top)
<1> DEFINE U == Under(parent, top)
           S == {k \in Items : parent[k] \in U \cup {top}}
<1>1. ASSUME NEW k \in Items, parent[k] \in S \cup {top} PROVE k \in S
  <2>1. CASE parent[k] = top
    BY <2>1
  <2>2. CASE parent[k] \in S
    <3>1. parent[k] \in U
      BY <2>2, UnderIsClosed
    <3> QED
      BY <3>1
  <2> QED
    BY <1>1, <2>1, <2>2
<1>2. U \subseteq S
  BY <1>1, UnderIsLeast
<1> QED
  BY <1>2

LEMMA UnderIsTransitive ==
  ASSUME NEW parent, NEW top, NEW i \in Under(parent, top)
  PROVE  Under(parent, i) \subseteq Under(parent, top)
<1> DEFINE S == Under(parent, top)
<1>1. ASSUME NEW k \in Items, parent[k] \in S \cup {i} PROVE k \in S
  BY <1>1, UnderIsClosed
<1> HIDE DEF S
<1>2. S \in SUBSET Items
  BY UnderIsItems DEF S
<1>3. Under(parent, i) \subseteq S
  BY <1>1, <1>2, UnderIsLeast
<1> QED
  BY <1>3 DEF S

(* What is below an item stays below it while none of it moves.            *)
LEMMA UnderStays ==
  ASSUME NEW parent, NEW new, NEW top,
         \A k \in Under(parent, top) : new[k] = parent[k]
  PROVE  Under(parent, top) \subseteq Under(new, top)
<1> DEFINE S == {k \in Items : k \in Under(parent, top) => k \in Under(new, top)}
<1>1. ASSUME NEW k \in Items, parent[k] \in S \cup {top} PROVE k \in S
  <2> SUFFICES ASSUME k \in Under(parent, top) PROVE k \in Under(new, top)
    OBVIOUS
  <2>1. new[k] = parent[k]
    OBVIOUS
  <2>2. CASE parent[k] = top
    BY <2>1, <2>2, UnderIsClosed
  <2>3. CASE parent[k] # top
    <3>1. parent[k] \in S /\ parent[k] \in Under(parent, top)
      BY <1>1, <2>3, UnderHasParent
    <3> QED
      BY <2>1, <3>1, UnderIsClosed
  <2> QED
    BY <2>2, <2>3
<1>2. Under(parent, top) \subseteq S
  BY <1>1, UnderIsLeast
<1> QED
  BY <1>2

(* Two roots have nothing in common.                                       *)
LEMMA UnderIsDisjoint ==
  ASSUME NEW parent, NEW a, NEW b, a # b, a \notin Items, b \notin Items
  PROVE  Under(parent, a) \cap Under(parent, b) = {}
<1> DEFINE S == Items \ Under(parent, b)
<1>1. ASSUME NEW k \in Items, parent[k] \in S \cup {a} PROVE k \in S
  <2>1. parent[k] # b /\ parent[k] \notin Under(parent, b)
    BY <1>1, UnderIsItems
  <2> QED
    BY <2>1, UnderHasParent
<1>2. Under(parent, a) \subseteq S
  BY <1>1, UnderIsLeast
<1> QED
  BY <1>2

(* A loop hangs below nothing.                                             *)
LEMMA UnderRootNoLoop ==
  ASSUME NEW parent, NEW top, top \notin Items, NEW i \in Under(parent, top)
  PROVE  i \notin Under(parent, i)
<1> DEFINE S == {k \in Items : k \notin Under(parent, k)}
<1>1. ASSUME NEW k \in Items, parent[k] \in S \cup {top} PROVE k \in S
  <2> SUFFICES ASSUME k \in Under(parent, k) PROVE FALSE
    OBVIOUS
  <2>1. parent[k] = k \/ parent[k] \in Under(parent, k)
    BY UnderHasParent
  <2>2. parent[k] \in Items /\ parent[k] \in S
    BY <1>1, <2>1, UnderIsItems
  <2>3. parent[k] # k
    BY <2>2
  <2>4. k \in Under(parent, parent[k])
    BY UnderIsClosed
  <2>5. Under(parent, k) \subseteq Under(parent, parent[k])
    BY <2>4, UnderIsTransitive
  <2> QED
    BY <2>1, <2>2, <2>3, <2>5
<1>2. Under(parent, top) \subseteq S
  BY <1>1, UnderIsLeast
<1> QED
  BY <1>2

(* Moving an item to where it is not below itself makes no loop.           *)
LEMMA MoveMakesNoLoop ==
  ASSUME NEW parent, NEW i \in Items, NEW p,
         \A k \in Items : k \notin Under(parent, k),
         p # i, p \notin Under(parent, i),
         NEW new, \A k \in Items : new[k] = IF k = i THEN p ELSE parent[k],
         NEW k \in Items
  PROVE  k \notin Under(new, k)
<1> DEFINE U == Under(parent, i)
           V == Under(parent, k)
<1>1. CASE k \in U \cup {i}
  <2>1. V \subseteq U
    BY <1>1, UnderIsTransitive
  <2>2. ASSUME NEW j \in Items, new[j] \in V \cup {k} PROVE j \in V
    <3>1. j # i
      BY <1>1, <2>1, <2>2
    <3> QED
      BY <2>2, <3>1, UnderIsClosed
  <2>3. V \in SUBSET Items
    BY UnderIsItems
  <2> HIDE DEF V
  <2>4. Under(new, k) \subseteq V
    BY <2>2, <2>3, UnderIsLeast
  <2> QED
    BY <2>4 DEF V
<1>2. CASE k \notin U \cup {i}
  <2> DEFINE S == V \cup U \cup {i}
  <2>1. ASSUME NEW j \in Items, new[j] \in S \cup {k} PROVE j \in S
    <3>1. CASE j = i
      BY <3>1
    <3>2. CASE j # i
      <4>1. parent[j] \in V \cup {k} => j \in V
        BY UnderIsClosed
      <4>2. parent[j] \in U \cup {i} => j \in U
        BY UnderIsClosed
      <4> QED
        BY <2>1, <3>2, <4>1, <4>2
    <3> QED
      BY <3>1, <3>2
  <2>2. S \in SUBSET Items
    BY UnderIsItems
  <2> HIDE DEF S
  <2>3. Under(new, k) \subseteq S
    BY <2>1, <2>2, UnderIsLeast
  <2> QED
    BY <1>2, <2>3 DEF S
<1> QED
  BY <1>1, <1>2

-----------------------------------------------------------------------------
(* Positions of the feed.                                                  *)

LEMMA LaterIsEarlier ==
  ASSUME NEW log, NEW i, NEW n \in Nat, NEW m \in Nat, m <= n, Len(log) \in Nat,
         Later(log, i, n)
  PROVE  Later(log, i, m)
<1>1. PICK l \in (n + 1)..Len(log) : log[l] = i
  BY DEF Later
<1>2. l \in (m + 1)..Len(log)
  BY <1>1
<1> QED
  BY <1>1, <1>2 DEF Later

(* An entry is the last of its item, or there is a later one.              *)
LEMMA LaterButOne ==
  ASSUME NEW log, NEW i, NEW n \in Nat, Len(log) \in Nat,
         Later(log, i, n), log[n + 1] # i
  PROVE  Later(log, i, n + 1)
<1>1. PICK l \in (n + 1)..Len(log) : log[l] = i
  BY DEF Later
<1>2. l # n + 1
  BY <1>1
<1>3. l \in (n + 1 + 1)..Len(log)
  BY <1>1, <1>2
<1> QED
  BY <1>1, <1>3 DEF Later

(* A tree read at a later position promises more.                          *)
LEMMA MirrorsLater ==
  ASSUME NEW tree, NEW tops, NEW out, NEW parent, NEW log, Len(log) \in Nat,
         NEW n \in Nat, NEW m \in Nat, m <= n, Mirrors(tree, tops, out, n, parent, log)
  PROVE  Mirrors(tree, tops, out, m, parent, log)
BY LaterIsEarlier DEF Mirrors
-----------------------------------------------------------------------------
(* The provider.                                                           *)

(* One item moves, or is changed where it is, and is reported.             *)
ProviderStep(i) ==
  /\ Report(i)
  /\ \A k \in Items : k # i => place'[k] = place[k]
  /\ i \in Items => ~Deleted(i)

LEMMA ProviderStepsAre ==
  ASSUME Inv
  PROVE  /\ \A i \in Items, p \in Places : Move(i, p) => ProviderStep(i)
         /\ \A i \in Items : Delete(i) => ProviderStep(i)
         /\ RenameRoot => ProviderStep(Root)
<1>1. place \in [Items -> Places \cup {Gone}]
  BY DEF Inv, MirrorTypeOK
<1> QED
  BY <1>1, ItemsAssumption DEF ProviderStep, Move, Delete, RenameRoot

LEMMA ProviderLog ==
  ASSUME Inv, NEW i \in Items \cup {Root}, Report(i)
  PROVE  /\ Len(feed) \in Nat /\ Len(feed') = Len(feed) + 1
         /\ feed'[Len(feed) + 1] = i
         /\ \A n \in 1..Len(feed) : feed'[n] = feed[n]
BY DEF Inv, MirrorTypeOK, Report

LEMMA ProviderLater ==
  ASSUME Inv, NEW i \in Items \cup {Root}, Report(i), NEW n \in Nat
  PROVE  /\ \A k : Later(feed, k, n) => Later(feed', k, n)
         /\ n <= Len(feed) => Later(feed', i, n)
<1>1. ASSUME NEW k, Later(feed, k, n) PROVE Later(feed', k, n)
  <2>1. PICK l \in (n + 1)..Len(feed) : feed[l] = k
    BY <1>1 DEF Later
  <2>2. l \in (n + 1)..Len(feed') /\ feed'[l] = k
    BY <2>1, ProviderLog
  <2> QED
    BY <2>2 DEF Later
<1>2. ASSUME n <= Len(feed) PROVE Later(feed', i, n)
  <2>1. Len(feed) + 1 \in (n + 1)..Len(feed') /\ feed'[Len(feed) + 1] = i
    BY <1>2, ProviderLog
  <2> QED
    BY <2>1 DEF Later
<1> QED
  BY <1>1, <1>2

(* What was deleted does not come back.                                    *)
LEMMA DeletedStays ==
  ASSUME NEW i \in Items \cup {Root}, ProviderStep(i)
  PROVE  Under(place, Gone) \subseteq Under(place', Gone)
<1>1. \A k \in Under(place, Gone) : place'[k] = place[k]
  BY UnderIsItems DEF ProviderStep, Deleted
<1> QED
  BY <1>1, UnderStays

(* A tree stays as true as it was.                                         *)
LEMMA ProviderMirrors ==
  ASSUME Inv, NEW i \in Items \cup {Root}, ProviderStep(i),
         NEW tree, NEW tops, NEW out, NEW n \in Nat, n <= Len(feed),
         Mirrors(tree, tops, out, n, place, feed)
  PROVE  Mirrors(tree, tops, out, n, place', feed')
<1>1. \A k \in Items : Later(feed, k, n) => Later(feed', k, n)
  BY ProviderLater DEF ProviderStep
<1>2. \A k \in Items : Later(feed', k, n) \/ place'[k] = place[k]
  BY ProviderLater DEF ProviderStep
<1>3. Under(place, Gone) \subseteq Under(place', Gone)
  BY DeletedStays
<1> QED
  BY <1>1, <1>2, <1>3 DEF Mirrors

(* What has changed, itself or above, since a position is not yet read.    *)
LEMMA ProviderSince ==
  ASSUME Inv, NEW i \in Items \cup {Root}, ProviderStep(i),
         NEW n \in Nat, n <= Len(feed), NEW k \in Items, ChangedSince(k, n)
  PROVE  ChangedSince(k, n)'
<1>1. PICK m \in (n + 1)..Len(feed) : feed[m] = k \/ k \in Under(place, feed[m])
  BY DEF ChangedSince
<1>2. m \in (n + 1)..Len(feed') /\ feed'[m] = feed[m]
  BY <1>1, ProviderLog DEF ProviderStep
<1>3. CASE feed[m] = k \/ k \in Under(place', feed[m])
  BY <1>2, <1>3 DEF ChangedSince
<1>4. CASE feed[m] # k /\ k \notin Under(place', feed[m])
  <2>1. k \in Under(place, feed[m])
    BY <1>1, <1>4
  <2> DEFINE S == {j \in Items : \/ j \in Under(place', feed[m])
                                 \/ j = i \/ j \in Under(place', i)}
  <2>2. ASSUME NEW j \in Items, place[j] \in S \cup {feed[m]} PROVE j \in S
    <3>1. CASE j = i
      BY <3>1
    <3>2. CASE j # i
      <4>1. place'[j] = place[j]
        BY <3>2 DEF ProviderStep
      <4> QED
        BY <2>2, <4>1, UnderIsClosed
    <3> QED
      BY <3>1, <3>2
  <2>3. k \in S
    BY <2>1, <2>2, UnderIsLeast
  <2>4. k = i \/ k \in Under(place', i)
    BY <1>4, <2>3
  <2>5. Len(feed) + 1 \in (n + 1)..Len(feed') /\ feed'[Len(feed) + 1] = i
    BY ProviderLog DEF ProviderStep
  <2> QED
    BY <2>4, <2>5 DEF ChangedSince
<1> QED
  BY <1>3, <1>4

(* An item comes below the root only with a change of it or above it.      *)
LEMMA ProviderBelow ==
  ASSUME Inv, NEW i \in Items \cup {Root}, ProviderStep(i),
         NEW n \in Nat, n <= Len(feed), NEW k \in Items, ~Below(k), Below(k)'
  PROVE  ChangedSince(k, n)'
<1> DEFINE S == {j \in Items : \/ j \in Under(place, Root)
                               \/ j = i \/ j \in Under(place', i)}
<1>1. ASSUME NEW j \in Items, place'[j] \in S \cup {Root} PROVE j \in S
  <2>1. CASE j = i
    BY <2>1
  <2>2. CASE j # i
    <3>1. place'[j] = place[j]
      BY <2>2 DEF ProviderStep
    <3> QED
      BY <1>1, <3>1, UnderIsClosed
  <2> QED
    BY <2>1, <2>2
<1>2. k \in S
  BY <1>1, UnderIsLeast DEF Below
<1>3. k = i \/ k \in Under(place', i)
  BY <1>2 DEF Below
<1>4. Len(feed) + 1 \in (n + 1)..Len(feed') /\ feed'[Len(feed) + 1] = i
  BY ProviderLog DEF ProviderStep
<1> QED
  BY <1>3, <1>4 DEF ChangedSince

-----------------------------------------------------------------------------
(* The mirror invariant.                                                   *)

LEMMA Bounds ==
  ASSUME MirrorInv
  PROVE  /\ Len(feed) \in Nat /\ Cursor \in Nat /\ Cursor <= Len(feed)
         /\ window.base \in Nat /\ Len(window.changes) \in Nat /\ WindowEnd \in Nat
         /\ window.open => WindowEnd <= Len(feed)
         /\ run.next \in Nat \ {0} /\ run.fence \in Nat /\ Applied \in Nat
         /\ Traversing => run.fence <= Len(feed)
         /\ Executing => window.open /\ window.complete /\ Applied <= WindowEnd
         /\ run.task \in {"hydrate", "hang"} => Applied + 1 <= WindowEnd
<1>1. /\ Len(feed) \in Nat /\ Cursor \in Nat /\ window \in Windows /\ run \in Runs
  BY DEF MirrorInv, Inv, MirrorTypeOK, Cursor
<1>2. /\ window.base \in Nat /\ Len(window.changes) \in Nat
      /\ run.next \in Nat \ {0} /\ run.fence \in Nat
  BY <1>1 DEF Windows, Runs
<1>3. /\ Cursor <= Len(feed)
      /\ window.open => WindowEnd <= Len(feed)
      /\ Traversing => run.fence <= Len(feed)
      /\ Executing => window.open
  BY DEF MirrorInv, Inv, Positions, Phases, Executing
<1>4. /\ Executing => window.complete /\ run.next <= Len(window.changes) + 1
      /\ run.task \in {"hydrate", "hang"} => run.next <= Len(window.changes)
  BY DEF MirrorInv, Mirroring, ProjectionMirrors, Executing
<1>5. Applied \in Nat /\ WindowEnd \in Nat
  BY <1>2 DEF WindowEnd, Applied
<1>6. Executing => Applied <= WindowEnd
  BY <1>2, <1>4 DEF WindowEnd, Applied
<1>7. run.task \in {"hydrate", "hang"} => Applied + 1 <= WindowEnd
  BY <1>2, <1>4 DEF WindowEnd, Applied
<1> QED
  BY <1>1, <1>2, <1>3, <1>4, <1>5, <1>6, <1>7

LEMMA InitMirroring == Init => Mirroring
<1> SUFFICES ASSUME Init PROVE Mirroring
  OBVIOUS
<1>1. NoLoops
  BY HomesAssumption DEF Init, NoLoops
<1>2. CatalogMirrors /\ StagedMirrors /\ PagesMirror /\ ProjectionMirrors /\ HydrationMirrors
  BY DEF Init, CatalogMirrors, StagedMirrors, PagesMirror, ProjectionMirrors, HydrationMirrors,
     Idle, Traversing, Executing, NoWindow
<1> QED
  BY <1>1, <1>2 DEF Mirroring

(* Pages that said what the provider is name an item that has changed      *)
(* since, or say it still.                                                 *)
LEMMA ProviderPages ==
  ASSUME MirrorInv, NEW i \in Items \cup {Root}, ProviderStep(i)
  PROVE  PagesMirror'
<1>1. window' = window
  BY DEF ProviderStep, Report, durable
<1> SUFFICES ASSUME window.open, NEW n \in 1..Len(window.changes)
             PROVE  LET c == window.changes[n] IN
                    /\ c.item = feed'[window.base + n]
                    /\ c.item \in Items =>
                         \/ Later(feed', c.item, window.base + n)
                         \/ c.at = place'[c.item]
                         \/ c.at = Gone /\ c.item \in Under(place', Gone)
  BY <1>1 DEF PagesMirror, Deleted
<1> DEFINE c == window.changes[n]
           m == window.base + n
<1>2. m \in 1..Len(feed)
  BY Bounds DEF WindowEnd
<1>3. /\ c.item = feed[m]
      /\ c.item \in Items => \/ Later(feed, c.item, m)
                             \/ c.at = place[c.item]
                             \/ c.at = Gone /\ c.item \in Under(place, Gone)
  BY DEF MirrorInv, Mirroring, PagesMirror, Deleted
<1>4. feed'[m] = feed[m]
  BY <1>2, ProviderLog DEF MirrorInv, ProviderStep
<1>5. \A k \in Items : Later(feed, k, m) => Later(feed', k, m)
  BY <1>2, ProviderLater DEF MirrorInv, ProviderStep
<1>6. \A k \in Items : Later(feed', k, m) \/ place'[k] = place[k]
  <2>1. m \in Nat /\ m <= Len(feed)
    BY <1>2, Bounds
  <2> QED
    BY <2>1, ProviderLater DEF MirrorInv, ProviderStep
<1>7. Under(place, Gone) \subseteq Under(place', Gone)
  BY DeletedStays
<1> HIDE DEF c, m
<1>8. c.item = feed'[m]
  BY <1>3, <1>4
<1>9. ASSUME c.item \in Items
      PROVE  \/ Later(feed', c.item, m)
             \/ c.at = place'[c.item]
             \/ c.at = Gone /\ c.item \in Under(place', Gone)
  BY <1>3, <1>5, <1>6, <1>7, <1>9
<1> QED
  BY <1>8, <1>9 DEF c, m

LEMMA ProviderKeepsMirroring ==
  ASSUME MirrorInv, NEW i \in Items \cup {Root}, ProviderStep(i), NoLoops'
  PROVE  Mirroring'
<1> USE DEF MirrorInv
<1>1. /\ UNCHANGED <<inventory, catalog, window, staged, run, torn>>
  BY DEF ProviderStep, Report, durable
<1>2. CatalogMirrors'
  <2>1. inventory.snapshot =>
          Mirrors(catalog, Held(catalog) \cup {Root}, torn, Cursor, place', feed')
    BY Bounds, ProviderMirrors DEF Mirroring, CatalogMirrors
  <2> QED
    BY <1>1, <2>1 DEF CatalogMirrors, Cursor
<1>3. StagedMirrors'
  <2>1. Traversing =>
          Mirrors(staged, (Held(staged) \cup {Root}) \ run.queue, run.lost, run.fence,
                  place', feed')
    BY Bounds, ProviderMirrors DEF Mirroring, StagedMirrors
  <2> QED
    BY <1>1, <2>1 DEF StagedMirrors, Traversing
<1>4. PagesMirror'
  BY ProviderPages
<1>5. ProjectionMirrors'
  <2> SUFFICES ASSUME Executing
               PROVE  /\ Mirrors(run.tree, Held(run.tree) \cup {Root},
                                 run.lost \cup run.left, Applied, place', feed')
                      /\ \A k \in run.left :
                           \/ Later(feed', k, Applied)
                           \/ ChangedSince(k, WindowEnd)'
                           \/ ~Below(k)'
    BY <1>1 DEF Mirroring, ProjectionMirrors, Executing, Applied, WindowEnd
  <2>1. Applied \in Nat /\ Applied <= Len(feed) /\ WindowEnd \in Nat /\ WindowEnd <= Len(feed)
    BY Bounds
  <2>2. Mirrors(run.tree, Held(run.tree) \cup {Root}, run.lost \cup run.left, Applied,
                place', feed')
    BY <2>1, ProviderMirrors DEF Mirroring, ProjectionMirrors
  <2>3. ASSUME NEW k \in run.left, ~Later(feed', k, Applied), Below(k)'
        PROVE  ChangedSince(k, WindowEnd)'
    <3>1. k \in Items
      BY DEF Inv, MirrorTypeOK, Runs
    <3>2. ~Later(feed, k, Applied)
      BY <2>1, <2>3, ProviderLater DEF ProviderStep
    <3>3. ChangedSince(k, WindowEnd) \/ ~Below(k)
      BY <3>2 DEF Mirroring, ProjectionMirrors
    <3>4. WindowEnd' = WindowEnd
      BY <1>1 DEF WindowEnd
    <3>5. CASE ChangedSince(k, WindowEnd)
      <4> DEFINE w == WindowEnd
      <4>1. ASSUME NEW n \in Nat, n <= Len(feed), ChangedSince(k, n)
            PROVE  \E m \in (n + 1)..Len(feed') : feed'[m] = k \/ k \in Under(place', feed'[m])
        BY <3>1, <4>1, ProviderSince DEF ChangedSince
      <4> QED
        BY <2>1, <3>4, <3>5, <4>1 DEF ChangedSince
    <3>6. CASE ~Below(k)
      <4>1. ASSUME NEW n \in Nat, n <= Len(feed)
            PROVE  \E m \in (n + 1)..Len(feed') : feed'[m] = k \/ k \in Under(place', feed'[m])
        BY <2>3, <3>1, <3>6, <4>1, ProviderBelow DEF ChangedSince
      <4> QED
        BY <2>1, <3>4, <4>1 DEF ChangedSince
    <3> QED
      BY <3>3, <3>5, <3>6
  <2> QED
    BY <2>2, <2>3
<1>6. HydrationMirrors'
  <2>1. run.task = "hydrate" =>
          Mirrors(run.found, Held(run.found) \ run.queue, run.lost, Applied + 1,
                  place', feed')
    BY Bounds, ProviderMirrors DEF Mirroring, HydrationMirrors, Executing
  <2> QED
    BY <1>1, <2>1 DEF Mirroring, HydrationMirrors, NextChange, Applied
<1> QED
  BY <1>2, <1>3, <1>4, <1>5, <1>6 DEF Mirroring

(* A step that gives up, or that leaves the mirror alone.                  *)
LEMMA OtherStepsKeepMirroring ==
  ASSUME MirrorInv, UNCHANGED <<provider, inventory, catalog, window, torn>>,
         run' = Idle \/ UNCHANGED <<run, staged>>
  PROVE  Mirroring'
<1> USE DEF MirrorInv, Mirroring, provider
<1>1. NoLoops' /\ CatalogMirrors' /\ PagesMirror'
  BY DEF NoLoops, CatalogMirrors, PagesMirror, Cursor, Deleted
<1>2. CASE run' = Idle
  <2>1. run'.task = "idle"
    BY <1>2 DEF Idle
  <2>2. StagedMirrors' /\ ProjectionMirrors' /\ HydrationMirrors'
    BY <2>1 DEF StagedMirrors, ProjectionMirrors, HydrationMirrors, Traversing, Executing
  <2> QED
    BY <1>1, <2>2
<1>3. CASE UNCHANGED <<run, staged>>
  <2>1. StagedMirrors'
    BY <1>3 DEF StagedMirrors, Traversing
  <2>2. ProjectionMirrors'
    BY <1>3 DEF ProjectionMirrors, Executing, Applied, WindowEnd, ChangedSince, Below
  <2>3. HydrationMirrors'
    BY <1>3 DEF HydrationMirrors, NextChange, Applied
  <2> QED
    BY <1>1, <2>1, <2>2, <2>3
<1> QED
  BY <1>2, <1>3

(* Files have no children, and excepting more promises less.               *)
LEMMA MirrorsWeaken ==
  ASSUME MirrorTypeOK, NEW tree, NEW tops, NEW out, NEW n, Mirrors(tree, tops, out, n, place, feed),
         NEW less, less \subseteq tops \cup (Items \ Folders), NEW more, out \subseteq more
  PROVE  Mirrors(tree, less, more, n, place, feed)
<1>1. \A i \in Items : place[i] \notin Items \ Folders
  BY PlacesAssumption, ItemsAssumption DEF MirrorTypeOK, Places
<1> QED
  BY <1>1 DEF Mirrors

(* A listing makes the rows of one more folder complete, but for what it   *)
(* leaves out.                                                             *)
LEMMA ListingMirrors ==
  ASSUME NEW tree, NEW tops, NEW out, NEW n, NEW f \in Folders \cup {Root},
         NEW listing \in Listings(f), Mirrors(tree, tops, out, n, place, feed)
  PROVE  Mirrors(Overlaid(tree, Rows(f, listing)), tops \cup {f},
                 out \cup Hidden(f, listing), n, place, feed)
<1> DEFINE new == Overlaid(tree, Rows(f, listing))
<1>1. f # None /\ listing \subseteq ChildrenAt(f)
  BY ItemsAssumption DEF Listings
<1>2. \A k \in Items : new[k] = IF k \in listing THEN f ELSE tree[k]
  BY <1>1 DEF Overlaid, Rows
<1>3. \A k \in listing : place[k] = f
  BY <1>1 DEF ChildrenAt
<1>4. \A k \in Items : place[k] = f => k \in listing \/ k \in Hidden(f, listing)
  BY DEF Hidden, ChildrenAt
<1> HIDE DEF new
<1> SUFFICES Mirrors(new, tops \cup {f}, out \cup Hidden(f, listing), n, place, feed)
  BY DEF new
<1> QED
  BY <1>2, <1>3, <1>4 DEF Mirrors

LEMMA StageFolderKeepsMirroring ==
  ASSUME MirrorInv, NEW f \in Folders \cup {Root}, StageFolder(f)
  PROVE  Mirroring'
<1> USE DEF MirrorInv, Mirroring
<1>1. PICK listing \in Listings(f) :
        /\ listing \cap Held(staged) = {}
        /\ staged' = Overlaid(staged, Rows(f, listing))
        /\ run' = [run EXCEPT !.queue = NextFolders(f, listing),
                              !.lost = @ \cup Hidden(f, listing)]
  BY DEF StageFolder
<1>2. /\ Traversing /\ f \in run.queue
      /\ UNCHANGED <<place, feed, inventory, catalog, window, torn>>
  BY DEF StageFolder, provider
<1>3. listing \in SUBSET Items
  BY DEF Listings, ChildrenAt
<1>4. /\ run'.queue = NextFolders(f, listing) /\ run'.lost = run.lost \cup Hidden(f, listing)
      /\ run'.task = run.task /\ run'.fence = run.fence
  BY <1>1 DEF Inv, MirrorTypeOK, Runs
<1>5. Held(staged') = Held(staged) \cup listing
  BY <1>1, <1>2, <1>3, HangBelow DEF Inv, MirrorTypeOK, StagedIsATree
<1>6. Mirrors(staged', ((Held(staged) \cup {Root}) \ run.queue) \cup {f}, run'.lost,
              run.fence, place, feed)
  BY <1>1, <1>2, <1>4, ListingMirrors DEF StagedMirrors
<1>7. (Held(staged') \cup {Root}) \ run'.queue
        \subseteq (((Held(staged) \cup {Root}) \ run.queue) \cup {f}) \cup (Items \ Folders)
  BY <1>3, <1>4, <1>5 DEF NextFolders
<1>8. Mirrors(staged', (Held(staged') \cup {Root}) \ run'.queue, run'.lost,
              run.fence, place, feed)
  BY <1>6, <1>7, MirrorsWeaken DEF Inv
<1>9. StagedMirrors'
  BY <1>2, <1>4, <1>8 DEF StagedMirrors
<1>10. NoLoops' /\ CatalogMirrors' /\ PagesMirror'
  BY <1>2 DEF NoLoops, CatalogMirrors, PagesMirror, Cursor, Deleted
<1>11. ProjectionMirrors' /\ HydrationMirrors'
  BY <1>2, <1>4 DEF ProjectionMirrors, HydrationMirrors, Executing, Traversing
<1> QED
  BY <1>9, <1>10, <1>11

LEMMA BeginTraversalKeepsMirroring ==
  ASSUME MirrorInv, NEW task \in {"bootstrap", "rebaseline"}, BeginTraversal(task)
  PROVE  Mirroring'
<1> USE DEF MirrorInv, Mirroring
<1>1. /\ run'.task = task /\ run'.queue = {Root} /\ run'.fence = Len(feed)
      /\ staged' = Nothing
      /\ UNCHANGED <<place, feed, inventory, catalog, window, torn>>
  BY DEF BeginTraversal, Idle, provider
<1>2. (Held(Nothing) \cup {Root}) \ {Root} = {}
  BY NothingIsATree
<1>3. StagedMirrors'
  BY <1>1, <1>2 DEF StagedMirrors, Mirrors, Nothing
<1>4. NoLoops' /\ CatalogMirrors' /\ PagesMirror'
  BY <1>1 DEF NoLoops, CatalogMirrors, PagesMirror, Cursor, Deleted
<1>5. ProjectionMirrors' /\ HydrationMirrors'
  BY <1>1 DEF ProjectionMirrors, HydrationMirrors, Executing
<1> QED
  BY <1>3, <1>4, <1>5

LEMMA PromotionKeepsMirroring ==
  ASSUME MirrorInv, Traversing, run.queue = {}, Promote,
         window' = NoWindow \/ (UNCHANGED window /\ ~window.open)
  PROVE  Mirroring'
<1> USE DEF MirrorInv, Mirroring
<1>1. /\ catalog' = staged /\ torn' = run.lost /\ Cursor' = run.fence
      /\ run'.task = "idle" /\ UNCHANGED <<place, feed>>
  BY DEF Promote, provider, Cursor, Idle
<1>2. CatalogMirrors'
  <2>1. Mirrors(staged, Held(staged) \cup {Root}, run.lost, run.fence, place, feed)
    BY DEF StagedMirrors
  <2> QED
    BY <1>1, <2>1 DEF CatalogMirrors
<1>3. ~window'.open
  BY DEF NoWindow
<1>4. NoLoops' /\ StagedMirrors' /\ PagesMirror' /\ ProjectionMirrors' /\ HydrationMirrors'
  BY <1>1, <1>3 DEF NoLoops, StagedMirrors, PagesMirror, ProjectionMirrors, HydrationMirrors,
     Traversing, Executing
<1> QED
  BY <1>2, <1>4

(* A page says what the provider is when it is read.                       *)
LEMMA CollectPageKeepsMirroring ==
  ASSUME MirrorInv, CollectPage
  PROVE  Mirroring'
<1> USE DEF MirrorInv, Mirroring
<1> DEFINE from == Opened.base + Len(Opened.changes)
           old == Opened.changes
           new == PageAfter(from)
<1>1. /\ Opened \in Windows /\ Opened.open /\ Opened.base = Cursor
      /\ from \in Nat /\ from <= Len(feed)
  BY OpenedContinuesTheCursor
<1>2. /\ new \in Seq(Changes) /\ old \in Seq(Changes)
      /\ Opened.base \in Nat
  BY <1>1, PageIsASequence DEF Windows, Inv
<1>3. \A n \in 1..Len(new) : new[n] = Reading(feed[from + n])
  <2>1. PageEnd(from) - from \in Nat
    BY <1>1, BoundsAssumption, Bounds DEF PageEnd
  <2> QED
    BY <2>1 DEF PageAfter
<1>4. /\ UNCHANGED <<place, feed, inventory, catalog, staged, run, torn>>
      /\ window'.changes = old \o new /\ window'.base = Opened.base
      /\ run.task = "idle"
  <2>1. window' = [Opened EXCEPT !.changes = @ \o new, !.pages = @ + 1,
                                 !.complete = PageEnd(from) = Len(feed)]
    BY DEF CollectPage
  <2> QED
    BY <1>1, <2>1 DEF CollectPage, Windows, provider
<1> HIDE DEF new
<1>5. ASSUME NEW n \in 1..Len(old)
      PROVE  LET c == (old \o new)[n] IN
             /\ c.item = feed[Opened.base + n]
             /\ c.item \in Items =>
                  \/ Later(feed, c.item, Opened.base + n)
                  \/ c.at = place[c.item]
                  \/ c.at = Gone /\ Deleted(c.item)
  <2>1. (old \o new)[n] = old[n]
    BY <1>2, <1>5
  <2>2. Opened = window /\ window.open
    <3>1. ~window.open => Opened.changes = <<>>
      BY DEF Opened, NoWindow
    <3>2. ~window.open => Len(old) = 0
      BY <3>1
    <3> QED
      BY <3>2 DEF Opened
  <2> QED
    BY <2>1, <2>2 DEF PagesMirror
<1>6. ASSUME NEW n \in (Len(old) + 1)..Len(old \o new)
      PROVE  LET c == (old \o new)[n] IN
             /\ c.item = feed[Opened.base + n]
             /\ c.item \in Items =>
                  \/ Later(feed, c.item, Opened.base + n)
                  \/ c.at = place[c.item]
                  \/ c.at = Gone /\ Deleted(c.item)
  <2> DEFINE m == n - Len(old)
  <2>1. /\ Len(old) \in Nat /\ Len(new) \in Nat
        /\ Len(old \o new) = Len(old) + Len(new)
    BY <1>2
  <2>2. m \in 1..Len(new) /\ n \in 1..(Len(old) + Len(new)) /\ n > Len(old)
    BY <1>6, <2>1
  <2>3. (old \o new)[n] = new[m]
    BY <1>2, <2>1, <2>2
  <2>4. new[m] = Reading(feed[from + m])
    BY <1>3, <2>2
  <2>5. from + m = Opened.base + n
    <3>1. \A a, b, d \in Nat : (a + b) + (d - b) = a + d
      OBVIOUS
    <3> QED
      BY <3>1, <1>2, <2>1, <2>2
  <2>6. Reading(feed[from + m]).item = feed[from + m]
    BY DEF Reading, Change
  <2>7. ASSUME feed[from + m] \in Items
        PROVE  \/ Reading(feed[from + m]).at = place[feed[from + m]]
               \/ /\ Reading(feed[from + m]).at = Gone
                  /\ Deleted(feed[from + m])
    BY <2>7, ItemsAssumption DEF Reading, Change
  <2> HIDE DEF m, from
  <2> QED
    BY <2>3, <2>4, <2>5, <2>6, <2>7
<1>7. PagesMirror'
  <2>1. 1..Len(old \o new) \subseteq (1..Len(old)) \cup ((Len(old) + 1)..Len(old \o new))
    BY <1>2
  <2> HIDE DEF old
  <2>2. ASSUME NEW n \in 1..Len(old \o new)
        PROVE  LET c == (old \o new)[n] IN
               /\ c.item = feed[Opened.base + n]
               /\ c.item \in Items =>
                    \/ Later(feed, c.item, Opened.base + n)
                    \/ c.at = place[c.item]
                    \/ c.at = Gone /\ Deleted(c.item)
    BY <1>5, <1>6, <2>1
  <2> QED
    BY <1>4, <2>2 DEF PagesMirror, Deleted
<1>8. NoLoops' /\ CatalogMirrors' /\ StagedMirrors' /\ ProjectionMirrors' /\ HydrationMirrors'
  BY <1>4 DEF NoLoops, CatalogMirrors, StagedMirrors, ProjectionMirrors, HydrationMirrors,
     Traversing, Executing, Cursor
<1> QED
  BY <1>7, <1>8

LEMMA BeginExecutionKeepsMirroring ==
  ASSUME MirrorInv, BeginExecution
  PROVE  Mirroring'
<1> USE DEF MirrorInv, Mirroring
<1>1. /\ UNCHANGED <<place, feed, inventory, catalog, window, staged, torn>>
      /\ run'.task = "execute" /\ run'.next = 1 /\ run'.tree = catalog
      /\ run'.lost = torn /\ run'.left = {}
  BY DEF BeginExecution, provider, durable, Idle
<1>2. /\ window.open /\ window.complete /\ inventory.snapshot /\ window.base = Cursor
  BY DEF BeginExecution, Inv, MirrorTypeOK, Positions
<1>3. Applied' = Cursor
  BY <1>1, <1>2, Bounds DEF Applied
<1>4. ProjectionMirrors'
  <2>1. Mirrors(catalog, Held(catalog) \cup {Root}, torn \cup {}, Cursor, place, feed)
    <3>1. torn \cup {} = torn
      OBVIOUS
    <3> QED
      BY <1>2, <3>1 DEF CatalogMirrors
  <2>2. run'.next <= Len(window.changes) + 1
    BY <1>1, Bounds
  <2> QED
    BY <1>1, <1>2, <1>3, <2>1, <2>2 DEF ProjectionMirrors
<1>5. NoLoops' /\ CatalogMirrors' /\ PagesMirror' /\ StagedMirrors' /\ HydrationMirrors'
  BY <1>1 DEF NoLoops, CatalogMirrors, PagesMirror, StagedMirrors, HydrationMirrors,
     Cursor, Deleted, Traversing
<1> QED
  BY <1>4, <1>5

(* The change an execution is at.                                          *)
LEMMA ChangeFacts ==
  ASSUME MirrorInv, Executing, run.next <= Len(window.changes)
  PROVE  /\ NextChange.item = feed[Applied + 1]
         /\ Applied + 1 \in 1..Len(feed)
         /\ NextChange.item \in Items =>
              \/ Later(feed, NextChange.item, Applied + 1)
              \/ NextChange.at = place[NextChange.item]
              \/ NextChange.at = Gone /\ Deleted(NextChange.item)
         /\ \A k \in Items : k # NextChange.item /\ Later(feed, k, Applied) =>
              Later(feed, k, Applied + 1)
<1>1. /\ run.next \in 1..Len(window.changes) /\ window.open
      /\ window.base + run.next = Applied + 1
      /\ Applied \in Nat /\ Len(feed) \in Nat
  BY Bounds DEF Applied
<1>2. /\ NextChange.item = feed[Applied + 1]
      /\ NextChange.item \in Items =>
           \/ Later(feed, NextChange.item, Applied + 1)
           \/ NextChange.at = place[NextChange.item]
           \/ NextChange.at = Gone /\ Deleted(NextChange.item)
  BY <1>1 DEF MirrorInv, Mirroring, PagesMirror, NextChange
<1>3. Applied + 1 \in 1..Len(feed)
  BY <1>1, Bounds DEF WindowEnd
<1>4. \A k \in Items : k # NextChange.item /\ Later(feed, k, Applied) =>
        Later(feed, k, Applied + 1)
  BY <1>1, <1>2, LaterButOne
<1> QED
  BY <1>2, <1>3, <1>4

(* A change is applied when the projection is that of the next position.   *)
LEMMA AppliedKeepsMirroring ==
  ASSUME MirrorInv, run.task \in {"execute", "hydrate"}, run.next <= Len(window.changes),
         UNCHANGED <<provider, durable, torn>>,
         run'.task = "execute", run'.next = run.next + 1,
         Mirrors(run'.tree, Held(run'.tree) \cup {Root}, run'.lost \cup run'.left,
                 Applied + 1, place, feed),
         \A k \in run'.left : \/ Later(feed, k, Applied + 1)
                              \/ ChangedSince(k, WindowEnd)
                              \/ ~Below(k)
  PROVE  Mirroring'
<1> USE DEF MirrorInv, Mirroring, provider, durable
<1>1. Applied' = Applied + 1
  BY Bounds DEF Applied
<1>2. run'.next <= Len(window.changes) + 1
  BY Bounds
<1>3. ProjectionMirrors'
  BY <1>1, <1>2 DEF ProjectionMirrors, Executing, ChangedSince, WindowEnd, Below
<1>4. NoLoops' /\ CatalogMirrors' /\ PagesMirror' /\ StagedMirrors' /\ HydrationMirrors'
  BY DEF NoLoops, CatalogMirrors, PagesMirror, StagedMirrors, HydrationMirrors,
     Cursor, Deleted, Traversing
<1> QED
  BY <1>3, <1>4

(* What stays outside goes on doing so.                                    *)
LEMMA LeftStaysOut ==
  ASSUME MirrorInv, Executing, run.next <= Len(window.changes),
         NEW k \in run.left, k # NextChange.item
  PROVE  \/ Later(feed, k, Applied + 1)
         \/ ChangedSince(k, WindowEnd)
         \/ ~Below(k)
<1>1. k \in Items
  BY DEF MirrorInv, Inv, MirrorTypeOK, Runs
<1> QED
  BY <1>1, ChangeFacts DEF MirrorInv, Mirroring, ProjectionMirrors

LEMMA ResolvingIsExecuting ==
  ASSUME MirrorInv, Resolving
  PROVE  /\ Executing /\ run.task = "execute" /\ run.next <= Len(window.changes)
         /\ run \in Runs /\ NextChange \in Changes
         /\ NextChange.item # Root => NextChange.item \in Items
         /\ Mirrors(run.tree, Held(run.tree) \cup {Root}, run.lost \cup run.left,
                    Applied, place, feed)
BY NextChangeType DEF MirrorInv, Mirroring, ProjectionMirrors, Resolving, Executing, Changes

LEMMA RevalidateRootKeepsMirroring ==
  ASSUME MirrorInv, RevalidateRoot
  PROVE  Mirroring'
<1>1. /\ Resolving /\ NextChange.item \notin Items
      /\ Resolved(run.tree, run.lost, run.left)
  BY ItemsAssumption DEF RevalidateRoot
<1>2. /\ run'.task = "execute" /\ run'.next = run.next + 1 /\ run'.tree = run.tree
      /\ run'.lost = run.lost /\ run'.left = run.left
      /\ UNCHANGED <<provider, durable, torn>>
  BY <1>1, ResolvingIsExecuting DEF Resolved, Runs
<1>3. Mirrors(run.tree, Held(run.tree) \cup {Root}, run.lost \cup run.left,
              Applied + 1, place, feed)
  BY <1>1, ResolvingIsExecuting, ChangeFacts DEF Mirrors
<1>4. \A k \in run.left : k \in Items
  BY <1>1, ResolvingIsExecuting DEF Runs
<1> QED
  BY <1>1, <1>2, <1>3, <1>4, ResolvingIsExecuting, LeftStaysOut, AppliedKeepsMirroring

(* The parent a page named is the one the item has, or it changes again.   *)
LEMMA UpsertKeepsMirroring ==
  ASSUME MirrorInv, UpsertItem
  PROVE  Mirroring'
<1> DEFINE i == NextChange.item
           at == NextChange.at
           new == [run.tree EXCEPT ![i] = at]
<1>1. /\ Resolving /\ i \in Items /\ IsDescendant
      /\ i \notin Folders \/ i \in Held(run.tree)
      /\ Resolved(new, run.lost \ {i}, run.left \ {i})
  BY ResolvingIsExecuting DEF UpsertItem
<1>2. /\ run'.task = "execute" /\ run'.next = run.next + 1 /\ run'.tree = new
      /\ run'.lost = run.lost \ {i} /\ run'.left = run.left \ {i}
      /\ UNCHANGED <<provider, durable, torn>>
  BY <1>1, ResolvingIsExecuting DEF Resolved, Runs
<1>3. at \in Folders \cup {Root} /\ at # None /\ at # Gone
  BY <1>1, NextChangeType, ItemsAssumption, PlacesAssumption DEF MirrorInv
<1>4. \A k \in Items : new[k] = IF k = i THEN at ELSE run.tree[k]
  BY <1>1, ResolvingIsExecuting DEF Runs, Trees
<1>5. Held(new) = Held(run.tree) \cup {i}
  BY <1>1, <1>3, <1>4 DEF Held
<1>6. Later(feed, i, Applied + 1) \/ new[i] = place[i]
  BY <1>1, <1>3, <1>4, ResolvingIsExecuting, ChangeFacts
<1>7. \A k \in Items : place[k] \in Held(new) \cup {Root} =>
        place[k] \in Held(run.tree) \cup {Root}
  <2>1. \A k \in Items : place[k] \notin Items \ Folders
    BY PlacesAssumption, ItemsAssumption DEF MirrorInv, Inv, MirrorTypeOK, Places
  <2> QED
    BY <1>1, <1>5, <2>1
<1> HIDE DEF new
<1>8. Mirrors(new, Held(new) \cup {Root}, (run.lost \ {i}) \cup (run.left \ {i}),
              Applied + 1, place, feed)
  <2>1. Mirrors(run.tree, Held(run.tree) \cup {Root}, run.lost \cup run.left,
                Applied, place, feed)
    BY <1>1, ResolvingIsExecuting
  <2>2. \A k \in Items : k # i /\ Later(feed, k, Applied) => Later(feed, k, Applied + 1)
    BY <1>1, ResolvingIsExecuting, ChangeFacts
  <2> HIDE DEF i
  <2> QED
    BY <1>4, <1>6, <1>7, <2>1, <2>2 DEF Mirrors
<1> QED
  BY <1>1, <1>2, <1>8, ResolvingIsExecuting, LeftStaysOut, AppliedKeepsMirroring

(* What leaves is not below the root, or changes again; and the reason is  *)
(* its own place, or a folder that is outside.                             *)
LEMMA LeavingFacts ==
  ASSUME MirrorInv, Resolving, NextChange.item # Root, Leaves
  PROVE  LET i == NextChange.item IN
         /\ i \in Items
         /\ Later(feed, i, Applied + 1) \/ ~Below(i)
         /\ \/ Later(feed, i, Applied + 1)
            \/ i \in LeftWith(i)
            \/ Deleted(i)
            \/ place[i] \notin Items \cup {Root}
<1> DEFINE i == NextChange.item
           at == NextChange.at
<1>1. i \in Items
  BY ResolvingIsExecuting
<1>2. \/ Later(feed, i, Applied + 1)
      \/ at = place[i]
      \/ at = Gone /\ Deleted(i)
  BY <1>1, ResolvingIsExecuting, ChangeFacts
<1>3. at # Root /\ ~(at \in Items /\ Below(at))
  BY DEF Leaves, IsDescendant
<1>4. at = place[i] => ~Below(i)
  <2> SUFFICES ASSUME at = place[i], Below(i) PROVE FALSE
    OBVIOUS
  <2>1. place[i] = Root \/ place[i] \in Under(place, Root)
    BY UnderHasParent DEF Below
  <2> QED
    BY <1>3, <2>1, UnderIsItems DEF Below
<1>5. Deleted(i) => ~Below(i)
  BY UnderIsDisjoint, PlacesAssumption, ItemsAssumption DEF Deleted, Below
<1>6. i \in LeftWith(i) \/ at \notin Items
  BY DEF LeftWith
<1> QED
  BY <1>1, <1>2, <1>3, <1>4, <1>5, <1>6

(* Of the children of what the projection holds, a change that leaves      *)
(* takes away only what it deletes.                                        *)
LEMMA LeavingKeepsMirroring ==
  ASSUME MirrorInv, Resolving, NextChange.item # Root, Leaves,
         NEW tree, Resolved(tree, run.lost, LeftWith(NextChange.item)),
         tree[NextChange.item] = None,
         \A k \in Items : tree[k] = None \/ tree[k] = run.tree[k],
         \A k \in Items : tree[k] # run.tree[k] /\ k # NextChange.item =>
           run.tree[k] \notin Held(tree) \cup {Root}
  PROVE  Mirroring'
<1> DEFINE i == NextChange.item
           left == LeftWith(i)
<1>1. /\ run'.task = "execute" /\ run'.next = run.next + 1 /\ run'.tree = tree
      /\ run'.lost = run.lost /\ run'.left = left
      /\ UNCHANGED <<provider, durable, torn>>
  BY ResolvingIsExecuting DEF Resolved, Runs
<1>2. \A k \in Items : k # i /\ Later(feed, k, Applied) => Later(feed, k, Applied + 1)
  BY ResolvingIsExecuting, ChangeFacts
<1>3. /\ i \in Items
      /\ Later(feed, i, Applied + 1) \/ ~Below(i)
      /\ \/ Later(feed, i, Applied + 1)
         \/ i \in left
         \/ i \in Under(place, Gone)
         \/ place[i] \notin Items \cup {Root}
  BY LeavingFacts DEF Deleted
<1>4. run.left \subseteq left /\ left \subseteq run.left \cup {i}
  BY DEF LeftWith
<1>5. Mirrors(run.tree, Held(run.tree) \cup {Root}, run.lost \cup run.left,
              Applied, place, feed)
  BY ResolvingIsExecuting
<1>6. Held(tree) \subseteq Held(run.tree) /\ Held(tree) \subseteq Items
  BY DEF Held
<1>7. Mirrors(tree, Held(tree) \cup {Root}, run.lost \cup left, Applied + 1, place, feed)
  <2> HIDE DEF i, left
  <2>1. ASSUME NEW k \in Items, tree[k] # None
        PROVE  Later(feed, k, Applied + 1) \/ tree[k] = place[k]
    <3>1. k # i
      BY <2>1 DEF i
    <3> QED
      BY <2>1, <3>1, <1>2, <1>5 DEF Mirrors
  <2>2. ASSUME NEW k \in Items, place[k] \in Held(tree) \cup {Root}
        PROVE  \/ Later(feed, k, Applied + 1)
               \/ k \in Under(place, Gone)
               \/ k \in run.lost \cup left
               \/ tree[k] = place[k]
    <3>1. CASE k = i
      BY <3>1, <2>2, <1>3, <1>6
    <3>2. CASE k # i
      <4>1. \/ Later(feed, k, Applied + 1)
            \/ k \in Under(place, Gone)
            \/ k \in run.lost \cup left
            \/ run.tree[k] = place[k]
        BY <3>2, <2>2, <1>2, <1>4, <1>5, <1>6 DEF Mirrors
      <4>2. run.tree[k] = place[k] => tree[k] = run.tree[k]
        BY <3>2, <2>2 DEF i
      <4> QED
        BY <4>1, <4>2
    <3> QED
      BY <3>1, <3>2
  <2> QED
    BY <2>1, <2>2 DEF Mirrors
<1>8. ASSUME NEW k \in left
      PROVE  \/ Later(feed, k, Applied + 1)
             \/ ChangedSince(k, WindowEnd)
             \/ ~Below(k)
  <2>1. CASE k = i
    BY <2>1, <1>3
  <2>2. CASE k # i
    BY <2>2, <1>4, ResolvingIsExecuting, LeftStaysOut
  <2> QED
    BY <2>1, <2>2
<1> QED
  BY <1>1, <1>7, <1>8, ResolvingIsExecuting, AppliedKeepsMirroring

LEMMA IgnoreChangeKeepsMirroring ==
  ASSUME MirrorInv, IgnoreChange
  PROVE  Mirroring'
<1>1. NextChange.item \in Items
  BY ResolvingIsExecuting DEF IgnoreChange
<1>2. run.tree[NextChange.item] = None
  BY <1>1 DEF IgnoreChange, Held
<1> QED
  BY <1>2, LeavingKeepsMirroring DEF IgnoreChange

LEMMA DeleteSubtreeKeepsMirroring ==
  ASSUME MirrorInv, DeleteSubtree
  PROVE  Mirroring'
<1> DEFINE i == NextChange.item
           new == WithSubtreeDeleted(run.tree, i)
<1>1. i \in Items /\ i # None /\ i # Root
  BY ResolvingIsExecuting, ItemsAssumption DEF DeleteSubtree
<1>2. \A k \in Items : new[k] = IF k = i \/ k \in Under(run.tree, i) THEN None ELSE run.tree[k]
  BY DEF WithSubtreeDeleted
<1>3. ASSUME NEW k \in Items, new[k] # run.tree[k], k # i
      PROVE  run.tree[k] \notin Held(new) \cup {Root}
  <2>1. k \in Under(run.tree, i)
    BY <1>2, <1>3
  <2>2. run.tree[k] = i \/ run.tree[k] \in Under(run.tree, i)
    BY <2>1, UnderHasParent
  <2>3. run.tree[k] \in Items /\ new[run.tree[k]] = None
    BY <1>1, <1>2, <2>2, UnderIsItems
  <2> QED
    BY <2>3, ItemsAssumption DEF Held
<1> HIDE DEF new
<1>4. /\ Resolving /\ Leaves /\ Resolved(new, run.lost, LeftWith(i))
  BY DEF DeleteSubtree, new
<1> QED
  BY <1>1, <1>2, <1>3, <1>4, LeavingKeepsMirroring

(* Work on a change that leaves the projection as it is.                   *)
LEMMA DeleteCycleKeepsMirroring ==
  ASSUME MirrorInv, DeleteCycle
  PROVE  Mirroring'
<1> USE DEF MirrorInv, Mirroring, provider, durable
<1>1. /\ UNCHANGED <<provider, durable, torn>>
      /\ run'.task = "hang" /\ run'.next = run.next /\ run'.tree = run.tree
      /\ run'.lost = run.lost /\ run'.left = run.left
  BY ResolvingIsExecuting DEF DeleteCycle, Runs
<1>2. ProjectionMirrors'
  BY <1>1, ResolvingIsExecuting DEF ProjectionMirrors, Executing, DeleteCycle,
     Applied, WindowEnd, ChangedSince, Below
<1>3. NoLoops' /\ CatalogMirrors' /\ PagesMirror' /\ StagedMirrors' /\ HydrationMirrors'
  BY <1>1 DEF NoLoops, CatalogMirrors, PagesMirror, StagedMirrors, HydrationMirrors,
     Cursor, Deleted, Traversing
<1> QED
  BY <1>2, <1>3

LEMMA BeginHydrationKeepsMirroring ==
  ASSUME MirrorInv, BeginHydration
  PROVE  Mirroring'
<1> USE DEF MirrorInv, Mirroring, provider, durable
<1> DEFINE i == NextChange.item
           at == NextChange.at
           new == [Nothing EXCEPT ![i] = at]
<1>1. /\ UNCHANGED <<provider, durable, torn>>
      /\ run'.task = "hydrate" /\ run'.next = run.next /\ run'.tree = run.tree
      /\ run'.lost = run.lost /\ run'.left = run.left
      /\ run'.found = new /\ run'.queue = {i}
  BY ResolvingIsExecuting DEF BeginHydration, Runs
<1>2. ProjectionMirrors'
  BY <1>1, ResolvingIsExecuting DEF ProjectionMirrors, Executing, BeginHydration,
     Applied, WindowEnd, ChangedSince, Below
<1>3. NoLoops' /\ CatalogMirrors' /\ PagesMirror' /\ StagedMirrors'
  BY <1>1 DEF NoLoops, CatalogMirrors, PagesMirror, StagedMirrors,
     Cursor, Deleted, Traversing
<1>4. /\ i \in Items /\ at \in Folders \cup {Root} /\ at # None /\ at # Gone
      /\ Resolving
  BY NextChangeType, ItemsAssumption, PlacesAssumption DEF BeginHydration
<1>5. \A k \in Items : new[k] = IF k = i THEN at ELSE None
  BY DEF Nothing
<1>6. Held(new) = {i}
  BY <1>4, <1>5 DEF Held
<1>7. Later(feed, i, Applied + 1) \/ at = place[i]
  BY <1>4, ResolvingIsExecuting, ChangeFacts
<1>8. Mirrors(new, Held(new) \ {i}, run.lost, Applied + 1, place, feed)
  BY <1>4, <1>5, <1>6, <1>7 DEF Mirrors
<1>9. NextChange' = NextChange /\ Applied' = Applied
  BY <1>1 DEF NextChange, Applied
<1>10. HydrationMirrors'
  BY <1>1, <1>6, <1>8, <1>9 DEF HydrationMirrors
<1> QED
  BY <1>2, <1>3, <1>10

LEMMA HydrateFolderKeepsMirroring ==
  ASSUME MirrorInv, NEW f \in Folders, HydrateFolder(f)
  PROVE  Mirroring'
<1> USE DEF MirrorInv, Mirroring, provider, durable
<1>1. PICK listing \in Listings(f) :
        run' = [run EXCEPT !.found = Overlaid(@, Rows(f, listing)),
                           !.queue = NextFolders(f, listing),
                           !.lost = @ \cup Hidden(f, listing)]
  BY DEF HydrateFolder
<1> DEFINE new == Overlaid(run.found, Rows(f, listing))
<1>2. /\ UNCHANGED <<provider, durable, torn>>
      /\ run.task = "hydrate"
      /\ run'.task = "hydrate" /\ run'.next = run.next /\ run'.tree = run.tree
      /\ run'.lost = run.lost \cup Hidden(f, listing) /\ run'.left = run.left
      /\ run'.found = new /\ run'.queue = NextFolders(f, listing)
  BY <1>1 DEF HydrateFolder, Inv, MirrorTypeOK, Runs
<1>3. listing \subseteq Items /\ f # None
  BY ItemsAssumption DEF Listings, ChildrenAt
<1>4. Held(new) = Held(run.found) \cup listing
  BY <1>3 DEF Held, Overlaid, Rows
<1>5. Mirrors(run.tree, Held(run.tree) \cup {Root}, run'.lost \cup run.left,
              Applied, place, feed)
  <2>1. Mirrors(run.tree, Held(run.tree) \cup {Root}, run.lost \cup run.left,
                Applied, place, feed)
    BY <1>2 DEF ProjectionMirrors, Executing
  <2> QED
    BY <1>2, <2>1, MirrorsWeaken DEF Inv
<1>6. ProjectionMirrors'
  BY <1>2, <1>5 DEF ProjectionMirrors, Executing, Applied, WindowEnd, ChangedSince, Below
<1>7. NoLoops' /\ CatalogMirrors' /\ PagesMirror' /\ StagedMirrors'
  BY <1>2 DEF NoLoops, CatalogMirrors, PagesMirror, StagedMirrors,
     Cursor, Deleted, Traversing
<1>8. Mirrors(new, (Held(run.found) \ run.queue) \cup {f}, run'.lost,
              Applied + 1, place, feed)
  BY <1>2, ListingMirrors DEF HydrationMirrors
<1>9. Held(new) \ run'.queue
        \subseteq ((Held(run.found) \ run.queue) \cup {f}) \cup (Items \ Folders)
  BY <1>2, <1>3, <1>4 DEF NextFolders
<1> HIDE DEF new
<1>10. Mirrors(new, Held(new) \ run'.queue, run'.lost, Applied + 1, place, feed)
  BY <1>8, <1>9, MirrorsWeaken DEF Inv
<1>11. NextChange' = NextChange /\ Applied' = Applied
  BY <1>2 DEF NextChange, Applied
<1>12. HydrationMirrors'
  BY <1>2, <1>4, <1>10, <1>11 DEF HydrationMirrors
<1> QED
  BY <1>6, <1>7, <1>12

(* What a hydration found replaces the rows of the projection.             *)
LEMMA FinishHydrationKeepsMirroring ==
  ASSUME MirrorInv, FinishHydration
  PROVE  Mirroring'
<1> DEFINE i == NextChange.item
           new == Overlaid(run.tree, run.found)
           found == Held(run.found)
<1>1. /\ UNCHANGED <<provider, durable, torn>>
      /\ run.task = "hydrate" /\ run.queue = {}
      /\ run'.task = "execute" /\ run'.next = run.next + 1 /\ run'.tree = new
      /\ run'.lost = run.lost \ found /\ run'.left = run.left \ found
  BY DEF FinishHydration, MirrorInv, Inv, MirrorTypeOK, Runs
<1>2. Executing /\ run.next <= Len(window.changes)
  BY <1>1 DEF MirrorInv, Mirroring, ProjectionMirrors, Executing
<1>3. /\ i \in found
      /\ Mirrors(run.found, found \ run.queue, run.lost, Applied + 1, place, feed)
  BY <1>1 DEF MirrorInv, Mirroring, HydrationMirrors
<1>4. Mirrors(run.tree, Held(run.tree) \cup {Root}, run.lost \cup run.left,
              Applied, place, feed)
  BY <1>2 DEF MirrorInv, Mirroring, ProjectionMirrors
<1>5. \A k \in Items : k # i /\ Later(feed, k, Applied) => Later(feed, k, Applied + 1)
  BY <1>2, ChangeFacts
<1>6. \A k \in Items : new[k] = IF k \in found THEN run.found[k] ELSE run.tree[k]
  BY DEF Overlaid, Held
<1>7. /\ \A k \in found : k \in Items /\ run.found[k] # None
      /\ \A k \in Items : run.found[k] # None => k \in found
      /\ Held(new) \subseteq Held(run.tree) \cup found
  BY <1>6 DEF Held
<1>8. \A k \in found : Later(feed, k, Applied + 1) \/ run.found[k] = place[k]
  BY <1>3, <1>7 DEF Mirrors
<1>9. \A k \in Items : place[k] \in found =>
        \/ Later(feed, k, Applied + 1)
        \/ k \in Under(place, Gone)
        \/ k \in run.lost
        \/ run.found[k] = place[k]
  BY <1>1, <1>3 DEF Mirrors
<1>10. None \notin found
  BY <1>7, ItemsAssumption
<1>11. Mirrors(new, Held(new) \cup {Root}, (run.lost \ found) \cup (run.left \ found),
               Applied + 1, place, feed)
  <2> HIDE DEF i, new, found
  <2>1. ASSUME NEW k \in Items, new[k] # None
        PROVE  Later(feed, k, Applied + 1) \/ new[k] = place[k]
    BY <2>1, <1>3, <1>4, <1>5, <1>6, <1>8 DEF Mirrors
  <2>2. ASSUME NEW k \in Items, k \notin found, place[k] \in Held(new) \cup {Root}
        PROVE  \/ Later(feed, k, Applied + 1)
               \/ k \in Under(place, Gone)
               \/ k \in (run.lost \ found) \cup (run.left \ found)
               \/ new[k] = place[k]
    <3>1. CASE place[k] \in found
      <4>1. run.found[k] # place[k]
        BY <3>1, <2>2, <1>7, <1>10
      <4> QED
        BY <3>1, <4>1, <2>2, <1>9
    <3>2. CASE place[k] \notin found
      <4>1. place[k] \in Held(run.tree) \cup {Root}
        BY <3>2, <2>2, <1>7
      <4>2. \/ Later(feed, k, Applied)
            \/ k \in Under(place, Gone)
            \/ k \in run.lost \cup run.left
            \/ run.tree[k] = place[k]
        BY <4>1, <1>4 DEF Mirrors
      <4> QED
        BY <4>2, <2>2, <1>3, <1>5, <1>6
    <3> QED
      BY <3>1, <3>2
  <2>3. ASSUME NEW k \in found
        PROVE  Later(feed, k, Applied + 1) \/ new[k] = place[k]
    BY <2>3, <1>6, <1>7, <1>8
  <2> QED
    BY <2>1, <2>2, <2>3 DEF Mirrors
<1>12. ASSUME NEW k \in run.left \ found
       PROVE  \/ Later(feed, k, Applied + 1)
              \/ ChangedSince(k, WindowEnd)
              \/ ~Below(k)
  BY <1>2, <1>3, LeftStaysOut
<1> QED
  BY <1>1, <1>2, <1>11, <1>12, AppliedKeepsMirroring

(* A change of an item, or of what the item is in, is a change above it.   *)
LEMMA ChangesAreInherited ==
  ASSUME NEW i \in Items, NEW n
  PROVE  /\ Later(feed, i, n) => ChangedSince(i, n)
         /\ ChangedSince(place[i], n) => ChangedSince(i, n)
<1>1. ASSUME Later(feed, i, n) PROVE ChangedSince(i, n)
  BY <1>1 DEF Later, ChangedSince
<1>2. ASSUME ChangedSince(place[i], n) PROVE ChangedSince(i, n)
  <2>1. PICK m \in (n + 1)..Len(feed) :
          feed[m] = place[i] \/ place[i] \in Under(place, feed[m])
    BY <1>2 DEF ChangedSince
  <2>2. i \in Under(place, feed[m])
    BY <2>1, UnderIsClosed
  <2> QED
    BY <2>2 DEF ChangedSince
<1> QED
  BY <1>1, <1>2

LEMMA BelowIsInherited ==
  ASSUME NEW i \in Items
  PROVE  /\ place[i] = Root => Below(i)
         /\ Below(place[i]) => Below(i)
         /\ Below(i) => place[i] = Root \/ Below(place[i])
BY UnderIsClosed, UnderHasParent DEF Below

(* Of a tree whose rows are true, what has not changed is below the root.  *)
LEMMA HeldIsBelow ==
  ASSUME NEW tree, Complete(tree), NEW n,
         \A i \in Items : tree[i] # None => Later(feed, i, n) \/ tree[i] = place[i],
         NEW i \in Held(tree)
  PROVE  ChangedSince(i, n) \/ Below(i)
<1> DEFINE S == {k \in Items : ChangedSince(k, n) \/ Below(k)}
<1>1. ASSUME NEW k \in Items, tree[k] \in S \cup {Root} PROVE k \in S
  <2>1. tree[k] # None
    BY <1>1, ItemsAssumption
  <2>2. CASE Later(feed, k, n)
    BY <2>2, ChangesAreInherited
  <2>3. CASE tree[k] = place[k]
    <3>1. place[k] \in S \/ place[k] = Root
      BY <1>1, <2>3
    <3> QED
      BY <3>1, ChangesAreInherited, BelowIsInherited
  <2> QED
    BY <2>1, <2>2, <2>3
<1>2. Under(tree, Root) \subseteq S
  BY <1>1, UnderIsLeast
<1> QED
  BY <1>2 DEF Complete

LEMMA CommitWindowKeepsMirroring ==
  ASSUME MirrorInv, CommitWindow
  PROVE  Mirroring'
<1> USE DEF MirrorInv, Mirroring
<1>1. /\ Executing /\ Complete(run.tree) /\ run.task = "execute"
      /\ run.next = Len(window.changes) + 1
  BY DEF CommitWindow, Executed, Executing
<1>2. /\ UNCHANGED <<place, feed>>
      /\ catalog' = run.tree /\ torn' = NowTorn /\ Cursor' = WindowEnd
      /\ run'.task = "idle" /\ ~window'.open
  BY DEF CommitWindow, provider, Cursor, Idle, NoWindow, Inv, MirrorTypeOK
<1>3. Applied = WindowEnd
  BY <1>1, Bounds DEF Applied, WindowEnd
<1>4. /\ Mirrors(run.tree, Held(run.tree) \cup {Root}, run.lost \cup run.left,
                 WindowEnd, place, feed)
      /\ \A i \in run.left : \/ Later(feed, i, WindowEnd)
                             \/ ChangedSince(i, WindowEnd)
                             \/ ~Below(i)
  BY <1>1, <1>3 DEF ProjectionMirrors
<1>5. ASSUME NEW i \in Items, place[i] \in Held(run.tree) \cup {Root},
             i \in run.left, i \notin NowTorn
      PROVE  Later(feed, i, WindowEnd)
  <2> SUFFICES ASSUME ~Later(feed, i, WindowEnd) PROVE FALSE
    OBVIOUS
  <2>1. ~ChangedSince(i, WindowEnd)
    BY <1>5 DEF NowTorn
  <2>2. ~Below(i)
    BY <1>4, <1>5, <2>1
  <2>3. place[i] # Root
    BY <2>2, BelowIsInherited
  <2>4. place[i] \in Held(run.tree)
    BY <1>5, <2>3
  <2>5. ChangedSince(place[i], WindowEnd) \/ Below(place[i])
    <3>1. \A k \in Items :
            run.tree[k] # None => Later(feed, k, WindowEnd) \/ run.tree[k] = place[k]
      BY <1>4 DEF Mirrors
    <3> QED
      BY <1>1, <2>4, <3>1, HeldIsBelow
  <2> QED
    BY <2>1, <2>2, <2>5, ChangesAreInherited, BelowIsInherited
<1>6. Mirrors(run.tree, Held(run.tree) \cup {Root}, NowTorn, WindowEnd, place, feed)
  <2>1. run.lost \subseteq NowTorn
    BY DEF NowTorn
  <2> QED
    BY <1>4, <1>5, <2>1 DEF Mirrors
<1>7. CatalogMirrors'
  BY <1>2, <1>6 DEF CatalogMirrors
<1>8. NoLoops' /\ StagedMirrors' /\ PagesMirror' /\ ProjectionMirrors' /\ HydrationMirrors'
  BY <1>2 DEF NoLoops, StagedMirrors, PagesMirror, ProjectionMirrors, HydrationMirrors,
     Traversing, Executing
<1> QED
  BY <1>7, <1>8

LEMMA ProviderMakesNoLoop ==
  ASSUME MirrorInv, NEW i \in Items, NEW p \in Places, Move(i, p) \/ Delete(i)
  PROVE  NoLoops'
<1>1. /\ place \in [Items -> Places \cup {Gone}] /\ NoLoops
  BY DEF MirrorInv, Inv, MirrorTypeOK, Mirroring
<1>2. PICK q : /\ \A k \in Items : place'[k] = IF k = i THEN q ELSE place[k]
               /\ q # i /\ q \notin Under(place, i)
  <2>1. CASE Move(i, p)
    <3>1. \A k \in Items : place'[k] = IF k = i THEN p ELSE place[k]
      BY <1>1, <2>1 DEF Move
    <3>2. p # i /\ p \notin Under(place, i)
      BY <2>1, UnderIsItems DEF Move
    <3> QED
      BY <3>1, <3>2
  <2>2. CASE Delete(i)
    <3>1. \A k \in Items : place'[k] = IF k = i THEN Gone ELSE place[k]
      BY <1>1, <2>2 DEF Delete
    <3>2. Gone # i /\ Gone \notin Under(place, i)
      BY UnderIsItems, PlacesAssumption
    <3> QED
      BY <3>1, <3>2
  <2> QED
    BY <2>1, <2>2
<1>3. \A k \in Items : k \notin Under(place', k)
  BY <1>1, <1>2, MoveMakesNoLoop DEF NoLoops
<1> QED
  BY <1>3 DEF NoLoops

LEMMA EnvironmentKeepsMirroring == MirrorInv /\ Environment => Mirroring'
<1> SUFFICES ASSUME MirrorInv, Environment PROVE Mirroring'
  OBVIOUS
<1>1. Inv
  BY DEF MirrorInv
<1>2. CASE \E i \in Items, p \in Places : Move(i, p)
  BY <1>1, <1>2, ProviderStepsAre, ProviderMakesNoLoop, ProviderKeepsMirroring
<1>3. CASE \E i \in Items : Delete(i)
  <2>1. Root \in Places
    BY DEF Places
  <2> QED
    BY <1>1, <1>3, <2>1, ProviderStepsAre, ProviderMakesNoLoop, ProviderKeepsMirroring
<1>4. CASE RenameRoot
  <2>1. NoLoops'
    BY <1>4 DEF RenameRoot, NoLoops, MirrorInv, Mirroring
  <2> QED
    BY <1>1, <1>4, <2>1, ProviderStepsAre, ProviderKeepsMirroring
<1>5. CASE LocalWork \/ SettleLocalWork
  BY <1>5, OtherStepsKeepMirroring DEF LocalWork, SettleLocalWork, durable
<1>6. CASE Interrupt
  BY <1>6, OtherStepsKeepMirroring DEF Interrupt
<1> QED
  BY <1>2, <1>3, <1>4, <1>5, <1>6 DEF Environment

LEMMA TraversalKeepsMirroring == MirrorInv /\ Traversal => Mirroring'
<1> SUFFICES ASSUME MirrorInv, Traversal PROVE Mirroring'
  OBVIOUS
<1>1. CASE \E f \in Folders \cup {Root} : StageFolder(f)
  BY <1>1, StageFolderKeepsMirroring
<1>2. CASE (\E f \in Folders \cup {Root} : RefuseFolder(f)) \/ RefuseRebaseline
  BY <1>2, OtherStepsKeepMirroring DEF RefuseFolder, RefuseRebaseline, GiveUp
<1>3. CASE CommitBootstrap
  <2>1. ~window.open
    BY <1>3 DEF CommitBootstrap, MirrorInv, Inv, Phases, MirrorTypeOK
  <2> QED
    BY <1>3, <2>1, PromotionKeepsMirroring DEF CommitBootstrap, Traversing
<1>4. CASE CommitRebaseline
  BY <1>4, PromotionKeepsMirroring DEF CommitRebaseline, Traversing
<1> QED
  BY <1>1, <1>2, <1>3, <1>4 DEF Traversal

LEMMA ExecutionKeepsMirroring == MirrorInv /\ Execution => Mirroring'
<1> SUFFICES ASSUME MirrorInv, Execution PROVE Mirroring'
  OBVIOUS
<1>1. CASE RefuseExecution
  BY <1>1, OtherStepsKeepMirroring DEF RefuseExecution, durable
<1>2. CASE ~RefuseExecution
  BY <1>2, RevalidateRootKeepsMirroring, UpsertKeepsMirroring, DeleteSubtreeKeepsMirroring,
     DeleteCycleKeepsMirroring, IgnoreChangeKeepsMirroring, BeginHydrationKeepsMirroring,
     HydrateFolderKeepsMirroring, FinishHydrationKeepsMirroring, CommitWindowKeepsMirroring
     DEF Execution
<1> QED
  BY <1>1, <1>2

LEMMA NextMirroring == MirrorInv /\ [Next]_vars => Mirroring'
<1> SUFFICES ASSUME MirrorInv, [Next]_vars PROVE Mirroring'
  OBVIOUS
<1>1. CASE BeginBootstrap \/ BeginRebaseline
  BY <1>1, BeginTraversalKeepsMirroring DEF BeginBootstrap, BeginRebaseline
<1>2. CASE UNCHANGED vars
  BY <1>2, OtherStepsKeepMirroring DEF vars, provider
<1> QED
  BY <1>1, <1>2, EnvironmentKeepsMirroring, TraversalKeepsMirroring, CollectPageKeepsMirroring,
     BeginExecutionKeepsMirroring, ExecutionKeepsMirroring DEF Next

LEMMA AlwaysMirrorInv == Spec => []MirrorInv
<1>1. Init => MirrorInv
  BY InitInv, InitMirroring DEF MirrorInv
<1>2. MirrorInv /\ [Next]_vars => MirrorInv'
  BY NextInv, NextMirroring DEF MirrorInv
<1> QED
  BY <1>1, <1>2, PTL DEF Spec
-----------------------------------------------------------------------------
(* What the mirror promises.                                               *)

(* The rows that are true of the items nothing has changed since, taken    *)
(* from the root down, are the provider's tree.                            *)
LEMMA MirroringMeansMirrored == MirrorInv => CaughtUpMirrors
<1> SUFFICES ASSUME MirrorInv, inventory.caughtUp, NEW i \in Items, ~Unread(i), ~Torn(i)
             PROVE  Mirrored(i)
  BY DEF CaughtUpMirrors
<1>1. /\ Complete(catalog)
      /\ Mirrors(catalog, Held(catalog) \cup {Root}, torn, Cursor, place, feed)
  BY DEF MirrorInv, Inv, CatalogIsATree, Phases, Mirroring, CatalogMirrors
<1>2. \A k \in Items : catalog[k] # None => Later(feed, k, Cursor) \/ catalog[k] = place[k]
  BY <1>1 DEF Mirrors
<1>3. CASE ~Below(i)
  <2>1. i \notin Held(catalog)
    BY <1>1, <1>2, <1>3, HeldIsBelow DEF Unread
  <2> QED
    BY <1>3, <2>1 DEF Mirrored, Held
<1>4. CASE Below(i)
  <2> DEFINE S == {k \in Items : \/ Unread(k) \/ Torn(k) \/ Deleted(k)
                                 \/ catalog[k] # None /\ catalog[k] = place[k]}
  <2>1. ASSUME NEW k \in Items, place[k] \in S \cup {Root} PROVE k \in S
    <3>1. CASE Unread(place[k])
      BY <3>1, ChangesAreInherited DEF Unread
    <3>2. CASE place[k] \in Items /\ Torn(place[k])
      <4>1. PICK j \in torn : place[k] = j \/ place[k] \in Under(place, j)
        BY <3>2 DEF Torn
      <4>2. k \in Under(place, j)
        BY <4>1, UnderIsClosed
      <4> QED
        BY <4>2 DEF Torn
    <3>3. CASE Deleted(place[k])
      BY <3>3, UnderIsClosed DEF Deleted
    <3>4. CASE place[k] \in Held(catalog) \cup {Root}
      <4>1. \/ Later(feed, k, Cursor)
            \/ k \in Under(place, Gone)
            \/ k \in torn
            \/ catalog[k] = place[k]
        BY <1>1, <3>4 DEF Mirrors
      <4>2. place[k] # None
        BY <3>4, ItemsAssumption DEF Held
      <4> QED
        BY <4>1, <4>2, ChangesAreInherited DEF Unread, Deleted, Torn
    <3> QED
      BY <2>1, <3>1, <3>2, <3>3, <3>4 DEF Held
  <2>2. Under(place, Root) \subseteq S
    <3> HIDE DEF S
    <3>1. S \in SUBSET Items
      BY DEF S
    <3> QED
      BY <2>1, <3>1, UnderIsLeast
  <2>3. i \in S
    BY <1>4, <2>2 DEF Below
  <2>4. ~Deleted(i)
    BY <1>4, UnderIsDisjoint, PlacesAssumption, ItemsAssumption DEF Deleted, Below
  <2> QED
    BY <1>4, <2>3, <2>4 DEF Mirrored
<1> QED
  BY <1>3, <1>4

(* Every item the feed has nothing more to say of is held exactly where    *)
(* the provider has it, or not at all when it is not below the root: in    *)
(* every interleaving of the provider's changes with the traversals, the   *)
(* pages, the executions and their interruptions. What is in a folder that *)
(* was not listed, or was outside when a change of it was applied, is the  *)
(* exception of the property.                                              *)
THEOREM MirrorIsTrue == Spec => []CaughtUpMirrors
BY AlwaysMirrorInv, MirroringMeansMirrored, PTL

(* The walk of delete_subtree ends unless an item it meets has a change    *)
(* that is still to be applied, since the provider's folders are a forest. *)
LEMMA MirroringMeansTransient == MirrorInv => CyclesAreTransient
<1> SUFFICES ASSUME MirrorInv PROVE CyclesAreTransient
  OBVIOUS
<1>0. Applied + 1 = window.base + run.next
  <2>1. window.base \in Nat /\ run.next \in Nat
    BY Bounds
  <2> QED
    BY <2>1 DEF Applied
<1> SUFFICES ASSUME Executing, NEW i \in Items, i \in Under(run.tree, i),
                    \A k \in Under(run.tree, i) : ~Later(feed, k, Applied)
             PROVE  FALSE
  BY <1>0 DEF CyclesAreTransient, Executing, Later
<1> DEFINE U == Under(run.tree, i)
<1>1. ASSUME NEW k \in U PROVE place[k] = run.tree[k]
  <2>1. k \in Items /\ run.tree[k] # None
    BY UnderIsItems, UnderHasParent, ItemsAssumption
  <2> QED
    BY <2>1 DEF MirrorInv, Mirroring, ProjectionMirrors, Mirrors
<1>2. Under(run.tree, i) \subseteq Under(place, i)
  BY <1>1, UnderStays
<1> QED
  BY <1>2 DEF MirrorInv, Mirroring, NoLoops

(* No two folders of the projection are below each other, once the changes *)
(* of both are applied.                                                    *)
THEOREM ProjectionCyclesAreTransient == Spec => []CyclesAreTransient
BY AlwaysMirrorInv, MirroringMeansTransient, PTL
-----------------------------------------------------------------------------
(* A provider that has been quiet since the first page of the window.      *)

Quiet == window.open /\ Len(feed) = window.since /\ torn = {}

(* The pages say what the provider is, up to the end of its feed.          *)
QuietPages ==
  Quiet =>
    /\ \A n \in 1..Len(window.changes) :
         window.changes[n] = Reading(feed[window.base + n])
    /\ window.complete => WindowEnd = Len(feed)

(* Nothing is lost. Of the items that are not below the root the           *)
(* projection has only those a change to come takes away, and with each    *)
(* the folder it is in, so that the deletion of a folder reaches them.     *)
QuietProjection ==
  Quiet /\ run.task \in {"execute", "hydrate"} =>
    /\ run.lost = {}
    /\ \A i \in Held(run.tree) : ChangedSince(i, Applied) \/ Below(i)
    /\ \A i \in Held(run.tree) :
         Below(i) \/ run.tree[i] \in Held(run.tree) \cup {Root}

(* A new folder is listed from the top, each item once.                    *)
QuietHydration ==
  Quiet /\ run.task = "hydrate" =>
    LET top == NextChange.item IN
    /\ Below(top)
    /\ run.queue \subseteq Held(run.found)
    /\ \A i \in Held(run.found) :
         \/ i = top
         \/ i \in Under(place, top) /\ place[i] \in Held(run.found) \ run.queue

QuietInv ==
  /\ window.open => window.since <= Len(feed)
  /\ QuietPages
  /\ QuietProjection
  /\ QuietHydration

SteadyInv == MirrorInv /\ QuietInv

(* A change of the provider ends the quiet.                                *)
LEMMA ProviderEndsQuiet ==
  ASSUME SteadyInv, NEW i \in Items \cup {Root}, Report(i)
  PROVE  QuietInv'
<1>1. /\ Len(feed') = Len(feed) + 1 /\ Len(feed) \in Nat /\ UNCHANGED window
  BY ProviderLog DEF SteadyInv, MirrorInv, Report, durable
<1>2. window.open => window.since \in Nat /\ window.since <= Len(feed)
  BY DEF SteadyInv, QuietInv, MirrorInv, Inv, MirrorTypeOK, Windows
<1>3. ~Quiet'
  BY <1>1, <1>2 DEF Quiet
<1>4. window'.open => window'.since <= Len(feed')
  BY <1>1, <1>2
<1> QED
  BY <1>3, <1>4 DEF QuietInv, QuietPages, QuietProjection, QuietHydration

(* Outside of an execution the pages are all there is to keep.             *)
LEMMA NotExecutingKeepsQuiet ==
  ASSUME SteadyInv, UNCHANGED <<place, feed, window, torn>>,
         run'.task \notin {"execute", "hydrate"} \/ UNCHANGED run
  PROVE  QuietInv'
<1>1. /\ window'.open => window'.since <= Len(feed')
      /\ QuietPages'
  BY DEF SteadyInv, QuietInv, QuietPages, Quiet, Reading, Deleted, WindowEnd
<1>2. CASE run'.task \notin {"execute", "hydrate"}
  BY <1>1, <1>2 DEF QuietInv, QuietProjection, QuietHydration
<1>3. CASE UNCHANGED run
  <2>1. QuietProjection' /\ QuietHydration'
    BY <1>3 DEF SteadyInv, QuietInv, QuietProjection, QuietHydration, Quiet, NextChange,
       ChangedSince, Below, Applied
  <2> QED
    BY <1>1, <2>1 DEF QuietInv
<1> QED
  BY <1>2, <1>3

(* Without a window there is nothing to be quiet since.                    *)
LEMMA NoWindowIsQuiet ==
  ASSUME ~window'.open
  PROVE  QuietInv'
BY DEF QuietInv, QuietPages, QuietProjection, QuietHydration, Quiet

LEMMA CollectPageKeepsQuiet ==
  ASSUME SteadyInv, CollectPage
  PROVE  QuietInv'
<1> DEFINE from == Opened.base + Len(Opened.changes)
           old == Opened.changes
           new == PageAfter(from)
<1>0. MirrorInv /\ Inv
  BY DEF SteadyInv, MirrorInv
<1>1. /\ Opened \in Windows /\ Opened.open /\ Opened.base = Cursor
      /\ from \in Nat /\ from <= Len(feed)
  BY <1>0, OpenedContinuesTheCursor
<1>2. /\ new \in Seq(Changes) /\ old \in Seq(Changes)
      /\ Opened.base \in Nat /\ Opened.since \in Nat /\ Len(feed) \in Nat
  <2>1. new \in Seq(Changes)
    BY <1>0, <1>1, PageIsASequence DEF Inv
  <2>2. /\ old \in Seq(Changes) /\ Opened.base \in Nat /\ Opened.since \in Nat
    BY <1>1 DEF Windows
  <2>3. Len(feed) \in Nat
    BY <1>0, Bounds
  <2> QED
    BY <2>1, <2>2, <2>3
<1>3. /\ Len(new) = PageEnd(from) - from
      /\ PageEnd(from) - from \in Nat /\ PageEnd(from) \in Nat
      /\ \A n \in 1..Len(new) : new[n] = Reading(feed[from + n])
  <2>1. PageEnd(from) - from \in Nat /\ PageEnd(from) \in Nat
    <3> HIDE DEF from, new
    <3>1. PageSize \in Nat
      BY BoundsAssumption
    <3>2. CASE Len(feed) - from <= PageSize
      BY <1>1, <1>2, <3>2 DEF PageEnd
    <3>3. CASE ~(Len(feed) - from <= PageSize)
      <4>1. PageEnd(from) = from + PageSize
        BY <3>3 DEF PageEnd
      <4> QED
        BY <1>1, <3>1, <4>1
    <3> QED
      BY <3>2, <3>3
  <2> QED
    BY <2>1 DEF PageAfter
<1>4. /\ UNCHANGED <<place, feed, run, torn>> /\ run.task = "idle"
      /\ window'.changes = old \o new /\ window'.base = Opened.base
      /\ window'.open /\ window'.since = Opened.since
      /\ window'.complete = (PageEnd(from) = Len(feed))
  <2>1. window' = [Opened EXCEPT !.changes = @ \o new, !.pages = @ + 1,
                                 !.complete = PageEnd(from) = Len(feed)]
    BY DEF CollectPage
  <2> QED
    BY <1>1, <2>1 DEF CollectPage, Windows, provider
<1>5. Opened.since <= Len(feed)
  BY <1>2 DEF Opened, SteadyInv, QuietInv
<1> HIDE DEF new
<1>6. ASSUME Quiet', NEW n \in 1..Len(old)
      PROVE  (old \o new)[n] = Reading(feed[Opened.base + n])
  <2>1. (old \o new)[n] = old[n]
    BY <1>2, <1>6
  <2>2. Opened = window /\ window.open
    <3>1. ~window.open => Opened.changes = <<>>
      BY DEF Opened, NoWindow
    <3>2. ~window.open => Len(old) = 0
      BY <3>1
    <3> QED
      BY <1>6, <3>2 DEF Opened
  <2>3. Quiet
    BY <1>4, <1>6, <2>2 DEF Quiet
  <2> QED
    BY <1>6, <2>1, <2>2, <2>3 DEF SteadyInv, QuietInv, QuietPages
<1>7. ASSUME NEW n \in (Len(old) + 1)..Len(old \o new)
      PROVE  (old \o new)[n] = Reading(feed[Opened.base + n])
  <2> DEFINE m == n - Len(old)
  <2>1. /\ Len(old) \in Nat /\ Len(new) \in Nat
        /\ Len(old \o new) = Len(old) + Len(new)
    BY <1>2
  <2>2. m \in 1..Len(new) /\ n \in 1..(Len(old) + Len(new)) /\ n > Len(old)
    BY <1>7, <2>1
  <2>3. (old \o new)[n] = new[m]
    BY <1>2, <2>1, <2>2
  <2>4. new[m] = Reading(feed[from + m])
    BY <1>3, <2>2
  <2>5. from + m = Opened.base + n
    <3>1. \A a, b, d \in Nat : (a + b) + (d - b) = a + d
      OBVIOUS
    <3> QED
      BY <3>1, <1>2, <2>1, <2>2
  <2> HIDE DEF m, from
  <2> QED
    BY <2>3, <2>4, <2>5
<1>8. window'.complete => WindowEnd' = Len(feed)
  <2>1. Len(old \o new) = Len(old) + Len(new) /\ Len(old) \in Nat
    BY <1>2
  <2>2. WindowEnd' = Opened.base + Len(old \o new)
    BY <1>4 DEF WindowEnd
  <2>3. \A a, b, d \in Nat : a + (b + (d - (a + b))) = d
    OBVIOUS
  <2>4. WindowEnd' = PageEnd(from)
    BY <1>2, <1>3, <2>1, <2>2, <2>3
  <2> QED
    BY <1>4, <2>4
<1>9. QuietPages'
  <2>1. 1..Len(old \o new) \subseteq (1..Len(old)) \cup ((Len(old) + 1)..Len(old \o new))
    BY <1>2
  <2> HIDE DEF old
  <2>2. ASSUME Quiet', NEW n \in 1..Len(old \o new)
        PROVE  (old \o new)[n] = Reading(feed[Opened.base + n])
    BY <1>6, <1>7, <2>1, <2>2
  <2> QED
    BY <1>4, <1>8, <2>2 DEF QuietPages, Reading, Deleted
<1>10. QuietProjection' /\ QuietHydration'
  BY <1>4 DEF QuietProjection, QuietHydration
<1> QED
  BY <1>4, <1>5, <1>9, <1>10 DEF QuietInv

LEMMA BeginExecutionKeepsQuiet ==
  ASSUME SteadyInv, BeginExecution
  PROVE  QuietInv'
<1>0. MirrorInv
  BY DEF SteadyInv
<1>1. /\ UNCHANGED <<place, feed, inventory, catalog, window, torn>>
      /\ run'.task = "execute" /\ run'.next = 1 /\ run'.tree = catalog
      /\ run'.lost = torn /\ Complete(catalog)
  BY DEF BeginExecution, provider, durable, Idle
<1>2. /\ window.open /\ inventory.snapshot /\ window.base = Cursor
  BY <1>0 DEF BeginExecution, MirrorInv, Inv, MirrorTypeOK, Positions
<1>3. Applied' = Cursor
  BY <1>0, <1>1, <1>2, Bounds DEF Applied
<1>4. \A i \in Items : catalog[i] # None => Later(feed, i, Cursor) \/ catalog[i] = place[i]
  BY <1>0, <1>2 DEF MirrorInv, Mirroring, CatalogMirrors, Mirrors
<1>5. \A i \in Held(catalog) : ChangedSince(i, Cursor) \/ Below(i)
  BY <1>1, <1>4, HeldIsBelow
<1>6. \A i \in Held(catalog) : catalog[i] \in Held(catalog) \cup {Root}
  <2>1. \A i \in Under(catalog, Root) : i \in Held(catalog)
    BY UnderIsItems, UnderHasParent, ItemsAssumption DEF Held
  <2> QED
    BY <1>1, <2>1, UnderHasParent DEF Complete
<1>7. QuietProjection'
  <2>1. \A i : ChangedSince(i, Cursor) <=> ChangedSince(i, Applied)'
    BY <1>1, <1>3 DEF ChangedSince
  <2> QED
    BY <1>1, <1>5, <1>6, <2>1 DEF QuietProjection, Quiet, Below
<1>8. QuietHydration' /\ QuietPages' /\ (window'.open => window'.since <= Len(feed'))
  BY <1>1 DEF QuietHydration, SteadyInv, QuietInv, QuietPages, Quiet, Reading, Deleted, WindowEnd
<1> QED
  BY <1>7, <1>8 DEF QuietInv

-----------------------------------------------------------------------------
(* The execution of a window while the provider is quiet.                  *)

(* What is below an item that is outside is outside.                       *)
LEMMA OutsideIsInherited ==
  ASSUME NEW i \in Items, ~Below(i), NEW k \in Under(place, i)
  PROVE  ~Below(k)
<1> DEFINE S == {j \in Items : ~Below(j)}
<1>1. ASSUME NEW j \in Items, place[j] \in S \cup {i} PROVE j \in S
  BY <1>1, BelowIsInherited, ItemsAssumption
<1>2. Under(place, i) \subseteq S
  BY <1>1, UnderIsLeast
<1> QED
  BY <1>2

(* The pages still say what the provider is, so an item that stays has the *)
(* parent of its page, and one that leaves is not below the root.          *)
LEMMA QuietChange ==
  ASSUME SteadyInv, Quiet, Executing, run.next <= Len(window.changes)
  PROVE  LET i == NextChange.item
             at == NextChange.at IN
         /\ i = feed[Applied + 1]
         /\ i \in Items => at = IF Deleted(i) THEN Gone ELSE place[i]
         /\ i \in Items => ~ParentLost
         /\ i \in Items => (IsDescendant <=> Below(i))
         /\ \A k \in Items : ChangedSince(k, Applied) =>
              ChangedSince(k, Applied + 1) \/ k = i \/ k \in Under(place, i)
<1> DEFINE i == NextChange.item
           at == NextChange.at
<1>0. MirrorInv
  BY DEF SteadyInv
<1>1. /\ run.next \in 1..Len(window.changes) /\ window.base + run.next = Applied + 1
      /\ Applied \in Nat /\ Len(feed) \in Nat
  BY <1>0, Bounds DEF Applied
<1>2. NextChange = Reading(feed[Applied + 1])
  BY <1>1 DEF NextChange, SteadyInv, QuietInv, QuietPages
<1>3. i = feed[Applied + 1]
  BY <1>2 DEF Reading, Change
<1>4. i \in Items => at = IF Deleted(i) THEN Gone ELSE place[i]
  BY <1>2, <1>3, ItemsAssumption DEF Reading, Change
<1>5. i \in Items => ~ParentLost
  BY <1>4, UnderIsClosed, PlacesAssumption DEF ParentLost, Deleted
<1>6. i \in Items => (IsDescendant <=> Below(i))
  <2> SUFFICES ASSUME i \in Items PROVE IsDescendant <=> Below(i)
    OBVIOUS
  <2>1. CASE Deleted(i)
    <3>1. ~Below(i)
      BY <2>1, UnderIsDisjoint, PlacesAssumption, ItemsAssumption DEF Deleted, Below
    <3> QED
      BY <2>1, <3>1, <1>4, PlacesAssumption DEF IsDescendant
  <2>2. CASE ~Deleted(i)
    <3>1. Below(i) <=> place[i] = Root \/ (place[i] \in Items /\ Below(place[i]))
      BY BelowIsInherited, UnderIsItems DEF Below
    <3> QED
      BY <2>2, <3>1, <1>4 DEF IsDescendant
  <2> QED
    BY <2>1, <2>2
<1>7. ASSUME NEW k \in Items, ChangedSince(k, Applied)
      PROVE  ChangedSince(k, Applied + 1) \/ k = i \/ k \in Under(place, i)
  <2>1. PICK m \in (Applied + 1)..Len(feed) : feed[m] = k \/ k \in Under(place, feed[m])
    BY <1>7 DEF ChangedSince
  <2>2. CASE m = Applied + 1
    BY <2>1, <2>2, <1>3
  <2>3. CASE m # Applied + 1
    <3>1. m \in (Applied + 1 + 1)..Len(feed)
      BY <1>1, <2>1, <2>3
    <3> QED
      BY <2>1, <3>1 DEF ChangedSince
  <2> QED
    BY <2>2, <2>3
<1> QED
  BY <1>3, <1>4, <1>5, <1>6, <1>7

(* What QuietProjection says of the projection of position n.              *)
Steady(tree, lost, n) ==
  /\ lost = {}
  /\ \A i \in Held(tree) : ChangedSince(i, n) \/ Below(i)
  /\ \A i \in Held(tree) : Below(i) \/ tree[i] \in Held(tree) \cup {Root}

LEMMA SteadyProjection ==
  ASSUME SteadyInv, Quiet, run.task \in {"execute", "hydrate"}
  PROVE  Steady(run.tree, run.lost, Applied)
BY DEF SteadyInv, QuietInv, QuietProjection, Steady

LEMMA AppliedKeepsQuiet ==
  ASSUME SteadyInv, run.task \in {"execute", "hydrate"}, run.next <= Len(window.changes),
         UNCHANGED <<place, feed, window, torn>>,
         run'.task = "execute", run'.next = run.next + 1,
         Quiet => Steady(run'.tree, run'.lost, Applied + 1)
  PROVE  QuietInv'
<1>1. Applied' = Applied + 1
  BY Bounds DEF SteadyInv, Applied
<1>2. \A k : ChangedSince(k, Applied + 1) <=> ChangedSince(k, Applied)'
  BY <1>1 DEF ChangedSince
<1>3. QuietProjection'
  BY <1>2 DEF QuietProjection, Quiet, Steady, Below
<1>4. QuietHydration' /\ QuietPages' /\ (window'.open => window'.since <= Len(feed'))
  BY DEF QuietHydration, SteadyInv, QuietInv, QuietPages, Quiet, Reading, Deleted, WindowEnd
<1> QED
  BY <1>3, <1>4 DEF QuietInv

(* A folder that leaves takes with it what the projection holds below it,  *)
(* and with that everything that is there for its sake.                    *)
LEMMA LeavingTakesAll ==
  ASSUME SteadyInv, Quiet, Resolving, NextChange.item \in Items, ~Below(NextChange.item),
         NEW k \in Held(run.tree), k \in Under(place, NextChange.item),
         ~ChangedSince(k, Applied + 1)
  PROVE  k \in Under(run.tree, NextChange.item) /\ NextChange.item \in Held(run.tree)
<1> DEFINE i == NextChange.item
           tree == run.tree
           S == {j \in Items :
                   \/ j \notin Under(place, i)
                   \/ j \notin Held(tree)
                   \/ ChangedSince(j, Applied + 1)
                   \/ j \in Under(tree, i) /\ i \in Held(tree)}
<1>0. MirrorInv /\ Executing /\ run.next <= Len(window.changes) /\ run.task = "execute"
  BY ResolvingIsExecuting DEF SteadyInv
<1>1. Steady(tree, run.lost, Applied)
  BY <1>0, SteadyProjection
<1>2. ASSUME NEW j \in Items, place[j] \in S \cup {i}, j \in Under(place, i),
             j \in Held(tree), ~ChangedSince(j, Applied + 1)
      PROVE  j \in Under(tree, i) /\ i \in Held(tree)
  <2>1. j # i
    BY <1>0, <1>2 DEF MirrorInv, Mirroring, NoLoops
  <2>2. ~Later(feed, j, Applied)
    BY <1>0, <1>2, <2>1, ChangeFacts, ChangesAreInherited
  <2>3. tree[j] = place[j] /\ tree[j] # None
    BY <1>0, <1>2, <2>2 DEF MirrorInv, Mirroring, ProjectionMirrors, Mirrors, Held
  <2>4. place[j] \in Held(tree) \cup {Root}
    BY <1>1, <1>2, <2>3, OutsideIsInherited DEF Steady
  <2>5. place[j] = i \/ place[j] \in Under(place, i)
    BY <1>2, UnderHasParent
  <2>6. place[j] \in Held(tree)
    BY <2>4, <2>5, UnderIsItems, ItemsAssumption
  <2>7. ~ChangedSince(place[j], Applied + 1)
    BY <1>2, ChangesAreInherited
  <2>8. place[j] # i => place[j] \in S /\ place[j] \in Under(place, i)
    BY <1>2, <2>5
  <2>9. place[j] = i \/ (place[j] \in Under(tree, i) /\ i \in Held(tree))
    BY <2>6, <2>7, <2>8
  <2> QED
    BY <2>3, <2>6, <2>9, UnderIsClosed
<1>3. Under(place, i) \subseteq S
  <2>1. \A j \in Items : place[j] \in S \cup {i} => j \in S
    BY <1>2
  <2>2. S \in SUBSET Items
    OBVIOUS
  <2> HIDE DEF S
  <2> QED
    BY <2>1, <2>2, UnderIsLeast
<1> QED
  BY <1>3

LEMMA RevalidateRootKeepsQuiet ==
  ASSUME SteadyInv, RevalidateRoot
  PROVE  QuietInv'
<1>0. MirrorInv /\ Resolving /\ NextChange.item = Root /\ Resolved(run.tree, run.lost, run.left)
  BY DEF SteadyInv, RevalidateRoot
<1>1. /\ run'.task = "execute" /\ run'.next = run.next + 1 /\ run'.tree = run.tree
      /\ run'.lost = run.lost /\ UNCHANGED <<place, feed, window, torn>>
  BY <1>0, ResolvingIsExecuting DEF Resolved, Runs, provider, durable
<1>2. ASSUME Quiet PROVE Steady(run.tree, run.lost, Applied + 1)
  BY <1>0, <1>2, ResolvingIsExecuting, SteadyProjection, QuietChange, ItemsAssumption
     DEF Steady, Below, Held
<1> QED
  BY <1>0, <1>1, <1>2, ResolvingIsExecuting, AppliedKeepsQuiet

LEMMA UpsertKeepsQuiet ==
  ASSUME SteadyInv, UpsertItem
  PROVE  QuietInv'
<1> DEFINE i == NextChange.item
           new == [run.tree EXCEPT ![i] = NextChange.at]
<1>0. /\ MirrorInv /\ Resolving /\ i \in Items /\ IsDescendant
      /\ Resolved(new, run.lost \ {i}, run.left \ {i})
  BY ResolvingIsExecuting DEF SteadyInv, UpsertItem
<1>1. /\ run'.task = "execute" /\ run'.next = run.next + 1 /\ run'.tree = new
      /\ run'.lost = run.lost \ {i} /\ UNCHANGED <<place, feed, window, torn>>
  BY <1>0, ResolvingIsExecuting DEF Resolved, Runs, provider, durable
<1>2. \A k \in Items : k # i => new[k] = run.tree[k]
  BY <1>0, ResolvingIsExecuting DEF Runs, Trees
<1>3. Held(new) \subseteq Held(run.tree) \cup {i} /\ Held(run.tree) \subseteq Held(new) \cup {i}
  BY <1>2 DEF Held
<1>4. NextChange.at # None
  BY <1>0, NextChangeType, ItemsAssumption, PlacesAssumption DEF MirrorInv
<1>5. i \in Held(new)
  BY <1>0, <1>4, ResolvingIsExecuting DEF Held, Runs, Trees
<1> HIDE DEF new
<1>6. ASSUME Quiet PROVE Steady(new, run.lost \ {i}, Applied + 1)
  <2>1. Steady(run.tree, run.lost, Applied)
    BY <1>0, <1>6, ResolvingIsExecuting, SteadyProjection
  <2>2. /\ Below(i)
        /\ \A k \in Items : ChangedSince(k, Applied) =>
             ChangedSince(k, Applied + 1) \/ k = i \/ k \in Under(place, i)
    BY <1>0, <1>6, ResolvingIsExecuting, QuietChange
  <2>3. \A k \in Under(place, i) : Below(k)
    BY <2>2, UnderIsTransitive DEF Below
  <2>4. \A k \in Held(new) : k \in Items
    BY DEF Held
  <2> QED
    BY <2>1, <2>2, <2>3, <2>4, <1>2, <1>3, <1>5 DEF Steady
<1> QED
  BY <1>0, <1>1, <1>6, ResolvingIsExecuting, AppliedKeepsQuiet

LEMMA DeleteSubtreeKeepsQuiet ==
  ASSUME SteadyInv, DeleteSubtree
  PROVE  QuietInv'
<1> DEFINE i == NextChange.item
           new == WithSubtreeDeleted(run.tree, i)
<1>0. /\ MirrorInv /\ Resolving /\ i \in Items /\ Leaves
      /\ Resolved(new, run.lost, LeftWith(i))
  BY ResolvingIsExecuting DEF SteadyInv, DeleteSubtree
<1>1. /\ run'.task = "execute" /\ run'.next = run.next + 1 /\ run'.tree = new
      /\ run'.lost = run.lost /\ UNCHANGED <<place, feed, window, torn>>
  BY <1>0, ResolvingIsExecuting DEF Resolved, Runs, provider, durable
<1>2. \A k \in Held(new) : /\ k \in Held(run.tree) /\ k \in Items
                           /\ k # i /\ k \notin Under(run.tree, i)
                           /\ new[k] = run.tree[k]
  BY DEF Held, WithSubtreeDeleted
<1>3. \A k \in Held(run.tree) : k # i /\ k \notin Under(run.tree, i) => k \in Held(new)
  BY DEF Held, WithSubtreeDeleted
<1> HIDE DEF new
<1>4. ASSUME Quiet PROVE Steady(new, run.lost, Applied + 1)
  <2>1. Steady(run.tree, run.lost, Applied)
    BY <1>0, <1>4, ResolvingIsExecuting, SteadyProjection
  <2>2. /\ ~Below(i)
        /\ \A k \in Items : ChangedSince(k, Applied) =>
             ChangedSince(k, Applied + 1) \/ k = i \/ k \in Under(place, i)
    BY <1>0, <1>4, ResolvingIsExecuting, QuietChange DEF Leaves
  <2>3. ASSUME NEW k \in Held(new) PROVE ChangedSince(k, Applied + 1) \/ Below(k)
    BY <2>1, <2>2, <2>3, <1>0, <1>2, <1>4, LeavingTakesAll DEF Steady
  <2>4. ASSUME NEW k \in Held(new), ~Below(k) PROVE new[k] \in Held(new) \cup {Root}
    <3>1. run.tree[k] \in Held(run.tree) \cup {Root}
      BY <2>1, <2>4, <1>2 DEF Steady
    <3>2. run.tree[k] # i /\ run.tree[k] \notin Under(run.tree, i)
      BY <2>4, <1>2, UnderIsClosed
    <3> QED
      BY <2>4, <3>1, <3>2, <1>2, <1>3
  <2> QED
    BY <2>1, <2>3, <2>4 DEF Steady
<1> QED
  BY <1>0, <1>1, <1>4, ResolvingIsExecuting, AppliedKeepsQuiet

LEMMA IgnoreChangeKeepsQuiet ==
  ASSUME SteadyInv, IgnoreChange
  PROVE  QuietInv'
<1> DEFINE i == NextChange.item
<1>0. /\ MirrorInv /\ Resolving /\ i \in Items /\ Leaves /\ i \notin Held(run.tree)
      /\ Resolved(run.tree, run.lost, LeftWith(i))
  BY ResolvingIsExecuting DEF SteadyInv, IgnoreChange
<1>1. /\ run'.task = "execute" /\ run'.next = run.next + 1 /\ run'.tree = run.tree
      /\ run'.lost = run.lost /\ UNCHANGED <<place, feed, window, torn>>
  BY <1>0, ResolvingIsExecuting DEF Resolved, Runs, provider, durable
<1>2. ASSUME Quiet PROVE Steady(run.tree, run.lost, Applied + 1)
  <2>1. Steady(run.tree, run.lost, Applied)
    BY <1>0, <1>2, ResolvingIsExecuting, SteadyProjection
  <2>2. /\ ~Below(i)
        /\ \A k \in Items : ChangedSince(k, Applied) =>
             ChangedSince(k, Applied + 1) \/ k = i \/ k \in Under(place, i)
    BY <1>0, <1>2, ResolvingIsExecuting, QuietChange DEF Leaves
  <2>3. ASSUME NEW k \in Held(run.tree) PROVE ChangedSince(k, Applied + 1) \/ Below(k)
    BY <2>1, <2>2, <2>3, <1>0, <1>2, LeavingTakesAll DEF Steady, Held
  <2> QED
    BY <2>1, <2>3 DEF Steady
<1> QED
  BY <1>0, <1>1, <1>2, ResolvingIsExecuting, AppliedKeepsQuiet

LEMMA BeginHydrationKeepsQuiet ==
  ASSUME SteadyInv, BeginHydration
  PROVE  QuietInv'
<1> DEFINE i == NextChange.item
           new == [Nothing EXCEPT ![i] = NextChange.at]
<1>0. MirrorInv /\ Resolving /\ i \in Items /\ IsDescendant /\ NextChange.at # None
  BY NextChangeType, ItemsAssumption, PlacesAssumption
     DEF SteadyInv, MirrorInv, BeginHydration
<1>1. /\ UNCHANGED <<place, feed, window, torn>>
      /\ run'.task = "hydrate" /\ run'.next = run.next /\ run'.tree = run.tree
      /\ run'.lost = run.lost /\ run'.found = new /\ run'.queue = {i}
  BY <1>0, ResolvingIsExecuting DEF BeginHydration, Runs, provider, durable
<1>2. Held(new) = {i}
  BY <1>0 DEF Held, Nothing
<1>3. NextChange' = NextChange /\ Applied' = Applied
  BY <1>1 DEF NextChange, Applied
<1>4. Quiet => Below(i)
  BY <1>0, ResolvingIsExecuting, QuietChange
<1> HIDE DEF new
<1>5. QuietHydration'
  BY <1>1, <1>2, <1>3, <1>4 DEF QuietHydration, Quiet, Below
<1>6. QuietProjection'
  <2>1. \A k : ChangedSince(k, Applied) <=> ChangedSince(k, Applied)'
    BY <1>1, <1>3 DEF ChangedSince
  <2>2. Quiet => Steady(run.tree, run.lost, Applied)
    BY <1>0, ResolvingIsExecuting, SteadyProjection
  <2> QED
    BY <1>1, <2>1, <2>2 DEF QuietProjection, Steady, Quiet, Below
<1>7. QuietPages' /\ (window'.open => window'.since <= Len(feed'))
  BY <1>1 DEF SteadyInv, QuietInv, QuietPages, Quiet, Reading, Deleted, WindowEnd
<1> QED
  BY <1>5, <1>6, <1>7 DEF QuietInv

(* A new folder is below the root, so each listing of the hydration is     *)
(* whole, and no item is in two of them.                                   *)
LEMMA QuietListing ==
  ASSUME SteadyInv, Quiet, run.task = "hydrate", NEW f \in run.queue
  PROVE  /\ f \in Items /\ Below(f) /\ ~Deleted(f)
         /\ \A listing \in Listings(f) : listing = ChildrenAt(f)
         /\ ChildrenAt(f) \cap Held(run.found) = {}
<1> DEFINE top == NextChange.item
<1>1. /\ Below(top) /\ f \in Held(run.found)
      /\ \A k \in Held(run.found) :
           \/ k = top
           \/ k \in Under(place, top) /\ place[k] \in Held(run.found) \ run.queue
  BY DEF SteadyInv, QuietInv, QuietHydration
<1>2. f \in Items
  BY <1>1 DEF Held
<1>3. Under(place, top) \subseteq Under(place, Root) /\ top \in Items
  BY <1>1, UnderIsTransitive, UnderIsItems DEF Below
<1>4. Below(f)
  BY <1>1, <1>3 DEF Below
<1>5. ~Deleted(f)
  BY <1>4, UnderIsDisjoint, PlacesAssumption, ItemsAssumption DEF Deleted, Below
<1>6. \A listing \in Listings(f) : listing = ChildrenAt(f)
  BY <1>4 DEF Listings
<1>7. ASSUME NEW k \in ChildrenAt(f) \cap Held(run.found) PROVE FALSE
  <2>1. k \in Items /\ place[k] = f
    BY <1>7 DEF ChildrenAt
  <2>2. k = top
    BY <1>1, <1>7, <2>1
  <2>3. f = top \/ f \in Under(place, top)
    BY <1>1
  <2>4. top \in Under(place, top)
    BY <2>1, <2>2, <2>3, UnderIsClosed
  <2> QED
    BY <1>3, <2>4 DEF SteadyInv, MirrorInv, Mirroring, NoLoops
<1> QED
  BY <1>2, <1>4, <1>5, <1>6, <1>7

LEMMA HydrateFolderKeepsQuiet ==
  ASSUME SteadyInv, NEW f \in Folders, HydrateFolder(f)
  PROVE  QuietInv'
<1> DEFINE top == NextChange.item
<1>1. PICK listing \in Listings(f) :
        /\ listing \cap Held(run.found) = {}
        /\ run' = [run EXCEPT !.found = Overlaid(@, Rows(f, listing)),
                              !.queue = NextFolders(f, listing),
                              !.lost = @ \cup Hidden(f, listing)]
  BY DEF HydrateFolder
<1> DEFINE new == Overlaid(run.found, Rows(f, listing))
           queue == NextFolders(f, listing)
<1>2. /\ run.task = "hydrate" /\ f \in run.queue
      /\ UNCHANGED <<place, feed, window, torn>>
      /\ run'.task = "hydrate" /\ run'.next = run.next /\ run'.tree = run.tree
      /\ run'.lost = run.lost \cup Hidden(f, listing)
      /\ run'.found = new /\ run'.queue = queue
  BY <1>1 DEF HydrateFolder, provider, durable, SteadyInv, MirrorInv, Inv, MirrorTypeOK, Runs
<1>3. NextChange' = NextChange /\ Applied' = Applied
  BY <1>2 DEF NextChange, Applied
<1>4. f \in Items /\ f # None /\ listing \subseteq Items
  BY ItemsAssumption DEF Listings, ChildrenAt
<1>5. Held(new) = Held(run.found) \cup listing
  BY <1>4 DEF Held, Overlaid, Rows
<1>6. queue = (run.queue \ {f}) \cup (listing \cap Folders)
  BY DEF NextFolders
<1> HIDE DEF new, queue
<1>7. ASSUME Quiet
      PROVE  /\ Hidden(f, listing) = {}
             /\ Below(top)
             /\ queue \subseteq Held(new)
             /\ \A k \in Held(new) :
                  k = top \/ (k \in Under(place, top) /\ place[k] \in Held(new) \ queue)
  <2>1. listing = ChildrenAt(f)
    BY <1>2, <1>7, QuietListing
  <2>2. Hidden(f, listing) = {}
    BY <2>1 DEF Hidden
  <2>3. /\ Below(top) /\ run.queue \subseteq Held(run.found)
        /\ \A k \in Held(run.found) :
             \/ k = top
             \/ k \in Under(place, top) /\ place[k] \in Held(run.found) \ run.queue
    BY <1>2, <1>7 DEF SteadyInv, QuietInv, QuietHydration
  <2>4. queue \subseteq Held(new)
    BY <1>5, <1>6, <2>3
  <2>5. f \in Held(run.found) /\ f \notin listing
    <3>1. f \in Held(run.found)
      BY <1>2, <2>3
    <3> QED
      BY <3>1, <1>1
  <2>6. ASSUME NEW k \in listing
        PROVE  k \in Under(place, top) /\ place[k] \in Held(new) \ queue
    <3>1. k \in Items /\ place[k] = f
      BY <2>1, <2>6 DEF ChildrenAt
    <3>2. f = top \/ f \in Under(place, top)
      BY <2>3, <2>5
    <3>3. k \in Under(place, top)
      BY <3>1, <3>2, UnderIsClosed
    <3> QED
      BY <3>1, <3>3, <2>5, <1>5, <1>6
  <2>7. ASSUME NEW k \in Held(run.found), k # top
        PROVE  k \in Under(place, top) /\ place[k] \in Held(new) \ queue
    <3>1. k \in Under(place, top) /\ place[k] \in Held(run.found) \ run.queue
      BY <2>3, <2>7
    <3>2. place[k] \notin listing
      BY <3>1, <1>1
    <3> QED
      BY <3>1, <3>2, <1>5, <1>6
  <2> QED
    BY <2>2, <2>3, <2>4, <2>6, <2>7, <1>5
<1>8. QuietHydration'
  BY <1>2, <1>3, <1>7 DEF QuietHydration, Quiet, Below
<1>9. QuietProjection'
  <2>1. \A k : ChangedSince(k, Applied) <=> ChangedSince(k, Applied)'
    BY <1>2, <1>3 DEF ChangedSince
  <2>2. Quiet => Steady(run.tree, run.lost, Applied)
    BY <1>2, SteadyProjection
  <2> QED
    BY <1>2, <1>7, <2>1, <2>2 DEF QuietProjection, Steady, Quiet, Below
<1>10. QuietPages' /\ (window'.open => window'.since <= Len(feed'))
  BY <1>2 DEF SteadyInv, QuietInv, QuietPages, Quiet, Reading, Deleted, WindowEnd
<1> QED
  BY <1>8, <1>9, <1>10 DEF QuietInv

LEMMA FinishHydrationKeepsQuiet ==
  ASSUME SteadyInv, FinishHydration
  PROVE  QuietInv'
<1> DEFINE i == NextChange.item
           new == Overlaid(run.tree, run.found)
           found == Held(run.found)
<1>1. /\ UNCHANGED <<place, feed, window, torn>>
      /\ run.task = "hydrate"
      /\ run'.task = "execute" /\ run'.next = run.next + 1 /\ run'.tree = new
      /\ run'.lost = run.lost \ found
  BY DEF FinishHydration, provider, durable, SteadyInv, MirrorInv, Inv, MirrorTypeOK, Runs
<1>2. Executing /\ run.next <= Len(window.changes)
  BY <1>1 DEF SteadyInv, MirrorInv, Mirroring, ProjectionMirrors, Executing
<1>3. /\ Held(new) = Held(run.tree) \cup found
      /\ \A k \in Items : k \notin found => new[k] = run.tree[k]
      /\ Held(new) \subseteq Items
  BY DEF Overlaid, Held
<1> HIDE DEF new
<1>4. ASSUME Quiet PROVE Steady(new, run.lost \ found, Applied + 1)
  <2>1. Steady(run.tree, run.lost, Applied)
    BY <1>1, <1>4, SteadyProjection
  <2>2. \A k \in Items : ChangedSince(k, Applied) =>
          ChangedSince(k, Applied + 1) \/ k = i \/ k \in Under(place, i)
    BY <1>2, <1>4, QuietChange
  <2>3. Below(i) /\ \A k \in found : k = i \/ k \in Under(place, i)
    BY <1>1, <1>4 DEF SteadyInv, QuietInv, QuietHydration
  <2>4. \A k \in Under(place, i) : Below(k)
    BY <2>3, UnderIsTransitive DEF Below
  <2> QED
    BY <2>1, <2>2, <2>3, <2>4, <1>3 DEF Steady
<1> QED
  BY <1>1, <1>2, <1>4, AppliedKeepsQuiet

LEMMA NextQuiet == SteadyInv /\ [Next]_vars => QuietInv'
<1> SUFFICES ASSUME SteadyInv, [Next]_vars PROVE QuietInv'
  OBVIOUS
<1>1. CASE Environment
  <2>1. CASE \/ \E i \in Items, p \in Places : Move(i, p)
             \/ \E i \in Items : Delete(i)
             \/ RenameRoot
    BY <2>1, ProviderEndsQuiet DEF Move, Delete, RenameRoot
  <2>2. CASE LocalWork \/ SettleLocalWork
    BY <2>2, NotExecutingKeepsQuiet DEF LocalWork, SettleLocalWork, provider, durable
  <2>3. CASE Interrupt
    BY <2>3, NotExecutingKeepsQuiet DEF Interrupt, provider, Idle
  <2> QED
    BY <1>1, <2>1, <2>2, <2>3 DEF Environment
<1>2. CASE BeginBootstrap \/ BeginRebaseline
  BY <1>2, NotExecutingKeepsQuiet DEF BeginBootstrap, BeginRebaseline, BeginTraversal,
     provider, Idle
<1>3. CASE Traversal
  <2>1. CASE \E f \in Folders \cup {Root} : StageFolder(f)
    <3>1. run'.task = run.task /\ Traversing
      BY <2>1 DEF StageFolder, SteadyInv, MirrorInv, Inv, MirrorTypeOK, Runs
    <3> QED
      BY <2>1, <3>1, NotExecutingKeepsQuiet DEF StageFolder, provider, Traversing
  <2>2. CASE (\E f \in Folders \cup {Root} : RefuseFolder(f)) \/ RefuseRebaseline
    BY <2>2, NotExecutingKeepsQuiet DEF RefuseFolder, RefuseRebaseline, GiveUp, provider, Idle
  <2>3. CASE CommitBootstrap
    BY <2>3, NoWindowIsQuiet DEF CommitBootstrap, SteadyInv, MirrorInv, Inv, Phases, MirrorTypeOK
  <2>4. CASE CommitRebaseline
    BY <2>4, NoWindowIsQuiet DEF CommitRebaseline, NoWindow
  <2> QED
    BY <1>3, <2>1, <2>2, <2>3, <2>4 DEF Traversal
<1>4. CASE Execution
  <2>1. CASE CommitWindow
    BY <2>1, NoWindowIsQuiet DEF CommitWindow, NoWindow
  <2>2. CASE RefuseExecution
    BY <2>2, NotExecutingKeepsQuiet DEF RefuseExecution, provider, durable, Idle
  <2>3. CASE DeleteCycle
    <3>1. run'.task = "hang" /\ UNCHANGED <<place, feed, window, torn>>
      BY <2>3 DEF DeleteCycle, provider, durable, SteadyInv, MirrorInv, Inv, MirrorTypeOK, Runs
    <3> QED
      BY <3>1, NotExecutingKeepsQuiet
  <2> QED
    BY <1>4, <2>1, <2>2, <2>3, RevalidateRootKeepsQuiet, UpsertKeepsQuiet,
       DeleteSubtreeKeepsQuiet, IgnoreChangeKeepsQuiet, BeginHydrationKeepsQuiet,
       HydrateFolderKeepsQuiet, FinishHydrationKeepsQuiet DEF Execution
<1>5. CASE UNCHANGED vars
  BY <1>5, NotExecutingKeepsQuiet DEF vars, provider
<1> QED
  BY <1>1, <1>2, <1>3, <1>4, <1>5, CollectPageKeepsQuiet, BeginExecutionKeepsQuiet DEF Next

LEMMA AlwaysSteady == Spec => []SteadyInv
<1>1. Init => QuietInv
  BY DEF Init, QuietInv, QuietPages, QuietProjection, QuietHydration, Quiet, NoWindow
<1>2. Init => MirrorInv
  BY InitInv, InitMirroring DEF MirrorInv
<1>3. SteadyInv /\ [Next]_vars => SteadyInv'
  BY NextInv, NextMirroring, NextQuiet DEF SteadyInv, MirrorInv
<1> QED
  BY <1>1, <1>2, <1>3, PTL DEF Spec, SteadyInv

(* At the end of a quiet window the projection holds what is below the     *)
(* root, and nothing else.                                                 *)
LEMMA QuietEnd ==
  ASSUME SteadyInv, Quiet, Executed
  PROVE  Complete(run.tree)
<1>0. MirrorInv /\ Executing
  BY DEF SteadyInv, Executed, Executing
<1>1. Applied = Len(feed)
  <2>1. Applied = WindowEnd
    BY <1>0, Bounds DEF Executed, Applied, WindowEnd
  <2> QED
    BY <2>1, <1>0, Bounds DEF SteadyInv, QuietInv, QuietPages
<1>2. \A k : ~ChangedSince(k, Applied) /\ ~Later(feed, k, Applied)
       /\ ~ChangedSince(k, WindowEnd)
  BY <1>0, <1>1, Bounds DEF ChangedSince, Later, SteadyInv, QuietInv, QuietPages
<1>3. /\ run.lost = {} /\ \A k \in Held(run.tree) : Below(k)
  BY <1>2, SteadyProjection DEF Executed, Steady
<1>4. /\ Mirrors(run.tree, Held(run.tree) \cup {Root}, run.left, Applied, place, feed)
      /\ \A k \in run.left : ~Below(k)
  <2>1. run.lost \cup run.left = run.left
    BY <1>3
  <2> QED
    BY <1>0, <1>2, <2>1 DEF MirrorInv, Mirroring, ProjectionMirrors
<1> DEFINE S == {k \in Items : Below(k) => k \in Under(run.tree, Root)}
<1>5. ASSUME NEW k \in Items, place[k] \in S \cup {Root}, Below(k)
      PROVE  k \in Under(run.tree, Root)
  <2>1. place[k] = Root \/ place[k] \in Under(run.tree, Root)
    BY <1>5, BelowIsInherited
  <2>2. place[k] \in Held(run.tree) \cup {Root}
    BY <2>1, UnderIsItems, UnderHasParent, ItemsAssumption DEF Held
  <2>3. ~Deleted(k)
    BY <1>5, UnderIsDisjoint, PlacesAssumption, ItemsAssumption DEF Deleted, Below
  <2>4. run.tree[k] = place[k]
    BY <1>2, <1>4, <1>5, <2>2, <2>3 DEF Mirrors, Deleted
  <2> QED
    BY <2>1, <2>4, UnderIsClosed
<1>6. Under(place, Root) \subseteq S
  <2>1. \A k \in Items : place[k] \in S \cup {Root} => k \in S
    BY <1>5
  <2>2. S \in SUBSET Items
    OBVIOUS
  <2> HIDE DEF S
  <2> QED
    BY <2>1, <2>2, UnderIsLeast
<1> QED
  BY <1>3, <1>6 DEF Complete, Below

LEMMA SteadyIsNotRefused == SteadyInv => RefusedOnlyAfterAChange
<1> SUFFICES ASSUME SteadyInv, Refused PROVE Len(feed) > window.since \/ torn # {}
  BY DEF RefusedOnlyAfterAChange
<1>1. MirrorInv /\ Executing
  BY DEF SteadyInv, Refused, Resolving, Executed, Executing
<1>2. window.open /\ window.since \in Nat /\ window.since <= Len(feed) /\ Len(feed) \in Nat
  BY <1>1, Bounds DEF SteadyInv, QuietInv, MirrorInv, Inv, MirrorTypeOK, Windows
<1> SUFFICES ASSUME Quiet PROVE FALSE
  BY <1>2 DEF Quiet
<1>3. CASE Resolving /\ NextChange.item # Root /\ ParentLost
  BY <1>1, <1>3, ResolvingIsExecuting, QuietChange
<1>4. CASE /\ run.task = "hydrate"
           /\ \E f \in run.queue :
                \/ Deleted(f)
                \/ \E listing \in Listings(f) : listing \cap Held(run.found) # {}
  BY <1>4, QuietListing
<1>5. CASE Executed /\ ~Complete(run.tree)
  BY <1>5, QuietEnd
<1> QED
  BY <1>3, <1>4, <1>5 DEF Refused

(* A provider that has been quiet since the first page of a window, after  *)
(* traversals and executions that lost nothing, is mirrored by the first   *)
(* execution that is not cut short: none of its checks refuses.            *)
THEOREM QuietWindowsAreNotRefused == Spec => []RefusedOnlyAfterAChange
BY AlwaysSteady, SteadyIsNotRefused, PTL
=============================================================================
