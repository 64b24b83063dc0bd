-------------------------- MODULE RemoteWriteStore --------------------------
(***************************************************************************)
(* The durable side of NubiSync's supervised two-way pipeline: the SQLite  *)
(* tables of one sync root that decide what may be written to the provider *)
(* and when a local create counts as synchronized.                         *)
(*                                                                         *)
(*   sync_roots.mode                            mode                       *)
(*   sync_root_local_inventory_state            inventory                  *)
(*   sync_root_local_items                      baseline                   *)
(*   sync_root_local_change_events              events                     *)
(*   sync_root_remote_write_intents             intents                    *)
(*   sync_root_remote_write_settlements         settled                    *)
(*   sync_root_{file,directory}_materialization_receipts   receipts        *)
(*   sync_root_remote_items                     catalog                    *)
(*   sync_root_change_window_state              window                     *)
(*   sync_roots.change_cursor                   cursor                     *)
(*   sync_root_remote_write_authority(_state)   authority                  *)
(*                                                                         *)
(* Every action is one storage transaction of nubisync-storage with all it *)
(* writes; a transaction whose guards fail rolls back and is a stutter.    *)
(* The inputs are those the daemon and the CLI build.  An event row is     *)
(* identified by its generation and path, because of UNIQUE(sync_root_id,  *)
(* baseline_generation, relative_path); an intent by its source event,     *)
(* because source_local_event_id is UNIQUE.                                *)
(***************************************************************************)
EXTENDS Integers, FiniteSets

CONSTANTS
  Paths,          \* relative paths below the synchronized directory
  FileMeta,       \* size, mtime, device and inode of a file, as one value
  FolderMeta,     \* device and inode of a directory, as one value
  Contents,       \* sha256 digests of file contents
  RemoteIds,      \* provider object ids that files.generateIds may hand out
  MaxGeneration,  \* bound on the inventory generation
  MaxCursor,      \* bound on the provider's change cursor
  MaxAttempts,    \* bound on attempt_count
  None            \* SQL NULL, or no row

ASSUME BoundsAssumption ==
  MaxGeneration \in Nat /\ MaxCursor \in Nat /\ MaxAttempts \in Nat

ASSUME KindsAssumption == FileMeta \cap FolderMeta = {}

ASSUME NoneAssumption ==
  None \notin FileMeta \cup FolderMeta \cup Contents \cup RemoteIds \cup Nat

VARIABLES
  mode, inventory, baseline, events, intents, settled, receipts,
  catalog, window, cursor, authority

localVars  == <<inventory, baseline, events>>
remoteVars == <<catalog, window, cursor, authority>>
storeVars  == <<mode, inventory, baseline, events, intents, settled,
                receipts, catalog, window, cursor, authority>>

-----------------------------------------------------------------------------
Items       == FileMeta \cup FolderMeta
Trees       == [Paths -> Items \cup {None}]
Generations == 1..MaxGeneration
Cursors     == 0..MaxCursor
EventKeys   == Generations \X Paths

KindOf(item) ==
  IF item \in FileMeta THEN "file"
  ELSE IF item \in FolderMeta THEN "directory" ELSE "none"

Kinds      == {"file", "directory", "none"}
EventRows  == [from : Kinds, to : Kinds,
               status : {"pending", "applied", "superseded"}]
Operations == {"create_file", "create_folder"}
Statuses   == {"planned", "submitted", "awaiting", "confirmed",
               "conflict", "failed"}
IntentRows == [op : Operations, status : Statuses, item : Items,
               remote : RemoteIds, execGen : Nat, attempts : Nat,
               preCursor : Cursors \cup {None},
               content : Contents \cup {None}, versioned : BOOLEAN]
ReceiptRows == [path : Paths, content : Contents \cup {None},
                state : {"current", "stale"}]

(* What the catalog row of a remote id says about the object the intent    *)
(* that owns the id wants: no row, exactly that object (parent, name, kind *)
(* and size agree, not trashed), or something else.                        *)
Sightings == {"absent", "exact", "other"}

Windows     == [base : Cursors, complete : BOOLEAN]
Authorities == [cursor : Cursors, canAddChildren : BOOLEAN]

ASSUME RowsAssumption ==
  None \notin EventRows \cup IntentRows \cup ReceiptRows
             \cup Windows \cup Authorities

TypeOK ==
  /\ mode \in {"receive_only", "two_way"}
  /\ inventory \in [complete : BOOLEAN, valid : BOOLEAN,
                    generation : 0..MaxGeneration]
  /\ baseline \in Trees
  /\ events \in [EventKeys -> EventRows \cup {None}]
  /\ intents \in [EventKeys -> IntentRows \cup {None}]
  /\ settled \in SUBSET EventKeys
  /\ receipts \in [RemoteIds -> ReceiptRows \cup {None}]
  /\ catalog \in [RemoteIds -> Sightings]
  /\ window \in Windows \cup {None}
  /\ cursor \in Cursors
  /\ authority \in Authorities \cup {None}

-----------------------------------------------------------------------------
(* Helpers.                                                                *)

Rows(s)          == {k \in EventKeys : s[k] # None}
BaselineUsable   == inventory.complete /\ inventory.valid
AtGeneration(g)  == BaselineUsable /\ inventory.generation = g
IsPending(k)     == events[k] # None /\ events[k].status = "pending"
IsCreate(k)      == IsPending(k) /\ events[k].from = "none"
                                 /\ events[k].to # "none"
PendingAt(g)     == {p \in Paths : <<g, p>> \in EventKeys
                                   /\ IsPending(<<g, p>>)}
OwnedIds         == {intents[k].remote : k \in Rows(intents)}
OperationFor(kind) == IF kind = "file" THEN "create_file"
                                       ELSE "create_folder"
SourceKind(op)   == IF op = "create_file" THEN "file" ELSE "directory"

Supersede(row) ==
  IF row # None /\ row.status = "pending"
  THEN [row EXCEPT !.status = "superseded"] ELSE row

(* The journal of generation g after the scanned tree has been compared    *)
(* with a baseline: every differing path is pending again, every other     *)
(* pending row of that generation is superseded, other generations keep    *)
(* their rows.                                                             *)
Journal(ev, base, scan, g) ==
  [k \in EventKeys |->
     IF k[1] # g THEN ev[k]
     ELSE IF base[k[2]] # scan[k[2]]
     THEN [from |-> KindOf(base[k[2]]), to |-> KindOf(scan[k[2]]),
           status |-> "pending"]
     ELSE Supersede(ev[k])]

(* Mutant: the settled item is not accepted.                               *)
PromoteNothing(base, p, item) == base

(* Tree after a path has been accepted into it.                            *)
Promote(base, p, item) == [base EXCEPT ![p] = item]

-----------------------------------------------------------------------------
StoreInit ==
  /\ mode = "receive_only"
  /\ inventory = [complete |-> FALSE, valid |-> FALSE, generation |-> 0]
  /\ baseline = [p \in Paths |-> None]
  /\ events = [k \in EventKeys |-> None]
  /\ intents = [k \in EventKeys |-> None]
  /\ settled = {}
  /\ receipts = [r \in RemoteIds |-> None]
  /\ catalog = [r \in RemoteIds |-> "absent"]
  /\ window = None
  /\ cursor = 0
  /\ authority = None

-----------------------------------------------------------------------------
(* Mode gate.                                                              *)

(* activate-two-way: a valid inventory with a clean journal, no open       *)
(* window, authority of the durable cursor, and no intent was ever made.   *)
ActivateTwoWay ==
  /\ mode = "receive_only"
  /\ BaselineUsable
  /\ PendingAt(inventory.generation) = {}
  /\ window = None
  /\ authority # None /\ authority.cursor = cursor
  /\ Rows(intents) = {}
  /\ mode' = "two_way"
  /\ UNCHANGED <<localVars, intents, settled, receipts, remoteVars>>

DeactivateTwoWay ==
  /\ mode = "two_way"
  /\ mode' = "receive_only"
  /\ UNCHANGED <<localVars, intents, settled, receipts, remoteVars>>

-----------------------------------------------------------------------------
(* Local inventory and journal.                                            *)

(* Mutant: a snapshot is taken in two-way mode too.                        *)
CommitAnySnapshot(scan) ==
  /\ inventory.generation < MaxGeneration
  /\ baseline' = scan
  /\ events' = [k \in EventKeys |-> Supersede(events[k])]
  /\ inventory' = [complete |-> TRUE, valid |-> TRUE,
                   generation |-> inventory.generation + 1]
  /\ UNCHANGED <<mode, intents, settled, receipts, remoteVars>>

(* local-baseline, receive-only: replace the whole inventory by a scan.    *)
CommitLocalSnapshot(scan) ==
  /\ mode = "receive_only"
  /\ inventory.generation < MaxGeneration
  /\ baseline' = scan
  /\ events' = [k \in EventKeys |-> Supersede(events[k])]
  /\ inventory' = [complete |-> TRUE, valid |-> TRUE,
                   generation |-> inventory.generation + 1]
  /\ UNCHANGED <<mode, intents, settled, receipts, remoteVars>>

(* A receive-only executor is about to change the directory.               *)
InvalidateObservation ==
  /\ mode = "receive_only"
  /\ BaselineUsable
  /\ inventory' = [inventory EXCEPT !.valid = FALSE]
  /\ UNCHANGED <<mode, baseline, events, intents, settled, receipts,
                 remoteVars>>

(* local-journal: compare the directory with the accepted inventory.       *)
ReconcileJournal(scan) ==
  /\ BaselineUsable
  /\ inventory.generation >= 1
  /\ events' = Journal(events, baseline, scan, inventory.generation)
  /\ UNCHANGED <<mode, inventory, baseline, intents, settled, receipts,
                 remoteVars>>

-----------------------------------------------------------------------------
(* Remote catalog, change window and write authority, as far as the        *)
(* intents read them.                                                      *)

(* Pages staged so far; the last page carries the checkpoint.              *)
StageWindow(complete) ==
  /\ window # None => ~window.complete
  /\ window' = [base |-> IF window = None THEN cursor ELSE window.base,
                complete |-> complete]
  /\ UNCHANGED <<mode, localVars, intents, settled, receipts, catalog,
                 cursor, authority>>

DiscardWindow ==
  /\ window # None
  /\ window' = None
  /\ UNCHANGED <<mode, localVars, intents, settled, receipts, catalog,
                 cursor, authority>>

(* Mutant: a deletion or a move of a folder is not looked at.              *)
InvalidatedFilesOnly(cat, touched, moved) ==
  [r \in RemoteIds |->
     IF receipts[r] # None /\ r \in touched /\ receipts[r].content # None
     THEN [receipts[r] EXCEPT !.state = "stale"]
     ELSE receipts[r]]

(* Receipts after a window has been applied.  An upsert of a known file is *)
(* taken for a content revision, so its receipt becomes stale; a folder's  *)
(* receipt survives an upsert that keeps its place; a deleted subtree, or  *)
(* one below a folder that changed its place (moved), becomes stale.       *)
Invalidated(cat, touched, moved) ==
  [r \in RemoteIds |->
     IF /\ receipts[r] # None /\ catalog[r] # "absent"
        /\ \/ r \in moved
           \/ cat[r] # catalog[r]
           \/ r \in touched /\ receipts[r].content # None
     THEN [receipts[r] EXCEPT !.state = "stale"]
     ELSE receipts[r]]

(* Apply a complete window: the projected catalog and the checkpoint       *)
(* become durable and the window disappears, in one transaction.           *)
CommitWindow(checkpoint, cat, touched, moved) ==
  /\ window # None /\ window.complete
  /\ window.base = cursor
  /\ checkpoint \in Cursors /\ checkpoint >= cursor
  /\ \A r \in RemoteIds \ touched : cat[r] = catalog[r]
  /\ catalog' = cat
  /\ cursor' = checkpoint
  /\ window' = None
  /\ receipts' = Invalidated(cat, touched, moved)
  /\ UNCHANGED <<mode, localVars, intents, settled, authority>>

(* observe-write-authority under a provider cursor fence.                  *)
CommitAuthority(canAdd) ==
  /\ window = None
  /\ authority' = [cursor |-> cursor, canAddChildren |-> canAdd]
  /\ UNCHANGED <<mode, localVars, intents, settled, receipts, catalog,
                 window, cursor>>

-----------------------------------------------------------------------------
(* Write intents.                                                          *)

(* Mutant: the item kind is stored as the operation.                       *)
NewIntentOfKind(kind, item, r) ==
  [op |-> kind, status |-> "planned", item |-> item,
   remote |-> r, execGen |-> 0, attempts |-> 0, preCursor |-> None,
   content |-> None, versioned |-> FALSE]

NewIntent(kind, item, r) ==
  [op |-> OperationFor(kind), status |-> "planned", item |-> item,
   remote |-> r, execGen |-> 0, attempts |-> 0, preCursor |-> None,
   content |-> None, versioned |-> FALSE]

(* allocate-create-ids persists one batch: a planned intent for each source *)
(* event in DOMAIN ids, with its predetermined provider id, the item the   *)
(* planner saw at its path, all or none.                                   *)
CreateIntents(ids, scan) ==
  /\ mode # "receive_only"
  /\ authority # None /\ authority.canAddChildren
  /\ \A k \in DOMAIN ids :
       /\ AtGeneration(k[1])
       /\ IsCreate(k) /\ events[k].to = KindOf(scan[k[2]])
       /\ intents[k] = None
       /\ ids[k] \notin OwnedIds
       /\ \A j \in DOMAIN ids : ids[j] = ids[k] => j = k
  /\ intents' = [k \in EventKeys |->
                   IF k \in DOMAIN ids
                   THEN NewIntent(events[k].to, scan[k[2]], ids[k])
                   ELSE intents[k]]
  /\ UNCHANGED <<mode, localVars, settled, receipts, remoteVars>>

HasIntent(k, op, status, execGen) ==
  /\ intents[k] # None
  /\ intents[k].op = op
  /\ intents[k].status = status
  /\ intents[k].execGen = execGen

(* Fences of a submission: the local generation and the pending source     *)
(* event, the durable cursor the caller saw, no open window, and the       *)
(* authority of that same cursor over the parent.                          *)
SubmissionFences(k, preCursor) ==
  /\ mode = "two_way"
  /\ AtGeneration(k[1])
  /\ IsCreate(k) /\ events[k].to = SourceKind(intents[k].op)
  /\ cursor = preCursor
  /\ window = None
  /\ authority # None
  /\ authority.cursor = preCursor /\ authority.canAddChildren

(* planned -> submitted, before any provider call.                         *)
BeginSubmission(k, op, execGen, preCursor) ==
  /\ HasIntent(k, op, "planned", execGen)
  /\ SubmissionFences(k, preCursor)
  /\ intents[k].attempts < MaxAttempts
  /\ intents' = [intents EXCEPT ![k].status = "submitted",
                                ![k].attempts = @ + 1,
                                ![k].execGen = @ + 1,
                                ![k].preCursor = preCursor]
  /\ UNCHANGED <<mode, localVars, settled, receipts, remoteVars>>

(* The digest of the streamed file, set once, before the final PUT.        *)
RecordFingerprint(k, execGen, content) ==
  /\ HasIntent(k, "create_file", "submitted", execGen)
  /\ intents[k].content \in {None, content}
  /\ intents' = [intents EXCEPT ![k].content = content]
  /\ UNCHANGED <<mode, localVars, settled, receipts, remoteVars>>

(* Mutant: completion does not ask for the digest.                         *)
CompleteUndigestedUpload(k, execGen) ==
  /\ HasIntent(k, "create_file", "submitted", execGen)
  /\ intents' = [intents EXCEPT ![k].status = "awaiting",
                                ![k].execGen = @ + 1,
                                ![k].versioned = TRUE]
  /\ UNCHANGED <<mode, localVars, settled, receipts, remoteVars>>

(* submitted -> awaiting with the provider's version of the new file.      *)
CompleteFileUpload(k, execGen) ==
  /\ HasIntent(k, "create_file", "submitted", execGen)
  /\ intents[k].content # None
  /\ intents' = [intents EXCEPT ![k].status = "awaiting",
                                ![k].execGen = @ + 1,
                                ![k].versioned = TRUE]
  /\ UNCHANGED <<mode, localVars, settled, receipts, remoteVars>>

(* Mutant: a second attempt keeps the token of the first.                  *)
RestartWithSameToken(k, execGen, attempts, preCursor) ==
  /\ HasIntent(k, "create_file", "submitted", execGen)
  /\ intents[k].attempts = attempts /\ attempts > 0
  /\ ~intents[k].versioned
  /\ SubmissionFences(k, preCursor)
  /\ k \notin settled
  /\ attempts < MaxAttempts
  /\ intents' = [intents EXCEPT ![k].attempts = @ + 1,
                                ![k].preCursor = preCursor]
  /\ UNCHANGED <<mode, localVars, settled, receipts, remoteVars>>

(* Mutant: only a submission without a digest may be restarted.            *)
RestartUndigestedOnly(k, execGen, attempts, preCursor) ==
  /\ intents[k].content = None
  /\ RestartWithSameToken(k, execGen, attempts, preCursor)

(* A second submission of a file whose first one left nothing behind.      *)
RestartSubmission(k, execGen, attempts, preCursor) ==
  /\ HasIntent(k, "create_file", "submitted", execGen)
  /\ intents[k].attempts = attempts /\ attempts > 0
  /\ ~intents[k].versioned
  /\ SubmissionFences(k, preCursor)
  /\ k \notin settled
  /\ attempts < MaxAttempts
  /\ intents' = [intents EXCEPT ![k].attempts = @ + 1,
                                ![k].execGen = @ + 1,
                                ![k].preCursor = preCursor]
  /\ UNCHANGED <<mode, localVars, settled, receipts, remoteVars>>

(* Mutant: a confirmation may be taken back.                               *)
RevocableTransitions == {<<"submitted", "conflict">>,
                         <<"submitted", "failed">>,
                         <<"awaiting", "confirmed">>,
                         <<"awaiting", "conflict">>,
                         <<"confirmed", "conflict">>}

FileTransitions == {<<"submitted", "conflict">>, <<"submitted", "failed">>,
                    <<"awaiting", "confirmed">>, <<"awaiting", "conflict">>}
FolderTransitions == FileTransitions \cup {<<"submitted", "awaiting">>}

Transitions(op) ==
  IF op = "create_file" THEN FileTransitions ELSE FolderTransitions

Transition(k, op, execGen, from, to) ==
  /\ <<from, to>> \in Transitions(op)
  /\ HasIntent(k, op, from, execGen)
  /\ intents' = [intents EXCEPT ![k].status = to, ![k].execGen = @ + 1]
  /\ UNCHANGED <<mode, localVars, settled, receipts, remoteVars>>

(* conflict -> confirmed for a file whose full evidence is durable.        *)
RecoverConflict(k, execGen, attempts) ==
  /\ HasIntent(k, "create_file", "conflict", execGen)
  /\ execGen > 0
  /\ intents[k].attempts = attempts /\ attempts > 0
  /\ intents[k].preCursor # None
  /\ intents[k].versioned /\ intents[k].content # None
  /\ k \notin settled
  /\ intents' = [intents EXCEPT ![k].status = "confirmed",
                                ![k].execGen = @ + 1]
  /\ UNCHANGED <<mode, localVars, settled, receipts, remoteVars>>

-----------------------------------------------------------------------------
(* Settlement: one transaction accepts the created object into the local   *)
(* inventory, advances the generation, applies the source event, moves the *)
(* remaining differences to the new generation, grants the receipt and     *)
(* records the settlement.                                                 *)

SettlementGuard(k, op, execGen) ==
  /\ k \notin settled
  /\ mode = "two_way"
  /\ AtGeneration(k[1])
  /\ HasIntent(k, op, "confirmed", execGen)
  /\ IsCreate(k) /\ events[k].to = SourceKind(op)
  /\ catalog[intents[k].remote] = "exact"
  /\ baseline[k[2]] = None
  /\ k[1] < MaxGeneration

(* Mutants: the other pending rows stay; the source row is not applied.    *)
SettledEventsKeepingOthers(k, base, scan) ==
  Journal([events EXCEPT ![k].status = "applied"], base, scan, k[1] + 1)

SettledEventsSupersedingAll(k, base, scan) ==
  Journal([j \in EventKeys |-> IF j[1] = k[1] THEN Supersede(events[j])
                               ELSE events[j]],
          base, scan, k[1] + 1)

SettledEvents(k, base, scan) ==
  LET closed == [j \in EventKeys |->
                   IF j = k THEN [events[k] EXCEPT !.status = "applied"]
                   ELSE IF j[1] = k[1] THEN Supersede(events[j])
                   ELSE events[j]]
  IN  Journal(closed, base, scan, k[1] + 1)

(* Mutants: the generation stays; the receipt is not granted.              *)
SettlementInPlace(k, scan, content) ==
  LET base == Promote(baseline, k[2], intents[k].item)
  IN  /\ baseline' = base
      /\ events' = Journal([events EXCEPT ![k].status = "applied"],
                           base, scan, k[1])
      /\ receipts' = [receipts EXCEPT ![intents[k].remote] =
                        [path |-> k[2], content |-> content,
                         state |-> "current"]]
      /\ settled' = settled \cup {k}
      /\ UNCHANGED <<mode, inventory, intents, remoteVars>>

SettlementWithoutReceipt(k, scan, content) ==
  LET base == Promote(baseline, k[2], intents[k].item)
  IN  /\ baseline' = base
      /\ inventory' = [inventory EXCEPT !.generation = k[1] + 1]
      /\ events' = SettledEvents(k, base, scan)
      /\ settled' = settled \cup {k}
      /\ UNCHANGED <<mode, intents, receipts, remoteVars>>

SettlementEffect(k, scan, content) ==
  LET p    == k[2]
      r    == intents[k].remote
      base == Promote(baseline, p, intents[k].item)
  IN  /\ \A q \in Paths : base[q] # scan[q] => events[<<k[1] + 1, q>>] = None
      /\ baseline' = base
      /\ inventory' = [inventory EXCEPT !.generation = k[1] + 1]
      /\ events' = SettledEvents(k, base, scan)
      /\ receipts' = [receipts EXCEPT ![r] =
                        [path |-> p, content |-> content,
                         state |-> "current"]]
      /\ settled' = settled \cup {k}
      /\ UNCHANGED <<mode, intents, remoteVars>>

(* Mutant: the receipt has to be there already.                            *)
SettleReceiptedFileCreate(k, execGen, scan) ==
  /\ SettlementGuard(k, "create_file", execGen)
  /\ intents[k].versioned /\ intents[k].content # None
  /\ receipts[intents[k].remote] # None
  /\ SettlementEffect(k, scan, intents[k].content)

(* A file: the uploaded snapshot is promoted, whatever the directory holds *)
(* by now; a newer local version stays pending as a modification.          *)
SettleFileCreate(k, execGen, scan) ==
  /\ SettlementGuard(k, "create_file", execGen)
  /\ intents[k].versioned /\ intents[k].content # None
  /\ receipts[intents[k].remote] = None
  /\ \A r \in RemoteIds : receipts[r] # None =>
       ~(receipts[r].content # None /\ receipts[r].path = k[2])
  /\ SettlementEffect(k, scan, intents[k].content)

(* A folder: the very directory the intent was planned for must still be   *)
(* there.                                                                  *)
SettleFolderCreate(k, execGen, scan) ==
  /\ SettlementGuard(k, "create_folder", execGen)
  /\ receipts[intents[k].remote] = None
  /\ scan[k[2]] = intents[k].item
  /\ SettlementEffect(k, scan, None)

-----------------------------------------------------------------------------
LocalStep ==
  \/ ActivateTwoWay
  \/ DeactivateTwoWay
  \/ InvalidateObservation
  \/ \E scan \in Trees : CommitLocalSnapshot(scan)
  \/ \E scan \in Trees : ReconcileJournal(scan)

RemoteStep ==
  \/ \E complete \in BOOLEAN : StageWindow(complete)
  \/ DiscardWindow
  \/ \E checkpoint \in Cursors, cat \in [RemoteIds -> Sightings],
        touched \in SUBSET RemoteIds, moved \in SUBSET RemoteIds :
       CommitWindow(checkpoint, cat, touched, moved)
  \/ \E canAdd \in BOOLEAN : CommitAuthority(canAdd)

IntentStep ==
  \/ \E K \in SUBSET {k \in EventKeys : IsCreate(k)} :
       \E ids \in [K -> RemoteIds], scan \in Trees :
         K # {} /\ CreateIntents(ids, scan)
  \/ \E k \in Rows(intents) :
       LET row == intents[k] IN
       \/ BeginSubmission(k, row.op, row.execGen, cursor)
       \/ \E c \in Contents : RecordFingerprint(k, row.execGen, c)
       \/ CompleteFileUpload(k, row.execGen)
       \/ RestartSubmission(k, row.execGen, row.attempts, cursor)
       \/ \E to \in Statuses :
            Transition(k, row.op, row.execGen, row.status, to)
       \/ RecoverConflict(k, row.execGen, row.attempts)

SettlementStep ==
  \E k \in Rows(intents), scan \in Trees :
    \/ SettleFileCreate(k, intents[k].execGen, scan)
    \/ SettleFolderCreate(k, intents[k].execGen, scan)

StoreNext == LocalStep \/ RemoteStep \/ IntentStep \/ SettlementStep

StoreSpec == StoreInit /\ [][StoreNext]_storeVars

-----------------------------------------------------------------------------
(* Safety.                                                                 *)

(* Journal rows belong to the past or the present: nothing is recorded for *)
(* a generation that does not exist, and only the current generation has   *)
(* pending rows (reconcile, snapshot commit and settlement all retire the  *)
(* rows of the generation they leave).                                     *)
JournalFollowsGeneration ==
  \A k \in Rows(events) :
    /\ k[1] <= inventory.generation
    /\ IsPending(k) => k[1] = inventory.generation

(* A local event is applied exactly when its settlement is recorded, and   *)
(* the generation it was settled from is closed: a repeated journal, a     *)
(* snapshot or another settlement never re-opens it.                       *)
AppliedExactlyWhenSettled ==
  \A k \in EventKeys :
    /\ (events[k] # None /\ events[k].status = "applied") <=> k \in settled
    /\ k \in settled => k[1] < inventory.generation

(* A generation is left by at most one settlement (settled_to_generation = *)
(* settled_from_generation + 1 on a single chain).                         *)
OneSettlementPerGeneration ==
  \A j, k \in settled : j[1] = k[1] => j = k

(* A settled create is owned: its intent is confirmed and its provider     *)
(* object has a receipt of that path and of the content that was uploaded. *)
SettledIsOwned ==
  \A k \in settled :
    /\ intents[k] # None /\ intents[k].status = "confirmed"
    /\ receipts[intents[k].remote] # None
    /\ receipts[intents[k].remote].path = k[2]
    /\ receipts[intents[k].remote].content = intents[k].content

(* What the provider may be believed to hold is backed by durable evidence: *)
(* a file intent past its upload has digest, version, an attempt and the   *)
(* cursor from before that attempt, so a confirmation after a restart can  *)
(* compare against it.  A folder intent never claims content.              *)
EvidenceBeforeBelief ==
  \A k \in Rows(intents) :
    /\ intents[k].status # "planned" =>
         intents[k].attempts > 0 /\ intents[k].preCursor # None
    /\ intents[k].status \in {"awaiting", "confirmed"}
       /\ intents[k].op = "create_file" =>
         intents[k].content # None /\ intents[k].versioned
    /\ intents[k].op = "create_folder" =>
         intents[k].content = None /\ ~intents[k].versioned

(* A current receipt names an object the durable catalog still holds, and  *)
(* for a folder one that is still where it was created.                    *)
CurrentReceiptIsCatalogued ==
  \A r \in RemoteIds :
    receipts[r] # None /\ receipts[r].state = "current" =>
      /\ catalog[r] # "absent"
      /\ receipts[r].content = None => catalog[r] = "exact"

(* Step properties.                                                        *)

(* The compare-and-set token of an intent moves with every status change   *)
(* and never back, so a stale (status, execution_generation) pair can      *)
(* never match again; provider id, operation and item never change.        *)
IntentRowsOnlyAdvance ==
  [][\A k \in Rows(intents) :
       /\ intents'[k] # None
       /\ intents'[k].remote = intents[k].remote
       /\ intents'[k].item = intents[k].item
       /\ intents'[k].execGen >= intents[k].execGen
       /\ intents'[k].status # intents[k].status \/
          intents'[k].attempts # intents[k].attempts =>
            intents'[k].execGen > intents[k].execGen]_storeVars

(* A settlement is final: its event row and its intent never change again. *)
SettlementIsFinal ==
  [][\A k \in settled :
       k \in settled' /\ events'[k] = events[k] /\ intents'[k] = intents[k]
    ]_storeVars

(* While the root is two-way, an accepted item stays accepted: settlements *)
(* add to the inventory and nothing drops or replaces an entry of it.      *)
AcceptedItemsStay ==
  [][mode = "two_way" =>
       \A p \in Paths : baseline[p] # None => baseline'[p] = baseline[p]
    ]_storeVars
=============================================================================
