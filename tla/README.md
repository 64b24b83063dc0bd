# NubiSync in TLA+

NubiSync keeps one local directory and one Google Drive folder in step. It is a
Rust workspace: a SQLite store (`nubisync-storage`), the synchronization engine
(`nubisync-daemon`, with the pure planning code in `nubisync-sync`), the provider
client (`nubisync-drive`) and a command line (`nubisync-cli`). A root is either
`receive_only`, where a daemon cycle makes the directory follow the provider, or
`two_way`, where an operator runs a chain of supervised commands that create local
entries at the provider. This directory models both halves and what they share: the
store and the supervised commands of the second; the convergence plan, its executors,
the commands for a single entry and the periodic daemon of the first; the catalog
that mirrors the provider's tree for both, and the upload of a file.

Paths below are relative to `src/crates/` unless they start with `docs/`.

## 1. Inventory

| Component | State | Operations | Interacts with |
|---|---|---|---|
| Intents and settlements, `nubisync-storage/src/lib.rs` 2503-4614, 7468 | `sync_root_remote_write_intents`, `..._settlements` | create a batch, begin, record the digest, complete, restart, transition, recover a conflict, settle a file or a folder | every table below, inside one transaction each |
| Inventory and journal, same file 1955-2222 | `sync_root_local_items`, `..._inventory_state`, `..._local_change_events`, receipts | snapshot commit, invalidate, reconcile | scans of the directory |
| Catalog, window, cursor, authority, same file 2323, 5419-6096, 7160-7323 | `sync_root_remote_items`, `..._change_window_*`, `sync_roots.change_cursor`, `..._authority*` | stage, discard and commit a window, commit authority | provider change feed, receipts |
| Supervised commands, `nubisync-cli/src/main.rs` 1052-4646 | none of their own; one process lock | refresh, rebaseline, observe-authority, plan, allocate-create-ids, submit, recover, confirm, settle, activate, deactivate | store, directory, Drive |
| Write and settlement planners, `nubisync-daemon/src/lib.rs` 5883-7092 | none | compare directory, journal, catalog, receipts and authority | called by the commands |
| Window collection and execution, same file 7696-7860 | the open window | collect a page, execute a complete window | Drive feed, store |
| Catalog projection and plans, `nubisync-sync/src/lib.rs` | none (pure) | project changes on a tree, plan materialization | window execution, executors |
| Convergence plan, `nubisync-sync/src/convergence.rs` | none (pure) | choose the next phase, detect barriers | cycle |
| Cycle, run-to-idle, periodic tick, lock, single flight, `nubisync-daemon/src/lib.rs` 1068-2472, `main.rs` | in-memory slot, lock file, back-off | one cycle, bounded repetition, scheduled tick | executors, store |
| Executors, same file 2474-5795 | directory, receipts | materialize, replace, delete, adopt, verify | provider, directory, store |
| Upload buffer and resumable session, same file 225-429, `nubisync-drive/src/api.rs` 604-705 | buffered chunk, digest, offset | fill, acknowledge, rewind, finish | submit-file-create |
| Single-entry commands, same file 2569-2954, 3373-5881 | directory, receipts | adopt, materialize, verify, replace, delete, remove a directory | the same as the executors, same lock |
| Bootstrap and rebaseline, same file 7862-8047 | staged rows, catalog | collect a whole root, replace the catalog | provider, open window |
| Drive client `nubisync-drive/src/api.rs`, OAuth `oauth.rs`, keyring `nubisync-auth`, core types, telemetry | none durable | calls, parsing | all |

### What is hard about it

* A command is a sequence of reads of the directory and the provider and of small
  transactions; a user, other Drive clients and a crash can come in between any two.
* Creating is not idempotent at the provider. The code allocates the object id
  first, makes it durable in an *intent*, and resolves every doubt by looking that
  id up. Requests may land after the process that sent them has died.
* A create counts as synchronized only after it was seen in the *change feed* from a
  window that starts at the cursor from before its submission. The same cursor
  fences other commands, so the fences can get in each other's way.
* A settlement rewrites the whole local journal while intents point into it.
* A receipt says who owns an object; it must age with every window that touches it.
* A receive-only run works from a plan while the provider and a user go on: each file
  is compared, moved and compared again through path names, and a batch that fails in
  the middle has to be taken back without touching what the user did meanwhile.
* The membership of a changed item and the contents of a new folder are looked up when
  a window is executed, the change itself says what was true when its page was read.
  Folders move and vanish in between, and between two listings of a traversal.
* The provider may accept any prefix of a chunk, and a request may arrive after its
  sender gave up, while a second attempt streams to a session of its own.
* The single-entry commands predate the batches: they ask less, take nothing back after
  their effect, and leave entries that batches and other commands then find.
* The daemon decides between working on the plan it has and asking the provider for
  more; a wrong order either loses changes or never gets to them.

### What makes each part correct

* Store: journal rows follow the generation, an event is applied exactly when its
  settlement exists, generations form a chain, settled means owned, evidence is
  durable before status, tokens only advance, settlements are final.
* Commands: no bytes leave before their digest is durable, `awaiting` and
  `confirmed` are true of the provider, no entry is created twice, what is settled
  is what the directory holds, every doubt is resolved eventually.
* Catalog: at every moment one complete tree that belongs to one feed position, whatever
  was interrupted; what has no unread change is held where the provider has it; no
  window is refused for ever without a change that explains it.
* Upload: the digest is durable before the object can exist, each byte is received once
  and at its offset, one object is created, success is reported only of that object.
* Single-entry commands: a file is only overwritten or removed while its bytes are those
  a receipt attests; no path has two current owners.
* Plan and executors: bytes a receipt attests are on disk at every instant, a user's
  bytes are never removed, a failed batch is taken back as a whole, what was written
  is never journaled as a user's work, receipts agree with the provider, convergence
  is only reported of a directory that equals the provider.
* Daemon and cycle: convergence is only reported after a look at the provider, a
  two-way root is left alone, and the directory follows the provider eventually.

## 2. Modules

```
RemoteWriteStore              one storage transaction = one action
  RemoteWriteStore_proofs     theorems of the store
  MCRemoteWriteStore          instance: _store
SupervisedCreate              EXTENDS RemoteWriteStore: commands and surroundings
  SupervisedCreate_proofs     theorems of the commands
  MCSupervisedCreate          instances: _create, _live, two of section 7
ConvergencePlan               what a plan is: pure, over catalog, receipts, directory
  ReceiveOnlyConvergence      EXTENDS it: the executors, provider, user, crashes
    ReceiveOnlyConvergence_proofs    theorems of the executors
      BatchEffects_proofs            no attested byte is lost, a batch happens as a whole
    MCReceiveOnlyConvergence  instance: _convergence
    ReceiveOnlyDaemon         EXTENDS it: flights, daemon, commands, mode
      ReceiveOnlyDaemon_proofs       theorems of the daemon, from those of the executors
      MCReceiveOnlyDaemon     instances: _daemon and one of section 7
    SingleEntryCommands       EXTENDS it: the commands for one entry, beside the batches
      SingleEntryCommands_proofs     theorems of the commands, from those of the executors
      MCSingleEntryCommands   instance: _commands
CatalogTrees                  the catalog as a tree, and its operators
  CatalogAuthority            EXTENDS it: what the durable catalog promises
  CatalogMirror               EXTENDS CatalogTrees, implements CatalogAuthority
    CatalogMirror_proofs      theorems of the mirror
    MCCatalogMirror           instances: _mirror and one of section 7
UploadContent                 what the upload of a file promises
UploadBuffer                  implements UploadContent
  UploadBuffer_proofs         theorems of the upload
  MCUploadBuffer              instance: _upload
```

The first two families model two modes a root is never in at once. The catalog and the
upload are modelled on their own: the other modules see a window as one step that
brings the catalog up to date, and an upload as bytes that land or do not. No family
shares a variable with another.

`RemoteWriteStore` is at the same time the detailed model of the tables and the
abstract specification of the commands: `SupervisedCreate` takes its actions and
uses them inside the commands, and `StoreTransactions` (run `create`, theorem
`CommandsImplementStore`) says that whatever the commands and their surroundings do
is a transaction of the store or leaves it alone. What is proved of the store
therefore holds of the commands.

### RemoteWriteStore

| Variable | Table | Abstraction |
|---|---|---|
| `mode` | `sync_roots.mode` | send-only, which no command sets for these roots, is left out |
| `inventory` | `sync_root_local_inventory_state` | item count is implied by `baseline` |
| `baseline` | `sync_root_local_items` | path to one value for all metadata (`FileMeta`, `FolderMeta`) |
| `events` | `sync_root_local_change_events` | keyed by (generation, path), which is UNIQUE |
| `intents` | `sync_root_remote_write_intents` | keyed by the source event, which is UNIQUE; `content` is the recorded SHA-256, `versioned` says that an upload version is recorded |
| `settled` | `sync_root_remote_write_settlements` | set of source events |
| `receipts` | the file and the directory receipts | `content = None` marks a directory |
| `catalog` | `sync_root_remote_items` | per id: no row, the object the intent wants, or another |
| `window`, `cursor`, `authority` | change window, change cursor, write authority | base and completeness; the cursor value; cursor and `can_add_children` of the root |

Actions carry the names of the storage functions (see `map` in PROJECT.json).
A transaction whose checks fail rolls back: it is a disabled action. Two guards are
bounds and not code: `MaxGeneration` and `MaxAttempts`; `Cursors` bounds the feed.
`CommitWindow` takes the projected catalog, the ids touched by the window and the
ids whose place changed in it (`moved`) as inputs: the tables do not decide them.

### SupervisedCreate

Adds `disk` (the directory), `provider` (the objects), `head` and `log` (the feed),
`staged` (the pages of the open window), `inflight` (requests on their way), `run`
(which command holds the lock and how far it is) and `interruptions`.

An action is: reads of the directory or provider at one instant, then at most one
writing transaction. This cut is sound because only commands holding the lock touch
the store (`cli_requires_cross_process_execution_lock`, main.rs 8779), so reads of
the store commute with whatever the surroundings do, and double readings of the same
thing (two scans, cursor before and after) only reduce what can happen. Steps inside
a command at which something outside may matter are separate: journal, recheck and
insert of an allocation; digest, PUT and answer of an upload; the two transactions
of a confirmation. `Interrupt` ends a command between any two of them and stands for
a crash, an error exit and an exhausted page limit. What was sent stays `inflight`
and may land later, at any time.

| Command | Actions |
|---|---|
| allocate-create-ids | `AllocateJournal`, `AllocateIds`, `AllocateRecheck`, `AllocateInsert`, or `AllocateEnds`, `AllocateAbandons` |
| submit-file-create | `SubmitFile`, `Stream`, `Send`, then `FileStored` or `FileStoredInDoubt` |
| recover-file-create-submission | `RecoverFingerprint`, `RecoverFileFound`, or `RecoverFileMissing`, `Stream` or `StreamDiffers`, `Send` and an answer |
| submit-folder-create, recover-folder-create-submission | `SubmitFolder`, `Send`, `FolderAnswered`; `RecoverFolder` |
| confirm-file-create, confirm-folder-create | `ConfirmPage`, then `ConfirmLater`, or `ConfirmExecute` and `ConfirmDecide` |
| recover-file-create-confirmation-conflict | `RecoverConfirmation` |
| refresh-two-way-metadata, observe-write-authority | `RefreshPage`, `RefreshExecute`; `ObserveAuthority` |
| settle-file-create, settle-folder-create | `SettleFile`, `SettleFolder` |

The surroundings: `Edit` (a user changes an entry), `ForeignChange` (another Drive
client rewrites, renames, trashes, restores or deletes an object of ours, or changes
something else), `Land`, `Refuse` and `Lose` (fate of a request), `Interrupt`.

Abstractions, and why they lose nothing the properties tell apart:

* Every path is a direct child of the root folder, whose write capability is
  constant. Parents come into the code only as an id and its authority.
* Metadata of an entry is one value; `BytesOf` gives the bytes it holds. A file
  that changes while it is streamed yields any content, as a torn read may.
* Contents have one size; a rewrite to another size is refused by the comparisons
  that refuse a rename.
* Where a folder command takes the first candidate by id, the model takes any: more
  behaviours. The file commands demand exactly one candidate, and so does the model.
* The provider version, a lower bound checked at confirmation, grows with every
  foreign change and is therefore never below the recorded one.
* The batch limit of an allocation is larger than the number of paths.
* The initial state is an empty directory just activated. `ActivateTwoWay`,
  `DeactivateTwoWay` and the receive-only inventory steps are explored in the store
  module, from empty tables.

### ConvergencePlan

`plan_receive_only_convergence` and the decision of
`decide_selected_root_unified_convergence_step` as operators over the three things
they read: `catalog` (`sync_root_remote_items` as expected paths), `receipts` (the
file and directory ownership receipts) and the scan (`disk`, and as entries of their
own the temporary names `temp`, `backup`, `quarantine`). The code produces one list of
actions per class; `Plan` is the record of their sets, `Blocked` says that the list of
blocked ones is not empty, and `Decision` is the phase, `converged`, `refused` or
`manual`.

### ReceiveOnlyConvergence

Adds the provider (`remote`, and `touched`: the objects changed since the last
window), `observation` (the flag of the local observation baseline), the run in
progress and what it remembers (`run`), and what it reported (`outcome`).

| Code | Actions |
|---|---|
| `execute_selected_root_unified_convergence_step`, preconditions of the executors, invalidation of the baseline | `Begin` |
| create missing directories | `MakeFolder` |
| materialize missing files | `Fingerprint`, `Fetch`, `Promote`, `Unlink`, `Confirm` |
| verify existing files | `HashLocal`, `CompareProvider` |
| replace stale files | `Fingerprint`, `Fetch`, `CompareBaseline`, `LinkBackup`, `Swap` |
| delete stale files, remove stale directories | `InspectStale`, `QuarantineFile`; `QuarantineFolder` |
| the receipts of a batch, one transaction | `RecordReceipts`, `DropReceipts` |
| cleanup, report | `Clean`, `Finish` |
| failing checks and calls, rollback | `Abandon`, `CallFails`, `TakeBack`, `Stop` |
| change window, observation baseline | `ApplyWindow`, `CaptureBaseline` |

A run is cut wherever something outside it may act between two calls. Around it are
`RemoteWrite` and `RemoteRemove`, `UserStep` (save in place, save by rename, remove an
entry, make a directory) and `Crash`. A file carries its inode, so that a save in
place writes every hard link of it, its contents up to the digest, and the number of
the edit that made it, which stands for its change time.

Abstractions:

* The reads metadata, hash, metadata of one file are one step: the code refuses a
  file that moves under them.
* Paths are whole paths with the directories above them given as a constant. Folders
  do not move and share their path with nothing; files do both.
* Plans, batches and windows of a bounded tree fit one page, so only the limit on a
  batch, not that on the number of all actions, appears.
* Every run has its session: refreshing it touches none of this state. A shutdown
  signal is a `Crash` at a point the code chooses.
* The bootstrap is over: the initial states are all roots in step with the provider.
* The first file a step may turn to is any one of the batch, where the code takes them
  in the order of their paths (folders: parents first).

### ReceiveOnlyDaemon

Adds who runs: `flight` (a run-to-idle or a cycle command, which holds the execution
lock for its length), `daemon` (where the loop of `nubisyncd` is), `mode`, and the
`window` collected but not executed, with `due`, the changes a flight still has to
bring in. `CollectPage` and `ExecuteWindow` are the two halves of `ApplyWindow`, in
rounds of their own as in the code. `LookAtMode` and `Tick` are apart because the
session is refreshed in between. Here the second process is any holder of the lock;
that it excludes is taken from the lock file and not modelled. Left out: the clock
(a tick comes at any moment the back-off allows), the journaling that follows a
converged tick, and what activation demands beyond an executed window, a valid
baseline and an empty plan.

### SingleEntryCommands

The commands `materialize-file`, `verify-file`, `replace-file`, `delete-file`,
`delete-directory` and `adopt-directory`, each beside the batches on the same
directory, receipts and lock. Its one variable `single` says that the run in progress is such a
command. `Permits` has the counts a command asks for (`MayMaterialize` to
`MayRemoveFolder`); the steps it shares with a batch of one (`Fetch`, `Promote`,
`Unlink`, `Swap`, `InspectStale`, `QuarantineFile`, ...) are the actions of
`ReceiveOnlyConvergence`, because the code calls the same functions there or repeats
their lines. Its own are the receipts, written one at a time after the effect
(`RecordMaterialized`, `RecordVerified`, `RecordReplaced`, `DropReceipt`), the
comparison before a replacement without a second link (`CompareStale`), the removal of
a quarantine before its receipt (`RemoveQuarantined`), and failures: what was applied
stays (`LeaveAsIs`), a local read that fails leaves the download (`LeaveDownload`),
everything earlier is put back (`PutBack`). `CommandNext` offers the commands whenever
nothing runs; between them every batch, window, edit and crash of the module it extends
may happen.

### CatalogMirror

| Variable | Code |
|---|---|
| `place`, `feed` | the provider: a parent per item, and the items changed, oldest first |
| `inventory`, `catalog`, `staged` | `sync_root_remote_inventory_state`, `..._items`, `..._staging` |
| `window` | `sync_root_change_window_state` and its events |
| `local` | pending journal rows or intents, and the local generation |
| `run` | the call in progress: its fence, the folders it has still to list, the projection |

| Code | Actions |
|---|---|
| `bootstrap_selected_root_snapshot` | `BeginBootstrap`, `StageFolder` per folder, `CommitBootstrap` or `RefuseFolder` |
| `rebaseline_selected_root_remote_snapshot` | `BeginRebaseline`, `StageFolder`, `CommitRebaseline` or `RefuseRebaseline` |
| `collect_selected_root_change_window_page` and its staging | `CollectPage` |
| `execute_completed_selected_root_change_window` | `BeginExecution`, then per change `RevalidateRoot`, `UpsertItem`, `DeleteSubtree`, `IgnoreChange`, or `BeginHydration`, `HydrateFolder`, `FinishHydration`; `CommitWindow` or `RefuseExecution` |
| a crash or error anywhere | `Interrupt` |

Names, sizes and contents are left out: a change that keeps an item's parent is `Move`
to where it is. `Under` is the least set closed under children and stands for each
breadth-first walk of the code, `Complete` for `validate_complete`. A call that asks
the provider about several ancestors of one item is one step. `Listings` has the
provider leave the children of a trashed folder out or not. `DeleteCycle` is the walk of
`delete_subtree`, which keeps no set of the items it met. `torn`, `lost` and `left`, with
`since`, are history, which nothing reads but the properties. `lost` has the items a
listing hid; `left` those left out because the folder their page names was outside when
their change was applied; `torn` has, at a commit, the lost ones and those of the left
ones that a change after the window can have brought back with that folder.

`CatalogAuthority` is the promise: the tree and its position change in one step, the
position never goes back, a tree is built afresh only when there is none or when the one
there had caught up, and authority once given is not lost.

### UploadBuffer

`SelectedRootFileCreateUploadBuffer` and the loops that stream to a resumable session.
A byte is its offset and the version of the file it was read from, so contents that mix
versions are distinct from each other and from each version.

| Code | Actions |
|---|---|
| `prepare_request`, `read_next_chunk`, digest | `Prepare` |
| the durable digest before the last request | `RecordFingerprint` |
| the PUT, a lost answer, a status query | `Put`, `LoseAnswer`, `Probe` |
| `acknowledge_provider_offset`, the limit on answers without progress | `Acknowledge` |
| completion, any failure | `Conclude`, `Stop` |
| recovery: digest of the file, look-up of the id, second session | `HashCurrentSource`, `InspectId`, `RestartSubmission` |
| the provider | `Land`, `Expire` |

One client process runs at a time (the lock), but requests of earlier attempts stay in
`sent` and may land at any later moment; whether the first session or a later one
completes decides the object. `Untouched` is the planned size, times and inode. The
fences of a restart on cursor and parent authority are in `SupervisedCreate` only.

`UploadContent` is the promise: the contents are decided, then one object is created
with exactly these, then success is reported.

## 3. Properties

Store, in `RemoteWriteStore` (all proved):
`JournalFollowsGeneration`, `AppliedExactlyWhenSettled`,
`OneSettlementPerGeneration`, `SettledIsOwned`, `EvidenceBeforeBelief`,
`CurrentReceiptIsCatalogued`, `IntentRowsOnlyAdvance`, `SettlementIsFinal`,
`AcceptedItemsStay`, and the type invariant `TypeOK`.

Commands, in `SupervisedCreate`: `UploadIsEvidenced`, `BeliefIsReal`,
`CatalogIsCurrentAtCursor`, `RecreatedOnlyAfterASibling` (and `NoDuplicateRemote`, which
holds of a directory of one entry only), `SettlementMatchesDisk`,
`AwaitingStaysConfirmable`, `StoreTransactions`, the type invariant `SupervisedTypeOK`, and the liveness properties `SubmissionIsResolved`,
`ConfirmationIsResolved`, `CreatedIsSettled`.

Executors, in `ReceiveOnlyConvergence`: `AttestedBytesExist`, `CurrentReceiptsAgree`,
`OneOwnerPerPath`, `BatchesAreAtomic`, `NoWriteUnderBaseline`, `UserWorkSurvives`,
`ConvergedMeansEqual`, and the type invariant `ConvergenceTypeOK`, which includes that
a batch turns to no item twice.

Daemon, in `ReceiveOnlyDaemon`: `ConvergedIsFresh`, `InStepUnlessHeldUp`, the type
invariant `DaemonTypeOK`.

Single-entry commands: `FailsClosed` and `OneCurrentOwner`. `OneOwnerPerPath` of the
executors does not hold beside the commands, which is why the weaker property is stated.

Catalog, in `CatalogMirror`: `CatalogIsATree`, `CaughtUpMirrors`,
`RefusedOnlyAfterAChange`, `CyclesAreTransient`, the refinement `KeepsAuthority`; its type
invariant `MirrorTypeOK` is proved and no run lists it. Upload, in `UploadBuffer`: the refinement `KeepsContent`.

`ConfirmationSurvivesRestart` of the commands, `EventuallyInStep` of the daemon and
`NothingIsLost` of the catalog are statements of the documents that the code does not
keep (section 7). Each property is stated in words where it is
defined, and PROJECT.json ties it to the hazard it is for and to a mutation of the
code that breaks it.

## 4. Runs and bounds

| Run | Instance | Shows |
|---|---|---|
| `store` | 2 paths and 2 ids over 2 generations of one file version, or 1 path, file or folder, over 3 generations, cursor 0..1, 2 attempts | entries competing for one generation; evidence, receipts, tokens and finality through windows, retries and conflicts |
| `create` | 1 entry, a file of 2 versions with different bytes or a folder, 2 ids, 3 generations, 2 attempts, 1 foreign change, 1 interruption | safety of the file and folder commands; an entry without siblings is never planned again; commands implement the store |
| `live` | 1 file, 3 attempts, 2 interruptions, 1 foreign change | every submission is decided while nobody else writes, every confirmation while nothing is interrupted, the chain has an end when neither happens |
| `convergence` | 2 nested folders and 2 files, one of which may move over the other, contents of 2 sizes, 3 disturbances: at most 2 foreign changes, 1 edit, 1 failing call, 1 crash | batches are atomic, attested bytes exist at every instant, receipts are true and have one owner per path, user work survives, nothing is written under a baseline, convergence means equality |
| `commands` | a folder and 2 files, which may follow each other over one path, 3 paths, 3 disturbances as above | only attested bytes are overwritten or removed, no path has two current owners |
| `daemon` | 1 file, 1 change, 1 edit, 1 failure, 1 crash, 2 mode switches, commands at any time | who holds the lock; convergence is fresh; the daemon gets in step or is held up in a named way |
| `mirror` | a folder in a folder, a file in it, pages of 2 changes, a rebaseline after 1 page, 4 events | the catalog is a tree of one position, mirrors what has no unread change, refuses only after a change, has a cycle only while changes are still to be applied, implements its promise |
| `upload` | a file of 5 bytes in chunks of 2 (alignment 2), 1 edit, 2 attempts, 6 requests, 1 answer without progress | the buffer implements its promise |
| `two_entries`, `interrupted`, `daemon_interrupted`, `mirror_lost` | as small as the disagreement needs | section 7 |

Why these are enough: two paths are the least at which a settlement has another
entry to disturb, and paths interact only through the generation and id uniqueness.
Three generations let an entry be settled, changed and journalled again. A cursor of
three holds two creates and a change. Two attempts are the
least with a restart, and the restart code treats the third like the second. Two
interruptions (`live`) cover a crash in the command that recovers from a crash. In
`create` two digests separate old bytes from new, and torn reads range over both;
`live` has one digest, because a torn upload can never be resolved (section 7).

For the executors: two files give a batch with an item done while the next one fails;
two foreign changes give one that makes the plan and one that comes while it is carried
out; one edit may fall between any two calls. `BatchLimit` is 2, the size of such a
batch. Contents of different sizes reach the checks by size, equal sizes (`commands`,
`daemon`, and the user's bytes everywhere) those by digest. `Budget` allows any three
disturbances; a case that needs all four sorts at once is not reached.
Six inodes exceed what the paths with their temporary names and the edits can hold at
once, so `Nodes` limits nothing. `MaxRounds` is 3 instead of the code's 8: the longest
flight that needs no provider change on the way takes a window's two rounds and one
more, and a flight at its limit is then reached as well.

For the catalog: an item two folders deep can lose either ancestor between the page
and the execution, and a traversal or hydration has two listings to be torn between.
Pages of two leave a window incomplete after one page and split four events in two;
`BacklogPages` is 1 instead of the code's 64 so that a rebaseline is reached with as few.
An event of the file or of the root counts twice in `FewEvents`: neither carries
anything along. For the upload: five bytes are two whole chunks and a rest, so that a
prefix may end within a chunk, at its end or in the last request; six requests are
three for each attempt, or resent prefixes instead; one edit tears an attempt and makes
a second one stream other bytes.

The store run explores only states with `Explored`: after a deactivation with
intents the root can never be activated again, and a window before the first
inventory changes nothing an intent could see. Of those it takes two slices: `Wide` has
the paths compete within two generations at one cursor, `Deep` follows one entry through
all bounds. Ids and paths are symmetric in it, and in its action properties: nothing
orders them or names one.
Deadlock is not checked because a synchronized root is idle, and because the bounds
end every behaviour.

## 5. Fairness

`FairSpec` assumes that a running command goes on (`WF` of `Running`), that requests
on their way are processed, and that the operator repeats each command: a command
whose step is possible again and again is made (`SF`), because edits and other
commands holding the lock disable it in between. The documents define these commands
as the recovery path (docs/PHASE_5H15), so repeating them is what a restart means.
`AllocateJournal` is taken fairly also with no window open, since planning refuses an
open window; a collection reaches the head of the feed now and then, since a page
loop follows the provider's token until it ends. Nothing is assumed of users, other
clients, crashes or losses, which are bounded instead. The liveness properties excuse
an entry whose source no longer is what was planned, because the code refuses it. They
also name what else they do not survive: `SubmissionIsResolved` a provider that another
client has changed, `ConfirmationIsResolved` an interrupted command (section 7 has
both); `CreatedIsSettled` needs neither to happen.

`DaemonFairSpec` assumes that the loop polls and a flight goes on (`WF` of `Loop` and
`Rounds`), and that a crashed daemon is started again: its unit says
`Restart=on-failure`, with a limit on the starts in an interval, and the crashes of the
model are bounded too. Nobody is assumed to give a command or to start a daemon that
stopped or paused itself. `InStepUnlessHeldUp` names the ways a root is held up; a path
the user changed is left out of it, because receive-only never overwrites a user.

## 6. Proofs

All theorems hold for every set of paths, items, contents and ids and for every
bound, from the named assumptions on constants: the bounds are numbers
(`BoundsAssumption`), files are not folders (`KindsAssumption`), NULL is not a value
or a row (`NoneAssumption`, `RowsAssumption`, `PagesAssumption`), and every file
version has bytes (`SurroundingsAssumption`, which also asks for a first generation,
since an activated root has one).

`RemoteWriteStore_proofs`:

* `StoreInvariant`: `StoreSpec => []StoreInv`, where `StoreInv` is `TypeOK`,
  `EvidenceBeforeBelief`, the queue part `IntentInv`, the journal part `JournalInv`,
  `SettledIsOwned` and `CurrentReceiptIsCatalogued`.
* each of these for itself (`TypeCorrect`, `AppliedExactlyOnce`,
  `GenerationsFormAChain`, `PendingIsCurrent`, `SettledStaysOwned`,
  `BeliefIsBacked`, `CurrentReceiptsAreLive`);
* `SettlementNeverUndone`, `AcceptedItemsNeverLost` and `TokensOnlyAdvance`, the
  action properties.

The argument. None of the journal invariants is inductive alone. That an applied row
stays applied needs that its generation is closed (a journal pass writes only the
current one), that its generation is closed needs that a settlement leaves the
current generation, and that two settlements never share a generation needs both;
hence `JournalInv`. `SettledIsOwned` needs that no step leaves `confirmed` and that
a receipt is never rebound: a settlement only writes a receipt where there was none,
and a window only ages one. `EvidenceBeforeBelief` is needed beside them because
conflict recovery reaches `confirmed` without passing the completion again.
`IntentInv` (ids are unique, the item is of the kind the operation creates, attempts
stay bounded) is for the commands. The frame lemmas say which tables each family of
steps leaves alone, and `RowsAdvance` says once what any step may make of an intent
row; the rest cites them instead of looking at the transactions again.

`SupervisedCreate_proofs`:

* `SupervisedInvariant`: `SupervisedSpec => []SupervisedInv`;
* `CommandsImplementStore`, the refinement, and `StoreStaysSound`, what it gives;
* `SupervisedTypeCorrect`, `UploadsAreEvidenced`, `BeliefsAreReal`,
  `CatalogFollowsProvider`, and the action property `SettlementsMatchTheDisk`;
* `DuplicatesFollowSiblings`; and for a directory of one entry (`OneEntry`)
  `OneEntryIsCreatedOnce` and `UninterruptedStaysConfirmable`.

The argument. `BeliefIsReal` is not inductive: that a landing request creates what
its intent records needs that requests carry the recorded digest (`RequestsInv`),
which at the PUT needs that the running command streamed what it recorded
(`RunInv`), which for a late request of a dead command needs that a digest is set
once (`RowsAdvance`). That a *new* intent is not believed by accident needs that
only ids of intents are ever used at the provider (`ObjectsInv`), together with the
uniqueness of ids in the store. For the catalog, the collected pages must be the
provider's state as of their end (`PagesInv`); a page may report later states than
its position because everything changed in between is reported again. Each part is
preserved by a lemma of its own; `StepKinds`, `ProviderSteps` and `UsedGrows` say
once what the steps do to the surroundings.

That an entry has two intents only through a sibling needs what a generation leaves
behind (`HistoryInv`): each generation that is closed was left by the settlement of an
entry that is in the inventory since, and an entry in the inventory is not planned
again. `create` checks it of an entry without siblings, the theorem states it of any
directory. `NoDuplicateRemote` is refuted by `two_entries`; with one entry there is no
sibling, so it follows. That an awaiting create stays confirmable needs that the window
starts at the cursor and that a create in doubt was begun there too (`DoubtInv`). Its
theorem is for one entry as well: of two awaiting creates the confirmation of one moves
the cursor past the other, which then is no longer confirmed.

`ReceiveOnlyConvergence_proofs`, from the assumptions on the tree (`PlanAssumption`:
`Above` is a transitive irreflexive relation of paths), on values (`EntryAssumption`,
`MemoAssumption`) and on the provider (`RunAssumption`: a folder has one path and no
other folder has it; there is an inode for every item):

* `RunsInvariant`: `Spec => []RunsInv`, with `ConvergenceTypeCorrect` and
  `ExecutorsWriteUnobserved`;
* `ReceiptsInvariant`: `Spec => []ReceiptsInv`, with `OwnersAreUnique` and
  `ReceiptsFollowProvider`.

The argument. That an item's memo is well typed, and that what a batch records is about
the right path, needs that the plan a run works on is still what catalog and receipts
say (`BatchInv`), which holds because both stand still during a run; that it turns to
no item twice needs that the item in progress is neither done nor waiting (`RunInv`).
`FenceInv` says that whatever may write has taken the baseline away, and that `verify`,
which keeps it, has nothing to take back. For the receipts, two owners of one path would
have to be recorded by a run, whose items are free of collisions (`BatchInv`) and
undisputed (`PlannedInv`, which is apart because the single-entry commands do not keep
it). A new receipt is true of the provider because each item done was compared
after its bytes were read and a change since then has touched it (`WitnessInv`); an old
one because every change is in `touched` until a window ages it. That a window ages the
contents of a folder that is gone rests on the third part of `CatalogInv`: a folder
never disappears without what the catalog has below it. `Moving`, `Starting`,
`Advancing`, `Completing`, `Leaving` and `Ending` say once what the steps make of a run,
and one lemma per group of actions applies them.

`BatchEffects_proofs`, from these:

* `AttestedBytesAreKept`: `Spec => []AttestedBytesExist`;
* `ConvergenceIsTrue` and `SavedWorkSurvives`, the action properties;
* `BatchesHappenWhole`: `Spec => []BatchesAreAtomic`.

The argument for the bytes. Every path is written for one item only (`BatchKept`: the items of a batch
have different homes, and a file with a receipt at such a home is that item's own), so a
step disturbs the copies of at most one receipt. What is kept there is followed through
the batch: before a replacement takes the name the backup holds what the receipt says
(`ItemOK`), an item done has the new bytes under the name and the old ones where a
rollback looks for them (`DoneOK`), and when the receipts are rewritten, in one step, the
new bytes are under the names, so that what was put aside may go (`CleanKept`). A
missing file that is downloaded again had no copy left only because its user removed it,
since a plan is made without leftovers (`BeginKept`). Hard links are why `Apart` is
needed: a save in place reaches every name of the file, and all of them belong to the
path that was saved. `BatchStep` says once what a step on one item leaves to show.
That a reported convergence is one needs no new invariant: only a plan without actions is
reported as converged, and then the receipts, which agree with the provider up to
`touched` (`ReceiptsInv`), attest what is on disk. The user's work needs `SavedInv`: no
file is dated after the last edit (`Dated`), so that a new save is told from what was
compared; what receipts and memos attest came from the provider (`Served`), so that a
file that equals its receipt is no work of the user; only replacements keep backups and
only deletions use quarantine, and waiting items have neither (`Slots`); and what a
backup, or a name about to be swapped, holds was compared with the receipt or saved
after that comparison (`Copies`).

The argument for the whole batch. The property is about a process that did not die in a directory nobody
else writes to (`Alone`); what else happens, failures of any call and a provider that
changes, is allowed. Then the paths fall into three kinds (`Places`): those the batch
has not turned to are as the receipts say (`Settled`), those of items done can be taken
back (`DonePlace`), and the one in progress can be dropped (`ItemPlace`). The plan of a
settled directory adopts nothing and finds no receipt at a missing path (`Shares`), so
that a rollback leaves again what the receipts said. A folder that was made can be
removed only if it is empty, which rests on the order of creation, parents first: below
a folder made there are only folders made later (`Order`), and those are taken back
before it. A file or folder put aside can be renamed back only while its directory
exists (`Reachable`), hence `Rooted`. It follows that a rollback never stops half-way
(`LastIsReversible`); after the receipts are rewritten what was put aside may always be
removed (`Cleaning`).

`ReceiveOnlyDaemon_proofs`, from these and `DaemonAssumption`, `NoneIsNoFlight`:

* `DaemonInvariant`: `DaemonSpec => []DaemonInv`, which contains `RunsInv`, with
  `DaemonTypeCorrect`;
* `ConvergenceIsFresh` and `DaemonWritesUnobserved`, the action properties.

The argument. A window in two rounds is no step of `ReceiveOnlyConvergence`, so that its
theorems do not carry over as such; all other steps are, and the lemmas about them are
cited. What a collected window says has to be well formed by the time it is executed
(`WindowInv`). A flight that found no window at its start has `due` changes, and
`FreshInv` says that it has seen the provider only when it is about to collect them or
has done so; a run belongs to the flight that is stepping, so that nothing else happens
to the tables meanwhile.

`SingleEntryCommands_proofs`, from what those of `ReceiveOnlyConvergence_proofs` need:

* `CommandsInvariant`: `CommandSpec => []CommandsInv`, which contains `RunsInv`, with
  `CommandTypeCorrect`;
* `OneCurrentOwnerPerPath`: `CommandSpec => []OneCurrentOwner`;
* `CommandsFailClosed` and `CommandsWriteUnobserved`, the action properties.

The argument. A command is a run like a batch of one, so `RunsInv` holds of it, and the
steps it shares with a batch are covered by the lemmas about those (`Shared`). What a
batch has besides, that no receipt is in the way (`PlannedInv`), a command has not: it
looks at no receipt of another item. Two owners of a path are therefore possible, but
not two current ones: a current receipt is where the catalog has the item (`OwnersInv`),
a record is only made of a catalog without collisions, and a window makes current
receipts stale and none current (`OwnersRecorded`, `OwnersWindow`); that a folder keeps
its receipt through a window needs that the provider does not move it (`HomeOfFolder`).
That only attested bytes are overwritten rests on what a run has in its hands
(`HandlingInv`): between comparison and rename the file under the name is the one
compared, which equals its receipt, or bears a later number (`SwapInv`, from
`StampsInv`), also after the user saved through another link of it; the download that
takes its place is one no name of the directory leads to (`PrivateInv`), so that it
stays what was compared, and a rollback recognizes it (`SwappedInv`). All other steps
that change a file's name find nothing there, a folder, or the bytes just compared
(`WorkingTouches`).

`CatalogMirror_proofs`, from `ItemsAssumption` and `PlacesAssumption` (root, none,
outside and gone are no items and different from each other), `HomesAssumption` and
`BoundsAssumption` (a page and a backlog have at least one entry). `HomesAssumption` has
the items start in folders that form a forest, as those of the provider do:

* `MirrorTypeCorrect`, `CatalogStaysATree`;
* `MirrorKeepsAuthority`: `Spec => Authority!Spec`, the refinement of
  `CatalogAuthority` under the mapping that reads the authority off the two flags of the
  inventory;
* `MirrorIsTrue` (`CaughtUpMirrors`), `ProjectionCyclesAreTransient`
  (`CyclesAreTransient`) and `QuietWindowsAreNotRefused` (`RefusedOnlyAfterAChange`).

The argument. That a position never goes back needs that the window starts at the
durable cursor and ends within the feed, and that a fence lies between them
(`Positions`); a rebaseline moves the cursor to its fence, and its window is not read
again. That the catalog is a tree needs that staged rows are one while a traversal goes
on (`StagedIsATree`): folders are only listed when they are held, so what `HangBelow`
adds hangs below the root. For a window the code checks it at the end.

That the mirror is true needs `MirrorInv`: every tree of the system is the provider's
row by row, as of its own position of the feed. A row that is held is the provider's
unless the item has a later change; a child of a folder that is held, or has been listed,
is held unless it has a later change, was deleted, or is one of the exceptions above. The
position is the cursor for the catalog, the fence for the staged rows, the change being
applied for the projection, and one more for what a hydration found; each action moves
its tree by exactly one position, and a page names the parent an item still has unless
the item changes again. What is below the root, or below an item, is then compared along
the two trees: `Under` is the least closed set, so that each lemma about it names the
set it is closed under (`HeldIsBelow`, `MirroringMeansMirrored`). A cycle of the
projection with nothing left to apply would be one of the provider, whose folders are a
forest (`NoLoops`, from `HomesAssumption` and the guard of `Move`).

That a quiet window is not refused needs `SteadyInv`: while the feed has not grown since
the first page, pages say what the provider is; of the items that are outside, the
projection has only those a change to come takes away, each together with the folder it
is in, so that `delete_subtree` of the folder reaches them (`LeavingTakesAll`); and a
hydration lists a folder below the root from the top, no item twice (`QuietListing`).

`UploadBuffer_proofs`, from `UploadAssumption` (sizes are positive, a chunk is a multiple
of the alignment) and `NoneIsNoContents`:

* `OffsetsAreExact`: what is buffered ends where reading stopped and stands at its
  offset, and a session holds a prefix of what its attempt streamed;
* `UploadKeepsContent`: `Spec => Content!Spec`, the refinement of `UploadContent`.

The argument. Each buffer, request and session is a stretch of what its own attempt
streamed, at its offset (`Buffered`, `Requests`, `Sessions`), so that a late or resent
request adds exactly the bytes that are missing, whatever prefix was accepted. Only a
last request completes an object, and `Fingerprinted` says that it is sent of the
contents whose digest is durable, also when it belongs to an attempt that is over.

Only model-checked: the liveness properties (`SubmissionIsResolved`,
`ConfirmationIsResolved`, `CreatedIsSettled`, `InStepUnlessHeldUp`), since the prover
knows neither fairness nor `ENABLED`. Every invariant, action property and refinement of
a passing run is stated by a theorem, with the restriction to one entry named above.

## 7. Disagreements between documents and code

* **`two_entries`** - the settlement of one create supersedes the journal rows of
  all other entries of the generation and records the remaining differences again
  without their intents (storage 2977, 3338). A second entry that is already
  confirmed is then allocated under a new id and created twice, although
  docs/PHASE_5H_REMOTE_WRITE_BOUNDARY.md:137 promises that a completed create is
  recognized by its id.
* **`interrupted`** - a confirmation moves the cursor (main.rs 3754) and the intent
  (3775) in two transactions. After a crash in between nothing can confirm the
  intent, although docs/ARCHITECTURE.md:71 demands safe resumption.
* **`daemon_interrupted`** - a crash during a download leaves its temporary file, which
  every later plan takes for a foreign entry and refuses (`convergence.rs` 344),
  although docs/ARCHITECTURE.md:71 demands safe resumption.
* **`mirror_lost`** - a traversal lists the folders one after the other, and a folder
  that is in the trash at its turn looks empty. When it is restored before the first
  change page is read, the page names only the folder, which the catalog holds already
  and therefore does not list again (daemon `lib.rs` 7804); its contents have no change
  of their own. The catalog has caught up and lacks them, although
  docs/PHASE_5H20B_EXTREME_BACKLOG_REBASELINE.md:50 promises that the fence makes the
  catch-up recover concurrent changes.

Limits of the catalog, named by `torn` and `window.since`: the same loss through a
listing of a new folder, or of an item whose change was applied while the folder above it
was outside and that came back with that folder, of which it has no change. A refused window stays: every later execution reads the same
changes, a rebaseline wants an incomplete window, only the confirmation of a create
ever discards one, and what was deleted at the provider does not come back.
`delete_subtree` keeps no set of the items it met and does not end on a cycle, which
two changes read at different moments can make of the projection: when an item is named
twice by one window, or by the traversal and the window, the first of its changes can be
applied next to a row of a later moment. `CyclesAreTransient` says that the cycle would be
gone once the changes of its items were applied.

Limits of the single-entry commands: `verify-file` and `materialize-file` look at no
receipt of another item over their path, so that a stale and a current one can stand
side by side; no plan or command resolves that. `replace-file` renames over the old file
without a second link of it, and leaves its download behind when a local read fails
between (daemon `lib.rs` 5324). Bytes saved between the last comparison and the rename
are lost here as in the batches.

Limits of the upload: `submit-file-create` does not ask whether the source stayed the
same, `recover-file-create` does; a torn upload whose digest and object agree is a
success for the first and a failure for the second.

A limit of the daemon: the loop reads the mode, then refreshes its session, then ticks
with the root it loaded at its start (daemon `main.rs` 341), so that a root activated in
between is ticked once more. The model has both steps, and `InStepUnlessHeldUp` allows for it.

Limits of the executors that the properties exclude by name: a file whose run died
before it recorded a receipt, and that changed at the provider since, can never be
verified (`Unverifiable`); bytes saved between the last comparison and the rename of a
replacement, or over a file just created that a rollback removes by its name, are lost
(`SavedTooLate`). A file the provider renamed keeps its receipt at the old path and
blocks the plan. A plan with actions goes before new metadata (daemon `lib.rs` 1776): a
planned file that changes its size meanwhile fails the executor every time, and the
change that would repair the plan is not collected (`Overtaken`). A folder removed with
its files is blocked because it is not empty (`convergence.rs` 380), and with it the
deletion of the files that would empty it.

Limits of the code met on the way, about which no document promises anything:
a planned intent whose file changes before submission is never planned again and
blocks the file commands (main.rs 1960); an empty file does the same (daemon 6336); a
torn upload leaves a digest no later stream reproduces (main.rs 2657); restarting a
submission needs the provider's cursor to be the durable one (main.rs 2533), and the
commands that move the durable cursor refuse while a submission is open (1099), so one
foreign change leaves it submitted (`OthersHaveWritten`); conflict
recovery refuses second attempts (3887); rebaseline does not age receipts (1220).

## 8. Plan

In order of importance, done first:

1. `RemoteWriteStore` and its proofs. **Done.**
2. `SupervisedCreate`, composing the store with directory, provider, feed and
   crashes. **Done**, safety and liveness.
3. Proofs of `SupervisedCreate`: the commands implement the store, and their safety.
   **Done.**
4. `ConvergencePlan` and `ReceiveOnlyConvergence`: the plan, its executors, rollbacks
   and crashes. **Done**, with the proofs named in section 6.
5. `ReceiveOnlyDaemon`: flights, rounds, the periodic daemon and the change of mode.
   **Done**, safety and liveness.
6. Proofs about the daemon: `DaemonTypeOK`, `ConvergedIsFresh`. **Done.** Of the
   executors `AttestedBytesExist`, `BatchesAreAtomic`, `ConvergedMeansEqual` and
   `UserWorkSurvives`. **Done.**
7. `CatalogMirror`: bootstrap, change window with nested folders that move, execution
   and rebaseline, against `CatalogAuthority`. **Done**, with its proofs.
8. `UploadBuffer` against `UploadContent`. **Done**, with its proofs.
9. `SingleEntryCommands` beside the batches. **Done**, with its proofs.
10. The lock and slot around a flight, and the back-off of the periodic tick.
11. The effect of a rebaseline on receipts, in a model that has both.

Open are items 10 and 11.

### Not modelled

The read-only reports of the command line (status, plans and diagnostics without a
write); remote updates and trash operations, which are planned and never executed; nested
parents of a create; the limit on the number of all actions of a plan; the clock,
the back-off and the refresh of a session; catalog changes outside a window, which only
tests call; empty files, whose upload is refused. OAuth, keyring, telemetry, HTTP and
JSON handling, argument parsing and report formatting keep no protocol state.
