------------------------- MODULE SingleEntryCommands -------------------------
(***************************************************************************)
(* The commands that treat one entry of a small root: adopt a directory,   *)
(* materialize, verify, replace or delete a file, delete a directory.      *)
(* They are older than the batches of ReceiveOnlyConvergence and work      *)
(* beside them on the same directory and receipts, under the same lock.    *)
(*                                                                         *)
(* A command shares the steps of a batch of one where the code shares      *)
(* them.  It differs in what it asks first (the materialization plan and   *)
(* counts of receipts instead of the convergence plan), in what it leaves  *)
(* out (a fingerprint around a download, a second link before a            *)
(* replacement, the quarantine until the receipt is gone), and in that     *)
(* nothing is taken back once a replacement or a removal has happened.     *)
(***************************************************************************)
EXTENDS ReceiveOnlyConvergence

VARIABLE single   \* the run in progress is one of these commands

commandVars == <<vars, single>>

CommandInit == Init /\ single = FALSE

-----------------------------------------------------------------------------
(* What a command asks of catalog, receipts and scan before it begins.     *)
RemoteFiles == Expected \ Folders
FileOwned   == Owned \ Folders
FoldersMatch == \A i \in Expected \cap Folders : Matching(i)

(* One file receipt, stale, whose file still has the bytes it attests.     *)
OnlyStaleFile(i) ==
  /\ FileOwned = {i} /\ Stale(i)
  /\ Reachable(receipts[i].path) /\ Unchanged(i)

(* One local entry beyond the catalog, and it is the receipt's.            *)
OnlyLocalEntry(i) == LocalOnly = {receipts[i].path} /\ Leftovers = {}

EmptyTarget(i) == disk[receipts[i].path] = Dir /\ EmptyFolder(receipts[i].path)

MayMaterialize(i) == ReadyForDirectories /\ RemoteFiles = {i} /\ Absent(i)

MayVerify(i) == ReadyForDirectories /\ RemoteFiles = {i} /\ Matching(i)

MayReplace(i) ==
  /\ ReadyForDirectories /\ RemoteFiles = {i} /\ Matching(i)
  /\ OnlyStaleFile(i) /\ receipts[i].path = catalog[i].path

MayDelete(i) ==
  /\ RemoteFiles = {} /\ i \notin Expected
  /\ OnlyStaleFile(i) /\ OnlyLocalEntry(i)

MayRemoveFolder(i) ==
  /\ Expected = {} /\ Owned = {i} /\ i \in Folders /\ Stale(i)
  /\ OnlyLocalEntry(i) /\ EmptyTarget(i)

Permits(command, i) ==
  /\ ~Collision
  /\ FoldersMatch
  /\ \/ command = "materialize" /\ MayMaterialize(i)
     \/ command = "verify" /\ MayVerify(i)
     \/ command = "replace" /\ MayReplace(i)
     \/ command = "delete" /\ MayDelete(i)
     \/ command = "rmdir" /\ MayRemoveFolder(i)

Commands == {"materialize", "verify", "replace", "delete", "rmdir"}

(* adopt_selected_root_existing_directory: an empty directory that is all  *)
(* the catalog and the scan hold, in a root without receipts.              *)
Adopt(i) ==
  /\ run = Idle
  /\ ~Collision /\ Expected = {i} /\ i \in Folders /\ Matching(i)
  /\ LocalOnly = {} /\ Leftovers = {} /\ Owned = {}
  /\ EmptyFolder(catalog[i].path)
  /\ receipts' = [receipts EXCEPT ![i] =
       [path |-> catalog[i].path, state |-> "current", blob |-> None]]
  /\ outcome' = "none"
  /\ UNCHANGED <<catalog, tree, service, observation, run, tallies, single>>

(* Everything but verify takes the baseline out of force first.  The       *)
(* missing file is downloaded at once; the rest start like a batch of one. *)
BeginCommand(command, i) ==
  LET alone == [Idle EXCEPT !.phase = command, !.todo = {i}, !.goal = 1]
  IN
  /\ run = Idle
  /\ Permits(command, i)
  /\ run' = IF command = "materialize"
            THEN [alone EXCEPT !.step = "fetch", !.item = i, !.todo = {},
                    !.memo[i] = [path |-> Home(i), blob |-> None,
                                 was |-> None, now |-> None]]
            ELSE alone
  /\ observation' = (observation /\ command = "verify")
  /\ outcome' = "none"
  /\ single' = TRUE
  /\ UNCHANGED <<catalog, receipts, tree, service, tallies>>

-----------------------------------------------------------------------------
(* Once a replaced file has its new bytes, or a deleted entry its          *)
(* quarantine name, the command has only its last steps to go.             *)
Applied   == Now("next") /\ run.todo = {} /\ run.done # <<>>
Entry     == Last(run.done)
EntryPath == run.memo[Entry].path

Settle(i, receipt) ==
  /\ receipts' = [receipts EXCEPT ![i] = receipt]
  /\ run' = Idle

CurrentReceipt(i, blob) ==
  [path |-> run.memo[i].path, state |-> "current", blob |-> blob]

(* The scan after the download: one file in the catalog, and it is there.  *)
Complete == ReadyForDirectories /\ \A i \in Expected : Matching(i)

RecordMaterialized ==
  LET i == run.item IN
  /\ In("materialize") /\ Now("confirm") /\ Complete
  /\ Settle(i, CurrentReceipt(i, run.memo[i].now.blob))
  /\ UNCHANGED tree

(* The local bytes were hashed first, the provider's now, and nothing is   *)
(* read again before the receipt is written.                               *)
SameBytes == Announced(run.item) /\ remote[run.item].blob = run.memo[run.item].blob

RecordVerified ==
  LET i == run.item IN
  /\ In("verify") /\ Now("compare") /\ SameBytes
  /\ Settle(i, CurrentReceipt(i, run.memo[i].blob))
  /\ UNCHANGED tree

(* Mutant: after the download only the provider is asked again.            *)
CompareProviderOnly ==
  /\ In("replace") /\ Now("compare")
  /\ remote[run.item] # None /\ remote[run.item].blob = run.memo[run.item].blob
  /\ temp[Here].blob = run.memo[run.item].blob
  /\ run' = [run EXCEPT !.step = "swap", !.memo[run.item].was = disk[Here]]
  /\ UNCHANGED <<tree, receipts>>

(* No second link: the download is renamed over the file compared here.    *)
CompareStale ==
  /\ In("replace") /\ Now("compare") /\ Passes
  /\ run' = [run EXCEPT !.step = "swap", !.memo[run.item].was = disk[Here]]
  /\ UNCHANGED <<tree, receipts>>

Promoted == IsFile(disk[EntryPath]) /\ disk[EntryPath].blob = run.memo[Entry].blob

RecordReplaced ==
  /\ In("replace") /\ Applied /\ Promoted
  /\ Settle(Entry, CurrentReceipt(Entry, run.memo[Entry].blob))
  /\ UNCHANGED tree

(* remove_file or remove_dir of the quarantine, and only then the receipt. *)
RemoveQuarantined ==
  /\ In("delete") \/ In("rmdir")
  /\ Applied
  /\ quarantine' = [quarantine EXCEPT ![EntryPath] = None]
  /\ run' = [run EXCEPT !.step = "finish"]
  /\ UNCHANGED <<disk, temp, backup, receipts>>

DropReceipt ==
  /\ Now("finish")
  /\ disk[EntryPath] = None
  /\ Settle(Entry, None)
  /\ UNCHANGED tree

CommandStep ==
  \/ \E i \in run.todo : \/ In("replace") /\ Fingerprint(i)
                         \/ HashLocal(i) \/ InspectStale(i) \/ QuarantineFolder(i)
  \/ Fetch \/ Promote \/ Unlink \/ Swap \/ QuarantineFile
  \/ RecordMaterialized \/ RecordVerified \/ CompareStale \/ RecordReplaced
  \/ RemoveQuarantined \/ DropReceipt

-----------------------------------------------------------------------------
(* Failure.  Before its entry is applied a command takes back what it did  *)
(* (GiveUp, TakeBack); afterwards it stops where it is, except that an     *)
(* entry in quarantine may still be renamed back.                          *)
Unpromising ==
  \/ ~Now("confirm") /\ ~In("verify") /\ ~Passes
  \/ In("verify") /\ Now("compare") /\ ~SameBytes
  \/ Now("confirm") /\ ~Complete
  \/ Now("next") /\ \E i \in run.todo : ~FirstCheck(i)
  \/ In("replace") /\ Applied /\ ~Promoted
  \/ Now("finish") /\ disk[EntryPath] # None

LeaveAsIs ==
  /\ Applied \/ Now("finish")
  /\ run' = Idle
  /\ UNCHANGED <<tree, receipts>>

(* A local read that fails between download and rename leaves the download *)
(* where it is: only the comparisons clean it up.                          *)
LeaveDownload ==
  /\ In("replace") /\ Now("compare")
  /\ run' = Idle
  /\ UNCHANGED <<tree, receipts>>

PutBack ==
  /\ ~Now("finish") /\ ~Now("rollback")
  /\ Applied => In("delete") \/ In("rmdir")
  /\ GiveUp

FailedCommand ==
  \/ /\ Unpromising
     /\ LeaveAsIs \/ PutBack
     /\ UNCHANGED failures
  \/ /\ failures < MaxFailures
     /\ failures' = failures + 1
     /\ LeaveAsIs \/ LeaveDownload \/ PutBack

StopCommand ==
  /\ Now("rollback")
  /\ run.done # <<>> => ~Reversible(Entry)
  /\ run' = Idle
  /\ UNCHANGED <<tree, receipts>>

Meanwhile ==
  \/ \E i \in Items : \/ \E p \in Paths, b \in Blobs \cup {None} : RemoteWrite(i, p, b)
                      \/ RemoteRemove(i)
  \/ UserStep
  \/ Crash

SingleNext ==
  /\ single
  /\ \/ /\ CommandStep \/ TakeBack \/ StopCommand
        /\ UNCHANGED <<catalog, service, observation, outcome, tallies>>
     \/ FailedCommand /\ UNCHANGED <<catalog, service, observation, outcome,
                                     edited, edits, changes, crashes>>
     \/ Meanwhile
  /\ single' = (run' # Idle)

CommandNext ==
  \/ \E i \in Items : Adopt(i) \/ \E c \in Commands : BeginCommand(c, i)
  \/ SingleNext
  \/ ~single /\ Next /\ UNCHANGED single

CommandSpec == CommandInit /\ [][CommandNext]_commandVars

-----------------------------------------------------------------------------
(* A file is overwritten or removed only while its bytes are those its     *)
(* path's receipt attests, or those this very run put there: whatever the  *)
(* order of commands, batches, crashes and the user's changes, a receipt   *)
(* left stale by an interrupted replacement or deletion makes every later  *)
(* operation fail closed (replace_selected_root_existing_file,             *)
(* delete_verified_stale_local_file).  Only bytes saved so late that a     *)
(* path-based call takes them for the entry compared before are exempt.    *)
FailsClosed ==
  [][edits' = edits =>
       \A p \in Paths : IsFile(disk[p]) /\ disk'[p] # disk[p] =>
         \/ \E i \in Owned \ Folders :
              receipts[i].path = p /\ receipts[i].blob = disk[p].blob
         \/ \E i \in Items :
              /\ run.memo[i] # None /\ run.memo[i].path = p
              /\ IsFile(run.memo[i].now) /\ run.memo[i].now.blob = disk[p].blob
         \/ SavedTooLate(disk[p])]_commandVars

(* materialize-file and verify-file record a receipt without a look at the *)
(* ones there are, so that a path may carry the stale receipt of a removed *)
(* item beside the new one, which no plan and no command resolves.  It     *)
(* never carries two current ones (record_sync_root_file_materialization   *)
(* against the ageing of receipts by a window).                            *)
OneCurrentOwner ==
  \A i, j \in Owned :
    /\ receipts[i].path = receipts[j].path
    /\ receipts[i].state = "current" /\ receipts[j].state = "current"
    => i = j

=============================================================================
