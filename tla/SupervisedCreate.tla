-------------------------- MODULE SupervisedCreate --------------------------
(***************************************************************************)
(* The supervised two-way commands of nubisync-cli at work on the store of *)
(* RemoteWriteStore, together with what surrounds them: the synchronized   *)
(* directory a user edits at any time, Google Drive with its change feed   *)
(* and its other clients, requests that land after the process that sent   *)
(* them is gone, and the interruption of a command between any two steps.  *)
(*                                                                         *)
(* Mutating commands hold one process lock (cli_requires_cross_process_    *)
(* execution_lock), so at most one runs.  A command is cut where something *)
(* outside the store may happen in between: an action reads the directory  *)
(* or the provider at one instant and then runs at most one transaction    *)
(* that writes.  Reads followed by the transaction that uses them are one  *)
(* action because only commands read or write the store.                   *)
(*                                                                         *)
(* The root starts as activate-two-way leaves an empty directory.  Every   *)
(* path is a direct child of the remote root folder.                       *)
(***************************************************************************)
EXTENDS RemoteWriteStore

CONSTANTS
  BytesOf,            \* digest of the bytes a file with this metadata holds
  MaxForeign,         \* bound on changes made by other provider clients
  MaxInterruptions    \* bound on crashes and failed calls

ASSUME SurroundingsAssumption ==
  /\ BytesOf \in [FileMeta -> Contents]
  /\ MaxForeign \in Nat /\ MaxInterruptions \in Nat
  /\ MaxGeneration >= 1

VARIABLES
  disk,        \* the synchronized directory, path -> item
  provider,    \* the object of every id that could be used in this root
  head, log,   \* the change feed: position and the id changed at each one
  staged,      \* the pages of the open change window
  inflight,    \* create requests sent and not processed by the provider
  run,         \* the command holding the process lock, and its progress
  interruptions

outside == <<disk, provider, head, log>>
vars == <<storeVars, outside, staged, inflight, run, interruptions>>

-----------------------------------------------------------------------------
(* An id is unused (absent), names the object the intent wants (exact),    *)
(* that object renamed (other), trashed or moved out of the root           *)
(* (outside), or was deleted for good (gone).  Contents are of one size: a *)
(* rewrite to another size is refused by the comparisons that refuse a     *)
(* rename, and is not represented.                                         *)
Places   == {"absent", "exact", "other", "outside", "gone"}
Objects  == [place : Places, content : Contents \cup {None},
             born : Contents \cup {None}]
Requests == [key : EventKeys, attempt : 1..MaxAttempts,
             content : Contents \cup {None}]
Pages    == [upTo : Cursors, cat : [RemoteIds -> Sightings],
             touched : SUBSET RemoteIds, moved : SUBSET RemoteIds]
Progress == {"idle", "plan", "recheck", "insert",
             "stream", "put", "wait", "answered", "decide"}

ASSUME PagesAssumption == None \notin Pages

(* plan_root_catalog_change: what is trashed or outside the root leaves    *)
(* the catalog.                                                            *)
Sight(r) == IF provider[r].place \in {"exact", "other"}
            THEN provider[r].place ELSE "absent"

(* inspect_expected_file and inspect_expected_folder by predetermined id.  *)
Inspect(k) ==
  LET object == provider[intents[k].remote] IN
  IF object.place \in {"absent", "gone"} THEN "missing"
  ELSE IF object.place = "exact" /\ object.content = intents[k].content
  THEN "exact" ELSE "mismatch"

Idle            == [at |-> "idle", key |-> None, seen |-> None]
At(pc, k, seen) == [at |-> pc, key |-> k, seen |-> seen]

In(op, status) ==
  {k \in Rows(intents) : intents[k].op = op /\ intents[k].status = status}
FilesIn(status)   == In("create_file", status)
FoldersIn(status) == In("create_folder", status)

SourceInPlace(k) == disk[k[2]] = intents[k].item

SupervisedInit ==
  /\ mode = "two_way"
  /\ inventory = [complete |-> TRUE, valid |-> TRUE, generation |-> 1]
  /\ baseline = [p \in Paths |-> None]
  /\ events = [k \in EventKeys |-> None]
  /\ intents = [k \in EventKeys |-> None]
  /\ settled = {}
  /\ receipts = [r \in RemoteIds |-> None]
  /\ catalog = [r \in RemoteIds |-> "absent"]
  /\ window = None
  /\ cursor = 0
  /\ authority = [cursor |-> 0, canAddChildren |-> TRUE]
  /\ disk = [p \in Paths |-> None]
  /\ provider = [r \in RemoteIds |->
                   [place |-> "absent", content |-> None, born |-> None]]
  /\ head = 0
  /\ log = [i \in 1..MaxCursor |-> None]
  /\ staged = None
  /\ inflight = {}
  /\ run = Idle
  /\ interruptions = 0

-----------------------------------------------------------------------------
(* The surroundings.                                                       *)

(* A user creates, replaces or removes an entry of the directory.          *)
Edit(p, item) ==
  /\ item # disk[p]
  /\ disk' = [disk EXCEPT ![p] = item]
  /\ UNCHANGED <<storeVars, provider, head, log, staged, inflight, run,
                 interruptions>>

Used == {r \in RemoteIds : provider[r].place # "absent"}

Publish(r) ==
  /\ head < MaxCursor
  /\ head' = head + 1
  /\ log' = [log EXCEPT ![head + 1] = r]

(* Another client rewrites, moves, trashes, restores or deletes an object  *)
(* of ours, or changes anything else (None).                               *)
ForeignChange(r, place, content) ==
  /\ head - Cardinality(Used) < MaxForeign
  /\ \/ r = None /\ provider' = provider
     \/ /\ r \in RemoteIds
        /\ provider[r].place \in {"exact", "other", "outside"}
        /\ content = None <=> provider[r].content = None
        /\ provider' = [provider EXCEPT ![r].place = place,
                                        ![r].content = content]
        /\ provider' # provider
  /\ Publish(r)
  /\ UNCHANGED <<storeVars, disk, staged, inflight, run, interruptions>>

Waiting(m) == /\ run.at = "wait" /\ run.key = m.key
              /\ intents[m.key].attempts = m.attempt

(* The provider processes a create: an id can be used once.  The sender    *)
(* may be gone by then.                                                    *)
Land(m) ==
  LET r == intents[m.key].remote IN
  /\ m \in inflight
  /\ r \notin Used
  /\ inflight' = inflight \ {m}
  /\ provider' = [provider EXCEPT ![r] =
                    [place |-> "exact", content |-> m.content,
                     born |-> m.content]]
  /\ Publish(r)
  /\ run' = IF Waiting(m) THEN [run EXCEPT !.at = "answered"] ELSE run
  /\ UNCHANGED <<storeVars, disk, staged, interruptions>>

(* It refuses a used id; a waiting upload ends with that error.            *)
Refuse(m) ==
  /\ m \in inflight
  /\ intents[m.key].remote \in Used
  /\ inflight' = inflight \ {m}
  /\ run' = IF Waiting(m) THEN Idle ELSE run
  /\ UNCHANGED <<storeVars, outside, staged, interruptions>>

(* A request is lost on the way, and its sender fails.                     *)
Lose(m) ==
  /\ m \in inflight
  /\ interruptions < MaxInterruptions
  /\ interruptions' = interruptions + 1
  /\ inflight' = inflight \ {m}
  /\ run' = IF Waiting(m) THEN Idle ELSE run
  /\ UNCHANGED <<storeVars, outside, staged>>

(* The command dies, or fails at a call to the provider: what it has made  *)
(* durable stays, what it has sent stays on its way.                       *)
Interrupt ==
  /\ run # Idle
  /\ interruptions < MaxInterruptions
  /\ interruptions' = interruptions + 1
  /\ run' = Idle
  /\ UNCHANGED <<storeVars, outside, staged, inflight>>

Surroundings ==
  \/ \E p \in Paths, item \in Items \cup {None} : Edit(p, item)
  \/ \E r \in RemoteIds, place \in Places \ {"absent"},
        content \in Contents \cup {None} : ForeignChange(r, place, content)
  \/ ForeignChange(None, "absent", None)
  \/ \E m \in inflight : Land(m) \/ Refuse(m) \/ Lose(m)
  \/ Interrupt

-----------------------------------------------------------------------------
(* allocate-create-ids.                                                    *)

surroundings == <<outside, inflight, interruptions>>

Continue(next) == run' = next /\ UNCHANGED <<surroundings, staged>>

(* Only current receipts are ownership.                                    *)
Owners(p) == {r \in RemoteIds : /\ receipts[r] # None
                                /\ receipts[r].path = p
                                /\ receipts[r].state = "current"}

(* A pending event for which the planner finds no safe remote operation: a *)
(* changed kind, a replaced directory, or a change of an item whose remote *)
(* object is not owned, not catalogued, or renamed.                        *)
Blocked(row, p) ==
  \/ row.from # "none" /\ row.to # "none" /\ row.from # row.to
  \/ row.from = "directory" /\ row.to = "directory"
  \/ row.from # "none" /\ \A r \in Owners(p) : catalog[r] # "exact"

(* plan_selected_root_remote_write_intents: the journal agrees with the    *)
(* directory, the authority is of the durable cursor, nothing is blocked.  *)
PlanPasses ==
  LET g == inventory.generation IN
  /\ BaselineUsable
  /\ window = None
  /\ authority # None /\ authority.cursor = cursor
  /\ \A p \in Paths :
       /\ Cardinality(Owners(p)) <= 1
       /\ p \in PendingAt(g) <=> baseline[p] # disk[p]
       /\ p \in PendingAt(g) =>
            /\ events[<<g, p>>].from = KindOf(baseline[p])
            /\ events[<<g, p>>].to = KindOf(disk[p])
            /\ ~Blocked(events[<<g, p>>], p)

Eligible == {k \in EventKeys : /\ k[1] = inventory.generation
                               /\ IsCreate(k) /\ intents[k] = None}

AllocateJournal ==
  /\ run = Idle /\ mode = "two_way"
  /\ ReconcileJournal(disk)
  /\ Continue(At("plan", None, None))

(* A blocked plan, a provider ahead of the durable cursor, or nothing to   *)
(* allocate ends the command.                                              *)
AllocateEnds ==
  /\ run.at = "plan"
  /\ ~PlanPasses \/ Eligible = {} \/ head # cursor
  /\ Continue(Idle) /\ UNCHANGED storeVars

(* Ids are generated between two equal readings of the provider's cursor.  *)
AllocateIds(ids) ==
  /\ run.at = "plan"
  /\ PlanPasses /\ Eligible # {} /\ head = cursor
  /\ \A k \in Eligible : ids[k] \notin OwnedIds \cup Used
  /\ \A j, k \in Eligible : ids[j] = ids[k] => j = k
  /\ Continue(At("recheck", None, ids)) /\ UNCHANGED storeVars

AllocateRecheck ==
  /\ run.at = "recheck"
  /\ ReconcileJournal(disk)
  /\ Continue([run EXCEPT !.at = "insert"])

AllocateInsert ==
  /\ run.at = "insert"
  /\ PlanPasses
  /\ CreateIntents(run.seen, disk)
  /\ Continue(Idle)

(* The plan changed meanwhile; the generated ids are abandoned.            *)
AllocateAbandons ==
  /\ run.at = "insert"
  /\ ~PlanPasses \/ \E k \in DOMAIN run.seen : ~IsCreate(k)
  /\ Continue(Idle) /\ UNCHANGED storeVars

-----------------------------------------------------------------------------
(* submit-file-create and recover-file-create-submission.                  *)

(* The source is opened, and every fence checked, before the provider is   *)
(* asked to create anything.                                               *)
SubmitFile(k) ==
  /\ run = Idle
  /\ FilesIn("planned") = {k}
  /\ SourceInPlace(k)
  /\ head = cursor
  /\ BeginSubmission(k, "create_file", intents[k].execGen, cursor)
  /\ Continue(At("stream", k, BytesOf[disk[k[2]]]))

(* What the open file yields: the bytes it had, or any mixture once it is  *)
(* being changed.                                                          *)
Streamed(k) == IF SourceInPlace(k) THEN {run.seen} ELSE Contents

(* Mutant: the final PUT goes first.                                       *)
StreamUnrecorded(content) ==
  /\ run.at = "stream"
  /\ content \in Streamed(run.key)
  /\ Continue(At("put", run.key, content)) /\ UNCHANGED storeVars

(* The digest of the whole stream becomes durable before the final PUT; a  *)
(* recovery only goes on with the digest that is already recorded.         *)
Stream(content) ==
  /\ run.at = "stream"
  /\ content \in Streamed(run.key)
  /\ RecordFingerprint(run.key, intents[run.key].execGen, content)
  /\ Continue(At("put", run.key, content))

StreamDiffers ==
  /\ run.at = "stream"
  /\ intents[run.key].content # None
  /\ \E content \in Streamed(run.key) : content # intents[run.key].content
  /\ Continue(Idle) /\ UNCHANGED storeVars

(* The final PUT of an upload, or the create call of a folder.             *)
Send ==
  /\ run.at = "put"
  /\ inflight' = inflight \cup {[key |-> run.key,
                                 attempt |-> intents[run.key].attempts,
                                 content |-> run.seen]}
  /\ run' = [run EXCEPT !.at = "wait"]
  /\ UNCHANGED <<storeVars, outside, staged, interruptions>>

(* A second attempt is accepted only from a source that did not change     *)
(* while it was read.                                                      *)
Acceptable(k) == intents[k].attempts > 1 => SourceInPlace(k)

(* Mutant: the end of the upload is taken for its confirmation.            *)
FileStoredAndConfirmed ==
  LET k == run.key IN
  /\ run.at = "answered" /\ intents[k].op = "create_file"
  /\ intents' = [intents EXCEPT ![k].status = "confirmed",
                                ![k].execGen = @ + 1,
                                ![k].versioned = TRUE]
  /\ UNCHANGED <<mode, localVars, settled, receipts, remoteVars>>
  /\ Continue(Idle)

(* The answer names the digest of what was stored, which is the one sent.  *)
FileStored ==
  LET k == run.key IN
  /\ run.at = "answered" /\ intents[k].op = "create_file"
  /\ Acceptable(k)
  /\ CompleteFileUpload(k, intents[k].execGen)
  /\ Continue(Idle)

(* The answer names no digest; the object is looked up, and is not there   *)
(* or not the one expected, or the source was not stable.                  *)
FileStoredInDoubt ==
  LET k == run.key IN
  /\ run.at = "answered" /\ intents[k].op = "create_file"
  /\ \/ /\ Inspect(k) = "mismatch"
        /\ Transition(k, "create_file", intents[k].execGen,
                      "submitted", "conflict")
     \/ Inspect(k) = "missing" /\ UNCHANGED storeVars
     \/ ~Acceptable(k) /\ UNCHANGED storeVars
  /\ Continue(Idle)

(* A submission that ended before its digest was recorded: the unchanged   *)
(* source is hashed again.                                                 *)
RecoverFingerprint(k) ==
  /\ run = Idle /\ mode = "two_way"
  /\ FilesIn("submitted") = {k}
  /\ intents[k].content = None
  /\ SourceInPlace(k)
  /\ RecordFingerprint(k, intents[k].execGen, BytesOf[disk[k[2]]])
  /\ Continue(Idle)

(* Mutant: a lookup that finds nothing counts as success.                  *)
RecoverFileUnlessMismatch(k) ==
  /\ run = Idle /\ mode = "two_way"
  /\ FilesIn("submitted") = {k}
  /\ intents[k].content # None
  /\ Inspect(k) # "mismatch"
  /\ CompleteFileUpload(k, intents[k].execGen)
  /\ Continue(Idle)

RecoverFileFound(k) ==
  /\ run = Idle /\ mode = "two_way"
  /\ FilesIn("submitted") = {k}
  /\ intents[k].content # None
  /\ \/ /\ Inspect(k) = "exact"
        /\ CompleteFileUpload(k, intents[k].execGen)
     \/ /\ Inspect(k) = "mismatch"
        /\ Transition(k, "create_file", intents[k].execGen,
                      "submitted", "conflict")
  /\ Continue(Idle)

(* Nothing is there, between two readings of a provider cursor equal to    *)
(* the durable one: one more attempt under the same id.                    *)
RecoverFileMissing(k) ==
  /\ run = Idle
  /\ FilesIn("submitted") = {k}
  /\ intents[k].content # None
  /\ Inspect(k) = "missing"
  /\ SourceInPlace(k)
  /\ head = cursor
  /\ RestartSubmission(k, intents[k].execGen, intents[k].attempts, cursor)
  /\ Continue(At("stream", k, BytesOf[disk[k[2]]]))

-----------------------------------------------------------------------------
(* submit-folder-create and recover-folder-create-submission.              *)

SubmitFolder(k) ==
  /\ run = Idle
  /\ k \in FoldersIn("planned")
  /\ SourceInPlace(k)
  /\ head = cursor
  /\ BeginSubmission(k, "create_folder", intents[k].execGen, cursor)
  /\ Continue(At("put", k, None))

FolderFound(k) ==
  \/ /\ Inspect(k) = "exact"
     /\ Transition(k, "create_folder", intents[k].execGen,
                   "submitted", "awaiting")
  \/ /\ Inspect(k) = "mismatch"
     /\ Transition(k, "create_folder", intents[k].execGen,
                   "submitted", "conflict")

(* Created is believed; 409 (a repeated request) is looked up.             *)
FolderAnswered ==
  LET k == run.key IN
  /\ run.at = "answered" /\ intents[k].op = "create_folder"
  /\ \/ Transition(k, "create_folder", intents[k].execGen,
                   "submitted", "awaiting")
     \/ FolderFound(k)
     \/ Inspect(k) = "missing" /\ UNCHANGED storeVars
  /\ Continue(Idle)

(* A folder that is missing is never created a second time.                *)
RecoverFolder(k) ==
  /\ run = Idle /\ mode = "two_way"
  /\ k \in FoldersIn("submitted")
  /\ SourceInPlace(k)
  /\ FolderFound(k)
  /\ Continue(Idle)

-----------------------------------------------------------------------------
(* The change window.  A page reports the ids changed up to some position  *)
(* of the feed, with the state their objects have when the page is read;   *)
(* the feed may lag behind its head.  moved are the ids that some page     *)
(* showed in another state than the page before it.                        *)
CollectPage(upTo, complete) ==
  LET from    == IF window = None THEN cursor ELSE staged.upTo
      known   == IF window = None THEN catalog ELSE staged.cat
      before  == IF window = None THEN {} ELSE staged.touched
      placed  == IF window = None THEN {} ELSE staged.moved
      changed == {log[i] : i \in from + 1 .. upTo} \ {None}
  IN  /\ upTo \in from .. head
      /\ StageWindow(complete)
      /\ staged' = [upTo |-> upTo,
                    cat |-> [r \in RemoteIds |->
                               IF r \in changed THEN Sight(r) ELSE known[r]],
                    touched |-> before \cup changed,
                    moved |-> placed \cup
                              {r \in changed : Sight(r) # known[r]}]
      /\ UNCHANGED <<surroundings, run>>

(* Mutant: the checkpoint is the head of the feed, not the end of the      *)
(* collected pages.                                                        *)
ExecuteWindowToHead ==
  /\ CommitWindow(head, staged.cat, staged.touched, staged.moved)
  /\ staged' = None
  /\ UNCHANGED surroundings

(* Mutant: the pages outlive their window.                                 *)
ExecuteWindowKeepingPages ==
  /\ CommitWindow(staged.upTo, staged.cat, staged.touched, staged.moved)
  /\ UNCHANGED <<surroundings, staged>>

ExecuteWindow ==
  /\ CommitWindow(staged.upTo, staged.cat, staged.touched, staged.moved)
  /\ staged' = None
  /\ UNCHANGED surroundings

(* confirm-file-create (the only awaiting file) and confirm-folder-create: *)
(* the local event is still the current one, and the window starts at the  *)
(* cursor from before the submission.                                      *)
Confirmable(k) ==
  /\ run = Idle /\ mode = "two_way"
  /\ FilesIn("awaiting") = {k} \/ k \in FoldersIn("awaiting")
  /\ AtGeneration(k[1]) /\ IsPending(k)
  /\ intents[k].preCursor = IF window = None THEN cursor ELSE window.base

ConfirmPage(k, upTo, complete) ==
  /\ Confirmable(k)
  /\ CollectPage(upTo, complete)

(* Mutant: the window is kept for the next confirmation.                   *)
ConfirmWithSameWindow(k) ==
  /\ Confirmable(k)
  /\ window # None /\ window.complete
  /\ intents[k].remote \notin staged.touched
  /\ UNCHANGED vars

(* The feed does not show the target yet: the window is thrown away.       *)
ConfirmLater(k) ==
  /\ Confirmable(k)
  /\ window # None /\ window.complete
  /\ intents[k].remote \notin staged.touched
  /\ DiscardWindow
  /\ staged' = None
  /\ UNCHANGED <<surroundings, run>>

(* First transaction: the window becomes the catalog.  A file has been     *)
(* inspected at the provider before; a folder is not.                      *)
ConfirmExecute(k) ==
  LET r == intents[k].remote IN
  /\ Confirmable(k)
  /\ window # None /\ window.complete
  /\ r \in staged.touched
  /\ run' = At("decide", k,
               /\ staged.cat[r] = "exact"
               /\ intents[k].op = "create_file" => Inspect(k) = "exact")
  /\ ExecuteWindow

(* Second transaction: confirmed, or a conflict.                           *)
ConfirmDecide ==
  LET k == run.key IN
  /\ run.at = "decide"
  /\ Transition(k, intents[k].op, intents[k].execGen, "awaiting",
                IF run.seen /\ catalog[intents[k].remote] = "exact"
                THEN "confirmed" ELSE "conflict")
  /\ Continue(Idle)

(* recover-file-create-confirmation-conflict: the only unsettled conflict. *)
RecoverConfirmation(k) ==
  /\ run = Idle /\ mode = "two_way"
  /\ FilesIn("conflict") \ settled = {k}
  /\ intents[k].attempts = 1
  /\ window = None
  /\ AtGeneration(k[1]) /\ IsPending(k)
  /\ catalog[intents[k].remote] = "exact"
  /\ Inspect(k) = "exact"
  /\ RecoverConflict(k, intents[k].execGen, 1)
  /\ Continue(Idle)

(* Mutant: a create in doubt does not hold a refresh back.                 *)
RefreshableAnytime == run = Idle /\ mode = "two_way" /\ BaselineUsable

(* refresh-two-way-metadata, refused while a create is in doubt.           *)
Refreshable ==
  /\ run = Idle /\ mode = "two_way"
  /\ BaselineUsable
  /\ \A k \in Rows(intents) : intents[k].status \notin {"submitted", "awaiting"}

RefreshPage(upTo, complete) == Refreshable /\ CollectPage(upTo, complete)

RefreshExecute ==
  /\ Refreshable
  /\ window # None /\ window.complete
  /\ ExecuteWindow
  /\ UNCHANGED run

(* observe-write-authority, between two equal readings of the provider's   *)
(* cursor that equal the durable one.                                      *)
ObserveAuthority ==
  /\ run = Idle
  /\ head = cursor
  /\ CommitAuthority(TRUE)
  /\ Continue(Idle)

-----------------------------------------------------------------------------
(* settle-file-create and settle-folder-create.  An unchanged file is      *)
(* hashed again and must hold what was uploaded.                           *)
(* Mutant: equal metadata is taken for equal bytes.                        *)
SettleFileUnread(k) ==
  /\ run = Idle
  /\ k \in FilesIn("confirmed")
  /\ SettleFileCreate(k, intents[k].execGen, disk)
  /\ Continue(Idle)

SettleFile(k) ==
  /\ run = Idle
  /\ k \in FilesIn("confirmed")
  /\ SourceInPlace(k) => BytesOf[disk[k[2]]] = intents[k].content
  /\ SettleFileCreate(k, intents[k].execGen, disk)
  /\ Continue(Idle)

SettleFolder(k) ==
  /\ run = Idle
  /\ SettleFolderCreate(k, intents[k].execGen, disk)
  /\ Continue(Idle)

-----------------------------------------------------------------------------
Allocation ==
  \/ AllocateJournal \/ AllocateEnds
  \/ \E ids \in [Eligible -> RemoteIds] : AllocateIds(ids)
  \/ AllocateRecheck \/ AllocateInsert \/ AllocateAbandons

Upload ==
  \/ \E content \in Contents : Stream(content)
  \/ StreamDiffers \/ Send \/ FileStored \/ FileStoredInDoubt
  \/ FolderAnswered

Submission ==
  \E k \in Rows(intents) :
    \/ SubmitFile(k) \/ SubmitFolder(k)
    \/ RecoverFingerprint(k) \/ RecoverFileFound(k) \/ RecoverFileMissing(k)
    \/ RecoverFolder(k)

Confirmation ==
  \/ \E k \in Rows(intents) :
       \/ \E upTo \in Cursors, complete \in BOOLEAN :
            ConfirmPage(k, upTo, complete)
       \/ ConfirmLater(k) \/ ConfirmExecute(k) \/ RecoverConfirmation(k)
  \/ ConfirmDecide

Refresh ==
  \/ \E upTo \in Cursors, complete \in BOOLEAN : RefreshPage(upTo, complete)
  \/ RefreshExecute \/ ObserveAuthority

Settlement == \E k \in Rows(intents) : SettleFile(k) \/ SettleFolder(k)

SupervisedNext ==
  Surroundings \/ Allocation \/ Upload \/ Submission \/ Confirmation
  \/ Refresh \/ Settlement

SupervisedSpec == SupervisedInit /\ [][SupervisedNext]_vars

-----------------------------------------------------------------------------
(* Fairness.  A started command goes on by itself, requests on their way   *)
(* are processed, and every command is invoked again and again (it is the  *)
(* operator who does so); an invocation that could make a step gets the    *)
(* process lock eventually.  A collection reaches the head of the feed now *)
(* and then.                                                               *)
Running == run # Idle /\ (Allocation \/ Upload \/ ConfirmDecide)

CommandFairness ==
  /\ WF_vars(Running)
  /\ WF_vars(\E m \in inflight : Land(m) \/ Refuse(m))
  /\ SF_vars(AllocateJournal) /\ SF_vars(window = None /\ AllocateJournal)
  /\ SF_vars(Submission)
  /\ SF_vars(\E k \in Rows(intents) : ConfirmPage(k, head, TRUE))
  /\ SF_vars(\E k \in Rows(intents) : ConfirmLater(k) \/ ConfirmExecute(k))
  /\ SF_vars(RefreshPage(head, TRUE))
  /\ SF_vars(RefreshExecute)
  /\ SF_vars(ObserveAuthority)
  /\ SF_vars(Settlement)

FairSpec == SupervisedSpec /\ CommandFairness

-----------------------------------------------------------------------------
(* Safety.                                                                 *)

SupervisedTypeOK ==
  /\ TypeOK
  /\ disk \in Trees
  /\ provider \in [RemoteIds -> Objects]
  /\ head \in cursor .. MaxCursor
  /\ log \in [1..MaxCursor -> RemoteIds \cup {None}]
  /\ staged \in Pages \cup {None} /\ (staged = None <=> window = None)
  /\ inflight \in SUBSET Requests
  /\ run.at \in Progress
  /\ interruptions \in 0..MaxInterruptions

(* No bytes reach the provider, now or by a request that outlives its      *)
(* process, without their digest being durable in the intent first; a      *)
(* second attempt never carries other bytes than the first.                *)
UploadIsEvidenced ==
  /\ \A m \in inflight : m.content = intents[m.key].content
  /\ \A k \in Rows(intents) :
       provider[intents[k].remote].born \in {None, intents[k].content}

(* awaiting and confirmed are only said of an object that was really       *)
(* created under the predetermined id, with the bytes the intent records,  *)
(* whatever crashes, late arrivals and other clients came in between.      *)
BeliefIsReal ==
  \A k \in Rows(intents) :
    intents[k].status \in {"awaiting", "confirmed"} =>
      /\ intents[k].remote \in Used
      /\ provider[intents[k].remote].born = intents[k].content

(* The catalog is the provider's state as of the durable cursor: an object *)
(* that did not change after the cursor is known exactly as it is, however *)
(* pages, discarded windows and commands were interleaved with changes.    *)
CatalogIsCurrentAtCursor ==
  \A r \in RemoteIds :
    r \notin {log[i] : i \in cursor + 1 .. head} => catalog[r] = Sight(r)

(* An entry of the directory is created at most once at the provider       *)
(* (PHASE_5H15: no blind duplicate create is allowed).                     *)
NoDuplicateRemote ==
  \A j, k \in Rows(intents) :
    /\ j[2] = k[2] /\ intents[j].item = intents[k].item
    /\ {intents[j].remote, intents[k].remote} \subseteq Used
    => j = k

(* allocate-create-ids gives an entry a second id only after the           *)
(* settlement of another entry has closed the generation of the first (see *)
(* settle_file_create_inner): no crash, late answer or repeated command    *)
(* does.                                                                   *)
RecreatedOnlyAfterASibling ==
  \A j, k \in Rows(intents) :
    j[2] = k[2] /\ j[1] < k[1] =>
      \E s \in settled : s[1] = j[1] /\ s[2] # j[2]

(* A settlement of a file that is still the one that was planned accepts   *)
(* it only with the bytes it holds now: a write into the file during the   *)
(* upload never becomes an accepted item with other bytes in the receipt.  *)
SettlementMatchesDisk ==
  [][\A k \in settled' \ settled :
       /\ intents[k].op = "create_file"
       /\ disk[k[2]] # None /\ baseline'[k[2]] = disk[k[2]]
       => /\ receipts'[intents[k].remote].content = BytesOf[disk[k[2]]]
          /\ intents[k].content = BytesOf[disk[k[2]]]]_vars

(* While no call failed and no command died, the cursor a submission was   *)
(* made at stays the base of the next window until the submission is       *)
(* decided, except inside a running confirmation.                          *)
AwaitingStaysConfirmable ==
  run = Idle /\ interruptions = 0 =>
    \A k \in Rows(intents) :
      intents[k].status = "awaiting" =>
        intents[k].preCursor = IF window = None THEN cursor ELSE window.base

(* Every step of the commands and of their surroundings is one transaction *)
(* of the store or leaves the store alone, so what is proved of the store  *)
(* holds of the commands.                                                  *)
StoreTransactions == [][StoreNext]_storeVars

(* Liveness.                                                               *)

InDoubt(k, status) == k \in Rows(intents) /\ intents[k].status = status
OthersHaveWritten == head > Cardinality(Used)

(* A submitted create is decided, through lost requests, deaths of the     *)
(* command and second attempts, unless its source is not what was planned  *)
(* or another client has moved the change feed.                            *)
SubmissionIsResolved ==
  \A k \in EventKeys :
    InDoubt(k, "submitted")
      ~> (InDoubt(k, "submitted") => ~SourceInPlace(k) \/ OthersHaveWritten)

(* An awaiting create is confirmed or found to be in conflict, whatever    *)
(* other clients do and however late the feed is, unless its source is not *)
(* what was planned or a command was interrupted.                          *)
ConfirmationIsResolved ==
  \A k \in EventKeys :
    InDoubt(k, "awaiting")
      ~> (InDoubt(k, "awaiting") => ~SourceInPlace(k) \/ interruptions > 0)

(* The same across a restart: ARCHITECTURE.md, "Interrupted                *)
(* synchronization must resume safely".                                    *)
ConfirmationSurvivesRestart ==
  \A k \in EventKeys :
    InDoubt(k, "awaiting") ~> (InDoubt(k, "awaiting") => ~SourceInPlace(k))

(* An entry that stays in the directory is eventually created, confirmed   *)
(* and settled, unless a command was interrupted or another client wrote.  *)
CreatedIsSettled ==
  \A p \in Paths :
    <>[](disk[p] # None)
      => <>(\/ \E k \in settled : k[2] = p
            \/ interruptions > 0 \/ OthersHaveWritten)

=============================================================================
