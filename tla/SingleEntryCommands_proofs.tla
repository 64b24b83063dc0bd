---------------------- MODULE SingleEntryCommands_proofs ----------------------
(***************************************************************************)
(* The single-entry commands and the batches beside them, for every tree,  *)
(* provider and user.  A command is a run like a batch of one: what the    *)
(* batches rely on (RunsInv) holds of it too, except that no receipt is in *)
(* the way.  A current receipt is then all that a path cannot have twice,  *)
(* and a file that is overwritten or removed is one a receipt attests.     *)
(***************************************************************************)
EXTENDS SingleEntryCommands, ReceiveOnlyConvergence_proofs

-----------------------------------------------------------------------------
(* The inductive invariant.                                                *)

(* Steps at which a download waits beside the path it is for.              *)
Downloaded ==
  \/ run.step \in {"promote", "backup", "swap"}
  \/ Now("compare") /\ In("replace")

(* A command is one of the five, and keeps nothing for a later cleanup.    *)
SingleInv == single => run.phase \in Commands /\ ~Now("clean")

(* A current receipt is for an item of the catalog, where the catalog has  *)
(* it.                                                                     *)
OwnersInv ==
  /\ \A i \in Expected : catalog[i].path \in Homes[i]
  /\ \A i \in Owned : receipts[i].state = "current" =>
       i \in Expected /\ receipts[i].path = catalog[i].path

(* What was downloaded is a file.                                          *)
FetchedInv ==
  /\ Downloaded => IsFile(temp[Here])
  /\ run.step \in {"unlink", "confirm"} => IsFile(run.memo[run.item].now)

(* No name of the directory leads to a download that is to replace a file, *)
(* so the user cannot write into it.                                       *)
PrivateInv ==
  In("replace") /\ Downloaded =>
    \A p \in Paths : IsFile(disk[p]) => disk[p].node # temp[Here].node

(* Between comparison and renaming, the file to be replaced is the one     *)
(* compared or was saved later, and the download is what was asked for.    *)
SwapInv ==
  run.step \in {"backup", "swap"} =>
    LET m == run.memo[run.item] IN
    /\ temp[Here].blob = m.blob
    /\ IsFile(m.was) /\ m.was.stamp <= edits
    /\ m.was.blob = receipts[run.item].blob
    /\ IsFile(disk[Here]) => disk[Here] = m.was \/ disk[Here].stamp > m.was.stamp

(* What a replacement has put there is what it was to put there.           *)
SwappedInv ==
  In("replace") => \A i \in Done :
    /\ run.memo[i] # None
    /\ IsFile(run.memo[i].now) => run.memo[i].now.blob = run.memo[i].blob

(* The user's changes are numbered.                                        *)
StampsInv ==
  \A p \in Paths : \A x \in {disk[p], temp[p], backup[p], quarantine[p]} :
    IsFile(x) => x.stamp <= edits

HandlingInv == FetchedInv /\ PrivateInv /\ SwapInv /\ SwappedInv /\ StampsInv

-----------------------------------------------------------------------------
(* What a command asks before it begins.                                   *)

LEMMA PermitFacts ==
  ASSUME NEW c \in Commands, NEW i \in Items, Permits(c, i)
  PROVE  /\ ~Collision
         /\ c \in {"materialize", "verify", "replace"} => i \in Expected \ Folders
         /\ c = "replace" => i \in Owned /\ receipts[i].path = Home(i)
         /\ c = "delete" => i \notin Folders
         /\ c \in {"delete", "rmdir"} => i \in Owned \ Expected
         /\ c = "verify" => Leftovers = {}
<1>1. CASE c = "materialize"
  BY <1>1 DEF Permits, MayMaterialize, RemoteFiles
<1>2. CASE c = "verify"
  BY <1>2 DEF Permits, MayVerify, RemoteFiles, ReadyForDirectories
<1>3. CASE c = "replace"
  BY <1>3 DEF Permits, MayReplace, RemoteFiles, OnlyStaleFile, FileOwned, Home
<1>4. CASE c = "delete"
  BY <1>4 DEF Permits, MayDelete, OnlyStaleFile, FileOwned
<1>5. CASE c = "rmdir"
  BY <1>5 DEF Permits, MayRemoveFolder
<1> QED BY <1>1, <1>2, <1>3, <1>4, <1>5 DEF Commands

(* How a command begins.                                                   *)
LEMMA BegunRun ==
  ASSUME RunsInv, NEW c \in Commands, NEW i \in Items, BeginCommand(c, i)
  PROVE  /\ run' \in Runs /\ run'.phase = c /\ run'.done = <<>>
         /\ c # "materialize" => run'.step = "next" /\ run'.todo = {i} /\ run'.item = None
         /\ c = "materialize" => /\ run'.step = "fetch" /\ run'.todo = {} /\ run'.item = i
                                 /\ run'.memo[i] # None /\ run'.memo[i].path = Home(i)
<1>1. Idle \in Runs /\ Idle.done = <<>> /\ Idle.step = "next" /\ Idle.item = None
      /\ Idle.memo = Blank
  BY IdleType DEF Idle
<1>2. 1 \in 0..Cardinality(Items)
  <2>1. IsFiniteSet(Items) /\ Cardinality(Items) \in Nat
    BY PlanAssumption, FS_CardinalityType
  <2>2. Cardinality({i}) = 1 /\ {i} \subseteq Items
    BY FS_Singleton
  <2> QED BY <2>1, <2>2, FS_Subset
<1> DEFINE alone == [Idle EXCEPT !.phase = c, !.todo = {i}, !.goal = 1]
<1>3. c \in Phases
  BY DEF Commands, Phases
<1>4. /\ alone \in Runs /\ alone.phase = c /\ alone.done = <<>> /\ alone.step = "next"
      /\ alone.todo = {i} /\ alone.item = None /\ alone.memo = Blank
  BY <1>1, <1>2, <1>3 DEF Runs
<1>5. c # "materialize" => run' = alone
  BY DEF BeginCommand
<1> DEFINE m == [path |-> Home(i), blob |-> None, was |-> None, now |-> None]
<1>6. c = "materialize" =>
        run' = [alone EXCEPT !.step = "fetch", !.item = i, !.todo = {}, !.memo[i] = m]
  BY DEF BeginCommand
<1>7. CASE c # "materialize"
  BY <1>4, <1>5, <1>7
<1>8. CASE c = "materialize"
  <2>1. Home(i) \in Paths
    BY <1>8, PermitFacts, HomeType, PartsOfInv DEF BeginCommand
  <2>2. m \in Memo /\ m.path = Home(i)
    BY <2>1 DEF Memo
  <2>3. m # None
    BY <2>2, MemoAssumption
  <2> HIDE DEF m, alone
  <2>4. Blank \in [Items -> Memo \cup {None}]
    BY DEF Blank
  <2>5. [Blank EXCEPT ![i] = m] \in [Items -> Memo \cup {None}]
        /\ [Blank EXCEPT ![i] = m][i] = m
    BY <2>2, <2>4
  <2>6. run' = [alone EXCEPT !.step = "fetch", !.item = i, !.todo = {},
                             !.memo = [Blank EXCEPT ![i] = m]]
    BY <1>4, <1>6, <1>8 DEF Runs
  <2>7. /\ run' \in Runs /\ run'.phase = c /\ run'.done = <<>> /\ run'.step = "fetch"
        /\ run'.todo = {} /\ run'.item = i /\ run'.memo = [Blank EXCEPT ![i] = m]
    BY <1>4, <2>5, <2>6 DEF Runs, Steps
  <2> QED BY <1>8, <2>2, <2>3, <2>5, <2>7
<1> QED BY <1>7, <1>8


LEMMA BeginCommandKeeps ==
  ASSUME RunsInv, NEW c \in Commands, NEW i \in Items, BeginCommand(c, i)
  PROVE  RunsInv'
<1>1. /\ run = Idle /\ Permits(c, i) /\ outcome' = "none"
      /\ UNCHANGED <<catalog, receipts, tree, service, tallies>>
      /\ observation' = (observation /\ c = "verify")
  BY DEF BeginCommand
<1>2. /\ run' \in Runs /\ run'.phase = c /\ run'.done = <<>>
      /\ c # "materialize" => run'.step = "next" /\ run'.todo = {i} /\ run'.item = None
      /\ c = "materialize" => /\ run'.step = "fetch" /\ run'.todo = {} /\ run'.item = i
                              /\ run'.memo[i] # None /\ run'.memo[i].path = Home(i)
  BY BegunRun
<1>3. TreeOK' /\ TalliesOK' /\ RemoteInv' /\ TablesOK'
  BY <1>1, PartsOfInv, StillRemote, StillTallies
     DEF TreeOK, tree, service, TablesOK, Outcomes
<1>4. Range(<<>>) = {} /\ IsInjective(<<>>)
  BY DEF Range, IsInjective
<1>5. RunOK'
  BY <1>2, <1>4 DEF RunOK, Done
<1>6. RunInv'
  BY <1>2, <1>4 DEF RunInv, In, StepFits, Busy, Commands, Done
<1>7. (run.todo \cup Turned)' = {i} /\ Turned' \subseteq {i}
      /\ (Turned' = {i} => c = "materialize")
  BY <1>2, <1>4 DEF Turned, Done, Busy
<1>8. BatchInv'
  <2>1. \A j \in Turned' : run'.memo[j] # None /\ run'.memo[j].path = Home(j)
    BY <1>2, <1>7
  <2>2. /\ ~Collision
        /\ c \in {"materialize", "verify", "replace"} => i \in Expected \ Folders
        /\ c = "replace" => i \in Owned /\ receipts[i].path = Home(i)
        /\ c = "delete" => i \notin Folders
        /\ c \in {"delete", "rmdir"} => i \in Owned \ Expected
    BY <1>1, PermitFacts
  <2>3. c # "create"
    BY DEF Commands
  <2>4. \A j \in Items : Home(j)' = Home(j)
    BY <1>1, PlanSteady
  <2>5. Collision' = Collision /\ Expected' = Expected /\ Owned' = Owned
    BY <1>1, PlanSteady
  <2> HIDE DEF Turned
  <2> QED BY <1>1, <1>2, <1>7, <2>1, <2>2, <2>3, <2>4, <2>5 DEF BatchInv, Recording, In
<1>9. FenceInv'
  <2>1. c = "verify" => temp = [p \in Paths |-> None]
    <3>1. temp \in [Paths -> Files \cup {None}]
      BY PartsOfInv DEF TreeOK
    <3>2. c = "verify" => \A p \in Paths : temp[p] = None
      BY <1>1, PermitFacts DEF Leftovers
    <3> QED BY <3>1, <3>2
  <2> QED BY <1>1, <1>2, <2>1 DEF FenceInv, In, tree
<1> QED BY <1>3, <1>5, <1>6, <1>8, <1>9, PartsOfInv, InvNext DEF BatchParts

(* A run that ends, whatever it records.                                   *)
LEMMA EndKeeps ==
  ASSUME RunsInv, run' = Idle, receipts' \in [Items -> Receipts \cup {None}],
         UNCHANGED <<catalog, tree, service, observation, outcome>>, TalliesOK'
  PROVE  RunsInv'
<1>1. TreeOK' /\ TablesOK' /\ RemoteInv'
  BY PartsOfInv, StillRemote DEF TreeOK, tree, TablesOK, service
<1> QED BY <1>1, IdleFence, Ending, InvNext

LEMMA AdoptKeeps ==
  ASSUME RunsInv, NEW i \in Items, Adopt(i)
  PROVE  RunsInv' /\ catalog[i].path \in Paths
<1>1. /\ UNCHANGED <<catalog, tree, service, observation, run, tallies>>
      /\ run = Idle /\ outcome' = "none" /\ i \in Expected
      /\ receipts' = [receipts EXCEPT ![i] =
           [path |-> catalog[i].path, state |-> "current", blob |-> None]]
  BY DEF Adopt
<1>2. catalog[i].path \in Paths
  BY <1>1, PartsOfInv DEF TablesOK, Expected, Catalogued
<1>3. [path |-> catalog[i].path, state |-> "current", blob |-> None] \in Receipts
  BY <1>2 DEF Receipts
<1>4. TablesOK' /\ TreeOK' /\ TalliesOK' /\ RemoteInv'
  BY <1>1, <1>3, PartsOfInv, StillRemote, StillTallies
     DEF TablesOK, TreeOK, tree, service, Outcomes
<1>5. RunsInv'
  BY <1>1, <1>4, IdleFence, Ending, InvNext
<1> QED BY <1>2, <1>5

-----------------------------------------------------------------------------
(* The steps of a command.                                                 *)

(* A step that works on the batch, whether a call of it fails or not.      *)
LEMMA WorkedKeeps ==
  ASSUME RunsInv, Worked, UNCHANGED <<catalog, service, observation, outcome>>,
         TalliesOK'
  PROVE  RunsInv'
<1>1. TablesOK'
  BY PartsOfInv DEF Worked, TablesOK, service
<1>2. FenceInv' /\ RemoteInv'
  BY PartsOfInv, StillFence, StillRemote DEF Worked, service
<1> QED BY <1>1, <1>2, PartsOfInv, InvNext DEF Worked

(* The item a step of a run is about.                                      *)
LEMMA EntryFacts ==
  ASSUME RunsInv, run.phase # "idle", Applied
  PROVE  /\ Live /\ Entry \in Done /\ Entry \in Turned /\ Entry \in Items
         /\ run.memo[Entry] \in Memo /\ EntryPath = Home(Entry) /\ EntryPath \in Paths
<1>1. Live /\ run.done # <<>>
  BY DEF Applied, Now, Live
<1>2. run.done \in Seq(Items) /\ run.memo \in [Items -> Memo \cup {None}]
  BY PartsOfInv DEF BatchParts, RunOK, Runs
<1>3. Entry \in Done /\ Entry \in Items
  <2>1. Last(run.done) \in Range(run.done)
    BY <1>1, <1>2, FrontFacts
  <2>2. Range(run.done) \subseteq Items
    BY <1>2 DEF Range
  <2> QED BY <2>1, <2>2 DEF Entry, Done
<1>4. Entry \in Turned
  BY <1>3 DEF Turned
<1>5. run.memo[Entry] # None /\ run.memo[Entry].path = Home(Entry)
  BY <1>1, <1>4 DEF RunsInv, BatchInv
<1>6. run.memo[Entry] \in Memo
  BY <1>2, <1>3, <1>5
<1> QED BY <1>1, <1>3, <1>4, <1>5, <1>6 DEF EntryPath, Memo

(* What a command writes into the receipts, for an item of the catalog     *)
(* whose path it is.                                                       *)
Recorded(i) ==
  /\ run.phase \in {"materialize", "verify", "replace"} /\ Live
  /\ i \in Turned /\ i \in Expected
  /\ \E blob \in Blobs \cup {None} :
       receipts' = [receipts EXCEPT ![i] =
                      [path |-> catalog[i].path, state |-> "current", blob |-> blob]]

LEMMA CommandRecords ==
  ASSUME RunsInv, FetchedInv, RecordMaterialized \/ RecordVerified \/ RecordReplaced
  PROVE  run' = Idle /\ UNCHANGED tree /\ \E i \in Items : Recorded(i)
<1>1. run' = Idle /\ UNCHANGED tree
  BY DEF RecordMaterialized, RecordVerified, RecordReplaced, Settle
<1>2. ASSUME NEW i \in Turned, Live,
             run.phase \in {"materialize", "verify", "replace"},
             NEW blob \in Blobs \cup {None}, Settle(i, CurrentReceipt(i, blob))
      PROVE  i \in Items /\ Recorded(i)
  <2>1. i \in Expected /\ i \in Items /\ run.memo[i].path = Home(i)
    BY <1>2 DEF RunsInv, BatchInv, Recording, Expected
  <2>2. run.memo[i].path = catalog[i].path
    BY <2>1 DEF Home
  <2> QED BY <1>2, <2>1, <2>2 DEF Recorded, Settle, CurrentReceipt
<1>3. CASE RecordMaterialized
  <2>1. run.step \in Busy /\ run.phase = "materialize"
        /\ Settle(run.item, CurrentReceipt(run.item, run.memo[run.item].now.blob))
    BY <1>3 DEF RecordMaterialized, Now, In, Busy
  <2>2. Live /\ run.item \in Turned
    BY <2>1, BusyFacts
  <2>3. run.memo[run.item].now.blob \in Blobs
    BY <1>3 DEF FetchedInv, RecordMaterialized, Now, IsFile, Files
  <2> QED BY <1>1, <1>2, <2>1, <2>2, <2>3
<1>4. CASE RecordVerified
  <2>1. run.step \in Busy /\ run.phase = "verify"
        /\ Settle(run.item, CurrentReceipt(run.item, run.memo[run.item].blob))
    BY <1>4 DEF RecordVerified, Now, In, Busy
  <2>2. Live /\ run.item \in Turned /\ run.memo[run.item].blob \in Blobs \cup {None}
    BY <2>1, BusyFacts DEF Memo
  <2> QED BY <1>1, <1>2, <2>1, <2>2
<1>5. CASE RecordReplaced
  <2>1. run.phase = "replace" /\ Applied
        /\ Settle(Entry, CurrentReceipt(Entry, run.memo[Entry].blob))
    BY <1>5 DEF RecordReplaced, In
  <2>2. Live /\ Entry \in Turned /\ run.memo[Entry].blob \in Blobs \cup {None}
    BY <2>1, EntryFacts DEF Memo
  <2> QED BY <1>1, <1>2, <2>1, <2>2
<1> QED BY <1>3, <1>4, <1>5

LEMMA CompareStaleWorks ==
  ASSUME RunsInv, CompareStale, UNCHANGED catalog
  PROVE  Worked
<1>1. TreeOK /\ TablesOK
  BY TypeParts DEF RunsInv
<1>2. In("replace") /\ run.step \in Busy /\ UNCHANGED <<catalog, receipts, tree>>
      /\ run' = [run EXCEPT !.step = "swap", !.memo[run.item].was = disk[Here]]
  BY DEF CompareStale, Now, Busy
<1>3. StepFits(run.phase, "swap") /\ "swap" \in Busy /\ "swap" \in Steps
  BY <1>2 DEF StepFits, In, Busy, Steps
<1>4. Live /\ run.item \in Turned
  BY <1>2, BusyFacts
<1>5. disk[Here] \in Files
  <2>1. Unchanged(run.item) /\ receipts[run.item].path = Home(run.item)
    BY <1>2, <1>4 DEF CompareStale, Passes, Now, In, RunsInv, BatchInv
  <2> QED BY <1>2, <2>1, BusyFacts DEF Unchanged, IsFile
<1>6. Onward("swap")
  <2>1. Keeping(run', "swap")
    BY <1>2, <1>3, <1>5, WasNoted, Zenon
  <2> QED BY <2>1 DEF Onward, Keeping
<1>7. BatchParts' /\ Shrinks
  BY <1>2, <1>3, <1>6, Advancing
<1>8. TreeOK'
  BY <1>1, <1>2 DEF TreeOK, tree
<1> QED BY <1>1, <1>2, <1>6, <1>7, <1>8 DEF Worked, Onward, TablesOK, tree

LEMMA RemoveQuarantinedWorks ==
  ASSUME RunsInv, RemoveQuarantined, UNCHANGED catalog
  PROVE  Worked /\ run'.step = "finish"
<1>1. TreeOK /\ TablesOK /\ RunOK
  BY TypeParts DEF RunsInv
<1>2. run.phase # "idle" /\ Now("next") /\ run.todo = {}
      /\ run' = [run EXCEPT !.step = "finish"] /\ UNCHANGED <<disk, temp, backup, receipts>>
      /\ quarantine' = [quarantine EXCEPT ![EntryPath] = None]
  BY DEF RemoveQuarantined, Applied, In
<1>3. /\ run' \in Runs /\ run'.phase = run.phase /\ run'.step = "finish"
      /\ run'.done = run.done /\ run'.todo = {}
  BY <1>1, <1>2 DEF RunOK, Runs, Steps
<1>4. BatchParts' /\ Shrinks
  BY <1>1, <1>2, <1>3, Leaving DEF RunOK, StepFits
<1>5. TreeOK'
  BY <1>1, <1>2 DEF TreeOK
<1> QED BY <1>1, <1>2, <1>3, <1>4, <1>5 DEF Worked, TablesOK

(* The steps a command has in common with a batch.                         *)
Shared ==
  \/ \E i \in Items : Fingerprint(i) \/ HashLocal(i) \/ InspectStale(i) \/ QuarantineFolder(i)
  \/ Fetch \/ Promote \/ Unlink \/ Swap \/ QuarantineFile \/ TakeBack

LEMMA SharedWorks == Shared => Working
BY DEF Shared, Working

LEMMA CommandStepParts ==
  ASSUME RunsInv, CommandStep
  PROVE  \/ Shared
         \/ RecordMaterialized \/ RecordVerified \/ CompareStale \/ RecordReplaced
         \/ RemoveQuarantined \/ DropReceipt
<1>1. run.todo \subseteq Items
  BY PartsOfInv DEF BatchParts, RunOK, Runs
<1> QED BY <1>1 DEF CommandStep, Shared

(* A step of a command, that of a batch of one or its own.                 *)
LEMMA CommandStepKeeps ==
  ASSUME RunsInv, FetchedInv, CommandStep \/ TakeBack \/ StopCommand,
         UNCHANGED <<catalog, service, observation, outcome, tallies>>
  PROVE  RunsInv' /\ (run' = Idle \/ (run'.phase = run.phase /\ run'.step # "clean"))
<1>1. TablesOK /\ TalliesOK' /\ receipts \in [Items -> Receipts \cup {None}]
  BY PartsOfInv, StillTallies DEF TablesOK
<1>2. ASSUME run' = Idle, UNCHANGED <<tree, receipts>>
      PROVE  RunsInv'
  BY <1>1, <1>2, EndKeeps
<1>3. CASE Shared
  <2>1. Working
    BY <1>3, SharedWorks
  <2>2. Worked
    BY <2>1, WorkingWorks
  <2>3. RunsInv'
    BY <1>1, <2>2, WorkedKeeps
  <2>4. run'.step # "clean"
    <3>1. run \in Runs
      BY PartsOfInv DEF BatchParts, RunOK
    <3>2. CASE \E i \in Items : Fingerprint(i) \/ HashLocal(i) \/ InspectStale(i)
      BY <3>1, <3>2 DEF Fingerprint, HashLocal, InspectStale, Started, Runs
    <3>3. CASE \E i \in Items : QuarantineFolder(i)
      BY <3>1, <3>3 DEF QuarantineFolder, Completed, Started, Runs
    <3>4. CASE Fetch \/ Promote \/ Unlink \/ Swap \/ QuarantineFile
      BY <3>1, <3>4 DEF Fetch, Promote, Unlink, Swap, QuarantineFile, Completed, Runs
    <3>5. CASE TakeBack
      BY <3>1, <3>5 DEF TakeBack, Now, Runs
    <3> QED BY <1>3, <3>2, <3>3, <3>4, <3>5 DEF Shared
  <2> QED BY <2>2, <2>3, <2>4 DEF Worked
<1>4. CASE RecordMaterialized \/ RecordVerified \/ RecordReplaced
  <2>1. run' = Idle /\ UNCHANGED tree /\ \E i \in Items : Recorded(i)
    BY <1>4, CommandRecords
  <2>2. PICK i \in Items : Recorded(i)
    BY <2>1
  <2>3. catalog[i].path \in Paths
    BY <1>1, <2>2 DEF Recorded, TablesOK, Expected, Catalogued
  <2>4. PICK blob \in Blobs \cup {None} :
          receipts' = [receipts EXCEPT ![i] =
                         [path |-> catalog[i].path, state |-> "current", blob |-> blob]]
    BY <2>2 DEF Recorded
  <2>5. [path |-> catalog[i].path, state |-> "current", blob |-> blob] \in Receipts
    BY <2>3 DEF Receipts
  <2>6. receipts' \in [Items -> Receipts \cup {None}]
    BY <1>1, <2>4, <2>5
  <2> QED BY <1>1, <2>1, <2>6, EndKeeps
<1>5. CASE DropReceipt
  <2>1. run' = Idle /\ UNCHANGED tree /\ receipts' = [receipts EXCEPT ![Entry] = None]
    BY <1>5 DEF DropReceipt, Settle
  <2>2. receipts' \in [Items -> Receipts \cup {None}]
    BY <1>1, <2>1
  <2> QED BY <1>1, <2>1, <2>2, EndKeeps
<1>6. CASE CompareStale
  <2>1. Worked
    BY <1>6, CompareStaleWorks
  <2>2. run'.step = "swap"
    BY <1>6, PartsOfInv DEF CompareStale, BatchParts, RunOK, Runs
  <2> QED BY <1>1, <2>1, <2>2, WorkedKeeps DEF Worked
<1>7. CASE RemoveQuarantined
  <2>1. Worked /\ run'.step = "finish"
    BY <1>7, RemoveQuarantinedWorks
  <2> QED BY <1>1, <2>1, WorkedKeeps DEF Worked
<1>8. CASE StopCommand
  BY <1>2, <1>8 DEF StopCommand
<1>9. TakeBack => Shared
  BY DEF Shared
<1> QED BY <1>3, <1>4, <1>5, <1>6, <1>7, <1>8, <1>9, CommandStepParts

LEMMA FailedCommandKeeps ==
  ASSUME RunsInv, SingleInv, single, FailedCommand,
         UNCHANGED <<catalog, service, observation, outcome, edited, edits,
                     changes, crashes>>
  PROVE  RunsInv' /\ (run' = Idle \/ (run'.phase = run.phase /\ run'.step # "clean"))
<1>1. TalliesOK'
  BY PartsOfInv, RunAssumption DEF FailedCommand, TalliesOK
<1>2. CASE LeaveAsIs \/ LeaveDownload
  <2>1. run' = Idle /\ UNCHANGED <<tree, receipts>>
    BY <1>2 DEF LeaveAsIs, LeaveDownload
  <2>2. receipts' \in [Items -> Receipts \cup {None}]
    BY <2>1, PartsOfInv DEF TablesOK
  <2> QED BY <1>1, <2>1, <2>2, EndKeeps
<1>3. CASE PutBack
  <2>1. Mutating /\ GiveUp
    BY <1>3 DEF PutBack, Mutating, SingleInv, Commands
  <2>2. Worked
    BY <2>1, GiveUpWorks
  <2>3. run'.step = "rollback"
    BY <2>1, PartsOfInv DEF GiveUp, BatchParts, RunOK, Runs
  <2> QED BY <1>1, <2>2, <2>3, WorkedKeeps DEF Worked
<1> QED BY <1>2, <1>3 DEF FailedCommand

LEMMA MeanwhileKeeps ==
  ASSUME RunsInv, Meanwhile
  PROVE  RunsInv' /\ run' \in {run, Idle}
<1>1. RunsInv'
  BY ProviderKeeps, UserKeeps, FailureKeeps DEF Meanwhile
<1>2. CASE \E i \in Items : \/ \E p \in Paths, b \in Blobs \cup {None} : RemoteWrite(i, p, b)
                            \/ RemoteRemove(i)
  BY <1>1, <1>2 DEF RemoteWrite, RemoteRemove
<1>3. CASE UserStep
  BY <1>1, <1>3 DEF UserStep, SaveInPlace, SaveByRename, RemoveEntry, MakeDir, Edit
<1>4. CASE Crash
  BY <1>1, <1>4 DEF Crash, Killed
<1> QED BY <1>2, <1>3, <1>4 DEF Meanwhile

(* The commands and the batches keep what both rely on.                    *)
LEMMA CommandRunsStep ==
  RunsInv /\ SingleInv /\ FetchedInv /\ [CommandNext]_commandVars => RunsInv' /\ SingleInv'
<1> SUFFICES ASSUME RunsInv, SingleInv, FetchedInv, [CommandNext]_commandVars
             PROVE  RunsInv' /\ SingleInv'
  OBVIOUS
<1>1. ASSUME NEW i \in Items, Adopt(i) PROVE RunsInv' /\ SingleInv'
  <2>1. UNCHANGED <<run, single>>
    BY <1>1 DEF Adopt
  <2> QED BY <1>1, <2>1, AdoptKeeps DEF SingleInv, Now
<1>2. ASSUME NEW i \in Items, NEW c \in Commands, BeginCommand(c, i)
      PROVE  RunsInv' /\ SingleInv'
  <2>1. run'.phase = c /\ run'.step \in {"next", "fetch"}
    BY <1>2, BegunRun
  <2> QED BY <1>2, <2>1, BeginCommandKeeps DEF SingleInv, Now
<1>3. CASE SingleNext
  <2>1. single /\ single' = (run' # Idle)
    BY <1>3 DEF SingleNext
  <2>2. /\ RunsInv'
        /\ \/ run' \in {run, Idle}
           \/ run'.phase = run.phase /\ run'.step # "clean"
    BY <1>3, <2>1, CommandStepKeeps, FailedCommandKeeps, MeanwhileKeeps DEF SingleNext
  <2> QED BY <2>1, <2>2 DEF SingleInv, Now
<1>4. CASE ~single /\ Next /\ UNCHANGED single
  BY <1>4, RunsStep DEF SingleInv
<1>5. CASE UNCHANGED commandVars
  <2>1. UNCHANGED vars /\ UNCHANGED <<run, single>>
    BY <1>5 DEF commandVars, vars
  <2> QED BY <2>1, RunsStep DEF SingleInv, Now
<1> QED BY <1>1, <1>2, <1>3, <1>4, <1>5 DEF CommandNext

-----------------------------------------------------------------------------
(* What a run holds in its hands.                                          *)

Holding == {"promote", "unlink", "confirm", "compare", "backup", "swap"}

OnDisk(x) ==
  \E q \in Paths : x \in {disk[q], temp[q], backup[q], quarantine[q]}

LEMMA HandsOff ==
  ASSUME run'.step \notin Holding
  PROVE  FetchedInv' /\ PrivateInv' /\ SwapInv'
BY DEF FetchedInv, PrivateInv, SwapInv, Downloaded, Now, Holding

LEMMA SwappedKept ==
  ASSUME SwappedInv,
         run'.phase = "replace" =>
           /\ run.phase = "replace" /\ Range(run'.done) \subseteq Done
           /\ \A i \in Done : run'.memo[i] = run.memo[i]
  PROVE  SwappedInv'
BY DEF SwappedInv, In, Done

LEMMA StampsKept ==
  ASSUME StampsInv, TalliesOK, edits' = edits,
         \A q \in Paths : \A x \in {disk'[q], temp'[q], backup'[q], quarantine'[q]} :
           OnDisk(x) \/ ~IsFile(x) \/ x.stamp = 0
  PROVE  StampsInv'
<1>1. edits \in Nat
  BY PlanAssumption DEF TalliesOK
<1>2. ASSUME NEW x, OnDisk(x), IsFile(x) PROVE x.stamp <= edits
  BY <1>2 DEF OnDisk, StampsInv
<1>3. ASSUME NEW q \in Paths, NEW x \in {disk'[q], temp'[q], backup'[q], quarantine'[q]},
             IsFile(x)
      PROVE  x.stamp <= edits'
  <2>1. OnDisk(x) \/ x.stamp = 0
    BY <1>3
  <2> QED BY <1>1, <1>2, <1>3, <2>1
<1> QED BY <1>3 DEF StampsInv, IsFile

LEMMA TreeOnDisk ==
  /\ \A q \in Paths : /\ OnDisk(disk[q]) /\ OnDisk(temp[q])
                      /\ OnDisk(backup[q]) /\ OnDisk(quarantine[q])
  /\ ~IsFile(None) /\ ~IsFile(Dir)
BY RecordsAreNotNone DEF OnDisk, IsFile

LEMMA StampsSteady ==
  ASSUME StampsInv, TalliesOK, UNCHANGED <<tree, edits>>
  PROVE  StampsInv'
<1>1. UNCHANGED <<disk, temp, backup, quarantine, edits>>
  BY DEF tree
<1> QED BY <1>1, TreeOnDisk, StampsKept

LEMMA SteadyHandles ==
  ASSUME HandlingInv, TalliesOK, UNCHANGED <<tree, run, receipts, edits>>
  PROVE  HandlingInv'
<1>1. UNCHANGED <<disk, temp, backup, quarantine, run, receipts, edits>>
  BY DEF tree
<1>2. StampsInv'
  BY StampsSteady DEF HandlingInv
<1>3. FetchedInv' /\ PrivateInv' /\ SwapInv' /\ SwappedInv'
  BY <1>1 DEF HandlingInv, FetchedInv, PrivateInv, SwapInv, SwappedInv, Downloaded,
              Now, In, Here, Done
<1> QED BY <1>2, <1>3 DEF HandlingInv

(* A run that ends or begins has nothing in its hands.                     *)
LEMMA EndHandles ==
  ASSUME HandlingInv, TalliesOK, UNCHANGED <<tree, edits>>,
         run'.step \notin Holding, run'.done = <<>>
  PROVE  HandlingInv'
<1>1. Range(<<>>) = {}
  BY DEF Range
<1>2. SwappedInv'
  BY <1>1 DEF SwappedInv, Done
<1> QED BY <1>2, HandsOff, StampsSteady DEF HandlingInv

LEMMA TurnHandles ==
  ASSUME RunsInv, HandlingInv, NEW i \in Items,
         Fingerprint(i) \/ HashLocal(i) \/ InspectStale(i), edits' = edits
  PROVE  HandlingInv'
<1>1. RunOK /\ TalliesOK /\ run \in Runs
  BY PartsOfInv DEF BatchParts, RunOK
<1>2. Now("next") /\ i \in run.todo /\ UNCHANGED tree
  BY DEF Fingerprint, HashLocal, InspectStale, Turn
<1>3. i \notin Done
  BY <1>1, <1>2 DEF RunOK, Now
<1>4. PICK step, blob, was :
        /\ step \in {"fetch", "compare", "quarantine"}
        /\ run' = Started(i, step, blob, was)
        /\ step = "compare" => run.phase = "verify"
  BY DEF Fingerprint, HashLocal, InspectStale, In
<1>5. run'.phase = run.phase /\ run'.step = step /\ run'.done = run.done
      /\ \A j \in Items \ {i} : run'.memo[j] = run.memo[j]
  BY <1>1, <1>4 DEF Started, Runs
<1>6. Done \subseteq Items
  BY <1>1 DEF Runs, Done, Range
<1>7. SwappedInv'
  BY <1>3, <1>5, <1>6, SwappedKept DEF HandlingInv, Done
<1>8. FetchedInv' /\ PrivateInv' /\ SwapInv'
  BY <1>4, <1>5 DEF FetchedInv, PrivateInv, SwapInv, Downloaded, Now, In
<1> QED BY <1>1, <1>2, <1>7, <1>8, StampsSteady DEF HandlingInv

LEMMA FolderHandles ==
  ASSUME RunsInv, HandlingInv, NEW i \in Items,
         MakeFolder(i) \/ QuarantineFolder(i), edits' = edits
  PROVE  HandlingInv'
<1>1. TreeOK /\ TalliesOK /\ run \in Runs
  BY PartsOfInv DEF BatchParts, RunOK
<1>2. run'.phase = run.phase /\ run'.step = "next" /\ run'.phase # "replace"
  BY <1>1 DEF MakeFolder, QuarantineFolder, Completed, Started, Runs, In
<1>3. SwappedInv'
  BY <1>2, SwappedKept DEF HandlingInv
<1>4. \A q \in Paths : \A x \in {disk'[q], temp'[q], backup'[q], quarantine'[q]} :
        OnDisk(x) \/ ~IsFile(x)
  <2>1. CASE MakeFolder(i)
    BY <1>1, <2>1, TreeOnDisk DEF MakeFolder, TreeOK
  <2>2. CASE QuarantineFolder(i)
    BY <1>1, <2>2, TreeOnDisk DEF QuarantineFolder, Aside, TreeOK
  <2> QED BY <2>1, <2>2
<1>5. StampsInv'
  BY <1>1, <1>4, StampsKept DEF HandlingInv
<1> QED BY <1>2, <1>3, <1>5, HandsOff DEF HandlingInv, Holding

(* What leaves the batch, for a rollback, a cleanup or the end.            *)
LEMMA LeavingHandles ==
  ASSUME RunsInv, HandlingInv, edits' = edits,
         \/ GiveUp \/ TakeBack \/ RecordReceipts \/ DropReceipts \/ RemoveQuarantined
         \/ \E i \in Items : Clean(i)
  PROVE  HandlingInv'
<1>1. TreeOK /\ TalliesOK /\ run \in Runs /\ run.done \in Seq(Items)
      /\ StepFits(run.phase, run.step)
  BY PartsOfInv DEF BatchParts, RunOK, Runs, RunInv
<1>2. run'.phase = run.phase /\ run'.step \in {"rollback", "clean", "finish"}
      /\ run'.memo = run.memo
  BY <1>1 DEF GiveUp, TakeBack, RecordReceipts, DropReceipts, RemoveQuarantined, Clean,
              Now, Runs
<1>3. run.phase = "replace" => Range(run'.done) \subseteq Done
  <2>1. CASE TakeBack
    <3>1. run'.done = Front(run.done) /\ run.done # <<>>
      BY <1>1, <2>1 DEF TakeBack, Runs
    <3> QED BY <1>1, <3>1, FrontFacts DEF Done
  <2>2. CASE GiveUp
    BY <1>1, <2>2 DEF GiveUp, Runs, StepFits, Done
  <2>3. CASE RecordReceipts \/ DropReceipts \/ RemoveQuarantined \/ \E i \in Items : Clean(i)
    BY <1>1, <2>3 DEF RecordReceipts, DropReceipts, RemoveQuarantined, Clean, Runs, Done
  <2> QED BY <2>1, <2>2, <2>3
<1>4. SwappedInv'
  BY <1>2, <1>3, SwappedKept DEF HandlingInv
<1>5. \A q \in Paths : \A x \in {disk'[q], temp'[q], backup'[q], quarantine'[q]} :
        OnDisk(x) \/ ~IsFile(x)
  <2>1. CASE TakeBack
    <3> DEFINE p == run.memo[Last(run.done)].path
               back == IF In("create") \/ In("materialize") THEN None ELSE Before(p)
    <3>1. /\ disk' = [disk EXCEPT ![p] = back]
          /\ backup' = [backup EXCEPT ![p] = None]
          /\ quarantine' = [quarantine EXCEPT ![p] = None]
          /\ temp' = temp
      BY <2>1 DEF TakeBack
    <3>2. p \in Paths => OnDisk(back) \/ ~IsFile(back)
      BY TreeOnDisk DEF Before
    <3> HIDE DEF p, back
    <3> QED BY <1>1, <3>1, <3>2, TreeOnDisk DEF TreeOK
  <2>2. CASE GiveUp
    BY <1>1, <2>2, TreeOnDisk DEF GiveUp, TreeOK
  <2>3. CASE RecordReceipts \/ DropReceipts
    BY <2>3, TreeOnDisk DEF RecordReceipts, DropReceipts, tree
  <2>4. CASE RemoveQuarantined \/ \E i \in Items : Clean(i)
    BY <1>1, <2>4, TreeOnDisk DEF RemoveQuarantined, Clean, TreeOK
  <2> QED BY <2>1, <2>2, <2>3, <2>4
<1>6. StampsInv'
  BY <1>1, <1>5, StampsKept DEF HandlingInv
<1> QED BY <1>2, <1>4, <1>6, HandsOff DEF HandlingInv, Holding

(* The steps on the item in progress.                                      *)
LEMMA ItemFacts ==
  ASSUME RunsInv, run.step \in Busy
  PROVE  /\ run \in Runs /\ TreeOK /\ TalliesOK /\ StepFits(run.phase, run.step)
         /\ run.item \in Items /\ run.item \notin Done /\ Here \in Paths
         /\ Done \subseteq Items /\ run.memo[run.item] \in Memo
         /\ temp[Here] \in Files \cup {None} /\ disk[Here] \in Files \cup {None, Dir}
<1>1. TreeOK /\ TalliesOK /\ run \in Runs /\ StepFits(run.phase, run.step)
  BY PartsOfInv DEF BatchParts, RunOK, RunInv
<1>2. run.item \in Items /\ run.item \notin Done /\ Here \in Paths /\ run.memo[run.item] \in Memo
  BY BusyFacts
<1>3. Done \subseteq Items
  BY <1>1 DEF Runs, Done, Range
<1> QED BY <1>1, <1>2, <1>3 DEF TreeOK

LEMMA FetchHandles ==
  ASSUME RunsInv, HandlingInv, Fetch, edits' = edits
  PROVE  HandlingInv'
<1>1. run.step \in Busy /\ Now("fetch") /\ Nodes \ InUse # {}
  BY DEF Fetch, Now, Busy
<1>2. /\ run \in Runs /\ TreeOK /\ TalliesOK /\ StepFits(run.phase, run.step)
      /\ run.item \in Items /\ Here \in Paths
  BY <1>1, ItemFacts
<1> DEFINE new == [node |-> FreshNode, blob |-> remote[run.item].blob, stamp |-> 0]
<1>3. temp' = [temp EXCEPT ![Here] = new] /\ UNCHANGED <<disk, backup, quarantine, receipts>>
  BY DEF Fetch
<1>4. new \in Files /\ new.node = FreshNode /\ new.stamp = 0
  <2>1. run.item \in Present /\ run.item \notin Folders
    <3>1. run.item \in Present
      BY <1>1, <1>2 DEF Fetch, Passes, Announced, Present, Now
    <3>2. In("materialize") \/ In("replace")
      BY <1>1, <1>2 DEF Now, StepFits, In
    <3>3. Live /\ run.item \in Turned
      BY <1>1, BusyFacts
    <3> QED BY <3>1, <3>2, <3>3, BatchHomes DEF In
  <2>2. remote[run.item].blob \in Blobs
    BY <2>1, RunAssumption DEF RunsInv, RemoteInv
  <2> QED BY <1>1, <2>2, FreshNodeType, PlanAssumption DEF Files
<1>5. FreshNode \notin InUse
  BY <1>1 DEF FreshNode
<1> HIDE DEF new
<1>6. /\ run'.phase = run.phase /\ run'.memo = run.memo /\ run'.item = run.item
      /\ run'.done = run.done
      /\ run'.step = "promote" \/ run'.step = "compare"
  BY <1>2 DEF Fetch, Runs
<1>7. Here' = Here /\ temp'[Here] = new
  BY <1>2, <1>3, <1>6 DEF TreeOK, Here
<1>8. FetchedInv'
  BY <1>4, <1>6, <1>7 DEF FetchedInv, IsFile
<1>9. PrivateInv'
  <2>1. \A p \in Paths : IsFile(disk[p]) => disk[p].node \in InUse
    BY DEF InUse, IsFile
  <2> QED BY <1>3, <1>4, <1>5, <1>7, <2>1 DEF PrivateInv, IsFile
<1>10. SwapInv'
  BY <1>6 DEF SwapInv
<1>11. SwappedInv'
  BY <1>6, SwappedKept DEF HandlingInv, Done
<1>12. StampsInv'
  BY <1>2, <1>3, <1>4, TreeOnDisk, StampsKept DEF HandlingInv, TreeOK
<1> QED BY <1>8, <1>9, <1>10, <1>11, <1>12 DEF HandlingInv

LEMMA PromoteHandles ==
  ASSUME RunsInv, HandlingInv, Promote, edits' = edits
  PROVE  HandlingInv'
<1>1. run.step \in Busy /\ Now("promote")
  BY DEF Promote, Now, Busy
<1>2. /\ run \in Runs /\ TreeOK /\ TalliesOK /\ StepFits(run.phase, run.step)
      /\ run.item \in Items /\ Here \in Paths /\ run.memo[run.item] \in Memo
  BY <1>1, ItemFacts
<1>3. IsFile(temp[Here])
  BY <1>1 DEF HandlingInv, FetchedInv, Downloaded, Now
<1>4. /\ run'.phase = "materialize" /\ run'.step = "unlink" /\ run'.item = run.item
      /\ run'.memo[run.item].now = temp[Here]
  BY <1>1, <1>2 DEF Promote, Runs, Memo, StepFits, Now
<1>5. disk' = [disk EXCEPT ![Here] = temp[Here]] /\ UNCHANGED <<temp, backup, quarantine>>
  BY DEF Promote
<1>6. FetchedInv' /\ PrivateInv' /\ SwapInv' /\ SwappedInv'
  BY <1>3, <1>4 DEF FetchedInv, PrivateInv, SwapInv, SwappedInv, Downloaded, Now, In, IsFile
<1>7. StampsInv'
  BY <1>2, <1>5, TreeOnDisk, StampsKept DEF HandlingInv, TreeOK
<1> QED BY <1>6, <1>7 DEF HandlingInv

LEMMA UnlinkHandles ==
  ASSUME RunsInv, HandlingInv, Unlink, edits' = edits
  PROVE  HandlingInv'
<1>1. run.step \in Busy /\ Now("unlink")
  BY DEF Unlink, Now, Busy
<1>2. /\ run \in Runs /\ TreeOK /\ TalliesOK /\ StepFits(run.phase, run.step)
      /\ run.item \in Items /\ Here \in Paths
  BY <1>1, ItemFacts
<1>3. IsFile(run.memo[run.item].now)
  BY <1>1 DEF HandlingInv, FetchedInv, Now
<1>4. /\ run'.phase = "materialize" /\ run'.step = "confirm" /\ run'.item = run.item
      /\ run'.memo = run.memo
  BY <1>1, <1>2 DEF Unlink, Runs, StepFits, Now
<1>5. temp' = [temp EXCEPT ![Here] = None] /\ UNCHANGED <<disk, backup, quarantine>>
  BY DEF Unlink
<1>6. FetchedInv' /\ PrivateInv' /\ SwapInv' /\ SwappedInv'
  BY <1>3, <1>4 DEF FetchedInv, PrivateInv, SwapInv, SwappedInv, Downloaded, Now, In, IsFile
<1>7. StampsInv'
  BY <1>2, <1>5, TreeOnDisk, StampsKept DEF HandlingInv, TreeOK
<1> QED BY <1>6, <1>7 DEF HandlingInv

(* Completed without a look into what it did to the directory.             *)
LEMMA PassedHandles ==
  ASSUME RunsInv, HandlingInv, Confirm \/ CompareProvider \/ QuarantineFile, edits' = edits
  PROVE  HandlingInv'
<1>1. run.step \in Busy
  BY DEF Confirm, CompareProvider, QuarantineFile, Now, Busy
<1>2. /\ run \in Runs /\ TreeOK /\ TalliesOK /\ StepFits(run.phase, run.step)
      /\ run.item \in Items /\ Here \in Paths
  BY <1>1, ItemFacts
<1>3. run'.phase # "replace" /\ run'.step = "next"
  BY <1>2 DEF Confirm, CompareProvider, QuarantineFile, Completed, StepFits, Now, In, Runs
<1>4. \A q \in Paths : \A x \in {disk'[q], temp'[q], backup'[q], quarantine'[q]} :
        OnDisk(x) \/ ~IsFile(x)
  <2>1. CASE Confirm \/ CompareProvider
    BY <2>1, TreeOnDisk DEF Confirm, CompareProvider, tree
  <2>2. CASE QuarantineFile
    BY <1>2, <2>2, TreeOnDisk DEF QuarantineFile, Aside, TreeOK
  <2> QED BY <2>1, <2>2
<1>5. StampsInv'
  BY <1>2, <1>4, StampsKept DEF HandlingInv
<1>6. SwappedInv'
  BY <1>3, SwappedKept DEF HandlingInv
<1> QED BY <1>3, <1>5, <1>6, HandsOff DEF HandlingInv, Holding

(* What is compared is remembered as it is.                                *)
LEMMA CompareHandles ==
  ASSUME RunsInv, HandlingInv, CompareBaseline \/ CompareStale, edits' = edits
  PROVE  HandlingInv'
<1>1. run.step \in Busy /\ Now("compare") /\ In("replace") /\ Passes
      /\ UNCHANGED <<tree, receipts>>
  BY DEF CompareBaseline, CompareStale, Now, Busy
<1>2. /\ run \in Runs /\ TreeOK /\ TalliesOK
      /\ run.item \in Items /\ run.item \notin Done /\ Here \in Paths
      /\ Done \subseteq Items /\ run.memo[run.item] \in Memo
  BY <1>1, ItemFacts
<1>3. PICK step \in {"backup", "swap"} :
        run' = [run EXCEPT !.step = step, !.memo[run.item].was = disk[Here]]
  BY DEF CompareBaseline, CompareStale
<1> DEFINE m == [run.memo[run.item] EXCEPT !.was = disk[Here]]
<1>4. m.was = disk[Here] /\ m.path = Here /\ m.blob = run.memo[run.item].blob
  BY <1>2 DEF Memo, Here
<1>5. run' = [run EXCEPT !.step = step, !.memo = [run.memo EXCEPT ![run.item] = m]]
  BY <1>2, <1>3 DEF Runs
<1> HIDE DEF m
<1>6. /\ run'.phase = run.phase /\ run'.step = step /\ run'.item = run.item
      /\ run'.done = run.done /\ run'.memo[run.item] = m
      /\ \A i \in Items \ {run.item} : run'.memo[i] = run.memo[i]
  BY <1>2, <1>5 DEF Runs
<1>7. UNCHANGED <<disk, temp, backup, quarantine, receipts>> /\ Here' = Here
  BY <1>1, <1>4, <1>6 DEF tree, Here
<1>8. /\ temp[Here].blob = m.blob /\ IsFile(disk[Here])
      /\ disk[Here].blob = receipts[run.item].blob
  <2>1. temp[Here].blob = m.blob /\ Unchanged(run.item)
    BY <1>1, <1>4 DEF Passes, Now, In, Here
  <2>2. receipts[run.item].path = Here
    <3>1. Live /\ run.item \in Turned /\ Here = Home(run.item)
      BY <1>1, BusyFacts
    <3> QED BY <1>1, <3>1 DEF RunsInv, BatchInv
  <2> QED BY <2>1, <2>2 DEF Unchanged
<1>9. disk[Here].stamp <= edits
  BY <1>2, <1>8 DEF HandlingInv, StampsInv
<1>10. SwapInv'
  BY <1>4, <1>6, <1>7, <1>8, <1>9 DEF SwapInv, IsFile
<1>11. IsFile(temp[Here])
  BY <1>1 DEF HandlingInv, FetchedInv, Downloaded
<1>12. FetchedInv'
  BY <1>6, <1>7, <1>11 DEF FetchedInv, IsFile
<1>13. PrivateInv'
  BY <1>1, <1>7 DEF HandlingInv, PrivateInv, Downloaded, IsFile
<1>14. SwappedInv'
  BY <1>2, <1>6, SwappedKept DEF HandlingInv, Done
<1>15. StampsInv'
  BY <1>1, <1>2, StampsSteady DEF HandlingInv
<1> QED BY <1>10, <1>12, <1>13, <1>14, <1>15 DEF HandlingInv

LEMMA LinkHandles ==
  ASSUME RunsInv, HandlingInv, LinkBackup, edits' = edits
  PROVE  HandlingInv'
<1>1. run.step \in Busy /\ Now("backup")
  BY DEF LinkBackup, Now, Busy
<1>2. /\ run \in Runs /\ TreeOK /\ TalliesOK /\ Here \in Paths
      /\ StepFits(run.phase, run.step)
  BY <1>1, ItemFacts
<1>3. /\ run'.phase = run.phase /\ run'.step = "swap" /\ run'.item = run.item
      /\ run'.done = run.done /\ run'.memo = run.memo
      /\ backup' = [backup EXCEPT ![Here] = disk[Here]]
      /\ UNCHANGED <<disk, temp, quarantine, receipts>>
  BY <1>2 DEF LinkBackup, Runs
<1>4. Here' = Here /\ Downloaded /\ In("replace")
  BY <1>1, <1>2, <1>3 DEF Here, Downloaded, StepFits, Now, In
<1>5. SwapInv' /\ FetchedInv' /\ PrivateInv'
  BY <1>1, <1>3, <1>4 DEF HandlingInv, SwapInv, FetchedInv, PrivateInv, Now, In, IsFile
<1>6. SwappedInv'
  BY <1>3, SwappedKept DEF HandlingInv, Done
<1>7. StampsInv'
  BY <1>2, <1>3, TreeOnDisk, StampsKept DEF HandlingInv, TreeOK
<1> QED BY <1>5, <1>6, <1>7 DEF HandlingInv

LEMMA SwapHandles ==
  ASSUME RunsInv, HandlingInv, Swap, edits' = edits
  PROVE  HandlingInv'
<1>1. run.step \in Busy /\ Now("swap")
  BY DEF Swap, Now, Busy
<1>2. /\ run \in Runs /\ TreeOK /\ TalliesOK
      /\ run.item \in Items /\ run.item \notin Done /\ Here \in Paths
      /\ Done \subseteq Items /\ run.memo[run.item] \in Memo
      /\ StepFits(run.phase, run.step)
      /\ temp[Here] \in Files \cup {None}
  BY <1>1, ItemFacts
<1> DEFINE r == [run EXCEPT !.memo[run.item].now = temp[Here]]
           m == [run.memo[run.item] EXCEPT !.now = temp[Here]]
<1>3. m \in Memo /\ m.now = temp[Here] /\ m.blob = run.memo[run.item].blob
  BY <1>2 DEF Memo
<1>3a. m # None
  BY <1>3, MemoAssumption
<1>4. r = [run EXCEPT !.memo = [run.memo EXCEPT ![run.item] = m]]
  BY <1>2 DEF Runs
<1>5. run' = Completed(r, run.item)
  BY DEF Swap
<1> HIDE DEF m, r
<1>6. /\ r \in Runs /\ r.done = run.done /\ r.phase = run.phase /\ r.memo[run.item] = m
      /\ \A i \in Items \ {run.item} : r.memo[i] = run.memo[i]
  BY <1>2, <1>3, <1>4 DEF Runs
<1>7. /\ run'.phase = run.phase /\ run'.step = "next" /\ run'.memo = r.memo
      /\ Range(run'.done) = Done \cup {run.item}
  BY <1>2, <1>5, <1>6, CompletedFacts DEF Done
<1>8. temp[Here].blob = m.blob
  BY <1>1, <1>3 DEF HandlingInv, SwapInv, Now
<1>9. SwappedInv'
  <2>1. ASSUME NEW i \in Done \cup {run.item}, run.phase = "replace"
        PROVE  r.memo[i] # None /\ (IsFile(r.memo[i].now) => r.memo[i].now.blob = r.memo[i].blob)
    <3>1. CASE i = run.item
      BY <1>3, <1>3a, <1>6, <1>8, <3>1
    <3>2. CASE i # run.item
      BY <1>2, <1>6, <2>1, <3>2 DEF HandlingInv, SwappedInv, In
    <3> QED BY <3>1, <3>2
  <2> QED BY <1>7, <2>1 DEF SwappedInv, In, Done, IsFile
<1>10. StampsInv'
  BY <1>2, TreeOnDisk, StampsKept DEF HandlingInv, TreeOK, Swap
<1> QED BY <1>7, <1>9, <1>10, HandsOff DEF HandlingInv, Holding

(* Whatever the user saves is numbered, and no name of theirs leads to a   *)
(* download that is to replace a file.                                     *)
LEMMA UserHandles ==
  ASSUME RunsInv, HandlingInv, UserStep
  PROVE  HandlingInv'
<1>1. PICK p \in Paths : \/ \E b \in UserBlobs : SaveInPlace(p, b) \/ SaveByRename(p, b)
                         \/ RemoveEntry(p)
                         \/ MakeDir(p)
  BY DEF UserStep
<1>2. Edit(p)
  BY <1>1 DEF SaveInPlace, SaveByRename, RemoveEntry, MakeDir
<1>3. /\ UNCHANGED <<run, receipts, quarantine>> /\ edits' = edits + 1
      /\ TreeOK /\ TalliesOK /\ edits \in Nat /\ StepFits(run.phase, run.step)
  BY <1>2, PartsOfInv, PlanAssumption DEF Edit, TalliesOK, BatchParts, RunInv
<1>4. Downloaded => run.step \in Busy /\ Here \in Paths /\ temp[Here] \in Files
  <2>1. Downloaded => run.step \in Busy
    BY DEF Downloaded, Now, Busy
  <2> QED BY <2>1, ItemFacts DEF HandlingInv, FetchedInv, IsFile
<1>5. run.step \in {"backup", "swap"} => Downloaded /\ In("replace")
  BY <1>3 DEF Downloaded, StepFits, In
<1>6. SwappedInv' /\ Here' = Here
  BY <1>3, SwappedKept DEF HandlingInv, Done, Here
<1>7. Downloaded' = Downloaded /\ (\A step : Now(step)' = Now(step))
      /\ (\A phase : In(phase)' = In(phase))
  BY <1>3 DEF Downloaded, Now, In
(* What holds of a step that saves nothing into a download.                *)
<1>8. ASSUME \A q \in Paths : \A x \in {disk'[q], temp'[q], backup'[q], quarantine'[q]} :
               IsFile(x) => OnDisk(x) \/ x.stamp = edits + 1
      PROVE  StampsInv'
  <2>1. ASSUME NEW x, OnDisk(x), IsFile(x) PROVE x.stamp <= edits + 1
    <3>1. x.stamp <= edits
      BY <2>1 DEF OnDisk, HandlingInv, StampsInv
    <3>2. x.stamp \in Nat
      BY <2>1, PlanAssumption DEF IsFile, Files
    <3> QED BY <1>3, <3>1, <3>2
  <2> QED BY <1>3, <1>8, <2>1 DEF StampsInv, IsFile
<1>9. ASSUME /\ Downloaded => IsFile(temp'[Here])
             /\ In("replace") /\ Downloaded =>
                  /\ temp'[Here] = temp[Here]
                  /\ \A q \in Paths : IsFile(disk'[q]) => disk'[q].node # temp[Here].node
             /\ run.step \in {"backup", "swap"} /\ IsFile(disk'[Here]) =>
                  disk'[Here] = disk[Here] \/ disk'[Here].stamp = edits + 1
      PROVE  FetchedInv' /\ PrivateInv' /\ SwapInv'
  <2>1. FetchedInv'
    BY <1>3, <1>6, <1>7, <1>9 DEF HandlingInv, FetchedInv, IsFile
  <2>2. PrivateInv'
    BY <1>6, <1>7, <1>9 DEF PrivateInv, IsFile
  <2>3. SwapInv'
    <3>1. SUFFICES ASSUME run.step \in {"backup", "swap"}
                   PROVE  LET m == run.memo[run.item] IN
                     /\ temp'[Here].blob = m.blob
                     /\ IsFile(m.was) /\ m.was.stamp <= edits + 1
                     /\ m.was.blob = receipts[run.item].blob
                     /\ IsFile(disk'[Here]) =>
                          disk'[Here] = m.was \/ disk'[Here].stamp > m.was.stamp
      BY <1>3, <1>6 DEF SwapInv, IsFile
    <3> DEFINE m == run.memo[run.item]
    <3>2. /\ temp[Here].blob = m.blob
          /\ IsFile(m.was) /\ m.was.stamp <= edits
          /\ m.was.blob = receipts[run.item].blob
          /\ IsFile(disk[Here]) => disk[Here] = m.was \/ disk[Here].stamp > m.was.stamp
      BY <3>1 DEF HandlingInv, SwapInv
    <3>3. m.was.stamp \in Nat
      BY <3>2, PlanAssumption DEF IsFile, Files
    <3> HIDE DEF m
    <3>4. m.was.stamp <= edits + 1 /\ m.was.stamp < edits + 1
      BY <1>3, <3>2, <3>3
    <3>5. temp'[Here] = temp[Here]
      BY <1>5, <1>9, <3>1
    <3>6. IsFile(disk'[Here]) => disk'[Here] = disk[Here] \/ disk'[Here].stamp = edits + 1
      BY <1>9, <3>1
    <3>7. IsFile(disk'[Here]) => disk'[Here] = m.was \/ disk'[Here].stamp > m.was.stamp
      BY <1>3, <3>2, <3>3, <3>4, <3>6
    <3> QED BY <3>2, <3>4, <3>5, <3>7 DEF m
  <2> QED BY <2>1, <2>2, <2>3
<1>10. ASSUME NEW b \in UserBlobs, SaveInPlace(p, b) PROVE HandlingInv'
  <2> DEFINE Rewritten(x) == IF IsFile(x) /\ x.node = disk[p].node
                             THEN [x EXCEPT !.blob = b, !.stamp = edits + 1] ELSE x
  <2>1. /\ disk' = [q \in Paths |-> Rewritten(disk[q])]
        /\ temp' = [q \in Paths |-> Rewritten(temp[q])]
        /\ backup' = [q \in Paths |-> Rewritten(backup[q])]
        /\ IsFile(disk[p])
    BY <1>10 DEF SaveInPlace
  <2>2. \A x \in Files : /\ Rewritten(x) = x \/ Rewritten(x).stamp = edits + 1
                         /\ Rewritten(x).node = x.node
                         /\ x.node # disk[p].node => Rewritten(x) = x
    BY DEF Files
  <2>3. \A x : x \notin Files => Rewritten(x) = x
    BY DEF IsFile
  <2>4. b \in Blobs /\ edits + 1 \in 0..MaxEdits
    BY <1>2, <1>3, RunAssumption, PlanAssumption DEF Edit
  <2>5. \A x \in Files : Rewritten(x) \in Files
    BY <2>4 DEF Files
  <2> HIDE DEF Rewritten
  <2>6. StampsInv'
    <3>1. \A q \in Paths : \A x \in {disk'[q], temp'[q], backup'[q], quarantine'[q]} :
            IsFile(x) => OnDisk(x) \/ x.stamp = edits + 1
      BY <1>3, <2>1, <2>2, <2>3, TreeOnDisk DEF TreeOK
    <3> QED BY <1>8, <3>1
  <2>7. Downloaded => IsFile(temp'[Here])
    BY <1>4, <2>1, <2>5 DEF IsFile
  <2>8. ASSUME In("replace"), Downloaded
        PROVE  /\ temp'[Here] = temp[Here]
               /\ \A q \in Paths : IsFile(disk'[q]) => disk'[q].node # temp[Here].node
    <3>1. \A q \in Paths : IsFile(disk[q]) => disk[q].node # temp[Here].node
      BY <2>8 DEF HandlingInv, PrivateInv
    <3>2. temp'[Here] = temp[Here]
      BY <1>4, <2>1, <2>2, <2>8, <3>1
    <3>3. \A q \in Paths : IsFile(disk'[q]) => disk'[q].node # temp[Here].node
      BY <1>3, <2>1, <2>2, <2>3, <3>1 DEF IsFile, TreeOK
    <3> QED BY <3>2, <3>3
  <2>9. ASSUME run.step \in {"backup", "swap"}
        PROVE  IsFile(disk'[Here]) => disk'[Here] = disk[Here] \/ disk'[Here].stamp = edits + 1
    BY <1>4, <1>5, <2>1, <2>2, <2>3, <2>9
  <2> QED BY <1>6, <1>9, <2>6, <2>7, <2>8, <2>9 DEF HandlingInv
<1>11. ASSUME NEW b \in UserBlobs, SaveByRename(p, b) PROVE HandlingInv'
  <2> DEFINE new == [node |-> FreshNode, blob |-> b, stamp |-> edits + 1]
  <2>1. disk' = [disk EXCEPT ![p] = new] /\ UNCHANGED <<temp, backup>> /\ Nodes \ InUse # {}
    BY <1>11 DEF SaveByRename
  <2>2. new.node = FreshNode /\ new.stamp = edits + 1 /\ FreshNode \notin InUse
    BY <2>1 DEF FreshNode
  <2> HIDE DEF new
  <2>3. StampsInv'
    <3>1. \A q \in Paths : \A x \in {disk'[q], temp'[q], backup'[q], quarantine'[q]} :
            IsFile(x) => OnDisk(x) \/ x.stamp = edits + 1
      BY <1>3, <2>1, <2>2, TreeOnDisk DEF TreeOK
    <3> QED BY <1>8, <3>1
  <2>4. Downloaded => temp[Here].node \in InUse
    BY <1>4 DEF InUse
  <2>5. In("replace") /\ Downloaded =>
          \A q \in Paths : IsFile(disk'[q]) => disk'[q].node # temp[Here].node
    BY <1>3, <2>1, <2>2, <2>4 DEF HandlingInv, PrivateInv, TreeOK
  <2>6. run.step \in {"backup", "swap"} =>
          disk'[Here] = disk[Here] \/ disk'[Here].stamp = edits + 1
    BY <1>3, <1>4, <1>5, <2>1, <2>2 DEF TreeOK
  <2>7. Downloaded => IsFile(temp'[Here])
    BY <1>4, <2>1 DEF IsFile
  <2> QED BY <1>6, <1>9, <2>1, <2>3, <2>5, <2>6, <2>7 DEF HandlingInv
<1>12. CASE RemoveEntry(p) \/ MakeDir(p)
  <2>1. (disk' = [disk EXCEPT ![p] = None] \/ disk' = [disk EXCEPT ![p] = Dir])
        /\ UNCHANGED <<temp, backup>>
    BY <1>12 DEF RemoveEntry, MakeDir
  <2>2. \A q \in Paths : disk'[q] = disk[q] \/ ~IsFile(disk'[q])
    BY <1>3, <2>1, TreeOnDisk DEF TreeOK
  <2>3. StampsInv'
    <3>1. \A q \in Paths : \A x \in {disk'[q], temp'[q], backup'[q], quarantine'[q]} :
            IsFile(x) => OnDisk(x)
      BY <1>3, <2>1, <2>2, TreeOnDisk
    <3> QED BY <1>8, <3>1
  <2>4. Downloaded => IsFile(temp'[Here])
    BY <1>4, <2>1 DEF IsFile
  <2>5. In("replace") /\ Downloaded =>
          \A q \in Paths : IsFile(disk'[q]) => disk'[q].node # temp[Here].node
    BY <2>2 DEF HandlingInv, PrivateInv
  <2>6. run.step \in {"backup", "swap"} /\ IsFile(disk'[Here]) => disk'[Here] = disk[Here]
    BY <1>4, <1>5, <2>2
  <2> QED BY <1>6, <1>9, <2>1, <2>3, <2>4, <2>5, <2>6 DEF HandlingInv
<1> QED BY <1>1, <1>10, <1>11, <1>12

LEMMA WorkingHandles ==
  ASSUME RunsInv, HandlingInv, Working, edits' = edits
  PROVE  HandlingInv'
<1>1. CASE Abandon
  BY <1>1, LeavingHandles DEF Abandon
<1> QED BY <1>1, TurnHandles, FolderHandles, FetchHandles, PromoteHandles, UnlinkHandles,
           PassedHandles, CompareHandles, LinkHandles, SwapHandles, LeavingHandles
        DEF Working

LEMMA IdleHandles ==
  ASSUME HandlingInv, TalliesOK, UNCHANGED <<tree, edits>>, run' = Idle
  PROVE  HandlingInv'
BY EndHandles DEF Idle, Holding

(* A step beside the runs.                                                 *)
LEMMA MeanwhileHandles ==
  ASSUME RunsInv, HandlingInv, Meanwhile
  PROVE  HandlingInv'
<1>1. TalliesOK
  BY PartsOfInv
<1>2. CASE \E i \in Items : \/ \E p \in Paths, b \in Blobs \cup {None} : RemoteWrite(i, p, b)
                            \/ RemoteRemove(i)
  <2>1. UNCHANGED <<tree, run, receipts, edits>>
    BY <1>2 DEF RemoteWrite, RemoteRemove
  <2> QED BY <1>1, <2>1, SteadyHandles
<1>3. CASE UserStep
  BY <1>3, UserHandles
<1>4. CASE Crash
  <2>1. UNCHANGED <<tree, edits>> /\ run' = Idle
    BY <1>4 DEF Crash, Killed
  <2> QED BY <1>1, <2>1, IdleHandles
<1> QED BY <1>2, <1>3, <1>4 DEF Meanwhile

LEMMA BatchHandles ==
  ASSUME RunsInv, HandlingInv, [Next]_vars
  PROVE  HandlingInv'
<1>1. TalliesOK
  BY PartsOfInv
<1>2. CASE Begin
  <2>1. UNCHANGED <<tree, tallies, receipts>> /\ run = Idle
    BY <1>2 DEF Begin
  <2>2. UNCHANGED edits
    BY <2>1 DEF tallies
  <2>3. CASE Decision \in Phases /\ Ready(Decision)
    <3>1. run'.step = "next" /\ run'.done = <<>>
      BY <1>2, <2>3 DEF Begin, Idle
    <3> QED BY <1>1, <2>1, <2>2, <3>1, EndHandles DEF Holding
  <2>4. CASE ~(Decision \in Phases /\ Ready(Decision))
    <3>1. UNCHANGED run
      BY <1>2, <2>4 DEF Begin
    <3> QED BY <1>1, <2>1, <2>2, <3>1, SteadyHandles
  <2> QED BY <2>3, <2>4
<1>3. CASE RunStep
  <2>1. edits' = edits
    BY <1>3 DEF RunStep, tallies
  <2>2. CASE Working
    BY <2>1, <2>2, WorkingHandles
  <2>3. CASE Finish \/ Stop
    <3>1. run' = Idle /\ UNCHANGED tree
      BY <2>3 DEF Finish, Stop
    <3> QED BY <1>1, <2>1, <3>1, IdleHandles
  <2> QED BY <1>3, <2>2, <2>3 DEF RunStep
<1>4. CASE ApplyWindow
  <2>1. run' = Idle /\ UNCHANGED <<tree, edits>>
    BY <1>4 DEF ApplyWindow, Apply, tallies
  <2> QED BY <1>1, <2>1, IdleHandles
<1>5. CASE CaptureBaseline \/ UNCHANGED vars
  <2>1. UNCHANGED <<tree, run, receipts, edits>>
    BY <1>5 DEF CaptureBaseline, vars, tallies
  <2> QED BY <1>1, <2>1, SteadyHandles
<1>6. CASE CallFails
  <2>1. GiveUp /\ edits' = edits
    BY <1>6 DEF CallFails
  <2> QED BY <2>1, LeavingHandles
<1>7. CASE Meanwhile
  BY <1>7, MeanwhileHandles
<1> QED BY <1>2, <1>3, <1>4, <1>5, <1>6, <1>7 DEF Next, Surroundings, Meanwhile

LEMMA CommandHandles ==
  ASSUME RunsInv, HandlingInv, [CommandNext]_commandVars
  PROVE  HandlingInv'
<1>1. TalliesOK
  BY PartsOfInv
<1>2. ASSUME NEW i \in Items, Adopt(i) PROVE HandlingInv'
  <2>1. run' = Idle /\ UNCHANGED <<tree, edits>>
    BY <1>2 DEF Adopt, tallies
  <2> QED BY <1>1, <2>1, IdleHandles
<1>3. ASSUME NEW i \in Items, NEW c \in Commands, BeginCommand(c, i) PROVE HandlingInv'
  <2>1. run'.step \notin Holding /\ run'.done = <<>>
    BY <1>3, BegunRun DEF Holding
  <2>2. UNCHANGED <<tree, edits>>
    BY <1>3 DEF BeginCommand, tallies
  <2> QED BY <1>1, <2>1, <2>2, EndHandles
<1>4. ASSUME CommandStep \/ TakeBack \/ StopCommand, UNCHANGED tallies PROVE HandlingInv'
  <2>1. edits' = edits
    BY <1>4 DEF tallies
  <2>2. CASE Shared
    BY <2>1, <2>2, SharedWorks, WorkingHandles
  <2>3. CASE RecordMaterialized \/ RecordVerified \/ RecordReplaced \/ DropReceipt \/ StopCommand
    <3>1. run' = Idle /\ UNCHANGED tree
      BY <2>3 DEF RecordMaterialized, RecordVerified, RecordReplaced, DropReceipt, Settle,
                  StopCommand
    <3> QED BY <1>1, <2>1, <3>1, IdleHandles
  <2>4. CASE CompareStale
    BY <2>1, <2>4, CompareHandles
  <2>5. CASE RemoveQuarantined
    BY <2>1, <2>5, LeavingHandles
  <2>6. TakeBack => Shared
    BY DEF Shared
  <2> QED BY <1>4, <2>2, <2>3, <2>4, <2>5, <2>6, CommandStepParts
<1>5. ASSUME FailedCommand, edits' = edits PROVE HandlingInv'
  <2>1. CASE LeaveAsIs \/ LeaveDownload
    <3>1. run' = Idle /\ UNCHANGED tree
      BY <2>1 DEF LeaveAsIs, LeaveDownload
    <3> QED BY <1>1, <1>5, <3>1, IdleHandles
  <2>2. CASE PutBack
    BY <1>5, <2>2, LeavingHandles DEF PutBack
  <2> QED BY <1>5, <2>1, <2>2 DEF FailedCommand
<1>6. CASE SingleNext
  BY <1>4, <1>5, <1>6, MeanwhileHandles DEF SingleNext
<1>7. CASE ~single /\ Next /\ UNCHANGED single
  BY <1>7, BatchHandles
<1>8. CASE UNCHANGED commandVars
  BY <1>8, BatchHandles DEF commandVars
<1> QED BY <1>2, <1>3, <1>6, <1>7, <1>8 DEF CommandNext

-----------------------------------------------------------------------------
(* The invariant of commands and batches together.                         *)

CommandsInv == RunsInv /\ SingleInv /\ HandlingInv

LEMMA CommandsInit == CommandInit => CommandsInv
<1> SUFFICES ASSUME CommandInit PROVE CommandsInv
  OBVIOUS
<1>1. Init /\ ~single
  BY DEF CommandInit
<1>2. RunsInv /\ run = Idle
  BY <1>1, RunsInit DEF Init
<1>3. TreeOK /\ edits = 0 /\ temp = [p \in Paths |-> None]
      /\ backup = [p \in Paths |-> None] /\ quarantine = [p \in Paths |-> None]
  BY <1>1, <1>2, PartsOfInv DEF Init
<1>4. \A p \in Paths : IsFile(disk[p]) => disk[p].stamp = 0
  <2>1. SUFFICES ASSUME NEW p \in Paths, IsFile(disk[p]) PROVE disk[p].stamp = 0
    OBVIOUS
  <2> DEFINE i == CHOOSE i \in Present : remote[i].path = p
  <2>2. disk[p] \in {None, Dir, [node |-> InitialNode[i], blob |-> remote[i].blob, stamp |-> 0]}
    BY <1>1 DEF Init
  <2>3. disk[p] = [node |-> InitialNode[i], blob |-> remote[i].blob, stamp |-> 0]
    BY <2>1, <2>2, TreeOnDisk
  <2> HIDE DEF i
  <2> QED BY <2>3
<1>5. StampsInv
  BY <1>3, <1>4, TreeOnDisk DEF StampsInv
<1>6. FetchedInv /\ PrivateInv /\ SwapInv /\ SwappedInv
  BY <1>2 DEF FetchedInv, PrivateInv, SwapInv, SwappedInv, Downloaded, Now, In, Idle
<1> QED BY <1>1, <1>2, <1>5, <1>6 DEF CommandsInv, SingleInv, HandlingInv

LEMMA CommandsStep == CommandsInv /\ [CommandNext]_commandVars => CommandsInv'
BY CommandRunsStep, CommandHandles DEF CommandsInv, HandlingInv

THEOREM CommandsInvariant == CommandSpec => []CommandsInv
BY CommandsInit, CommandsStep, PTL DEF CommandSpec

(* Types, and no run returns to an entry, whoever began it.                *)
THEOREM CommandTypeCorrect == CommandSpec => []ConvergenceTypeOK
<1>1. CommandsInv => ConvergenceTypeOK
  BY DEF CommandsInv, RunsInv
<1> QED BY <1>1, CommandsInvariant, PTL

-----------------------------------------------------------------------------
(* Which files of the directory a step may touch.                          *)

Sanctioned(p) ==
  \/ \E i \in Owned \ Folders :
       receipts[i].path = p /\ receipts[i].blob = disk[p].blob
  \/ \E i \in Items :
       /\ run.memo[i] # None /\ run.memo[i].path = p
       /\ IsFile(run.memo[i].now) /\ run.memo[i].now.blob = disk[p].blob
  \/ SavedTooLate(disk[p])

Touched(p) == IsFile(disk[p]) /\ disk'[p] # disk[p]

LEMMA SwapTouches ==
  ASSUME RunsInv, HandlingInv, Swap, NEW p \in Paths, Touched(p)
  PROVE  Sanctioned(p)
<1>1. run.step \in Busy /\ Now("swap")
  BY DEF Swap, Now, Busy
<1>2. /\ TreeOK /\ Here \in Paths /\ In("replace") /\ run.item \in Items
      /\ run.memo[run.item] \in Memo
  BY <1>1, ItemFacts DEF StepFits, Now, In
<1>3. disk' = [disk EXCEPT ![Here] = temp[Here]]
  BY DEF Swap
<1>4. p = Here
  BY <1>2, <1>3 DEF Touched, TreeOK
<1> DEFINE m == run.memo[run.item]
<1>5. /\ IsFile(m.was) /\ m.was.blob = receipts[run.item].blob
      /\ disk[p] = m.was \/ disk[p].stamp > m.was.stamp
  BY <1>1, <1>4 DEF HandlingInv, SwapInv, Now, Touched
<1>6. m # None
  BY <1>2, MemoAssumption
<1>7. CASE disk[p] = m.was
  <2>1. Live /\ run.item \in Turned /\ Here = Home(run.item)
    BY <1>1, BusyFacts
  <2>2. run.item \in Owned /\ receipts[run.item].path = Here /\ run.item \notin Folders
    BY <1>2, <2>1, BatchHomes DEF RunsInv, BatchInv, In
  <2> QED BY <1>4, <1>5, <1>7, <2>2 DEF Sanctioned
<1>8. CASE disk[p].stamp > m.was.stamp
  <2>1. SavedTooLate(disk[p])
    BY <1>1, <1>2, <1>5, <1>6, <1>8 DEF SavedTooLate
  <2> QED BY <2>1 DEF Sanctioned
<1> QED BY <1>5, <1>7, <1>8

LEMMA QuarantineTouches ==
  ASSUME RunsInv, QuarantineFile, NEW p \in Paths, Touched(p)
  PROVE  Sanctioned(p)
<1>1. run.step \in Busy /\ Now("quarantine") /\ Passes
  BY DEF QuarantineFile, Now, Busy
<1>2. TreeOK /\ Here \in Paths /\ In("delete")
  BY <1>1, ItemFacts DEF StepFits, Now, In
<1>3. p = Here
  BY <1>2 DEF Touched, TreeOK, QuarantineFile, Aside
<1>4. Unchanged(run.item)
  BY <1>1 DEF Passes, Now
<1>5. Live /\ run.item \in Turned /\ Here = Home(run.item)
  BY <1>1, BusyFacts
<1>6. run.item \in Owned \ Expected /\ run.item \notin Folders
  BY <1>2, <1>5 DEF RunsInv, BatchInv
<1>7. receipts[run.item].path = p
  BY <1>3, <1>5, <1>6 DEF Home
<1> QED BY <1>4, <1>6, <1>7 DEF Sanctioned, Unchanged

(* A rollback takes a replacement back only while it is the one made, and  *)
(* a created file by its name.                                             *)
LEMMA TakeBackTouches ==
  ASSUME RunsInv, HandlingInv, TakeBack, NEW p \in Paths, Touched(p)
  PROVE  Sanctioned(p)
<1> DEFINE i == Last(run.done)
           m == run.memo[i]
<1>1. /\ Now("rollback") /\ run.done # <<>> /\ Reversible(i) /\ ~In("verify")
  BY DEF TakeBack
<1>2. TreeOK /\ run \in Runs
  BY PartsOfInv DEF BatchParts, RunOK
<1>3. p = m.path
  BY <1>2 DEF TakeBack, Touched, TreeOK
<1>4. i \in Done /\ i \in Items
  <2>1. run.done \in Seq(Items)
    BY <1>2 DEF Runs
  <2>2. i \in Range(run.done)
    BY <1>1, <2>1, FrontFacts
  <2> QED BY <2>1, <2>2 DEF Done, Range
<1> HIDE DEF i
<1>5. IsFile(disk[p]) /\ disk[p] # None /\ disk[p] # Dir
  BY TreeOnDisk DEF Touched
<1>6. CASE In("create")
  BY <1>1, <1>3, <1>5, <1>6 DEF Reversible, In
<1>7. CASE In("materialize")
  BY <1>1, <1>7 DEF Sanctioned, SavedTooLate
<1>8. CASE In("replace")
  <2>1. SameFile(m.now, disk[p]) /\ disk[p].blob = m.blob
    BY <1>1, <1>3, <1>8 DEF Reversible, In
  <2>2. m # None /\ m.now.blob = m.blob /\ IsFile(m.now)
    BY <1>4, <1>8, <2>1 DEF HandlingInv, SwappedInv, SameFile
  <2> QED BY <1>3, <1>4, <2>1, <2>2 DEF Sanctioned
<1>9. CASE In("delete") \/ In("rmdir")
  BY <1>1, <1>3, <1>5, <1>9 DEF Reversible, In
<1>10. run.phase \in Phases
  <2>1. run.phase # "idle"
    BY <1>1 DEF Now, RunsInv, RunInv, In, Idle
  <2> QED BY <1>2, <2>1 DEF Runs
<1> QED BY <1>1, <1>6, <1>7, <1>8, <1>9, <1>10, PhaseNames DEF In

LEMMA WorkingTouches ==
  ASSUME RunsInv, HandlingInv, Working, NEW p \in Paths, Touched(p)
  PROVE  Sanctioned(p)
<1>1. TreeOK /\ disk[p] # None /\ disk[p] # Dir
  BY PartsOfInv, TreeOnDisk DEF Touched
<1>2. ASSUME NEW i \in Items, MakeFolder(i) PROVE FALSE
  <2>1. p = Home(i) /\ disk[Home(i)] \in {None, Dir}
    BY <1>1, <1>2 DEF MakeFolder, Turn, FirstCheck, In, Touched, TreeOK
  <2> QED BY <1>1, <2>1
<1>3. ASSUME NEW i \in Items, QuarantineFolder(i) PROVE FALSE
  <2>1. p = Home(i)
    BY <1>1, <1>3 DEF QuarantineFolder, Aside, Touched, TreeOK
  <2>2. disk[Home(i)] = Dir
    BY <1>3 DEF QuarantineFolder, Turn, FirstCheck, In
  <2> QED BY <1>1, <2>1, <2>2
<1>4. CASE Promote
  <2>1. p = Here /\ disk[run.memo[run.item].path] = None
    BY <1>1, <1>4 DEF Promote, Passes, Now, Touched, TreeOK
  <2> QED BY <1>1, <2>1 DEF Here
<1>5. disk' # disk
  BY DEF Touched
<1>6. Promote \/ Swap \/ QuarantineFile \/ TakeBack
  BY <1>2, <1>3, <1>5 DEF Working, Fingerprint, HashLocal, InspectStale, Clean, Fetch,
     Unlink, Confirm, CompareProvider, CompareBaseline, LinkBackup, RecordReceipts,
     DropReceipts, Abandon, GiveUp, tree
<1> QED BY <1>4, <1>6, SwapTouches, QuarantineTouches, TakeBackTouches

LEMMA CommandTouches ==
  ASSUME RunsInv, HandlingInv, CommandNext, edits' = edits, NEW p \in Paths, Touched(p)
  PROVE  Sanctioned(p)
<1>1. disk' # disk
  BY DEF Touched
<1>2. ~UserStep
  <2>1. UserStep => edits' = edits + 1
    BY DEF UserStep, SaveInPlace, SaveByRename, RemoveEntry, MakeDir, Edit
  <2> QED BY <2>1, PartsOfInv DEF TalliesOK
<1>3. Working \/ CommandStep \/ TakeBack
  BY <1>1, <1>2 DEF CommandNext, Adopt, BeginCommand, SingleNext, StopCommand,
     FailedCommand, LeaveAsIs, LeaveDownload, PutBack, GiveUp, Meanwhile, RemoteWrite,
     RemoteRemove, Crash, Killed, Next, Begin, RunStep, Finish, Stop, ApplyWindow, Apply,
     CaptureBaseline, Surroundings, CallFails, tree
<1>4. CASE Working \/ Shared
  BY <1>4, SharedWorks, WorkingTouches
<1>5. TakeBack => Shared
  BY DEF Shared
<1>6. CASE RecordMaterialized \/ RecordVerified \/ CompareStale \/ RecordReplaced
             \/ RemoveQuarantined \/ DropReceipt
  BY <1>1, <1>6 DEF RecordMaterialized, RecordVerified, CompareStale, RecordReplaced,
     RemoveQuarantined, DropReceipt, tree
<1> QED BY <1>3, <1>4, <1>5, <1>6, CommandStepParts

(* A file is overwritten or removed only while its bytes are those its     *)
(* path's receipt attests or those the run put there itself, whatever was  *)
(* interrupted before, unless they were saved in the windows that          *)
(* SavedTooLate names (replace_selected_root_existing_file and             *)
(* delete_verified_stale_local_file beside the batches).                   *)
THEOREM CommandsFailClosed == CommandSpec => FailsClosed
<1>1. ASSUME CommandsInv, [CommandNext]_commandVars
      PROVE  [edits' = edits =>
               \A p \in Paths : IsFile(disk[p]) /\ disk'[p] # disk[p] =>
                 \/ \E i \in Owned \ Folders :
                      receipts[i].path = p /\ receipts[i].blob = disk[p].blob
                 \/ \E i \in Items :
                      /\ run.memo[i] # None /\ run.memo[i].path = p
                      /\ IsFile(run.memo[i].now) /\ run.memo[i].now.blob = disk[p].blob
                 \/ SavedTooLate(disk[p])]_commandVars
  <2>1. SUFFICES ASSUME CommandNext, edits' = edits, NEW p \in Paths,
                        IsFile(disk[p]), disk'[p] # disk[p]
                 PROVE  Sanctioned(p)
    BY <1>1 DEF Sanctioned
  <2> QED BY <1>1, <2>1, CommandTouches DEF CommandsInv, Touched
<1> QED BY <1>1, CommandsInvariant, PTL DEF CommandSpec, FailsClosed

-----------------------------------------------------------------------------
(* Who owns a path.                                                        *)

CurrentAs(i) ==
  /\ i \in Owned /\ receipts[i].state = "current"
  /\ receipts'[i].path = receipts[i].path

LEMMA OwnersKept ==
  ASSUME OwnersInv, OneCurrentOwner, UNCHANGED catalog,
         \A i \in Owned' : receipts'[i].state = "current" => CurrentAs(i)
  PROVE  OwnersInv' /\ OneCurrentOwner'
<1>1. OwnersInv'
  BY DEF OwnersInv, Expected, CurrentAs
<1>2. OneCurrentOwner'
  BY DEF OneCurrentOwner, CurrentAs
<1> QED BY <1>1, <1>2

LEMMA OwnersRecorded ==
  ASSUME OwnersInv, ~Collision, UNCHANGED catalog,
         \A i \in Owned' : receipts'[i].state = "current" =>
           CurrentAs(i) \/ (i \in Expected /\ receipts'[i].path = catalog[i].path)
  PROVE  OwnersInv' /\ OneCurrentOwner'
<1>1. \A i \in Owned' : receipts'[i].state = "current" =>
        i \in Expected /\ receipts'[i].path = catalog[i].path
  BY DEF OwnersInv, CurrentAs
<1>2. OwnersInv'
  BY <1>1 DEF OwnersInv, Expected
<1>3. OneCurrentOwner'
  BY <1>1 DEF OneCurrentOwner, Collision
<1> QED BY <1>2, <1>3

(* A window makes receipts stale and never renews one; a current receipt   *)
(* it leaves is for an item it neither took away nor moved.                *)
LEMMA OwnersWindow ==
  ASSUME RunsInv, OwnersInv, OneCurrentOwner, ApplyWindow
  PROVE  OwnersInv' /\ OneCurrentOwner'
<1>1. TablesOK
  BY PartsOfInv
<1>2. Upserted(Pages) \subseteq Present /\ \A i \in Upserted(Pages) : Pages[i] = remote[i]
  BY <1>1 DEF Upserted, Pages, Present, TablesOK
<1>3. \A i \in Items : catalog'[i] = IF i \in Upserted(Pages) THEN Record(i, Pages[i])
                                     ELSE IF i \in Removed(Pages) THEN None
                                     ELSE catalog[i]
  BY DEF ApplyWindow, Apply
<1>4. \A i \in Upserted(Pages) : /\ i \in Items /\ catalog'[i] # None
                                 /\ catalog'[i].path \in Homes[i]
  <2>1. SUFFICES ASSUME NEW i \in Upserted(Pages)
                 PROVE  i \in Items /\ catalog'[i] # None /\ catalog'[i].path \in Homes[i]
    OBVIOUS
  <2>2. i \in Present /\ i \in Items /\ catalog'[i] = Record(i, remote[i])
    BY <1>2, <1>3 DEF Present
  <2>3. Record(i, remote[i]) # None
    BY <1>1, <2>2, RecordType, EntryAssumption DEF RunsInv
  <2> QED BY <2>2, <2>3, RecordPath DEF RunsInv, RemoteInv
<1>5. \A i \in Expected' : catalog'[i].path \in Homes[i]
  BY <1>3, <1>4 DEF OwnersInv, Expected
<1>6. \A i \in Items : receipts'[i] = IF i \in Revised(Pages) \cap Owned
        THEN [receipts[i] EXCEPT !.state = "stale"] ELSE receipts[i]
  BY DEF ApplyWindow, Apply
<1>7. ASSUME NEW i \in Owned', receipts'[i].state = "current"
      PROVE  /\ i \notin Revised(Pages) /\ CurrentAs(i)
             /\ i \in Expected /\ receipts[i].path = catalog[i].path
  <2>1. i \in Items /\ receipts'[i] # None
    BY DEF Owned
  <2>2. i \notin Revised(Pages) \cap Owned
    <3>1. SUFFICES ASSUME i \in Revised(Pages) \cap Owned PROVE FALSE
      OBVIOUS
    <3>2. receipts[i] \in Receipts
      BY <1>1, <2>1, <3>1 DEF TablesOK, Owned
    <3>3. [receipts[i] EXCEPT !.state = "stale"].state = "stale"
      BY <3>2 DEF Receipts
    <3> QED BY <1>6, <1>7, <2>1, <3>1, <3>3
  <2>3. receipts'[i] = receipts[i] /\ i \in Owned
    BY <1>6, <2>1, <2>2 DEF Owned
  <2> QED BY <1>7, <2>2, <2>3 DEF CurrentAs, OwnersInv
<1>8. ASSUME NEW i \in Owned', receipts'[i].state = "current"
      PROVE  i \in Expected' /\ receipts'[i].path = catalog'[i].path
  <2>1. /\ i \notin Revised(Pages) /\ receipts'[i].path = catalog[i].path
        /\ i \in Expected /\ i \in Items
    BY <1>7, <1>8 DEF CurrentAs, Expected
  <2>2. i \notin Removed(Pages)
    BY <2>1 DEF Revised
  <2>3. CASE i \in Upserted(Pages)
    <3>1. i \in Folders
      BY <2>1, <2>3 DEF Revised
    <3>2. catalog[i].path \in Homes[i] /\ catalog'[i].path \in Homes[i] /\ catalog'[i] # None
      BY <1>4, <2>1, <2>3 DEF OwnersInv
    <3>3. catalog[i].path = catalog'[i].path
      BY <3>1, <3>2, HomeOfFolder
    <3> QED BY <2>1, <3>2, <3>3 DEF Expected
  <2>4. CASE i \notin Upserted(Pages)
    BY <1>3, <2>1, <2>2, <2>4 DEF Expected
  <2> QED BY <2>3, <2>4
<1>9. OwnersInv'
  BY <1>5, <1>8 DEF OwnersInv
<1>10. OneCurrentOwner'
  BY <1>7 DEF OneCurrentOwner, CurrentAs
<1> QED BY <1>9, <1>10

(* A batch records what its items have in the catalog, where no two of     *)
(* them share a path.                                                      *)
LEMMA OwnersBatch ==
  ASSUME RunsInv, OwnersInv, OneCurrentOwner, RecordReceipts \/ DropReceipts,
         UNCHANGED catalog
  PROVE  OwnersInv' /\ OneCurrentOwner'
<1>1. Live /\ Done \subseteq Turned
  BY DEF RecordReceipts, DropReceipts, AllDone, Now, Live, In, Turned
<1>2. Owned' \subseteq Items
  BY DEF Owned
<1>3. CASE RecordReceipts
  <2>1. /\ Recording
        /\ receipts' = [i \in Items |->
             IF i \in Done
             THEN [path |-> run.memo[i].path, state |-> "current",
                   blob |-> run.memo[i].blob]
             ELSE receipts[i]]
    BY <1>3 DEF RecordReceipts, Recording, In
  <2>2. ~Collision /\ \A i \in Done : i \in Expected /\ run.memo[i].path = catalog[i].path
    BY <1>1, <2>1 DEF RunsInv, BatchInv, Home
  <2>3. ASSUME NEW i \in Owned', receipts'[i].state = "current"
        PROVE  CurrentAs(i) \/ (i \in Expected /\ receipts'[i].path = catalog[i].path)
    <3>1. CASE i \in Done
      BY <1>2, <2>1, <2>2, <3>1
    <3>2. CASE i \notin Done
      <4>1. receipts'[i] = receipts[i]
        BY <1>2, <2>1, <3>2
      <4> QED BY <2>3, <4>1 DEF CurrentAs, Owned
    <3> QED BY <3>1, <3>2
  <2> QED BY <2>2, <2>3, OwnersRecorded
<1>4. CASE DropReceipts
  <2>1. \A i \in Items : receipts'[i] \in {None, receipts[i]}
    BY <1>4 DEF DropReceipts
  <2>2. \A i \in Owned' : receipts'[i] = receipts[i] /\ i \in Owned
    BY <2>1 DEF Owned
  <2> QED BY <2>2, OwnersKept DEF CurrentAs
<1> QED BY <1>3, <1>4

LEMMA OwnersSteady ==
  ASSUME OwnersInv, OneCurrentOwner, UNCHANGED <<catalog, receipts>>
  PROVE  OwnersInv' /\ OneCurrentOwner'
<1>1. Owned' = Owned
  BY DEF Owned
<1> QED BY <1>1, OwnersKept DEF CurrentAs

(* One receipt more.                                                       *)
LEMMA OwnersSettled ==
  ASSUME RunsInv, OwnersInv, ~Collision, UNCHANGED catalog,
         NEW i \in Expected, NEW blob \in Blobs \cup {None},
         receipts' = [receipts EXCEPT ![i] =
                        [path |-> catalog[i].path, state |-> "current", blob |-> blob]]
  PROVE  OwnersInv' /\ OneCurrentOwner'
<1>1. receipts \in [Items -> Receipts \cup {None}] /\ i \in Items
  BY PartsOfInv DEF TablesOK, Expected
<1>2. receipts'[i].path = catalog[i].path /\ \A j \in Items \ {i} : receipts'[j] = receipts[j]
  BY <1>1
<1>3. \A j \in Owned' : receipts'[j].state = "current" =>
        CurrentAs(j) \/ (j \in Expected /\ receipts'[j].path = catalog[j].path)
  BY <1>2 DEF Owned, CurrentAs
<1> QED BY <1>3, OwnersRecorded

LEMMA OwnersStep ==
  ASSUME CommandsInv, OwnersInv, OneCurrentOwner, [CommandNext]_commandVars
  PROVE  OwnersInv' /\ OneCurrentOwner'
<1>1. RunsInv /\ FetchedInv
  BY DEF CommandsInv, HandlingInv
<1>2. ASSUME NEW i \in Items, Adopt(i) PROVE OwnersInv' /\ OneCurrentOwner'
  <2>1. /\ ~Collision /\ i \in Expected /\ UNCHANGED catalog
        /\ receipts' = [receipts EXCEPT ![i] =
             [path |-> catalog[i].path, state |-> "current", blob |-> None]]
    BY <1>2 DEF Adopt
  <2> QED BY <1>1, <2>1, OwnersSettled
<1>3. ASSUME NEW i \in Items, NEW c \in Commands, BeginCommand(c, i)
      PROVE  OwnersInv' /\ OneCurrentOwner'
  BY <1>3, OwnersSteady DEF BeginCommand
<1>4. ASSUME CommandStep \/ TakeBack \/ StopCommand, UNCHANGED catalog
      PROVE  OwnersInv' /\ OneCurrentOwner'
  <2>1. CASE RecordMaterialized \/ RecordVerified \/ RecordReplaced
    <3>1. PICK i \in Items : Recorded(i)
      BY <1>1, <2>1, CommandRecords
    <3>2. i \in Expected /\ ~Collision
      BY <1>1, <3>1 DEF Recorded, RunsInv, BatchInv, Recording
    <3> QED BY <1>1, <1>4, <3>1, <3>2, OwnersSettled DEF Recorded
  <2>2. CASE DropReceipt
    <3>1. receipts' = [receipts EXCEPT ![Entry] = None]
      BY <2>2 DEF DropReceipt, Settle
    <3>2. receipts \in [Items -> Receipts \cup {None}]
      BY <1>1, PartsOfInv DEF TablesOK
    <3>3. \A i \in Owned' : receipts'[i] = receipts[i] /\ i \in Owned
      BY <3>1, <3>2 DEF Owned
    <3> QED BY <1>4, <3>3, OwnersKept DEF CurrentAs
  <2>3. CASE Shared \/ CompareStale \/ RemoveQuarantined \/ StopCommand
    <3>1. UNCHANGED receipts
      BY <2>3 DEF Shared, Fingerprint, HashLocal, InspectStale, QuarantineFolder, Aside,
         Fetch, Promote, Unlink, Swap, QuarantineFile, TakeBack, CompareStale,
         RemoveQuarantined, StopCommand
    <3> QED BY <1>4, <3>1, OwnersSteady
  <2>4. TakeBack => Shared
    BY DEF Shared
  <2> QED BY <1>1, <1>4, <2>1, <2>2, <2>3, <2>4, CommandStepParts
<1>5. CASE SingleNext
  <2>1. CASE FailedCommand /\ UNCHANGED catalog
    <3>1. UNCHANGED receipts
      BY <2>1 DEF FailedCommand, LeaveAsIs, LeaveDownload, PutBack, GiveUp
    <3> QED BY <2>1, <3>1, OwnersSteady
  <2>2. CASE Meanwhile
    <3>1. UNCHANGED <<catalog, receipts>>
      BY <2>2 DEF Meanwhile, RemoteWrite, RemoteRemove, UserStep, SaveInPlace,
         SaveByRename, RemoveEntry, MakeDir, Edit, Crash, Killed
    <3> QED BY <3>1, OwnersSteady
  <2> QED BY <1>4, <1>5, <2>1, <2>2 DEF SingleNext
<1>6. CASE ~single /\ Next /\ UNCHANGED single
  <2>1. CASE ApplyWindow
    BY <1>1, <2>1, OwnersWindow
  <2>2. CASE (RecordReceipts \/ DropReceipts) /\ UNCHANGED catalog
    BY <1>1, <2>2, OwnersBatch
  <2>3. CASE UNCHANGED <<catalog, receipts>>
    BY <2>3, OwnersSteady
  <2>4. RunStep => \/ (RecordReceipts \/ DropReceipts) /\ UNCHANGED catalog
                   \/ UNCHANGED <<catalog, receipts>>
    BY DEF RunStep, Working, MakeFolder, Fingerprint, HashLocal, InspectStale,
       QuarantineFolder, Aside, Clean, Fetch, Promote, Unlink, Confirm, CompareProvider,
       CompareBaseline, LinkBackup, Swap, QuarantineFile, Abandon, GiveUp, TakeBack,
       Finish, Stop
  <2>5. Begin \/ CaptureBaseline \/ Surroundings => UNCHANGED <<catalog, receipts>>
    BY DEF Begin, CaptureBaseline, Surroundings, RemoteWrite, RemoteRemove, UserStep,
       SaveInPlace, SaveByRename, RemoveEntry, MakeDir, Edit, CallFails, GiveUp, Crash, Killed
  <2> QED BY <1>6, <2>1, <2>2, <2>3, <2>4, <2>5 DEF Next
<1>7. CASE UNCHANGED commandVars
  BY <1>7, OwnersSteady DEF commandVars, vars
<1> QED BY <1>2, <1>3, <1>5, <1>6, <1>7 DEF CommandNext

LEMMA OwnersInit == CommandInit => OwnersInv /\ OneCurrentOwner
<1> SUFFICES ASSUME CommandInit PROVE OwnersInv /\ OneCurrentOwner
  OBVIOUS
<1>1. Init
  BY DEF CommandInit
<1>2. ReceiptsInv
  BY <1>1, ReceiptsInit
<1>3. OwnersInv
  BY <1>2 DEF ReceiptsInv, CatalogInv, ReceiptInv, OwnersInv
<1>4. OneCurrentOwner
  BY <1>2 DEF ReceiptsInv, OneOwnerPerPath, OneCurrentOwner
<1> QED BY <1>3, <1>4

(* Two current receipts never name one path, although the commands record  *)
(* without a look at the receipts there are                                *)
(* (record_sync_root_file_materialization).                                *)
THEOREM OneCurrentOwnerPerPath == CommandSpec => []OneCurrentOwner
<1>1. CommandInit => OwnersInv /\ OneCurrentOwner
  BY OwnersInit
<1>2. CommandsInv /\ OwnersInv /\ OneCurrentOwner /\ [CommandNext]_commandVars
        => (OwnersInv /\ OneCurrentOwner)'
  BY OwnersStep
<1> QED BY <1>1, <1>2, CommandsInvariant, PTL DEF CommandSpec

(* No command writes under a baseline the journal trusts, either: each but *)
(* verify takes it out of force before its first step.                     *)
THEOREM CommandsWriteUnobserved == CommandSpec => NoWriteUnderBaseline
<1>1. ASSUME CommandsInv, [CommandNext]_commandVars
      PROVE  [tree' # tree /\ edits' = edits => ~observation /\ ~observation']_vars
  <2>1. SUFFICES ASSUME CommandNext, tree' # tree, edits' = edits
                 PROVE  ~observation /\ ~observation'
    BY <1>1 DEF commandVars, vars
  <2>2. ~UserStep
    <3>1. UserStep => edits' = edits + 1
      BY DEF UserStep, SaveInPlace, SaveByRename, RemoveEntry, MakeDir, Edit
    <3> QED BY <1>1, <2>1, <3>1, PartsOfInv DEF TalliesOK, CommandsInv
  <2>3. \/ (Working \/ CommandStep \/ TakeBack) /\ UNCHANGED observation
        \/ CallFails
        \/ single /\ PutBack /\ UNCHANGED observation
    BY <2>1, <2>2 DEF CommandNext, Adopt, BeginCommand, SingleNext, StopCommand,
       FailedCommand, LeaveAsIs, LeaveDownload, Meanwhile, RemoteWrite,
       RemoteRemove, Crash, Killed, Next, Begin, RunStep, Finish, Stop, ApplyWindow, Apply,
       CaptureBaseline, Surroundings
  <2>4. UNCHANGED observation
    BY <2>3 DEF CallFails
  <2>5. CASE Working \/ CallFails \/ Shared
    <3>1. run.phase \notin {"idle", "verify"}
      BY <1>1, <2>1, <2>5, SharedWorks, VerifyWritesNothing DEF CommandsInv
    <3> QED BY <1>1, <2>4, <3>1 DEF CommandsInv, RunsInv, FenceInv
  <2>6. CASE RecordMaterialized \/ RecordVerified \/ CompareStale \/ RecordReplaced
               \/ DropReceipt
    BY <2>1, <2>6 DEF RecordMaterialized, RecordVerified, CompareStale, RecordReplaced,
       DropReceipt
  <2>7. CASE RemoveQuarantined
    BY <1>1, <2>4, <2>7 DEF RemoveQuarantined, In, CommandsInv, RunsInv, FenceInv
  <2>8. CASE single /\ PutBack
    <3>1. Mutating /\ GiveUp /\ TreeOK /\ StepFits(run.phase, run.step) /\ run.phase # "idle"
      BY <1>1, <2>8, PartsOfInv DEF PutBack, Mutating, CommandsInv, SingleInv, Commands,
         BatchParts, RunInv
    <3>2. ASSUME In("verify") PROVE FALSE
      <4>1. temp' = temp
        BY <1>1, <3>1, <3>2, GiveUpWorks DEF Worked, CommandsInv
      <4>2. backup' = backup
        BY <3>1, <3>2 DEF GiveUp, In, Now, StepFits
      <4> QED BY <2>1, <3>1, <4>1, <4>2 DEF GiveUp, tree
    <3> QED BY <1>1, <2>4, <3>1, <3>2 DEF CommandsInv, RunsInv, FenceInv, In
  <2>9. TakeBack => Shared
    BY DEF Shared
  <2> QED BY <1>1, <2>3, <2>5, <2>6, <2>7, <2>8, <2>9, CommandStepParts DEF CommandsInv
<1> QED BY <1>1, CommandsInvariant, PTL DEF CommandSpec, NoWriteUnderBaseline

=============================================================================
