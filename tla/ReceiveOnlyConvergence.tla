----------------------- MODULE ReceiveOnlyConvergence -----------------------
(***************************************************************************)
(* The executors that carry out the plans of ConvergencePlan, one phase    *)
(* per run, while the provider changes under them, a user edits the same   *)
(* directory, calls fail and the process dies between any two steps.       *)
(*                                                                         *)
(* One run exists at a time: the slot and the process lock around it.  A   *)
(* run is cut where something outside it may act between two calls; the    *)
(* metadata-hash-metadata reads of a file, which refuse a file that moves  *)
(* under them, are one step.  What a run remembers is lost in a crash;     *)
(* catalog, receipts, the observation flag and the directory are not.      *)
(***************************************************************************)
EXTENDS ConvergencePlan, Sequences, SequencesExt

CONSTANTS
  Homes,           \* where the provider may place each item; a folder
                   \* stays, and no other one has its path
  ProviderBlobs,   \* contents the provider serves
  UserBlobs,       \* contents a user saves
  MaxChanges, MaxFailures, MaxCrashes   \* bounds for model checking

ASSUME RunAssumption ==
  /\ Homes \in [Items -> SUBSET Paths]
  /\ \A i \in Folders : \E p \in Paths : Homes[i] = {p}
  /\ \A i, j \in Folders : Homes[i] = Homes[j] => i = j
  /\ ProviderBlobs \subseteq Blobs /\ UserBlobs \subseteq Blobs
  /\ \E f \in [Items -> Nodes] : IsInjective(f)
  /\ MaxChanges \in Nat /\ MaxFailures \in Nat /\ MaxCrashes \in Nat

VARIABLES
  remote,        \* provider objects below the root
  touched,       \* items with a change no window has applied yet
  observation,   \* the local observation baseline is valid
  run,           \* the run in progress
  outcome,       \* what the last run reported
  edited,        \* paths the user changed, for the properties
  edits, changes, failures, crashes

service == <<remote, touched>>
tallies == <<edited, edits, changes, failures, crashes>>
vars    == <<catalog, receipts, tree, service, observation, run, outcome,
             tallies>>

Object == [path : Paths, blob : Blobs \cup {None}]
Steps  == {"next", "fetch", "promote", "unlink", "confirm", "compare",
           "backup", "swap", "quarantine", "clean", "finish", "rollback"}
Memo   == [path : Paths, blob : Blobs \cup {None},
           was : Files \cup {None}, now : Files \cup {None}]
Runs   == [phase : Phases \cup {"idle"}, step : Steps,
           item : Items \cup {None}, todo : SUBSET Items, done : Seq(Items),
           goal : 0..Cardinality(Items), memo : [Items -> Memo \cup {None}]]
ASSUME MemoAssumption == None \notin Items \cup Object \cup Memo

Outcomes == {"none", "converged", "another", "manual", "refused", "failed"}

Blank == [i \in Items |-> None]
Idle  == [phase |-> "idle", step |-> "next", item |-> None,
          todo |-> {}, done |-> <<>>, goal |-> 0, memo |-> Blank]

Record(i, object) ==
  [path |-> object.path,
   size |-> IF i \in Folders THEN 0 ELSE SizeOf[object.blob]]

InitialNode == CHOOSE f \in [Items -> Nodes] : IsInjective(f)

Present == {i \in Items : remote[i] # None}
FolderAt(p) == \E j \in Present \cap Folders : remote[j].path = p

(* A root in step with the provider, whatever it holds.                    *)
Init ==
  /\ remote \in [Items -> Object \cup {None}]
  /\ \A i \in Present :
       /\ remote[i].path \in Homes[i]
       /\ remote[i].blob \in (IF i \in Folders THEN {None} ELSE ProviderBlobs)
       /\ \A q \in Above[remote[i].path] : FolderAt(q)
       /\ \A j \in Present \ {i} : remote[j].path # remote[i].path
  /\ touched = {}
  /\ catalog = [i \in Items |-> IF remote[i] = None THEN None ELSE Record(i, remote[i])]
  /\ receipts = [i \in Items |->
       IF remote[i] = None THEN None
       ELSE [path |-> remote[i].path, state |-> "current",
             blob |-> remote[i].blob]]
  /\ disk = [p \in Paths |->
       IF \A i \in Present : remote[i].path # p THEN None
       ELSE LET i == CHOOSE i \in Present : remote[i].path = p
            IN IF i \in Folders THEN Dir
               ELSE [node |-> InitialNode[i], blob |-> remote[i].blob, stamp |-> 0]]
  /\ temp = [p \in Paths |-> None]
  /\ backup = [p \in Paths |-> None]
  /\ quarantine = [p \in Paths |-> None]
  /\ observation = TRUE
  /\ run = Idle
  /\ outcome = "none"
  /\ edited = {}
  /\ edits = 0 /\ changes = 0 /\ failures = 0 /\ crashes = 0

-----------------------------------------------------------------------------
(* The provider and the change window.                                     *)

RemoteWrite(i, p, b) ==
  /\ changes < MaxChanges
  /\ p \in Homes[i]
  /\ b \in (IF i \in Folders THEN {None} ELSE ProviderBlobs)
  /\ remote[i] # [path |-> p, blob |-> b]
  /\ \A q \in Above[p] : FolderAt(q)
  /\ remote' = [remote EXCEPT ![i] = [path |-> p, blob |-> b]]
  /\ touched' = touched \cup {i}
  /\ changes' = changes + 1
  /\ UNCHANGED <<catalog, receipts, tree, observation, run, outcome, edited,
                 edits, failures, crashes>>

RemoteRemove(i) ==
  LET gone == {i} \cup {j \in Present : /\ i \in Folders
                                        /\ remote[i].path \in Above[remote[j].path]}
  IN
  /\ changes < MaxChanges
  /\ remote[i] # None
  /\ remote' = [j \in Items |-> IF j \in gone THEN None ELSE remote[j]]
  /\ touched' = touched \cup gone
  /\ changes' = changes + 1
  /\ UNCHANGED <<catalog, receipts, tree, observation, run, outcome, edited,
                 edits, failures, crashes>>

(* A completed change window: what the provider held of some items when    *)
(* its pages were read.  A removal takes the whole subtree out of the      *)
(* catalog and makes its receipts stale; an upsert of a file already in    *)
(* the catalog makes its receipt stale, since its contents may differ.     *)
Removed(seen) ==
  LET gone == {i \in DOMAIN seen \cap Expected : seen[i] = None}
  IN {j \in Expected : \/ j \in gone
                       \/ \E i \in gone \cap Folders :
                            catalog[i].path \in Above[catalog[j].path]}

Upserted(seen) == {i \in DOMAIN seen : seen[i] # None}
(* Mutant: only changes of files in the catalog make receipts stale.       *)
RevisedByUpsert(seen) == (Upserted(seen) \cap Expected) \ Folders

(* Mutant: only removals make receipts stale.                              *)
RevisedByRemoval(seen) == Removed(seen)

Revised(seen)  == Removed(seen) \cup ((Upserted(seen) \cap Expected) \ Folders)

Apply(seen) ==
  /\ run = Idle
  /\ catalog' = [i \in Items |-> IF i \in Upserted(seen) THEN Record(i, seen[i])
                                 ELSE IF i \in Removed(seen) THEN None
                                 ELSE catalog[i]]
  /\ receipts' = [i \in Items |->
       IF i \in Revised(seen) \cap Owned
       THEN [receipts[i] EXCEPT !.state = "stale"] ELSE receipts[i]]
  /\ UNCHANGED <<remote, tree, observation, run, outcome, tallies>>

Pages == [i \in touched |-> remote[i]]

ApplyWindow == touched # {} /\ Apply(Pages) /\ touched' = {}

-----------------------------------------------------------------------------
(* The user.  Saving in place writes every link of the file; saving by     *)
(* rename puts a new file under the name.                                  *)
InUse == {x.node : x \in Files \cap
            UNION {{disk[p], temp[p], backup[p], quarantine[p]} : p \in Paths}}
FreshNode == CHOOSE n \in Nodes \ InUse : TRUE

Edit(p) ==
  /\ edits < MaxEdits
  /\ Reachable(p)
  /\ edits' = edits + 1
  /\ edited' = edited \cup {p}
  /\ UNCHANGED <<catalog, receipts, quarantine, service, observation, run,
                 outcome, changes, failures, crashes>>

SaveInPlace(p, b) ==
  LET Rewritten(x) == IF IsFile(x) /\ x.node = disk[p].node
                      THEN [x EXCEPT !.blob = b, !.stamp = edits + 1] ELSE x
  IN
  /\ Edit(p)
  /\ IsFile(disk[p])
  /\ disk' = [q \in Paths |-> Rewritten(disk[q])]
  /\ temp' = [q \in Paths |-> Rewritten(temp[q])]
  /\ backup' = [q \in Paths |-> Rewritten(backup[q])]

SaveByRename(p, b) ==
  /\ Edit(p)
  /\ disk[p] # Dir
  /\ Nodes \ InUse # {}
  /\ disk' = [disk EXCEPT ![p] = [node |-> FreshNode, blob |-> b,
                                  stamp |-> edits + 1]]
  /\ UNCHANGED <<temp, backup>>

RemoveEntry(p) ==
  /\ Edit(p)
  /\ disk[p] # None
  /\ disk[p] = Dir => EmptyFolder(p)
  /\ disk' = [disk EXCEPT ![p] = None]
  /\ UNCHANGED <<temp, backup>>

MakeDir(p) ==
  /\ Edit(p)
  /\ disk[p] = None
  /\ disk' = [disk EXCEPT ![p] = Dir]
  /\ UNCHANGED <<temp, backup>>

UserStep ==
  \E p \in Paths :
    \/ \E b \in UserBlobs : SaveInPlace(p, b) \/ SaveByRename(p, b)
    \/ RemoveEntry(p)
    \/ MakeDir(p)

-----------------------------------------------------------------------------
(* A run.  It plans, checks the readiness its executor asks for, and takes *)
(* the observation baseline out of force before anything it may write.     *)

(* Mutant: a stale file is compared by its size only.                      *)
UnchangedInSize(i) ==
  LET x == disk[receipts[i].path] IN
  IsFile(x) /\ SizeOf[x.blob] = SizeOf[receipts[i].blob]

(* delete and replace hash every stale file before they touch one.         *)
Unchanged(i) ==
  LET x == disk[receipts[i].path] IN IsFile(x) /\ x.blob = receipts[i].blob

Ready(phase) ==
  CASE phase \in {"create", "materialize"} -> ReadyForDirectories
    [] phase \in {"replace", "delete"} -> \A i \in Plan[phase] : Unchanged(i)
    [] OTHER -> TRUE

(* Mutant: phases that only add entries leave the baseline in force.       *)
FencedWhenDestructive(phase) == phase \in {"replace", "delete", "rmdir"}

Fenced(phase) == phase # "verify"

Begin ==
  /\ run = Idle
  /\ IF Decision \in Phases /\ Ready(Decision)
     THEN /\ run' = [Idle EXCEPT !.phase = Decision, !.todo = Plan[Decision],
                                 !.goal = Cardinality(Plan[Decision])]
          /\ observation' = (observation /\ ~Fenced(Decision))
          /\ outcome' = "none"
     ELSE /\ outcome' = IF Decision \in Phases THEN "refused" ELSE Decision
          /\ UNCHANGED <<run, observation>>
  /\ UNCHANGED <<catalog, receipts, tree, service, tallies>>

(* capture_selected_root_local_baseline, on a converged directory.         *)
CaptureBaseline ==
  /\ run = Idle
  /\ ~observation
  /\ Decision = "converged"
  /\ observation' = TRUE
  /\ UNCHANGED <<catalog, receipts, tree, service, run, outcome, tallies>>

SameFile(x, y) ==
  /\ IsFile(x) /\ IsFile(y)
  /\ x.node = y.node
  /\ SizeOf[x.blob] = SizeOf[y.blob]

Home(i)     == IF i \in Expected THEN catalog[i].path ELSE receipts[i].path
Here        == run.memo[run.item].path
Now(step)   == run.step = step
In(phase)   == run.phase = phase
Announced(i) == remote[i] # None /\ SizeOf[remote[i].blob] = catalog[i].size

(* Mutant: an item is not taken off the batch when the run turns to it.    *)
StartedAgain(i, step, blob, was) ==
  [run EXCEPT !.step = step, !.item = i,
              !.memo[i] = [path |-> Home(i), blob |-> blob,
                           was |-> was, now |-> None]]

Started(i, step, blob, was) ==
  [run EXCEPT !.step = step, !.item = i, !.todo = @ \ {i},
              !.memo[i] = [path |-> Home(i), blob |-> blob,
                           was |-> was, now |-> None]]
Completed(r, i) == [r EXCEPT !.step = "next", !.item = None,
                             !.done = Append(@, i)]

(* The first check made of an item the run turns to.                       *)
Eligible(i) == In("create") =>
  \A j \in run.todo : catalog[j].path \notin Above[catalog[i].path]

FirstCheck(i) ==
  CASE In("create") -> Reachable(Home(i)) /\ disk[Home(i)] \in {None, Dir}
    [] In("materialize") \/ In("replace") -> Announced(i)
    [] In("verify") -> /\ Reachable(Home(i)) /\ IsFile(disk[Home(i)])
                       /\ SizeOf[disk[Home(i)].blob] = catalog[i].size
    [] In("delete") -> Reachable(Home(i)) /\ Unchanged(i)
    [] In("rmdir") -> Reachable(Home(i)) /\ disk[Home(i)] = Dir /\ EmptyFolder(Home(i))

(* What the step in progress asks of the directory and the provider.       *)
Passes ==
  LET i == run.item
      m == run.memo[run.item]
  IN CASE Now("fetch") ->
            /\ Announced(i) /\ Reachable(m.path)
            /\ In("materialize") => disk[m.path] = None
       [] Now("promote") -> disk[m.path] = None
       [] Now("confirm") ->
            /\ remote[i] # None /\ remote[i].blob = m.blob
            /\ m.now.blob = m.blob
            /\ IsFile(disk[m.path]) /\ disk[m.path].blob = m.blob
       [] Now("compare") /\ In("replace") ->
            /\ remote[i] # None /\ remote[i].blob = m.blob
            /\ temp[m.path].blob = m.blob
            /\ Unchanged(i)
       [] Now("compare") /\ In("verify") ->
            /\ Announced(i)
            /\ disk[m.path] = m.was
            /\ remote[i].blob = m.blob
       [] Now("backup") -> SameFile(m.was, disk[m.path])
       [] Now("swap") -> disk[m.path] # Dir
       [] Now("quarantine") -> SameFile(m.was, disk[m.path]) /\ Unchanged(i)
       [] OTHER -> TRUE

Turn(i) ==
  /\ Now("next") /\ i \in run.todo
  /\ Eligible(i) /\ FirstCheck(i)

(* create_dir of a missing folder, parents first.  A directory that        *)
(* appeared meanwhile is counted and not adopted.                          *)
MakeFolder(i) ==
  /\ In("create") /\ Turn(i)
  /\ disk' = [disk EXCEPT ![Home(i)] = Dir]
  /\ LET r == Started(i, "next", None, None)
     IN run' = IF disk[Home(i)] = None THEN Completed(r, i)
               ELSE [r EXCEPT !.item = None]
  /\ UNCHANGED <<temp, backup, quarantine, receipts>>

(* content_fingerprint before the download.                                *)
Fingerprint(i) ==
  /\ In("materialize") \/ In("replace")
  /\ Turn(i)
  /\ run' = Started(i, "fetch", remote[i].blob, None)
  /\ UNCHANGED <<tree, receipts>>

Fetch ==
  /\ Now("fetch") /\ Passes
  /\ Nodes \ InUse # {}
  /\ temp' = [temp EXCEPT ![Here] = [node |-> FreshNode,
                                     blob |-> remote[run.item].blob,
                                     stamp |-> 0]]
  /\ run' = [run EXCEPT
       !.step = IF In("materialize") THEN "promote" ELSE "compare"]
  /\ UNCHANGED <<disk, backup, quarantine, receipts>>

(* Hard link without overwriting, then the temporary name goes.            *)
Promote ==
  /\ Now("promote") /\ Passes
  /\ disk' = [disk EXCEPT ![Here] = temp[Here]]
  /\ run' = [run EXCEPT !.step = "unlink", !.memo[run.item].now = temp[Here]]
  /\ UNCHANGED <<temp, backup, quarantine, receipts>>

Unlink ==
  /\ Now("unlink")
  /\ temp' = [temp EXCEPT ![Here] = None]
  /\ run' = [run EXCEPT !.step = "confirm"]
  /\ UNCHANGED <<disk, backup, quarantine, receipts>>

(* The fingerprint again, and the hash of the file now under the name.     *)
Confirm ==
  /\ Now("confirm") /\ Passes
  /\ run' = Completed(run, run.item)
  /\ UNCHANGED <<tree, receipts>>

(* verify: hash the local file, then the provider's bytes against it.      *)
HashLocal(i) ==
  /\ In("verify") /\ Turn(i)
  /\ run' = Started(i, "compare", disk[Home(i)].blob, disk[Home(i)])
  /\ UNCHANGED <<tree, receipts>>

CompareProvider ==
  /\ In("verify") /\ Now("compare") /\ Passes
  /\ run' = Completed(run, run.item)
  /\ UNCHANGED <<tree, receipts>>

(* Mutant: no second link before the download is renamed over the file.    *)
CompareBaselineOnly ==
  /\ In("replace") /\ Now("compare") /\ Passes
  /\ run' = [run EXCEPT !.step = "swap", !.memo[run.item].was = disk[Here]]
  /\ UNCHANGED <<tree, receipts>>

(* replace: the fingerprint again and the local file against its receipt,  *)
(* a second link to it, and the download renamed over the name.            *)
CompareBaseline ==
  /\ In("replace") /\ Now("compare") /\ Passes
  /\ run' = [run EXCEPT !.step = "backup", !.memo[run.item].was = disk[Here]]
  /\ UNCHANGED <<tree, receipts>>

LinkBackup ==
  /\ Now("backup") /\ Passes
  /\ backup' = [backup EXCEPT ![Here] = disk[Here]]
  /\ run' = [run EXCEPT !.step = "swap"]
  /\ UNCHANGED <<disk, temp, quarantine, receipts>>

Swap ==
  /\ Now("swap") /\ Passes
  /\ disk' = [disk EXCEPT ![Here] = temp[Here]]
  /\ temp' = [temp EXCEPT ![Here] = None]
  /\ run' = Completed([run EXCEPT !.memo[run.item].now = temp[Here]], run.item)
  /\ UNCHANGED <<backup, quarantine, receipts>>

(* delete: the hash against the receipt, then a rename out of the way and  *)
(* the same comparison on what was renamed; a mismatch is renamed back.    *)
InspectStale(i) ==
  /\ In("delete") /\ Turn(i)
  /\ run' = Started(i, "quarantine", receipts[i].blob, disk[Home(i)])
  /\ UNCHANGED <<tree, receipts>>

Aside(p) ==
  /\ quarantine' = [quarantine EXCEPT ![p] = disk[p]]
  /\ disk' = [disk EXCEPT ![p] = None]
  /\ UNCHANGED <<temp, backup, receipts>>

QuarantineFile ==
  /\ Now("quarantine") /\ Passes
  /\ Aside(Here)
  /\ run' = Completed(run, run.item)

QuarantineFolder(i) ==
  /\ In("rmdir") /\ Turn(i)
  /\ Aside(Home(i))
  /\ run' = Completed(Started(i, "next", None, None), i)

-----------------------------------------------------------------------------
(* The end of a batch: one transaction for all receipts, then the cleanup  *)
(* of what was kept for a rollback, then a last look at the plan.          *)
Done    == Range(run.done)
AllDone == Now("next") /\ run.todo = {} /\ Len(run.done) = run.goal

(* The scan that create and materialize make before they record.           *)
Landed == (In("create") \/ In("materialize")) =>
  /\ ReadyForDirectories
  /\ \A i \in Expected : (i \in Folders \/ In("materialize")) => Matching(i)

RecordReceipts ==
  /\ AllDone /\ Landed
  /\ In("create") \/ In("materialize") \/ In("verify") \/ In("replace")
  /\ receipts' = [i \in Items |->
       IF i \in Done
       THEN [path |-> run.memo[i].path, state |-> "current",
             blob |-> run.memo[i].blob]
       ELSE receipts[i]]
  /\ run' = IF In("replace") THEN [run EXCEPT !.step = "clean", !.todo = Done]
            ELSE [run EXCEPT !.step = "finish"]
  /\ UNCHANGED tree

DropReceipts ==
  /\ AllDone
  /\ In("delete") \/ In("rmdir")
  /\ receipts' = [i \in Items |-> IF i \in Done THEN None ELSE receipts[i]]
  /\ run' = [run EXCEPT !.step = "clean", !.todo = Done]
  /\ UNCHANGED tree

(* Only what is still the entry put aside is removed.  The backup of a     *)
(* replaced file is compared by inode and size, a deleted file by its hash *)
(* too, and a folder must be empty and its name unused.                    *)
MayClean(i) ==
  LET m == run.memo[i] IN
  CASE In("replace") -> SameFile(m.was, backup[m.path])
    [] In("delete")  -> /\ SameFile(m.was, quarantine[m.path])
                        /\ quarantine[m.path].blob = m.blob
    [] In("rmdir")   -> quarantine[m.path] = Dir /\ disk[m.path] = None

Clean(i) ==
  /\ Now("clean") /\ i \in run.todo
  /\ MayClean(i)
  /\ backup' = [backup EXCEPT ![run.memo[i].path] = None]
  /\ quarantine' = [quarantine EXCEPT ![run.memo[i].path] = None]
  /\ run' = [run EXCEPT !.todo = @ \ {i}]
  /\ UNCHANGED <<disk, temp, receipts>>

(* create and materialize report what comes next; the other phases accept  *)
(* nothing but an empty plan.                                              *)
Report ==
  IF In("create") \/ In("materialize")
  THEN CASE Collision \/ SharedPath -> "failed"
         [] Decision \in Phases -> "another"
         [] Decision = "converged" -> "converged"
         [] OTHER -> "manual"
  ELSE IF Decision = "converged" THEN "converged" ELSE "failed"

Finish ==
  /\ Now("finish") \/ (Now("clean") /\ run.todo = {})
  /\ run' = Idle
  /\ outcome' = Report
  /\ UNCHANGED <<tree, receipts>>

-----------------------------------------------------------------------------
(* Failure.  A check that does not hold, or a call that fails, drops the   *)
(* item in progress with its temporary names and takes back, last first,   *)
(* what the batch did so far.                                              *)
Mutating == run.phase # "idle" /\ ~Now("rollback") /\ ~Now("clean") /\ ~Now("finish")

Refused ==
  \/ ~Passes
  \/ Now("next") /\ \E i \in run.todo : Eligible(i) /\ ~FirstCheck(i)
  \/ Now("next") /\ run.todo = {} /\ ~(AllDone /\ Landed)

(* Mutant: the file promoted but not yet confirmed is not taken back.      *)
GiveUpCompleted ==
  /\ run' = [run EXCEPT !.step = "rollback", !.item = None]
  /\ temp' = IF run.item = None THEN temp ELSE [temp EXCEPT ![Here] = None]
  /\ backup' = IF Now("swap") THEN [backup EXCEPT ![Here] = None] ELSE backup
  /\ UNCHANGED <<disk, quarantine, receipts>>

GiveUp ==
  /\ run' = [run EXCEPT !.step = "rollback", !.item = None,
       !.done = IF run.step \in {"unlink", "confirm"} THEN Append(@, run.item)
                ELSE @]
  /\ temp' = IF run.item = None THEN temp ELSE [temp EXCEPT ![Here] = None]
  /\ backup' = IF Now("swap") THEN [backup EXCEPT ![Here] = None] ELSE backup
  /\ UNCHANGED <<disk, quarantine, receipts>>

Abandon == Mutating /\ Refused /\ GiveUp

CallFails ==
  /\ Mutating /\ ~Refused
  /\ failures < MaxFailures
  /\ failures' = failures + 1
  /\ GiveUp
  /\ UNCHANGED <<catalog, service, observation, outcome, edited, edits,
                 changes, crashes>>

(* What a rollback may take back: a created folder or file goes by its     *)
(* name; a replaced or moved entry only if both sides are what the batch   *)
(* left there.                                                             *)
Reversible(i) ==
  LET m == run.memo[i] IN
  CASE In("create")      -> \/ disk[m.path] = None
                            \/ disk[m.path] = Dir /\ EmptyFolder(m.path)
    [] In("materialize") -> disk[m.path] # Dir
    [] In("replace")     -> /\ SameFile(m.now, disk[m.path])
                            /\ disk[m.path].blob = m.blob
                            /\ SameFile(m.was, backup[m.path])
    [] In("delete") \/ In("rmdir") -> Reachable(m.path) /\ disk[m.path] = None

Before(p) == IF In("replace") THEN backup[p] ELSE quarantine[p]

TakeBack ==
  LET i == Last(run.done)
      p == run.memo[i].path
  IN
  /\ Now("rollback") /\ ~In("verify") /\ run.done # <<>>
  /\ Reversible(i)
  /\ disk' = [disk EXCEPT ![p] =
       IF In("create") \/ In("materialize") THEN None ELSE Before(p)]
  /\ backup' = [backup EXCEPT ![p] = None]
  /\ quarantine' = [quarantine EXCEPT ![p] = None]
  /\ run' = [run EXCEPT !.done = Front(@)]
  /\ UNCHANGED <<temp, receipts>>

(* The run ends with an error: all is taken back, or what remains cannot   *)
(* be, or an entry put aside cannot be removed.                            *)
Stop ==
  /\ \/ /\ Now("rollback")
        /\ ~In("verify") /\ run.done # <<>> => ~Reversible(Last(run.done))
     \/ Now("clean") /\ \E i \in run.todo : ~MayClean(i)
  /\ run' = Idle
  /\ outcome' = "failed"
  /\ UNCHANGED <<tree, receipts>>

Killed ==
  /\ crashes < MaxCrashes
  /\ crashes' = crashes + 1
  /\ run' = Idle
  /\ outcome' = "none"
  /\ UNCHANGED <<catalog, receipts, tree, service, observation, edited,
                 edits, changes, failures>>

Crash == run # Idle /\ Killed

-----------------------------------------------------------------------------
Working ==
  \/ \E i \in Items : \/ MakeFolder(i) \/ Fingerprint(i) \/ HashLocal(i)
                      \/ InspectStale(i) \/ QuarantineFolder(i) \/ Clean(i)
  \/ Fetch \/ Promote \/ Unlink \/ Confirm \/ CompareProvider \/ CompareBaseline
  \/ LinkBackup \/ Swap \/ QuarantineFile
  \/ RecordReceipts \/ DropReceipts \/ Abandon \/ TakeBack

RunStep ==
  \/ Working /\ UNCHANGED <<catalog, service, observation, outcome, tallies>>
  \/ (Finish \/ Stop) /\ UNCHANGED <<catalog, service, observation, tallies>>

Surroundings ==
  \/ \E i \in Items : \/ \E p \in Paths, b \in Blobs \cup {None} : RemoteWrite(i, p, b)
                      \/ RemoteRemove(i)
  \/ UserStep
  \/ CallFails \/ Crash

Next == Begin \/ RunStep \/ ApplyWindow \/ CaptureBaseline \/ Surroundings

Spec == Init /\ [][Next]_vars

-----------------------------------------------------------------------------
(* Every variable of catalog, receipts, directory and run is well typed,   *)
(* and a batch (materialize_selected_root_missing_files and its likes)     *)
(* turns to each planned item once.                                        *)
ConvergenceTypeOK ==
  /\ catalog \in [Items -> Catalogued \cup {None}]
  /\ receipts \in [Items -> Receipts \cup {None}]
  /\ disk \in [Paths -> Files \cup {None, Dir}]
  /\ temp \in [Paths -> Files \cup {None}]
  /\ backup \in [Paths -> Files \cup {None}]
  /\ quarantine \in [Paths -> Files \cup {None, Dir}]
  /\ remote \in [Items -> Object \cup {None}]
  /\ touched \subseteq Items
  /\ observation \in BOOLEAN
  /\ run \in Runs
  /\ IsInjective(run.done)
  /\ ~Now("clean") => Done \cap run.todo = {}
  /\ outcome \in Outcomes
  /\ edited \subseteq Paths
  /\ edits \in 0..MaxEdits /\ changes \in 0..MaxChanges
  /\ failures \in 0..MaxFailures /\ crashes \in 0..MaxCrashes

(* The bytes a file receipt attests exist on disk, under the file's name   *)
(* or beside it, at every instant, also between the steps of               *)
(* apply_selected_root_file_replacement or quarantine_stale_file and after *)
(* a crash there, unless the user changed that path.                       *)
AttestedBytesExist ==
  \A i \in Owned \ Folders :
    LET p == receipts[i].path IN
    p \notin edited =>
      \E x \in {disk[p], backup[p], quarantine[p]} :
        IsFile(x) /\ x.blob = receipts[i].blob

(* A receipt that record_sync_root_file_materializations wrote is current  *)
(* only while it agrees with the provider, up to changes whose window is   *)
(* still to come, although the provider may change between any two calls   *)
(* of the run that recorded it.                                            *)
CurrentReceiptsAgree ==
  \A i \in Owned \ touched :
    receipts[i].state = "current" =>
      remote[i] = [path |-> receipts[i].path, blob |-> receipts[i].blob]

(* Two items never hold receipts for one path, although items move over    *)
(* each other, so DuplicateReceiptPath of plan_receive_only_convergence    *)
(* cannot arise.                                                           *)
OneOwnerPerPath ==
  \A i, j \in Owned : receipts[i].path = receipts[j].path => i = j

(* Between runs, if no process died and nobody else wrote here, every      *)
(* entry on disk is one a receipt attests and nothing else is there: a     *)
(* batch that failed in the middle was taken back as a whole               *)
(* (rollback_file_batch, rollback_created_directories and their likes).    *)
BatchesAreAtomic ==
  run = Idle /\ crashes = 0 /\ edited = {} =>
    /\ \A p \in Paths : {temp[p], backup[p], quarantine[p]} = {None}
    /\ \A p \in Paths : disk[p] # None =>
         \E i \in Owned : receipts[i].path = p
    /\ \A i \in Owned :
         LET x == disk[receipts[i].path] IN
         IF i \in Folders THEN x = Dir
         ELSE IsFile(x) /\ x.blob = receipts[i].blob

(* Nothing an executor writes changes the directory while the observation  *)
(* baseline is in force (invalidate_sync_root_local_observation_baseline   *)
(* comes first), so its own writes are never journaled as a user's.        *)
NoWriteUnderBaseline ==
  [][tree' # tree /\ edits' = edits => ~observation /\ ~observation']_vars

(* The user's bytes that are on disk and that the provider never served,   *)
(* and those saved so late that a path-based call may still take them:     *)
(* after the comparison of verify_stale_local_file_baseline that precedes  *)
(* a replacement, or over a file just created that rollback_created_file   *)
(* removes by its name.                                                    *)
UserWork == {x \in Files : /\ x.stamp > 0 /\ x.blob \notin ProviderBlobs
                           /\ \E p \in Paths :
                                x \in {disk[p], backup[p], quarantine[p]}}

SavedTooLate(x) ==
  \/ /\ In("replace") /\ (Now("swap") \/ Now("clean"))
     /\ \E i \in Items : run.memo[i] # None /\ IsFile(run.memo[i].was)
                           /\ x.stamp > run.memo[i].was.stamp
  \/ In("materialize") /\ Now("rollback")

(* No step of a run, its rollbacks and cleanups included, removes bytes    *)
(* the user saved, except those saved within these windows.                *)
UserWorkSurvives ==
  [][edits' = edits =>
       \A x \in UserWork : x \in UserWork' \/ SavedTooLate(x)]_vars

(* A step of execute_selected_root_unified_convergence_step that reports   *)
(* convergence leaves the directory equal to the provider, up to changes   *)
(* no window has brought and paths the user changed.                       *)
ConvergedMeansEqual ==
  [][outcome' = "converged" /\ outcome # "converged" =>
       /\ \A i \in Items \ touched : remote[i] # None =>
            LET x == disk[remote[i].path] IN
            remote[i].path \in edited
              \/ IF i \in Folders THEN x = Dir
                 ELSE IsFile(x) /\ x.blob = remote[i].blob
       /\ \A p \in Paths \ edited : disk[p] # None =>
            \E i \in Expected : catalog[i].path = p
       /\ \A p \in Paths : {temp[p], backup[p], quarantine[p]} = {None}]_vars

=============================================================================
