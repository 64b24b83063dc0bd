------------------------- MODULE BatchEffects_proofs --------------------------
(***************************************************************************)
(* What a batch does to the directory, in two parts.                       *)
(*                                                                         *)
(* Bytes.  Those a receipt attests are never lost: at every instant they   *)
(* are under the file's name, in its backup or in quarantine.  A report of *)
(* convergence means that the directory is what the catalog says.  And     *)
(* bytes a user saved are not taken, except in the last window of a        *)
(* path-based call.                                                        *)
(*                                                                         *)
(* A batch works on one path per item, and what it keeps there for its     *)
(* rollback is what the receipt says until the receipt is rewritten; by    *)
(* then the new bytes are under the name.  Only hard links could carry a   *)
(* change from one path to another, and the paths share no file.           *)
(*                                                                         *)
(* Atomicity.  A batch happens as a whole or not at all: as long as no     *)
(* process dies and nobody else writes to the directory, it holds between  *)
(* runs exactly what the receipts say, whatever fails in the middle of a   *)
(* batch.                                                                  *)
(*                                                                         *)
(* The directory is a partition of paths: those the batch has not turned   *)
(* to are as the receipts say, those of items done can be taken back, and  *)
(* the path of the item in progress can be dropped.  That folders made can *)
(* be removed again rests on their order, parents first.                   *)
(***************************************************************************)
EXTENDS ReceiveOnlyConvergence_proofs

-----------------------------------------------------------------------------
(* The inductive invariant.                                                *)

(* A batch that works or is taken back, and its items.                     *)
Underway == run.phase # "idle" /\ run.step \in Busy \cup {"next", "rollback"}
Batch    == run.todo \cup Turned

Holds(x, b) == IsFile(x) /\ x.blob = b

(* No file has links at two paths: a save in place changes one path only.   *)
FilesAt(p) == Files \cap {disk[p], temp[p], backup[p], quarantine[p]}

Apart ==
  \A p, q \in Paths : p # q =>
    \A x \in FilesAt(p), y \in FilesAt(q) : x.node # y.node

(* Each item of a batch has a path of its own. Of the files there with a     *)
(* receipt, a batch that makes directories or removes them meets none, one   *)
(* that downloads missing files only those a user removed, and one that      *)
(* replaces or deletes files just its own.                                   *)
BatchKept ==
  Underway =>
    /\ \A i \in Turned : run.memo[i] # None /\ run.memo[i].path = Home(i)
    /\ \A i, j \in Batch : Home(i) = Home(j) => i = j
    /\ \A i \in Batch, j \in Owned \ Folders : receipts[j].path = Home(i) => i = j
    /\ In("create") \/ In("rmdir") => Batch \subseteq Folders
    /\ In("materialize") => \A i \in Batch \cap Owned : Home(i) \in edited
    /\ In("replace") \/ In("delete") =>
         \A i \in Batch : i \in Owned /\ receipts[i].path = Home(i)

(* What is at the path of the item in progress.                             *)
ItemOK(i, m) ==
  /\ In("verify") => m.path \in edited \/ Holds(disk[m.path], m.blob)
  /\ In("replace") /\ run.step \in {"compare", "backup", "swap"} =>
       IsFile(temp[m.path])
  /\ run.step \in {"backup", "swap"} /\ m.path \notin edited =>
       Holds(disk[m.path], receipts[i].blob) /\ temp[m.path].blob = m.blob
  /\ Now("swap") /\ m.path \notin edited => Holds(backup[m.path], receipts[i].blob)

ItemKept == run.step \in Busy => ItemOK(run.item, run.memo[run.item])

(* What is at the path of an item done: the bytes to be attested under the   *)
(* name, and those attested so far where a rollback looks for them.          *)
DoneOK(i, m) ==
  m.path \notin edited =>
    /\ ~Now("rollback") /\ (In("materialize") \/ In("verify") \/ In("replace")) =>
         Holds(disk[m.path], m.blob)
    /\ In("replace") => Holds(backup[m.path], receipts[i].blob)
    /\ In("delete")  => Holds(quarantine[m.path], receipts[i].blob)

DoneKept == Underway => \A i \in Done : DoneOK(i, run.memo[i])

(* What is put aside may go: the attested bytes are under the name.         *)
CleanKept ==
  Now("clean") =>
    \A k \in run.todo, j \in Owned \ Folders :
      receipts[j].path = run.memo[k].path /\ receipts[j].path \notin edited =>
        Holds(disk[receipts[j].path], receipts[j].blob)

-----------------------------------------------------------------------------
(* Steps that leave the directory alone, or all but one path of it.        *)

SameAt(p) == /\ disk'[p] = disk[p] /\ backup'[p] = backup[p]
             /\ quarantine'[p] = quarantine[p]

LEMMA NodesInUse ==
  ASSUME NEW p \in Paths, NEW x \in FilesAt(p)
  PROVE  x.node \in InUse
BY DEF InUse, FilesAt

LEMMA FreshIsUnused == Nodes \ InUse # {} => FreshNode \notin InUse
BY DEF FreshNode

(* Files shift about at one path, or a new one comes there.                *)
LEMMA ApartStays ==
  ASSUME Apart, NEW p,
         \A q \in Paths \ {p} : FilesAt(q)' \subseteq FilesAt(q),
         \A y \in FilesAt(p)' : \/ \E x \in FilesAt(p) : x.node = y.node
                                \/ y.node \notin InUse
  PROVE  Apart'
<1> SUFFICES ASSUME NEW q \in Paths, NEW r \in Paths, q # r,
                    NEW x \in FilesAt(q)', NEW y \in FilesAt(r)'
             PROVE  x.node # y.node
  BY DEF Apart
<1>1. CASE q = p
  BY <1>1, NodesInUse DEF Apart
<1>2. CASE r = p
  BY <1>2, NodesInUse DEF Apart
<1>3. CASE q # p /\ r # p
  BY <1>3 DEF Apart
<1> QED BY <1>1, <1>2, <1>3

LEMMA AttestedStays ==
  ASSUME AttestedBytesExist, UNCHANGED receipts, edited \subseteq edited',
         TablesOK, NEW p, \A q \in Paths \ {p} : SameAt(q),
         \A i \in Owned \ Folders :
           receipts[i].path = p /\ p \in Paths /\ p \notin edited =>
             p \in edited' \/ \E x \in {disk'[p], backup'[p], quarantine'[p]} :
                                Holds(x, receipts[i].blob)
  PROVE  AttestedBytesExist'
<1>1. Owned' = Owned
  BY DEF Owned
<1>2. \A i \in Owned : receipts[i].path \in Paths
  BY DEF TablesOK, Owned, Receipts
<1> SUFFICES ASSUME NEW i \in Owned \ Folders, receipts[i].path \notin edited'
             PROVE  \E x \in {disk'[receipts[i].path], backup'[receipts[i].path],
                              quarantine'[receipts[i].path]} :
                      IsFile(x) /\ x.blob = receipts[i].blob
  BY <1>1 DEF AttestedBytesExist, IsFile
<1>3. CASE receipts[i].path = p
  BY <1>2, <1>3 DEF Holds
<1>4. CASE receipts[i].path # p
  BY <1>2, <1>4 DEF SameAt, AttestedBytesExist
<1> QED BY <1>3, <1>4

LEMMA TreeSteady ==
  ASSUME Apart, UNCHANGED tree
  PROVE  Apart'
BY DEF Apart, FilesAt, tree

LEMMA AttestedSteady ==
  ASSUME AttestedBytesExist, UNCHANGED <<disk, backup, quarantine, edited>>,
         \A i \in Items : /\ receipts'[i] = None <=> receipts[i] = None
                          /\ receipts[i] # None =>
                               /\ receipts'[i].path = receipts[i].path
                               /\ receipts'[i].blob = receipts[i].blob
  PROVE  AttestedBytesExist'
BY DEF AttestedBytesExist, Owned, IsFile

-----------------------------------------------------------------------------
(* The steps of a batch.                                                   *)

LEMMA HomesApart ==
  ASSUME BatchKept, Underway, NEW i \in Batch, NEW j \in Batch, i # j
  PROVE  Home(i) # Home(j)
BY DEF BatchKept

(* The file at the path of an item has that item's receipt or none.        *)
LEMMA OwnFile ==
  ASSUME BatchKept, Underway, NEW i \in Batch, NEW j \in Owned \ Folders,
         receipts[j].path = Home(i)
  PROVE  i = j
BY DEF BatchKept

LEMMA RunItems ==
  ASSUME RunsInv
  PROVE  /\ run \in Runs /\ Done \subseteq Items /\ run.todo \subseteq Items
         /\ Turned \subseteq Items /\ TreeOK /\ TablesOK
<1>1. RunOK /\ TreeOK /\ TablesOK
  BY TypeParts DEF RunsInv
<1> QED BY <1>1 DEF RunOK, Runs, Done, Range, Turned

(* A step on the item k of a batch: the items done before keep what they   *)
(* have, and k gets what its place asks for.                               *)
LEMMA BatchStep ==
  ASSUME RunsInv, RunsInv', BatchKept, DoneKept, Underway,
         UNCHANGED <<catalog, receipts, edited>>,
         run'.phase = run.phase, run'.step \in Busy \cup {"next", "rollback"},
         NEW k, run'.todo \subseteq run.todo, Turned' \subseteq Batch,
         Done' \subseteq Done \cup {k},
         \A j \in Done \ {k} : /\ SameAt(run.memo[j].path)
                               /\ run'.memo[j].path = run.memo[j].path
                               /\ run'.memo[j].blob = run.memo[j].blob,
         Now("rollback") => run'.step = "rollback",
         run'.step = "rollback" => run'.memo = run.memo /\ Turned' \subseteq Turned,
         run'.step \in Busy => run'.item = k /\ ItemOK(k, run.memo[k])',
         k \in Done' => DoneOK(k, run.memo[k])'
  PROVE  BatchKept' /\ ItemKept' /\ DoneKept' /\ CleanKept'
<1>1. run.phase # "idle" /\ Owned' = Owned /\ Batch' \subseteq Batch /\ Batch \subseteq Items
  BY RunItems DEF Underway, Owned, Batch
<1>2. \A phase : In(phase)' = In(phase)
  BY DEF In
<1>3. \A i \in Turned' : i \in Items /\ run'.memo[i] # None /\ run'.memo[i].path = Home(i)
  <2>1. CASE run'.step = "rollback"
    BY <1>1, <2>1 DEF BatchKept, Batch
  <2>2. CASE run'.step # "rollback"
    <3>1. Live'
      BY <1>1, <2>2 DEF Live
    <3>2. \A i \in Turned' : i \in Items
      BY <1>1
    <3> QED BY <3>1, <3>2, PlanSteady DEF RunsInv, BatchInv
  <2> QED BY <2>1, <2>2
<1>4. BatchKept'
  <2>1. \A i \in Batch : Home(i)' = Home(i)
    BY <1>1, PlanSteady
  <2> HIDE DEF Batch, Turned, Home
  <2> QED BY <1>1, <1>2, <1>3, <2>1 DEF BatchKept
<1>5. ItemKept'
  BY DEF ItemKept
<1>6. DoneKept'
  <2>1. SUFFICES ASSUME NEW i \in Done' PROVE DoneOK(i, run.memo[i])'
    BY DEF DoneKept
  <2>2. CASE i = k
    BY <2>1, <2>2
  <2>3. CASE i # k
    <3>1. i \in Done /\ DoneOK(i, run.memo[i])
      BY <2>1, <2>3 DEF DoneKept
    <3>2. /\ SameAt(run.memo[i].path)
          /\ run'.memo[i].path = run.memo[i].path
          /\ run'.memo[i].blob = run.memo[i].blob
      BY <2>3, <3>1
    <3> QED BY <3>1, <3>2, <1>2 DEF DoneOK, SameAt, Now
  <2> QED BY <2>2, <2>3
<1>7. CleanKept'
  BY DEF CleanKept, Now, Busy
<1> QED BY <1>4, <1>5, <1>6, <1>7

(* A run that has no batch in progress has nothing to keep for it.         *)
LEMMA NoBatch ==
  ASSUME ~Underway', run'.step \notin Busy \cup {"clean"}
  PROVE  BatchKept' /\ ItemKept' /\ DoneKept' /\ CleanKept'
BY DEF BatchKept, ItemKept, DoneKept, CleanKept, Now

(* What the steps of a batch keep, but for the attested bytes themselves.  *)
Kept == BatchKept /\ ItemKept /\ DoneKept /\ CleanKept

KeptInv == Apart /\ AttestedBytesExist /\ Kept

LEMMA DoneHomes ==
  ASSUME RunsInv, BatchKept, Underway, NEW k \in Batch
  PROVE  \A j \in Done \ {k} : /\ run.memo[j].path = Home(j)
                               /\ Home(j) # Home(k) /\ Home(j) \in Paths
<1>1. run \in Runs /\ Done \subseteq Turned /\ Done \subseteq Items
  BY RunItems DEF Turned
<1> SUFFICES ASSUME NEW j \in Done \ {k}
             PROVE  run.memo[j].path = Home(j) /\ Home(j) # Home(k) /\ Home(j) \in Paths
  OBVIOUS
<1>2. j \in Batch /\ j \in Turned /\ j \in Items
  BY <1>1 DEF Batch
<1>3. run.memo[j] # None /\ run.memo[j].path = Home(j)
  BY <1>2 DEF BatchKept
<1>4. run.memo[j] \in Memo
  BY <1>1, <1>2, <1>3 DEF Runs
<1> QED BY <1>2, <1>3, <1>4, HomesApart DEF Memo

(* The run turns to an item: a look at it, and nothing written.            *)
LEMMA TurnKept ==
  ASSUME RunsInv, RunsInv', KeptInv, UNCHANGED <<catalog, edited>>,
         NEW i \in Items, Fingerprint(i) \/ HashLocal(i) \/ InspectStale(i)
  PROVE  KeptInv'
<1>1. /\ Now("next") /\ i \in run.todo /\ UNCHANGED <<tree, receipts>>
      /\ run.phase # "idle"
  BY DEF Fingerprint, HashLocal, InspectStale, Turn, In
<1>2. /\ Live /\ Underway /\ BatchKept /\ DoneKept
  BY <1>1 DEF Live, Underway, Now, KeptInv, Kept
<1>3. Apart' /\ AttestedBytesExist'
  BY <1>1, TreeSteady, AttestedSteady DEF KeptInv, tree
<1>4. i \in Batch /\ i \notin Done /\ Home(i) \in Paths /\ run \in Runs
      /\ Turned = Done /\ StepFits(run.phase, run.step)
  BY <1>1, <1>2, BatchHomes, RunItems, TypeParts
     DEF Batch, RunOK, RunsInv, RunInv, Now, Turned, Busy
<1>5. PICK step \in Busy, blob \in Blobs \cup {None}, was \in Files \cup {None} :
        /\ run' = Started(i, step, blob, was)
        /\ step \in {"fetch", "compare", "quarantine"}
        /\ step = "compare" => In("verify") /\ Holds(disk[Home(i)], blob)
        /\ step # "compare" => ~In("verify")
  <2>1. CASE Fingerprint(i)
    <3>1. Announced(i)
      BY <2>1 DEF Fingerprint, Turn, FirstCheck, In
    <3>2. remote[i].blob \in Blobs \cup {None}
      BY <3>1, RunItems DEF Announced, TablesOK, Object
    <3> QED BY <2>1, <3>2 DEF Fingerprint, Busy, In
  <2>2. CASE HashLocal(i)
    <3>1. IsFile(disk[Home(i)])
      BY <2>2 DEF HashLocal, Turn, FirstCheck, In
    <3>2. disk[Home(i)] \in Files /\ disk[Home(i)].blob \in Blobs
      BY <3>1 DEF IsFile, Files
    <3> QED BY <2>2, <3>1, <3>2 DEF HashLocal, Busy, Holds
  <2>3. CASE InspectStale(i)
    <3>1. i \in Owned /\ Home(i) = receipts[i].path
      BY <2>3, <1>2, <1>4 DEF InspectStale, BatchKept
    <3>2. Unchanged(i)
      BY <2>3 DEF InspectStale, Turn, FirstCheck, In
    <3>3. disk[Home(i)] \in Files /\ receipts[i].blob \in Blobs \cup {None}
      BY <3>1, <3>2, RunItems DEF Unchanged, IsFile, TablesOK, Owned, Receipts
    <3> QED BY <2>3, <3>3 DEF InspectStale, Busy, In
  <2> QED BY <2>1, <2>2, <2>3
<1>6. /\ run'.phase = run.phase /\ run'.step = step /\ run'.item = i
      /\ run'.todo = run.todo \ {i} /\ run'.done = run.done
      /\ run'.memo[i].path = Home(i) /\ run'.memo[i].blob = blob
      /\ \A j \in Items \ {i} : run'.memo[j] = run.memo[j]
  <2>1. step \in Steps
    BY DEF Busy, Steps
  <2>2. run' = Started(i, step, blob, was)
    BY <1>5
  <2>3. Home(i) \in Paths /\ run \in Runs
    BY <1>4
  <2> QED BY <2>1, <2>2, <2>3, StartedFacts
<1>7. Done' = Done /\ Turned' = Done \cup {i} /\ Done \subseteq Items
  BY <1>6, RunItems DEF Done, Turned
<1>8. ItemOK(i, run.memo[i])'
  BY <1>1, <1>5, <1>6 DEF ItemOK, In, Now, Holds, tree
<1>9. Kept'
  <2>1. \A j \in Done \ {i} : /\ SameAt(run.memo[j].path)
                              /\ run'.memo[j].path = run.memo[j].path
                              /\ run'.memo[j].blob = run.memo[j].blob
    BY <1>1, <1>6, <1>7 DEF SameAt, tree
  <2>2. Turned' \subseteq Batch /\ run'.todo \subseteq run.todo /\ ~Now("rollback")
        /\ run'.step \in Busy /\ run'.step # "rollback" /\ i \notin Done'
    BY <1>1, <1>4, <1>6, <1>7 DEF Batch, Now, Busy
  <2> HIDE DEF Underway, Batch, Turned, Done
  <2> QED BY <1>1, <1>2, <1>6, <1>7, <1>8, <2>1, <2>2, BatchStep DEF Kept
<1> QED BY <1>3, <1>9 DEF KeptInv

(* Folders made or moved aside: no file with a receipt is at their paths.  *)
LEMMA FolderKept ==
  ASSUME RunsInv, RunsInv', KeptInv, UNCHANGED <<catalog, edited>>,
         NEW i \in Items, MakeFolder(i) \/ QuarantineFolder(i)
  PROVE  KeptInv'
<1>1. /\ Now("next") /\ i \in run.todo /\ UNCHANGED receipts
      /\ In("create") \/ In("rmdir")
      /\ FirstCheck(i)
  BY DEF MakeFolder, QuarantineFolder, Turn, Aside
<1>2. /\ Live /\ Underway /\ BatchKept /\ DoneKept /\ Apart /\ AttestedBytesExist
  BY <1>1 DEF Live, Underway, Now, KeptInv, Kept, In
<1>3. i \in Batch /\ i \notin Done /\ Home(i) \in Paths /\ run \in Runs
      /\ Turned = Done /\ Batch \subseteq Folders /\ TablesOK
  BY <1>1, <1>2, BatchHomes, RunItems, TypeParts
     DEF Batch, RunOK, RunsInv, Now, Turned, Busy, BatchKept
<1>4. PICK p \in Paths : p = Home(i)
  BY <1>3
<1>5. \A q \in Paths \ {p} : SameAt(q) /\ temp'[q] = temp[q]
  BY <1>4, RunItems DEF MakeFolder, QuarantineFolder, Aside, SameAt, TreeOK
<1>6. FilesAt(p)' \subseteq FilesAt(p)
  <2>1. Dir \notin Files /\ None \notin Files
    BY RecordsAreNotNone
  <2>2. /\ disk'[p] \in {None, Dir} /\ temp'[p] = temp[p] /\ backup'[p] = backup[p]
        /\ quarantine'[p] \in {quarantine[p], Dir}
    <3>1. CASE MakeFolder(i)
      BY <3>1, <1>4, RunItems DEF MakeFolder, TreeOK
    <3>2. CASE QuarantineFolder(i)
      <4>1. disk[p] = Dir
        BY <3>2, <1>4 DEF QuarantineFolder, Turn, FirstCheck, In
      <4> QED BY <3>2, <4>1, <1>4, RunItems DEF QuarantineFolder, Aside, TreeOK
    <3> QED BY <3>1, <3>2
  <2> QED BY <2>1, <2>2 DEF FilesAt
<1>7. Apart'
  <2>1. \A q \in Paths \ {p} : FilesAt(q)' \subseteq FilesAt(q)
    BY <1>5 DEF FilesAt, SameAt
  <2> QED BY <1>2, <1>6, <2>1, ApartStays
<1>8. AttestedBytesExist'
  <2>1. \A j \in Owned \ Folders : receipts[j].path # p
    BY <1>2, <1>3, <1>4, OwnFile
  <2> QED BY <1>1, <1>2, <1>3, <1>5, <2>1, AttestedStays
<1>9. /\ run'.phase = run.phase /\ run'.step = "next" /\ run'.todo \subseteq run.todo
      /\ Done' \subseteq Done \cup {i}
      /\ \A j \in Items \ {i} : run'.memo[j] = run.memo[j]
  <2> DEFINE r == Started(i, "next", None, None)
  <2>1. /\ r \in Runs /\ r.phase = run.phase /\ r.step = "next"
        /\ r.todo = run.todo \ {i} /\ r.done = run.done
        /\ \A j \in Items \ {i} : r.memo[j] = run.memo[j]
    BY <1>3, StartedFacts DEF Steps
  <2>2. run' = Completed(r, i) \/ run' = [r EXCEPT !.item = None]
    BY DEF MakeFolder, QuarantineFolder
  <2> HIDE DEF r
  <2>3. CASE run' = Completed(r, i)
    BY <2>1, <2>3, CompletedFacts DEF Done
  <2>4. CASE run' = [r EXCEPT !.item = None]
    BY <2>1, <2>4 DEF Done, Runs
  <2> QED BY <2>2, <2>3, <2>4
<1>10. Done \subseteq Items /\ Turned' = Done'
  BY <1>9, RunItems DEF Turned, Busy
<1>11. Kept'
  <2>1. \A j \in Done \ {i} : /\ SameAt(run.memo[j].path)
                              /\ run'.memo[j].path = run.memo[j].path
                              /\ run'.memo[j].blob = run.memo[j].blob
    BY <1>2, <1>3, <1>4, <1>5, <1>9, <1>10, DoneHomes
  <2>2. Turned' \subseteq Batch /\ ~Now("rollback") /\ run'.step # "rollback"
        /\ run'.step \notin Busy /\ run'.step \in Busy \cup {"next", "rollback"}
    BY <1>1, <1>3, <1>9, <1>10 DEF Batch, Now, Busy
  <2>3. DoneOK(i, run.memo[i])'
    BY <1>1, <1>9 DEF DoneOK, In
  <2> HIDE DEF Underway, Batch, Turned, Done
  <2> QED BY <1>1, <1>2, <1>9, <2>1, <2>2, <2>3, BatchStep DEF Kept
<1> QED BY <1>7, <1>8, <1>11 DEF KeptInv

-----------------------------------------------------------------------------
(* The steps on the item in progress, k at path p.                         *)

AtWork(k, p) ==
  /\ run.step \in Busy /\ StepFits(run.phase, run.step)
  /\ Underway /\ BatchKept /\ DoneKept /\ Apart /\ AttestedBytesExist
  /\ k = run.item /\ k \in Batch /\ k \in Items /\ k \notin Done
  /\ p \in Paths /\ p = Home(k) /\ p = Here
  /\ run.memo[k].path = p /\ ItemOK(k, run.memo[k])

LEMMA ItemFacts ==
  ASSUME RunsInv, KeptInv, run.step \in Busy
  PROVE  AtWork(run.item, Here)
<1>1. /\ BatchKept /\ DoneKept /\ Apart /\ AttestedBytesExist
      /\ ItemOK(run.item, run.memo[run.item])
  BY DEF KeptInv, Kept, ItemKept
<1>2. Underway /\ run.item \in Batch
  BY BusyFacts DEF Underway, Batch
<1>3. StepFits(run.phase, run.step)
  BY DEF RunsInv, RunInv
<1> QED BY <1>1, <1>2, <1>3, BusyFacts DEF AtWork

LEMMA ItemGoesOn ==
  ASSUME RunsInv, RunsInv', NEW k, NEW p, AtWork(k, p),
         UNCHANGED <<catalog, receipts, edited>>,
         \A q \in Paths \ {p} : SameAt(q),
         NEW step \in Busy, Keeping(run', step), ItemOK(k, run.memo[k])'
  PROVE  Kept'
<1>1. /\ run'.phase = run.phase /\ run'.step = step /\ run'.item = k
      /\ run'.todo = run.todo /\ Done' = Done /\ Turned' = Turned
      /\ Done \subseteq Turned
  BY DEF AtWork, Keeping, Done, Turned
<1>2. \A j \in Done \ {k} : /\ SameAt(run.memo[j].path)
                            /\ run'.memo[j].path = run.memo[j].path
                            /\ run'.memo[j].blob = run.memo[j].blob
  <2>1. \A j \in Done \ {k} : run.memo[j].path # p /\ run.memo[j].path \in Paths
    <3>1. BatchKept /\ Underway /\ k \in Batch /\ p = Home(k)
      BY DEF AtWork
    <3> QED BY <3>1, DoneHomes
  <2>2. \A j \in Done \ {k} : /\ run'.memo[j].path = run.memo[j].path
                              /\ run'.memo[j].blob = run.memo[j].blob
    BY <1>1 DEF Keeping
  <2> QED BY <2>1, <2>2
<1>3. /\ step \in Busy \cup {"next", "rollback"} /\ step # "rollback"
      /\ ~Now("rollback") /\ Turned' \subseteq Batch /\ k \notin Done'
  BY <1>1 DEF Busy, Now, AtWork, Batch
<1> HIDE DEF Turned, Done
<1> QED BY <1>1, <1>2, <1>3, BatchStep DEF AtWork, Kept

LEMMA ItemIsDone ==
  ASSUME RunsInv, RunsInv', NEW k, NEW p, AtWork(k, p),
         UNCHANGED <<catalog, receipts, edited>>,
         \A q \in Paths \ {p} : SameAt(q),
         NEW r, Through(r), run' = Completed(r, k), DoneOK(k, run.memo[k])'
  PROVE  Kept'
<1>1. /\ run'.phase = run.phase /\ run'.step = "next"
      /\ run'.todo = run.todo /\ run'.memo = r.memo /\ Done' = Done \cup {k}
      /\ Done \subseteq Turned /\ k \in Turned
  BY CompletedFacts DEF Through, AtWork, Done, Turned
<1>2. \A j \in Done \ {k} : /\ SameAt(run.memo[j].path)
                            /\ run'.memo[j].path = run.memo[j].path
                            /\ run'.memo[j].blob = run.memo[j].blob
  <2>1. \A j \in Done \ {k} : run.memo[j].path # p /\ run.memo[j].path \in Paths
    <3>1. BatchKept /\ Underway /\ k \in Batch /\ p = Home(k)
      BY DEF AtWork
    <3> QED BY <3>1, DoneHomes
  <2>2. \A j \in Done \ {k} : /\ run'.memo[j].path = run.memo[j].path
                              /\ run'.memo[j].blob = run.memo[j].blob
    BY <1>1 DEF Through
  <2> QED BY <2>1, <2>2
<1>3. /\ "next" \in Busy \cup {"next", "rollback"} /\ "next" # "rollback"
      /\ "next" \notin Busy /\ ~Now("rollback")
  BY DEF Busy, Now, AtWork
<1>4. Turned' \subseteq Batch
  BY <1>1, <1>3 DEF Turned, Batch
<1> HIDE DEF Turned, Done
<1> QED BY <1>1, <1>2, <1>3, <1>4, BatchStep DEF AtWork, Kept

(* The file in progress has that item's receipt.                           *)
LEMMA ItemBytes ==
  ASSUME RunsInv, NEW k, NEW p, AtWork(k, p), UNCHANGED <<receipts, edited>>,
         \A q \in Paths \ {p} : SameAt(q),
         k \in Owned \ Folders /\ receipts[k].path = p /\ p \notin edited =>
           \E x \in {disk'[p], backup'[p], quarantine'[p]} : Holds(x, receipts[k].blob)
  PROVE  AttestedBytesExist'
<1>1. \A j \in Owned \ Folders : receipts[j].path = p => j = k
  BY OwnFile DEF AtWork
<1>2. TablesOK
  BY RunItems
<1> QED BY <1>1, <1>2, AttestedStays DEF AtWork

LEMMA FetchKept ==
  ASSUME RunsInv, RunsInv', KeptInv, UNCHANGED <<catalog, edited>>, Fetch
  PROVE  KeptInv'
<1>1. run.step \in Busy /\ Now("fetch")
  BY DEF Fetch, Now, Busy
<1>2. PICK k, p : k = run.item /\ p = Here
  OBVIOUS
<1>3. AtWork(k, p)
  BY <1>1, <1>2, ItemFacts
<1>4. In("materialize") \/ In("replace")
  BY <1>1, <1>3 DEF AtWork, StepFits, Now, In
<1>5. /\ UNCHANGED <<disk, backup, quarantine, receipts>>
      /\ \E x \in Files : temp' = [temp EXCEPT ![p] = x] /\ x.node \notin InUse
  <2> DEFINE x == [node |-> FreshNode, blob |-> remote[k].blob, stamp |-> 0]
  <2>1. k \in Present
    BY <1>1, <1>2, <1>3 DEF Fetch, Passes, Announced, Present, Now, AtWork
  <2>2. k \notin Folders
    BY <1>1, <1>2, <1>4, BusyFacts, BatchHomes DEF In
  <2>3. remote[k].blob \in Blobs
    BY <2>1, <2>2, RunAssumption DEF RunsInv, RemoteInv
  <2>4. FreshNode \in Nodes /\ FreshNode \notin InUse
    BY FreshNodeType, FreshIsUnused DEF Fetch
  <2>5. x \in Files /\ x.node \notin InUse
    BY <2>3, <2>4, PlanAssumption DEF Files
  <2>6. temp' = [temp EXCEPT ![p] = x]
    BY <1>2 DEF Fetch
  <2> HIDE DEF x
  <2> QED BY <2>5, <2>6 DEF Fetch
<1>6. PICK step \in Busy : step \in {"promote", "compare"} /\ Keeping(run', step)
  <2>1. "promote" \in Busy /\ "compare" \in Busy /\ Busy \subseteq Steps
    BY DEF Busy, Steps
  <2>2. run' = [run EXCEPT !.step = "promote"] \/ run' = [run EXCEPT !.step = "compare"]
    BY DEF Fetch
  <2> QED BY <1>1, <2>1, <2>2, StepNoted
<1>7. Apart'
  <2>1. \A q \in Paths \ {p} : FilesAt(q)' \subseteq FilesAt(q)
    BY <1>5, RunItems DEF FilesAt, TreeOK
  <2>2. ASSUME NEW y \in FilesAt(p)'
        PROVE  (\E x \in FilesAt(p) : x.node = y.node) \/ y.node \notin InUse
    BY <1>3, <1>5, <2>2, RunItems DEF FilesAt, TreeOK, AtWork
  <2> QED BY <1>3, <2>1, <2>2, ApartStays DEF AtWork
<1>8. AttestedBytesExist'
  BY <1>3, <1>5, AttestedSteady DEF AtWork
<1>9. ItemOK(k, run.memo[k])'
  <2>1. /\ run'.phase = run.phase /\ run'.step = step
        /\ run'.memo[k].path = p /\ k \in Turned
    BY <1>2, <1>3, <1>6, BusyFacts, <1>1 DEF Keeping, AtWork
  <2>2. IsFile(temp[p])'
    BY <1>3, <1>5, RunItems DEF AtWork, TreeOK, IsFile
  <2> QED BY <1>4, <1>6, <2>1, <2>2 DEF ItemOK, Now, In
<1>10. Kept'
  BY <1>3, <1>5, <1>6, <1>9, ItemGoesOn DEF SameAt
<1> QED BY <1>7, <1>8, <1>10 DEF KeptInv

(* One file of a path shifts to another name there.                        *)
LEMMA FilesShift ==
  ASSUME RunsInv, Apart, NEW p \in Paths,
         \A q \in Paths \ {p} : SameAt(q) /\ temp'[q] = temp[q],
         {disk'[p], temp'[p], backup'[p], quarantine'[p]}
           \subseteq {disk[p], temp[p], backup[p], quarantine[p], None}
  PROVE  Apart'
<1>1. \A q \in Paths \ {p} : FilesAt(q)' \subseteq FilesAt(q)
  BY DEF FilesAt, SameAt
<1>2. FilesAt(p)' \subseteq FilesAt(p)
  BY RecordsAreNotNone DEF FilesAt
<1> QED BY <1>1, <1>2, ApartStays

LEMMA PromoteKept ==
  ASSUME RunsInv, RunsInv', KeptInv, UNCHANGED <<catalog, edited>>, Promote \/ Unlink
  PROVE  KeptInv'
<1>1. run.step \in {"promote", "unlink"} /\ run.step \in Busy
  BY DEF Promote, Unlink, Now, Busy
<1>2. PICK k, p : k = run.item /\ p = Here
  OBVIOUS
<1>3. AtWork(k, p)
  BY <1>1, <1>2, ItemFacts
<1>4. In("materialize")
  BY <1>1, <1>3 DEF AtWork, StepFits, In
<1>5. /\ UNCHANGED <<backup, quarantine, receipts>>
      /\ \/ disk[p] = None /\ disk' = [disk EXCEPT ![p] = temp[p]] /\ temp' = temp
         \/ disk' = disk /\ temp' = [temp EXCEPT ![p] = None]
  BY <1>2 DEF Promote, Unlink, Passes, Now, Here
<1>6. /\ \A q \in Paths \ {p} : SameAt(q) /\ temp'[q] = temp[q]
      /\ {disk'[p], temp'[p], backup'[p], quarantine'[p]}
           \subseteq {disk[p], temp[p], backup[p], quarantine[p], None}
      /\ disk[p] = None \/ disk'[p] = disk[p]
      /\ p \in Paths /\ temp[p] \in Files \cup {None}
  <2>1. p \in Paths /\ TreeOK
    BY <1>3, RunItems DEF AtWork
  <2> QED BY <1>5, <2>1 DEF TreeOK, SameAt
<1>7. PICK step \in Busy : step \in {"unlink", "confirm"} /\ Keeping(run', step)
  <2>1. "unlink" \in Busy /\ "confirm" \in Busy /\ Busy \subseteq Steps
    BY DEF Busy, Steps
  <2>2. \/ run' = [run EXCEPT !.step = "unlink", !.memo[run.item].now = temp[Here]]
        \/ run' = [run EXCEPT !.step = "confirm"]
    BY DEF Promote, Unlink
  <2>3. temp[Here] \in Files \cup {None}
    BY <1>2, <1>6
  <2>4. CASE run' = [run EXCEPT !.step = "confirm"]
    BY <1>1, <2>1, <2>4, StepNoted
  <2>5. CASE run' = [run EXCEPT !.step = "unlink", !.memo[run.item].now = temp[Here]]
    <3>1. Keeping(run', "unlink")
      BY <1>1, <2>1, <2>3, <2>5, NowNoted, Zenon
    <3> QED BY <2>1, <3>1
  <2> QED BY <2>2, <2>4, <2>5
<1>8. Apart'
  BY <1>3, <1>6, FilesShift DEF AtWork
<1>9. AttestedBytesExist'
  <2>1. ASSUME k \in Owned \ Folders, receipts[k].path = p, p \notin edited
        PROVE  \E x \in {disk'[p], backup'[p], quarantine'[p]} : Holds(x, receipts[k].blob)
    <3>1. PICK x \in {disk[p], backup[p], quarantine[p]} : IsFile(x) /\ x.blob = receipts[k].blob
      BY <1>3, <2>1 DEF AtWork, AttestedBytesExist
    <3>2. x # None
      BY <3>1, RecordsAreNotNone DEF IsFile
    <3> QED BY <1>5, <1>6, <3>1, <3>2 DEF Holds
  <2> QED BY <1>3, <1>5, <1>6, <2>1, ItemBytes
<1>10. ItemOK(k, run.memo[k])'
  BY <1>4, <1>7 DEF ItemOK, Keeping, Now, In
<1>11. Kept'
  BY <1>3, <1>5, <1>6, <1>7, <1>10, ItemGoesOn
<1> QED BY <1>8, <1>9, <1>11 DEF KeptInv

LEMMA ConfirmKept ==
  ASSUME RunsInv, RunsInv', KeptInv, UNCHANGED <<catalog, edited>>,
         Confirm \/ CompareProvider
  PROVE  KeptInv'
<1>1. run.step \in {"confirm", "compare"} /\ run.step \in Busy
      /\ UNCHANGED <<tree, receipts>> /\ run' = Completed(run, run.item)
  BY DEF Confirm, CompareProvider, Now, Busy
<1>2. PICK k, p : k = run.item /\ p = Here
  OBVIOUS
<1>3. AtWork(k, p)
  BY <1>1, <1>2, ItemFacts
<1>4. Apart' /\ AttestedBytesExist'
  BY <1>1, <1>3, TreeSteady, AttestedSteady DEF AtWork, tree
<1>5. Through(run)
  <2>1. \A i \in Turned : run.memo[i] # None
    BY <1>3 DEF AtWork, BatchKept
  <2> QED BY <2>1, RunItems DEF Through
<1>6. run'.phase = run.phase /\ run'.step = "next" /\ run'.memo = run.memo
  BY <1>1, <1>2, <1>3, CompletedFacts, RunItems DEF AtWork
<1>7. /\ In("materialize") \/ In("verify")
      /\ p \notin edited => Holds(disk[p], run.memo[k].blob)
  <2>1. CASE Confirm
    <3>1. In("materialize")
      BY <2>1, <1>3 DEF Confirm, Now, AtWork, StepFits, In
    <3> QED BY <2>1, <3>1, <1>2 DEF Confirm, Passes, Now, Here, Holds
  <2>2. CASE CompareProvider
    BY <2>2, <1>3 DEF CompareProvider, AtWork, ItemOK
  <2> QED BY <2>1, <2>2
<1>8. DoneOK(k, run.memo[k])'
  BY <1>1, <1>3, <1>6, <1>7 DEF DoneOK, In, AtWork, tree
<1>9. Kept'
  BY <1>1, <1>2, <1>3, <1>5, <1>8, ItemIsDone DEF SameAt, tree
<1> QED BY <1>4, <1>9 DEF KeptInv

(* A replacement is compared and its old file linked: the receipt is about *)
(* the file under the name, then also about its backup.                    *)
LEMMA BackupKept ==
  ASSUME RunsInv, RunsInv', KeptInv, UNCHANGED <<catalog, edited>>,
         CompareBaseline \/ LinkBackup
  PROVE  KeptInv'
<1>1. run.step \in {"compare", "backup"} /\ run.step \in Busy
  BY DEF CompareBaseline, LinkBackup, Now, Busy
<1>2. PICK k, p : k = run.item /\ p = Here
  OBVIOUS
<1>3. AtWork(k, p)
  BY <1>1, <1>2, ItemFacts
<1>4. In("replace") /\ k \in Owned /\ receipts[k].path = p
  <2>1. In("replace")
    BY <1>3 DEF CompareBaseline, LinkBackup, AtWork, StepFits, In, Now
  <2> QED BY <2>1, <1>3 DEF AtWork, BatchKept
<1>5. /\ UNCHANGED <<disk, temp, quarantine, receipts>>
      /\ backup' = backup \/ (LinkBackup /\ backup' = [backup EXCEPT ![p] = disk[p]])
  BY <1>2 DEF CompareBaseline, LinkBackup, tree
<1>6. /\ IsFile(disk[p]) /\ IsFile(temp[p])
      /\ p \notin edited => Holds(disk[p], receipts[k].blob) /\ temp[p].blob = run.memo[k].blob
  <2>1. CASE CompareBaseline
    <3>1. Unchanged(k) /\ temp[p].blob = run.memo[k].blob
      BY <1>2, <2>1 DEF CompareBaseline, Passes, Now, In, Here
    <3>2. IsFile(temp[p])
      BY <1>3, <2>1 DEF CompareBaseline, Now, AtWork, ItemOK
    <3> QED BY <1>4, <3>1, <3>2 DEF Unchanged, Holds
  <2>2. CASE LinkBackup
    <3>1. IsFile(disk[Here])
      BY <2>2 DEF LinkBackup, Passes, Now, SameFile, IsFile, Here
    <3> QED BY <1>2, <1>3, <1>4, <2>2, <3>1 DEF LinkBackup, Now, AtWork, ItemOK, Holds
  <2> QED BY <2>1, <2>2
<1>7. /\ \A q \in Paths \ {p} : SameAt(q) /\ temp'[q] = temp[q]
      /\ {disk'[p], temp'[p], backup'[p], quarantine'[p]}
           \subseteq {disk[p], temp[p], backup[p], quarantine[p], None}
      /\ disk'[p] = disk[p] /\ temp'[p] = temp[p]
      /\ LinkBackup => backup'[p] = disk[p]
      /\ p \in Paths
  <2>1. p \in Paths /\ TreeOK
    BY <1>3, RunItems DEF AtWork
  <2>2. LinkBackup => backup' = [backup EXCEPT ![p] = disk[p]]
    BY <1>2 DEF LinkBackup
  <2> QED BY <1>5, <2>1, <2>2 DEF TreeOK, SameAt
<1>8. PICK step \in Busy : /\ step \in {"backup", "swap"} /\ Keeping(run', step)
                           /\ step = "swap" => LinkBackup
  <2>1. "backup" \in Busy /\ "swap" \in Busy /\ Busy \subseteq Steps /\ "backup" # "swap"
    BY DEF Busy, Steps
  <2>2. CASE LinkBackup
    <3>1. run' = [run EXCEPT !.step = "swap"]
      BY <2>2 DEF LinkBackup
    <3> QED BY <1>1, <2>1, <2>2, <3>1, StepNoted
  <2>3. CASE CompareBaseline
    <3>1. disk[Here] \in Files \cup {None}
      BY <1>2, <1>6 DEF IsFile
    <3>2. run' = [run EXCEPT !.step = "backup", !.memo[run.item].was = disk[Here]]
      BY <2>3 DEF CompareBaseline
    <3>3. Keeping(run', "backup")
      BY <1>1, <2>1, <3>1, <3>2, WasNoted, Zenon
    <3> QED BY <2>1, <3>3
  <2> QED BY <2>2, <2>3
<1>9. Apart'
  BY <1>3, <1>7, FilesShift DEF AtWork
<1>10. AttestedBytesExist'
  <2>1. p \notin edited => \E x \in {disk'[p], backup'[p], quarantine'[p]} : Holds(x, receipts[k].blob)
    BY <1>6, <1>7
  <2> QED BY <1>3, <1>5, <1>7, <2>1, ItemBytes
<1>11. ItemOK(k, run.memo[k])'
  <2>1. /\ run'.phase = run.phase /\ run'.step = step
        /\ run'.memo[k].path = p /\ run'.memo[k].blob = run.memo[k].blob
    BY <1>1, <1>2, <1>3, <1>8, BusyFacts DEF Keeping, AtWork
  <2> QED BY <1>4, <1>5, <1>6, <1>7, <1>8, <2>1 DEF ItemOK, Now, In, Holds
<1>12. Kept'
  BY <1>3, <1>5, <1>7, <1>8, <1>11, ItemGoesOn
<1> QED BY <1>9, <1>10, <1>12 DEF KeptInv

(* The old file leaves its name, for its backup or for quarantine.         *)
LEMMA SwapKept ==
  ASSUME RunsInv, RunsInv', KeptInv, UNCHANGED <<catalog, edited>>, Swap
  PROVE  KeptInv'
<1>1. Now("swap") /\ run.step \in Busy /\ UNCHANGED <<backup, quarantine, receipts>>
  BY DEF Swap, Now, Busy
<1>2. PICK k, p : k = run.item /\ p = Here
  OBVIOUS
<1>3. AtWork(k, p) /\ TreeOK
  BY <1>1, <1>2, ItemFacts, RunItems
<1>4. In("replace")
  BY <1>1, <1>3 DEF AtWork, StepFits, In, Now
<1>5. /\ disk' = [disk EXCEPT ![p] = temp[p]] /\ temp' = [temp EXCEPT ![p] = None]
      /\ p \in Paths
  BY <1>2, <1>3 DEF Swap, AtWork
<1>6. /\ \A q \in Paths \ {p} : SameAt(q) /\ temp'[q] = temp[q]
      /\ disk'[p] = temp[p] /\ temp'[p] = None
      /\ backup'[p] = backup[p] /\ quarantine'[p] = quarantine[p]
  BY <1>1, <1>3, <1>5 DEF TreeOK, SameAt
<1>7. p \notin edited => Holds(backup[p], receipts[k].blob) /\ Holds(temp[p], run.memo[k].blob)
  BY <1>1, <1>3, <1>4 DEF AtWork, ItemOK, Holds, Now
<1>8. PICK r : r = [run EXCEPT !.memo[run.item].now = temp[Here]]
  OBVIOUS
<1>9. Through(r) /\ run' = Completed(r, k)
  <2>1. run \in Runs /\ run.step \in Steps /\ temp[Here] \in Files \cup {None}
    BY <1>2, <1>3, <1>5, RunItems DEF Runs, TreeOK
  <2>2. r = [run EXCEPT !.step = run.step, !.memo[run.item].now = temp[Here]]
    BY <1>8, <2>1 DEF Runs
  <2>3. Keeping(r, run.step)
    BY <1>1, <2>1, <2>2, NowNoted, Zenon
  <2>4. run' = Completed(r, k)
    BY <1>2, <1>8 DEF Swap
  <2> QED BY <2>3, <2>4 DEF Through, Keeping
<1>10. Apart'
  <2>1. {disk'[p], temp'[p], backup'[p], quarantine'[p]}
          \subseteq {disk[p], temp[p], backup[p], quarantine[p], None}
    BY <1>6
  <2> QED BY <1>3, <1>5, <1>6, <2>1, FilesShift DEF AtWork
<1>11. AttestedBytesExist'
  BY <1>1, <1>3, <1>6, <1>7, ItemBytes
<1>12. DoneOK(k, run.memo[k])'
  <2>1. run'.phase = run.phase /\ run'.memo = r.memo
    BY <1>3, <1>9, CompletedFacts DEF Through, AtWork
  <2>2. k \in Turned
    BY <1>1, <1>2, BusyFacts
  <2>3. run'.memo[k].path = p /\ run'.memo[k].blob = run.memo[k].blob
    BY <1>3, <1>9, <2>1, <2>2 DEF Through, AtWork
  <2> QED BY <1>1, <1>4, <1>6, <1>7, <2>1, <2>3 DEF DoneOK, In
<1>13. Kept'
  BY <1>1, <1>3, <1>6, <1>9, <1>12, ItemIsDone
<1> QED BY <1>10, <1>11, <1>13 DEF KeptInv

LEMMA QuarantineKept ==
  ASSUME RunsInv, RunsInv', KeptInv, UNCHANGED <<catalog, edited>>, QuarantineFile
  PROVE  KeptInv'
<1>1. Now("quarantine") /\ run.step \in Busy /\ UNCHANGED <<temp, backup, receipts>>
      /\ run' = Completed(run, run.item)
  BY DEF QuarantineFile, Aside, Now, Busy
<1>2. PICK k, p : k = run.item /\ p = Here
  OBVIOUS
<1>3. AtWork(k, p) /\ TreeOK
  BY <1>1, <1>2, ItemFacts, RunItems
<1>4. In("delete") /\ receipts[k].path = p
  <2>1. In("delete")
    BY <1>1, <1>3 DEF AtWork, StepFits, In, Now
  <2> QED BY <2>1, <1>3 DEF AtWork, BatchKept
<1>5. /\ quarantine' = [quarantine EXCEPT ![p] = disk[p]]
      /\ disk' = [disk EXCEPT ![p] = None] /\ p \in Paths
  BY <1>2, <1>3 DEF QuarantineFile, Aside, AtWork
<1>6. /\ \A q \in Paths \ {p} : SameAt(q) /\ temp'[q] = temp[q]
      /\ disk'[p] = None /\ quarantine'[p] = disk[p]
      /\ temp'[p] = temp[p] /\ backup'[p] = backup[p]
  BY <1>1, <1>3, <1>5 DEF TreeOK, SameAt
<1>7. Holds(quarantine'[p], receipts[k].blob)
  <2>1. Unchanged(k)
    BY <1>2 DEF QuarantineFile, Passes, Now
  <2> QED BY <1>4, <1>6, <2>1 DEF Unchanged, Holds
<1>8. Through(run)
  <2>1. \A i \in Turned : run.memo[i] # None
    BY <1>3 DEF AtWork, BatchKept
  <2> QED BY <2>1, RunItems DEF Through
<1>9. run'.phase = run.phase /\ run'.memo = run.memo
  BY <1>1, <1>2, <1>3, CompletedFacts, RunItems DEF AtWork
<1>10. Apart'
  <2>1. {disk'[p], temp'[p], backup'[p], quarantine'[p]}
          \subseteq {disk[p], temp[p], backup[p], quarantine[p], None}
    BY <1>6
  <2> QED BY <1>3, <1>5, <1>6, <2>1, FilesShift DEF AtWork
<1>11. AttestedBytesExist'
  BY <1>1, <1>3, <1>6, <1>7, ItemBytes
<1>12. DoneOK(k, run.memo[k])'
  BY <1>1, <1>3, <1>4, <1>6, <1>7, <1>9 DEF DoneOK, In, AtWork
<1>13. Kept'
  BY <1>1, <1>2, <1>3, <1>6, <1>8, <1>12, ItemIsDone
<1> QED BY <1>10, <1>11, <1>13 DEF KeptInv

-----------------------------------------------------------------------------
(* The end of a batch, and the way back.                                   *)

(* The receipts are rewritten in one step: the new bytes are under the     *)
(* names by then.                                                          *)
LEMMA RecordKept ==
  ASSUME RunsInv, KeptInv, UNCHANGED <<catalog, edited>>, RecordReceipts
  PROVE  KeptInv'
<1>1. /\ AllDone /\ UNCHANGED tree /\ run.phase # "idle"
      /\ In("create") \/ In("materialize") \/ In("verify") \/ In("replace")
  BY DEF RecordReceipts, In
<1>2. /\ Underway /\ BatchKept /\ DoneKept /\ Apart /\ AttestedBytesExist
      /\ run \in Runs /\ Done \subseteq Items /\ TablesOK
  BY <1>1, RunItems DEF Underway, AllDone, Now, KeptInv, Kept
<1>3. \A i \in Done : /\ i \in Batch /\ run.memo[i] \in Memo
                      /\ run.memo[i].path = Home(i) /\ DoneOK(i, run.memo[i])
  <2>1. Done \subseteq Turned /\ Done \subseteq Batch
    BY DEF Turned, Batch
  <2>2. \A i \in Done : run.memo[i] # None /\ run.memo[i].path = Home(i)
    BY <1>2, <2>1 DEF BatchKept
  <2>3. \A i \in Done : run.memo[i] \in Memo
    BY <1>2, <2>2 DEF Runs
  <2> QED BY <1>2, <2>1, <2>2, <2>3 DEF DoneKept
<1>4. receipts' = [i \in Items |->
        IF i \in Done THEN [path |-> run.memo[i].path, state |-> "current",
                            blob |-> run.memo[i].blob]
        ELSE receipts[i]]
  BY DEF RecordReceipts
<1>5. ASSUME NEW i \in Owned' \ Folders, receipts'[i].path \notin edited, i \in Done
      PROVE  Holds(disk[receipts'[i].path], receipts'[i].blob)
  <2>1. receipts'[i].path = run.memo[i].path /\ receipts'[i].blob = run.memo[i].blob
    BY <1>2, <1>4, <1>5
  <2>2. ~In("create")
    BY <1>2, <1>3, <1>5 DEF BatchKept
  <2> QED BY <1>1, <1>3, <1>5, <2>1, <2>2 DEF DoneOK, AllDone, Now, In
<1>6. ASSUME NEW i \in Owned' \ Folders, i \notin Done
      PROVE  i \in Owned \ Folders /\ receipts'[i] = receipts[i]
  BY <1>4, <1>6 DEF Owned
<1>7. AttestedBytesExist'
  <2>1. SUFFICES ASSUME NEW i \in Owned' \ Folders, receipts'[i].path \notin edited
                 PROVE  \E x \in {disk[receipts'[i].path], backup[receipts'[i].path],
                                  quarantine[receipts'[i].path]} :
                          IsFile(x) /\ x.blob = receipts'[i].blob
    BY <1>1 DEF AttestedBytesExist, tree, IsFile
  <2>2. CASE i \in Done
    BY <1>5, <2>1, <2>2 DEF Holds
  <2>3. CASE i \notin Done
    BY <1>2, <1>6, <2>1, <2>3 DEF AttestedBytesExist
  <2> QED BY <2>2, <2>3
<1>8. /\ run'.step = "finish" \/ (run'.step = "clean" /\ run'.todo = Done)
      /\ run'.memo = run.memo
  BY <1>2 DEF RecordReceipts, Runs
<1>9. CleanKept'
  <2>1. SUFFICES ASSUME NEW k \in Done, NEW j \in Owned' \ Folders,
                        receipts'[j].path = run.memo[k].path, receipts'[j].path \notin edited
                 PROVE  Holds(disk[receipts'[j].path], receipts'[j].blob)
    BY <1>1, <1>8 DEF CleanKept, Now, tree, Holds, IsFile
  <2>2. CASE j \in Done
    BY <1>5, <2>1, <2>2
  <2>3. CASE j \notin Done
    <3>1. j \in Owned \ Folders /\ receipts[j].path = Home(k)
      BY <1>3, <1>6, <2>1, <2>3
    <3>2. k = j
      BY <1>2, <1>3, <3>1, OwnFile
    <3> QED BY <2>3, <3>2
  <2> QED BY <2>2, <2>3
<1>10. BatchKept' /\ ItemKept' /\ DoneKept'
  BY <1>8 DEF BatchKept, ItemKept, DoneKept, Underway, Busy
<1> QED BY <1>1, <1>2, <1>7, <1>9, <1>10, TreeSteady DEF KeptInv, Kept

LEMMA DropKept ==
  ASSUME RunsInv, KeptInv, UNCHANGED <<catalog, edited>>, DropReceipts
  PROVE  KeptInv'
<1>1. /\ AllDone /\ UNCHANGED tree /\ run.phase # "idle"
  BY DEF DropReceipts, In
<1>2. /\ Underway /\ BatchKept /\ DoneKept /\ Apart /\ AttestedBytesExist
      /\ run \in Runs /\ Done \subseteq Items
  BY <1>1, RunItems DEF Underway, AllDone, Now, KeptInv, Kept
<1>3. \A i \in Done : i \in Batch /\ run.memo[i].path = Home(i)
  BY <1>2 DEF Turned, Batch, BatchKept
<1>4. \A i \in Owned' : i \in Owned /\ i \notin Done /\ receipts'[i] = receipts[i]
  BY DEF DropReceipts, Owned
<1>5. AttestedBytesExist'
  <2>1. SUFFICES ASSUME NEW i \in Owned' \ Folders, receipts'[i].path \notin edited
                 PROVE  \E x \in {disk[receipts'[i].path], backup[receipts'[i].path],
                                  quarantine[receipts'[i].path]} :
                          IsFile(x) /\ x.blob = receipts'[i].blob
    BY <1>1 DEF AttestedBytesExist, tree, IsFile
  <2> QED BY <1>2, <1>4, <2>1 DEF AttestedBytesExist
<1>6. run'.step = "clean" /\ run'.todo = Done /\ run'.memo = run.memo
  BY <1>2 DEF DropReceipts, Runs
<1>7. CleanKept'
  <2>1. \A k \in Done, j \in Owned' \ Folders : receipts'[j].path # run.memo[k].path
    BY <1>2, <1>3, <1>4, OwnFile
  <2> QED BY <1>6, <2>1 DEF CleanKept
<1>8. BatchKept' /\ ItemKept' /\ DoneKept'
  BY <1>6 DEF BatchKept, ItemKept, DoneKept, Underway, Busy
<1> QED BY <1>1, <1>2, <1>5, <1>7, <1>8, TreeSteady DEF KeptInv, Kept

LEMMA ApartShrinks ==
  ASSUME Apart, \A q \in Paths : FilesAt(q)' \subseteq FilesAt(q)
  PROVE  Apart'
BY DEF Apart

LEMMA CleanKeeps ==
  ASSUME RunsInv, KeptInv, UNCHANGED <<catalog, edited>>, NEW k \in Items, Clean(k)
  PROVE  KeptInv'
<1>1. PICK p : p = run.memo[k].path
  OBVIOUS
<1>2. /\ Now("clean") /\ k \in run.todo /\ UNCHANGED <<disk, temp, receipts>>
      /\ backup' = [backup EXCEPT ![p] = None]
      /\ quarantine' = [quarantine EXCEPT ![p] = None]
      /\ run \in Runs /\ TreeOK /\ TablesOK
  BY <1>1, RunItems DEF Clean
<1>3. run'.step = "clean" /\ run'.todo \subseteq run.todo /\ run'.memo = run.memo
  BY <1>2 DEF Clean, Runs, Now
<1>4. Apart /\ AttestedBytesExist /\ CleanKept /\ Owned' = Owned
  BY <1>2 DEF KeptInv, Kept, Owned
<1>5. Apart'
  <2>1. \A q \in Paths : FilesAt(q)' \subseteq FilesAt(q)
    BY <1>2, RecordsAreNotNone DEF FilesAt, TreeOK
  <2> QED BY <1>4, <2>1, ApartShrinks
<1>6. AttestedBytesExist'
  <2>1. \A q \in Paths \ {p} : SameAt(q)
    BY <1>2 DEF SameAt, TreeOK
  <2>2. \A i \in Owned \ Folders : receipts[i].path = p /\ p \notin edited =>
          \E x \in {disk'[p], backup'[p], quarantine'[p]} : Holds(x, receipts[i].blob)
    BY <1>1, <1>2, <1>4 DEF CleanKept
  <2> QED BY <1>2, <1>4, <2>1, <2>2, AttestedStays
<1>7. CleanKept'
  BY <1>2, <1>3, <1>4 DEF CleanKept, Now, Holds, IsFile
<1>8. BatchKept' /\ ItemKept' /\ DoneKept'
  BY <1>3 DEF BatchKept, ItemKept, DoneKept, Underway, Busy
<1> QED BY <1>5, <1>6, <1>7, <1>8 DEF KeptInv, Kept

(* A failure drops the item in progress and keeps what a rollback needs.   *)
LEMMA GiveUpKept ==
  ASSUME RunsInv, RunsInv', KeptInv, UNCHANGED <<catalog, edited>>, Mutating, GiveUp
  PROVE  KeptInv'
<1>1. /\ Underway /\ ~Now("rollback") /\ run.step \in Busy \cup {"next"}
      /\ BatchKept /\ DoneKept /\ Apart /\ AttestedBytesExist
      /\ run \in Runs /\ TreeOK /\ TablesOK
  BY RunItems DEF Mutating, Now, Underway, Runs, Steps, Busy, KeptInv, Kept
<1>2. /\ UNCHANGED <<disk, quarantine, receipts>>
      /\ \/ temp' = temp \/ temp' = [temp EXCEPT ![Here] = None]
      /\ \/ backup' = backup
         \/ Now("swap") /\ backup' = [backup EXCEPT ![Here] = None]
  BY DEF GiveUp
<1>3. /\ run'.phase = run.phase /\ run'.step = "rollback" /\ run'.todo = run.todo
      /\ run'.memo = run.memo
      /\ run'.done = IF run.step \in {"unlink", "confirm"}
                     THEN Append(run.done, run.item) ELSE run.done
  BY <1>1 DEF GiveUp, Runs
<1>4. Apart'
  <2>1. \A q \in Paths : FilesAt(q)' \subseteq FilesAt(q)
    BY <1>1, <1>2, RecordsAreNotNone DEF FilesAt, TreeOK
  <2> QED BY <1>1, <2>1, ApartShrinks
<1>5. Done \subseteq Turned /\ Done \subseteq Items /\ Turned \subseteq Batch
      /\ "rollback" \notin Busy
  BY RunItems DEF Turned, Batch, Busy
<1>6. CASE run.step = "next"
  <2>1. UNCHANGED <<backup, receipts>> /\ Done' = Done /\ Turned' = Done
    BY <1>2, <1>3, <1>5, <1>6 DEF Now, Done, Turned
  <2>2. AttestedBytesExist'
    BY <1>1, <1>2, <2>1, AttestedSteady
  <2>3. None \notin Done
    BY <1>5, MemoAssumption
  <2>4. \A j \in Done \ {None} : /\ SameAt(run.memo[j].path)
                                 /\ run'.memo[j].path = run.memo[j].path
                                 /\ run'.memo[j].blob = run.memo[j].blob
    BY <1>2, <1>3, <2>1 DEF SameAt
  <2>5. Kept'
    <3> HIDE DEF Underway, Batch, Turned, Done
    <3>1. Turned' \subseteq Batch /\ Turned' \subseteq Turned /\ None \notin Done'
          /\ Done' \subseteq Done \cup {None}
      BY <1>5, <2>1, <2>3
    <3> QED BY <1>1, <1>2, <1>3, <1>5, <2>4, <3>1, BatchStep DEF Kept
  <2> QED BY <1>4, <2>2, <2>5 DEF KeptInv
<1>7. CASE run.step \in Busy
  <2>1. PICK k, p : k = run.item /\ p = Here
    OBVIOUS
  <2>2. AtWork(k, p)
    BY <1>7, <2>1, ItemFacts
  <2>3. p \in Paths /\ \A q \in Paths \ {p} : SameAt(q)
    BY <1>1, <1>2, <2>1, <2>2 DEF SameAt, TreeOK, AtWork
  <2>4. Done' \subseteq Done \cup {k} /\ (k \in Done' => In("materialize"))
        /\ k \in Turned
    <3>1. k \in Items /\ k \notin Done /\ k \in Turned
      BY <1>7, <2>1, <2>2, BusyFacts DEF AtWork
    <3>2. CASE run.step \in {"unlink", "confirm"}
      <4>1. In("materialize")
        BY <2>2, <3>2 DEF AtWork, StepFits, In
      <4>2. run.done \in Seq(Items)
        BY <1>1 DEF Runs
      <4> QED BY <1>3, <2>1, <3>1, <3>2, <4>1, <4>2, AppendFacts DEF Done
    <3>3. CASE run.step \notin {"unlink", "confirm"}
      BY <1>3, <3>1, <3>3 DEF Done
    <3> QED BY <3>1, <3>2, <3>3
  <2>5. Turned' = Done'
    BY <1>3, <1>5 DEF Turned
  <2>6. AttestedBytesExist'
    <3>1. CASE backup' = backup
      BY <1>1, <1>2, <3>1, AttestedSteady
    <3>2. CASE Now("swap")
      <4>1. p \notin edited => Holds(disk'[p], receipts[k].blob)
        BY <1>2, <2>2, <3>2 DEF AtWork, ItemOK, Now
      <4> QED BY <1>2, <2>2, <2>3, <4>1, ItemBytes
    <3> QED BY <1>2, <3>1, <3>2
  <2>7. k \in Done' => DoneOK(k, run.memo[k])'
    BY <1>3, <2>4 DEF DoneOK, Now, In
  <2>8. Kept'
    <3>1. \A j \in Done \ {k} : run.memo[j].path # p /\ run.memo[j].path \in Paths
      <4>1. k \in Batch /\ p = Home(k)
        BY <2>2 DEF AtWork
      <4> QED BY <1>1, <4>1, DoneHomes
    <3>2. \A j \in Done \ {k} : /\ SameAt(run.memo[j].path)
                                /\ run'.memo[j].path = run.memo[j].path
                                /\ run'.memo[j].blob = run.memo[j].blob
      BY <1>3, <2>3, <3>1
    <3> HIDE DEF Underway, Batch, Turned, Done
    <3>3. Turned' \subseteq Batch /\ Turned' \subseteq Turned
      BY <1>5, <2>4, <2>5
    <3> QED BY <1>1, <1>2, <1>3, <1>5, <2>4, <2>7, <3>2, <3>3, BatchStep DEF Kept
  <2> QED BY <1>4, <2>6, <2>8 DEF KeptInv
<1> QED BY <1>1, <1>6, <1>7

LEMMA LastIsGone ==
  ASSUME NEW S, NEW s \in Seq(S), s # <<>>, IsInjective(s)
  PROVE  Last(s) \notin Range(Front(s))
<1>1. Len(s) \in Nat /\ Len(s) # 0 /\ DOMAIN s = 1..Len(s)
  OBVIOUS
<1>2. /\ DOMAIN Front(s) = 1..(Len(s) - 1)
      /\ \A n \in 1..(Len(s) - 1) : Front(s)[n] = s[n]
  BY <1>1 DEF Front
<1>3. SUFFICES ASSUME NEW n \in 1..(Len(s) - 1), s[n] = s[Len(s)] PROVE FALSE
  BY <1>2 DEF Range, Last
<1>4. n \in DOMAIN s /\ Len(s) \in DOMAIN s /\ n # Len(s)
  <2>1. ASSUME NEW last \in Nat, last # 0, NEW m \in 1..(last - 1)
        PROVE  m \in 1..last /\ last \in 1..last /\ m # last
    BY <2>1
  <2> QED BY <1>1, <2>1
<1> QED BY <1>3, <1>4 DEF IsInjective

(* What a rollback puts back is what the receipt says, and what it takes   *)
(* away no receipt is about.                                               *)
LEMMA TakeBackKept ==
  ASSUME RunsInv, RunsInv', KeptInv, UNCHANGED <<catalog, edited>>, TakeBack
  PROVE  KeptInv'
<1>1. PICK k, p : k = Last(run.done) /\ p = run.memo[Last(run.done)].path
  OBVIOUS
<1>2. /\ Now("rollback") /\ run.done # <<>> /\ ~In("verify") /\ UNCHANGED <<temp, receipts>>
      /\ disk' = [disk EXCEPT ![p] =
                    IF In("create") \/ In("materialize") THEN None ELSE Before(p)]
      /\ backup' = [backup EXCEPT ![p] = None]
      /\ quarantine' = [quarantine EXCEPT ![p] = None]
      /\ run' = [run EXCEPT !.done = Front(run.done)]
  BY <1>1, RunItems DEF TakeBack, Runs
<1>3. /\ run.phase # "idle" /\ Underway
      /\ BatchKept /\ DoneKept /\ Apart /\ AttestedBytesExist
      /\ run \in Runs /\ run.done \in Seq(Items) /\ IsInjective(run.done)
      /\ Done \subseteq Items /\ TreeOK /\ TablesOK
  <2>1. run.phase # "idle"
    BY <1>2 DEF RunsInv, RunInv, In, Now, Idle
  <2> QED BY <1>2, <2>1, RunItems, TypeParts
          DEF Now, Underway, KeptInv, Kept, Runs, RunsInv, RunOK
<1>4. /\ k \in Done /\ k \in Turned /\ k \in Batch
      /\ Done' \subseteq Done /\ k \notin Done'
  <2>1. k \in Done /\ Done' = Range(Front(run.done)) /\ Done' \subseteq Done /\ k \notin Done'
    BY <1>1, <1>2, <1>3, FrontFacts, LastIsGone DEF Done, Runs
  <2> QED BY <2>1 DEF Turned, Batch
<1>5. p = Home(k) /\ p = run.memo[k].path /\ p \in Paths /\ DoneOK(k, run.memo[k])
  <2>1. k \in Items /\ run.memo[k] # None /\ run.memo[k].path = Home(k)
    BY <1>3, <1>4 DEF BatchKept
  <2>2. run.memo[k] \in Memo
    BY <1>3, <2>1 DEF Runs
  <2> QED BY <1>1, <1>3, <1>4, <2>1, <2>2 DEF Memo, DoneKept
<1>6. /\ run'.phase = run.phase /\ run'.step = "rollback" /\ run'.todo = run.todo
      /\ run'.memo = run.memo
  BY <1>2, <1>3 DEF Runs, Now
<1>7. /\ \A q \in Paths \ {p} : SameAt(q) /\ temp'[q] = temp[q]
      /\ disk'[p] = IF In("create") \/ In("materialize") THEN None ELSE Before(p)
      /\ temp'[p] = temp[p] /\ backup'[p] = None /\ quarantine'[p] = None
  BY <1>2, <1>3, <1>5 DEF SameAt, TreeOK
<1>8. Apart'
  <2>1. Before(p) \in {backup[p], quarantine[p]}
    BY DEF Before
  <2>2. {disk'[p], temp'[p], backup'[p], quarantine'[p]}
          \subseteq {disk[p], temp[p], backup[p], quarantine[p], None}
    BY <1>7, <2>1
  <2> QED BY <1>3, <1>5, <1>7, <2>2, FilesShift
<1>9. AttestedBytesExist'
  <2>1. ASSUME NEW j \in Owned \ Folders, receipts[j].path = p, p \notin edited
        PROVE  Holds(disk'[p], receipts[j].blob)
    <3>1. j = k
      BY <1>3, <1>4, <1>5, <2>1, OwnFile
    <3>2. In("replace") \/ In("delete")
      <4>1. run.phase \in Phases
        BY <1>3 DEF Runs
      <4>2. ~In("create") /\ ~In("rmdir") /\ ~In("materialize")
        BY <1>3, <1>4, <1>5, <2>1, <3>1 DEF BatchKept
      <4> QED BY <1>2, <4>1, <4>2, PhaseNames DEF In
    <3> QED BY <1>5, <1>7, <2>1, <3>1, <3>2 DEF DoneOK, Before, In
  <2> QED BY <1>2, <1>3, <1>7, <2>1, AttestedStays
<1>10. Kept'
  <2>1. \A j \in Done \ {k} : /\ SameAt(run.memo[j].path)
                              /\ run'.memo[j].path = run.memo[j].path
                              /\ run'.memo[j].blob = run.memo[j].blob
    BY <1>3, <1>4, <1>5, <1>6, <1>7, DoneHomes
  <2>2. Turned' \subseteq Turned /\ Turned' \subseteq Batch /\ run'.step \notin Busy
    BY <1>4, <1>6 DEF Turned, Batch, Busy
  <2> HIDE DEF Underway, Batch, Turned, Done
  <2> QED BY <1>2, <1>3, <1>4, <1>6, <2>1, <2>2, BatchStep DEF Kept
<1> QED BY <1>8, <1>9, <1>10 DEF KeptInv

LEMMA WorkingKept ==
  ASSUME RunsInv, RunsInv', KeptInv, UNCHANGED <<catalog, edited>>, Working
  PROVE  KeptInv'
BY TurnKept, FolderKept, FetchKept, PromoteKept, ConfirmKept, BackupKept, SwapKept,
   QuarantineKept, RecordKept, DropKept, CleanKeeps, GiveUpKept, TakeBackKept
   DEF Working, Abandon

-----------------------------------------------------------------------------
(* The steps around a batch.                                               *)

LEMMA IdleKept ==
  ASSUME KeptInv, run' = Idle, UNCHANGED <<tree, receipts, edited>>
  PROVE  KeptInv'
<1>1. ~Underway' /\ run'.step \notin Busy \cup {"clean"}
  BY DEF Underway, Idle, Busy
<1>2. Kept'
  BY <1>1, NoBatch DEF Kept
<1> QED BY <1>2, TreeSteady, AttestedSteady DEF KeptInv, tree

LEMMA SteadyKept ==
  ASSUME KeptInv, UNCHANGED <<tree, receipts, edited, catalog, run>>
  PROVE  KeptInv'
<1>1. Apart' /\ AttestedBytesExist'
  BY TreeSteady, AttestedSteady DEF KeptInv, tree
<1>2. Kept'
  BY DEF KeptInv, Kept, BatchKept, ItemKept, DoneKept, CleanKept, Underway, Batch,
         Turned, Done, Home, Expected, Owned, In, Now, ItemOK, DoneOK, Holds, IsFile, tree
<1> QED BY <1>1, <1>2 DEF KeptInv

LEMMA RunStepKept ==
  ASSUME RunsInv, RunsInv', KeptInv, RunStep
  PROVE  KeptInv'
<1>1. CASE Working /\ UNCHANGED <<catalog, service, observation, outcome, tallies>>
  BY <1>1, WorkingKept DEF tallies
<1>2. CASE (Finish \/ Stop) /\ UNCHANGED <<catalog, service, observation, tallies>>
  BY <1>2, IdleKept DEF Finish, Stop, tallies
<1> QED BY <1>1, <1>2 DEF RunStep

(* A batch is planned without conflicts or leftovers, so a missing file    *)
(* with a receipt is one its user removed.                                 *)
LEMMA BeginKept ==
  ASSUME RunsInv, RunsInv', OneOwnerPerPath, KeptInv, Begin
  PROVE  KeptInv'
<1>1. UNCHANGED <<tree, receipts, catalog, edited>> /\ run = Idle
  BY DEF Begin, tallies
<1>2. CASE run' = run
  BY <1>1, <1>2, SteadyKept
<1>3. CASE Decision \in Phases /\ Ready(Decision)
  <2>1. /\ run'.phase = Decision /\ run'.done = <<>> /\ run'.step = "next"
        /\ run'.todo = Plan[Decision]
    <3>1. run' = [Idle EXCEPT !.phase = Decision, !.todo = Plan[Decision],
                              !.goal = Cardinality(Plan[Decision])]
      BY <1>3 DEF Begin
    <3> QED BY <3>1 DEF Idle
  <2>2. Done' = {} /\ Turned' = {} /\ Batch' = Plan[Decision]
    BY <2>1 DEF Done, Turned, Batch, Range, Busy
  <2>3. Apart' /\ AttestedBytesExist'
    BY <1>1, TreeSteady, AttestedSteady DEF KeptInv, tree
  <2>4. PICK phase \in Phases : phase = Decision
    BY <1>3
  <2>5. ~Collision /\ Leftovers = {}
    BY <1>3, DecisionFacts
  <2>6. /\ Plan[phase] \subseteq Expected \cup Owned
        /\ phase \in {"create", "materialize", "verify", "replace"} =>
             Plan[phase] \subseteq Undisputed
        /\ phase \in {"delete", "rmdir"} => Plan[phase] \subseteq Owned \ Expected
        /\ phase \in {"create", "rmdir"} => Plan[phase] \subseteq Folders
        /\ phase \in {"replace", "delete"} => Plan[phase] \subseteq Owned
        /\ phase = "materialize" => \A i \in Plan[phase] : i \notin Folders /\ Absent(i)
    BY PhaseNames, PlannedItems DEF Plan, Disposable, Undisputed
  <2>7. \A i \in Undisputed : /\ i \in Expected /\ Home(i) = catalog[i].path
                              /\ i \in Owned => receipts[i].path = Home(i)
                              /\ \A j \in Owned \ {i} : receipts[j].path # Home(i)
    BY DEF Undisputed, ReceiptConflict, Home
  <2>8. \A i \in Owned \ Expected : Home(i) = receipts[i].path
    BY DEF Home
  <2>9. \A i, j \in Plan[phase] : Home(i) = Home(j) => i = j
    <3>1. CASE phase \in {"create", "materialize", "verify", "replace"}
      BY <2>5, <2>6, <2>7, <3>1 DEF Collision
    <3>2. CASE phase \in {"delete", "rmdir"}
      BY <2>6, <2>8, <3>2 DEF OneOwnerPerPath
    <3> QED BY <3>1, <3>2, PhaseNames
  <2>10. \A i \in Plan[phase], j \in Owned : receipts[j].path = Home(i) => i = j
    <3>1. CASE phase \in {"create", "materialize", "verify", "replace"}
      BY <2>6, <2>7, <3>1
    <3>2. CASE phase \in {"delete", "rmdir"}
      BY <2>6, <2>8, <3>2 DEF OneOwnerPerPath
    <3> QED BY <3>1, <3>2, PhaseNames
  <2>11. phase = "materialize" => \A i \in Plan[phase] \cap Owned : Home(i) \in edited
    <3>1. SUFFICES ASSUME phase = "materialize", NEW i \in Plan[phase] \cap Owned,
                          Home(i) \notin edited
                   PROVE  FALSE
      OBVIOUS
    <3>2. i \notin Folders /\ receipts[i].path = Home(i) /\ disk[Home(i)] = None
      BY <2>6, <2>7, <3>1 DEF Absent, Shape
    <3>3. Home(i) \in Paths
      BY <2>6, <3>1, RunItems, HomeType
    <3>4. backup[Home(i)] = None /\ quarantine[Home(i)] = None
      BY <2>5, <3>3 DEF Leftovers
    <3>5. \E x \in {disk[Home(i)], backup[Home(i)], quarantine[Home(i)]} : IsFile(x)
      BY <3>1, <3>2 DEF KeptInv, AttestedBytesExist
    <3> QED BY <3>2, <3>4, <3>5, RecordsAreNotNone DEF IsFile
  <2>12. phase \in {"replace", "delete"} =>
           \A i \in Plan[phase] : i \in Owned /\ receipts[i].path = Home(i)
    BY <2>6, <2>7, <2>8
  <2>13. BatchKept'
    <3>1. Owned' = Owned /\ \A i \in Batch' : Home(i)' = Home(i)
      <4>1. \A i \in Batch' : i \in Items
        BY <2>2, <2>4, <2>6 DEF Expected, Owned
      <4> QED BY <1>1, <4>1, PlanSteady
    <3>2. Turned' = {} /\ Batch' = Plan[phase] /\ run'.phase = phase
      BY <2>1, <2>2, <2>4
    <3> HIDE DEF Batch, Turned, Home
    <3> QED BY <1>1, <2>6, <2>9, <2>10, <2>11, <2>12, <3>1, <3>2 DEF BatchKept, In
  <2>14. ItemKept' /\ DoneKept' /\ CleanKept'
    BY <2>1, <2>2 DEF ItemKept, DoneKept, CleanKept, Now, Busy
  <2> QED BY <2>3, <2>13, <2>14 DEF KeptInv, Kept
<1> QED BY <1>2, <1>3 DEF Begin

LEMMA WindowKept ==
  ASSUME RunsInv, KeptInv, ApplyWindow
  PROVE  KeptInv'
<1>1. /\ run = Idle /\ run' = Idle /\ UNCHANGED <<tree, edited>>
      /\ receipts' = [i \in Items |->
           IF i \in Revised(Pages) \cap Owned
           THEN [receipts[i] EXCEPT !.state = "stale"] ELSE receipts[i]]
  BY DEF ApplyWindow, Apply, tallies
<1>2. ASSUME NEW i \in Items
      PROVE  /\ receipts'[i] = None <=> receipts[i] = None
             /\ receipts[i] # None => /\ receipts'[i].path = receipts[i].path
                                      /\ receipts'[i].blob = receipts[i].blob
  <2>1. CASE i \in Revised(Pages) \cap Owned
    <3>1. receipts[i] \in Receipts /\ receipts[i] # None
      BY <2>1, RunItems DEF Owned, TablesOK
    <3>2. receipts'[i] = [receipts[i] EXCEPT !.state = "stale"]
      BY <1>1, <2>1
    <3>3. /\ receipts'[i] \in Receipts /\ receipts'[i].path = receipts[i].path
          /\ receipts'[i].blob = receipts[i].blob
      BY <3>1, <3>2 DEF Receipts
    <3> QED BY <3>1, <3>3, EntryAssumption
  <2>2. CASE i \notin Revised(Pages) \cap Owned
    BY <1>1, <2>2
  <2> QED BY <2>1, <2>2
<1>3. AttestedBytesExist'
  BY <1>1, <1>2, AttestedSteady DEF KeptInv, tree
<1>4. Kept'
  <2>1. ~Underway' /\ run'.step \notin Busy \cup {"clean"}
    BY <1>1 DEF Underway, Idle, Busy
  <2> QED BY <2>1, NoBatch DEF Kept
<1> QED BY <1>1, <1>3, <1>4, TreeSteady DEF KeptInv

(* What a user changes is at one path, whatever names the file has there.  *)
LEMMA SavedInPlace ==
  ASSUME RunsInv, Apart, NEW p \in Paths, NEW b \in UserBlobs, SaveInPlace(p, b)
  PROVE  /\ \A q \in Paths \ {p} : SameAt(q) /\ temp'[q] = temp[q]
         /\ IsFile(temp[p]) => IsFile(temp'[p])
         /\ \A y \in FilesAt(p)' : \E x \in FilesAt(p) : x.node = y.node
<1> DEFINE Rewritten(x) == IF IsFile(x) /\ x.node = disk[p].node
                           THEN [x EXCEPT !.blob = b, !.stamp = edits + 1] ELSE x
<1>1. /\ disk' = [q \in Paths |-> Rewritten(disk[q])]
      /\ temp' = [q \in Paths |-> Rewritten(temp[q])]
      /\ backup' = [q \in Paths |-> Rewritten(backup[q])]
      /\ quarantine' = quarantine /\ IsFile(disk[p])
  BY DEF SaveInPlace, Edit
<1>2. b \in Blobs /\ edits + 1 \in 0..MaxEdits
  <2>1. Edit(p)
    BY DEF SaveInPlace
  <2> HIDE DEF Rewritten
  <2> QED BY <2>1, PartsOfInv, PlanAssumption, RunAssumption DEF Edit, TalliesOK
<1>3. \A x \in Files : Rewritten(x) \in Files /\ Rewritten(x).node = x.node
  BY <1>2 DEF Files
<1>4. \A x : x \notin Files \/ x.node # disk[p].node => Rewritten(x) = x
  BY DEF IsFile
<1> HIDE DEF Rewritten
<1>5. ASSUME NEW q \in Paths \ {p}, NEW x \in {disk[q], temp[q], backup[q]}
      PROVE  Rewritten(x) = x
  <2>1. disk[p] \in FilesAt(p)
    BY <1>1 DEF FilesAt, IsFile
  <2>2. x \in Files => x \in FilesAt(q)
    BY DEF FilesAt
  <2> QED BY <1>4, <2>1, <2>2 DEF Apart
<1>6. \A y \in FilesAt(p)' : \E x \in FilesAt(p) : x.node = y.node
  <2>1. ASSUME NEW y \in FilesAt(p)' PROVE \E x \in FilesAt(p) : x.node = y.node
    <3>1. y \in Files /\ y \in {disk'[p], temp'[p], backup'[p], quarantine[p]}
      BY <1>1 DEF FilesAt
    <3>2. CASE y = quarantine[p]
      BY <3>1, <3>2 DEF FilesAt
    <3>3. CASE y # quarantine[p]
      <4>1. PICK x \in {disk[p], temp[p], backup[p]} : y = Rewritten(x)
        BY <1>1, <3>1, <3>3
      <4>2. x \in Files
        BY <1>4, <3>1, <4>1
      <4> QED BY <1>3, <4>1, <4>2 DEF FilesAt
    <3> QED BY <3>2, <3>3
  <2> QED BY <2>1
<1>7. IsFile(temp[p]) => IsFile(temp'[p])
  BY <1>1, <1>3 DEF IsFile
<1> QED BY <1>1, <1>5, <1>6, <1>7 DEF SameAt

LEMMA UserKept ==
  ASSUME RunsInv, KeptInv, UserStep
  PROVE  KeptInv'
<1>1. PICK p \in Paths : \/ \E b \in UserBlobs : SaveInPlace(p, b) \/ SaveByRename(p, b)
                         \/ RemoveEntry(p)
                         \/ MakeDir(p)
  BY DEF UserStep
<1>2. /\ UNCHANGED <<catalog, receipts, quarantine, run>> /\ edited' = edited \cup {p}
      /\ Apart /\ AttestedBytesExist /\ BatchKept /\ ItemKept /\ DoneKept /\ CleanKept
      /\ TreeOK /\ TablesOK /\ run \in Runs
  BY <1>1, RunItems DEF SaveInPlace, SaveByRename, RemoveEntry, MakeDir, Edit, KeptInv, Kept
<1>3. /\ \A q \in Paths \ {p} : SameAt(q) /\ temp'[q] = temp[q]
      /\ IsFile(temp[p]) => IsFile(temp'[p])
      /\ \A y \in FilesAt(p)' : \/ \E x \in FilesAt(p) : x.node = y.node
                                \/ y.node \notin InUse
  <2>1. CASE \E b \in UserBlobs : SaveInPlace(p, b)
    BY <1>2, <2>1, SavedInPlace
  <2>2. ASSUME NEW b \in UserBlobs, SaveByRename(p, b)
        PROVE  /\ \A q \in Paths \ {p} : SameAt(q) /\ temp'[q] = temp[q]
               /\ IsFile(temp[p]) => IsFile(temp'[p])
               /\ \A y \in FilesAt(p)' : \/ \E x \in FilesAt(p) : x.node = y.node
                                         \/ y.node \notin InUse
    <3> DEFINE new == [node |-> FreshNode, blob |-> b, stamp |-> edits + 1]
    <3>1. disk' = [disk EXCEPT ![p] = new] /\ UNCHANGED <<temp, backup, quarantine>>
      BY <2>2 DEF SaveByRename, Edit
    <3>2. new.node \notin InUse
      BY <2>2, FreshIsUnused DEF SaveByRename
    <3> HIDE DEF new
    <3> QED BY <1>2, <3>1, <3>2 DEF SameAt, TreeOK, FilesAt
  <2>3. CASE RemoveEntry(p) \/ MakeDir(p)
    <3>1. PICK x \in {None, Dir} : disk' = [disk EXCEPT ![p] = x]
      BY <2>3 DEF RemoveEntry, MakeDir
    <3>2. UNCHANGED <<temp, backup, quarantine>>
      BY <2>3 DEF RemoveEntry, MakeDir, Edit
    <3>3. FilesAt(p)' \subseteq FilesAt(p)
      BY <1>2, <3>1, <3>2, RecordsAreNotNone DEF TreeOK, FilesAt
    <3> QED BY <1>2, <3>1, <3>2, <3>3 DEF SameAt, TreeOK
  <2> QED BY <1>1, <2>1, <2>2, <2>3
<1>4. Apart'
  <2>1. \A q \in Paths \ {p} : FilesAt(q)' \subseteq FilesAt(q)
    BY <1>3 DEF FilesAt, SameAt
  <2> QED BY <1>2, <1>3, <2>1, ApartStays
<1>5. AttestedBytesExist'
  BY <1>2, <1>3, AttestedStays
<1>6. /\ Underway' = Underway /\ Batch' = Batch /\ Turned' = Turned /\ Done' = Done
      /\ Owned' = Owned /\ (\A phase : In(phase)' = In(phase))
      /\ \A step : Now(step)' = Now(step)
  BY <1>2 DEF Underway, Batch, Turned, Done, Owned, In, Now
<1>7. BatchKept'
  <2>1. Batch \subseteq Items /\ Turned \subseteq Items
    BY RunItems DEF Batch
  <2>2. \A i \in Batch : Home(i)' = Home(i)
    BY <1>2, <2>1, PlanSteady
  <2>3. Turned \subseteq Batch
    BY DEF Batch
  <2> HIDE DEF Batch, Turned, Underway, Home
  <2> QED BY <1>2, <1>6, <2>2, <2>3 DEF BatchKept
<1>8. ItemKept'
  <2>1. SUFFICES ASSUME run.step \in Busy
                 PROVE  ItemOK(run.item, run.memo[run.item])'
    BY <1>2 DEF ItemKept
  <2>2. ItemOK(run.item, run.memo[run.item]) /\ run.memo[run.item].path \in Paths
    BY <1>2, <2>1, BusyFacts DEF ItemKept
  <2> QED BY <1>2, <1>3, <2>2 DEF ItemOK, SameAt, In, Now
<1>9. DoneKept'
  <2>1. SUFFICES ASSUME Underway, NEW i \in Done PROVE DoneOK(i, run.memo[i])'
    BY <1>6 DEF DoneKept
  <2>2. DoneOK(i, run.memo[i]) /\ run.memo[i].path \in Paths
    <3>1. i \in Items /\ i \in Turned
      BY RunItems DEF Turned
    <3>2. run.memo[i] \in Memo
      BY <1>2, <2>1, <3>1 DEF BatchKept, Runs
    <3> QED BY <1>2, <2>1, <3>2 DEF Memo, DoneKept
  <2> QED BY <1>2, <1>3, <2>2 DEF DoneOK, SameAt, In, Now
<1>10. CleanKept'
  <2>1. \A j \in Owned : receipts[j].path \in Paths
    BY <1>2 DEF TablesOK, Owned, Receipts
  <2> QED BY <1>2, <1>3, <1>6, <2>1 DEF CleanKept, SameAt, Holds, Now
<1> QED BY <1>4, <1>5, <1>7, <1>8, <1>9, <1>10 DEF KeptInv, Kept

LEMMA FailureKept ==
  ASSUME RunsInv, RunsInv', KeptInv, CallFails \/ Crash
  PROVE  KeptInv'
<1>1. CASE CallFails
  BY <1>1, GiveUpKept DEF CallFails
<1>2. CASE Crash
  BY <1>2, IdleKept DEF Crash, Killed
<1> QED BY <1>1, <1>2

-----------------------------------------------------------------------------
LEMMA KeptInit == Init => KeptInv
<1> SUFFICES ASSUME Init PROVE KeptInv
  OBVIOUS
<1>1. /\ temp = [p \in Paths |-> None] /\ backup = [p \in Paths |-> None]
      /\ quarantine = [p \in Paths |-> None] /\ run = Idle
  BY DEF Init
<1>2. InitialNode \in [Items -> Nodes] /\ IsInjective(InitialNode)
  BY RunAssumption DEF InitialNode
<1>3. ASSUME NEW p \in Paths, NEW i \in Present, remote[i].path = p
      PROVE  disk[p] = IF i \in Folders THEN Dir
                       ELSE [node |-> InitialNode[i], blob |-> remote[i].blob, stamp |-> 0]
  <2> DEFINE j == CHOOSE j \in Present : remote[j].path = p
  <2>1. j \in Present /\ remote[j].path = p
    BY <1>3
  <2>2. j = i
    BY <2>1, <1>3 DEF Init
  <2>3. disk[p] = IF j \in Folders THEN Dir
                  ELSE [node |-> InitialNode[j], blob |-> remote[j].blob, stamp |-> 0]
    BY <1>3 DEF Init
  <2> HIDE DEF j
  <2> QED BY <2>2, <2>3
<1>4. ASSUME NEW p \in Paths, NEW x \in FilesAt(p)
      PROVE  \E i \in Present : remote[i].path = p /\ x.node = InitialNode[i]
  <2>1. x \in Files /\ x = disk[p]
    BY <1>1, <1>4, RecordsAreNotNone DEF FilesAt
  <2>2. PICK i \in Present : remote[i].path = p
    <3>1. disk[p] # None
      BY <2>1, RecordsAreNotNone
    <3> QED BY <3>1 DEF Init
  <2>3. disk[p] = IF i \in Folders THEN Dir
                  ELSE [node |-> InitialNode[i], blob |-> remote[i].blob, stamp |-> 0]
    BY <1>3, <2>2
  <2>4. x = [node |-> InitialNode[i], blob |-> remote[i].blob, stamp |-> 0]
    BY <2>1, <2>3, RecordsAreNotNone
  <2>5. x.node = InitialNode[i]
    BY <2>4
  <2> QED BY <2>2, <2>5
<1>5. Apart
  <2>1. SUFFICES ASSUME NEW p \in Paths, NEW q \in Paths, p # q,
                        NEW x \in FilesAt(p), NEW y \in FilesAt(q)
                 PROVE  x.node # y.node
    BY DEF Apart
  <2>2. PICK i \in Present : remote[i].path = p /\ x.node = InitialNode[i]
    BY <1>4
  <2>3. PICK j \in Present : remote[j].path = q /\ y.node = InitialNode[j]
    BY <1>4
  <2>4. i # j /\ i \in Items /\ j \in Items
    BY <2>1, <2>2, <2>3 DEF Present
  <2> QED BY <1>2, <2>2, <2>3, <2>4 DEF IsInjective
<1>6. AttestedBytesExist
  <2>1. SUFFICES ASSUME NEW i \in Owned \ Folders
                 PROVE  IsFile(disk[receipts[i].path])
                        /\ disk[receipts[i].path].blob = receipts[i].blob
    BY DEF AttestedBytesExist
  <2>2. i \in Items /\ remote[i] # None /\ receipts[i] =
          [path |-> remote[i].path, state |-> "current", blob |-> remote[i].blob]
    <3>1. i \in Items /\ receipts[i] # None
      BY <2>1 DEF Owned
    <3> QED BY <3>1 DEF Init
  <2>3. i \in Present /\ remote[i].path \in Paths /\ remote[i].blob \in Blobs
    <3>1. i \in Present
      BY <2>2 DEF Present
    <3>2. remote[i].path \in Paths
      BY <2>2, RunsInit, RunItems DEF TablesOK, Object
    <3>3. remote[i].blob \in Blobs
      BY <2>1, <3>1, RunsInit, RunAssumption DEF RunsInv, RemoteInv
    <3> QED BY <3>1, <3>2, <3>3
  <2>4. disk[remote[i].path] =
          [node |-> InitialNode[i], blob |-> remote[i].blob, stamp |-> 0]
    BY <1>3, <2>1, <2>3
  <2>5. disk[remote[i].path] \in Files
    BY <1>2, <2>2, <2>3, <2>4, PlanAssumption DEF Files
  <2> QED BY <2>2, <2>4, <2>5 DEF IsFile
<1>7. Kept
  BY <1>1 DEF Kept, BatchKept, ItemKept, DoneKept, CleanKept, Underway, Idle, Busy, Now
<1> QED BY <1>5, <1>6, <1>7 DEF KeptInv

LEMMA KeptStep == RunsInv /\ RunsInv' /\ OneOwnerPerPath /\ KeptInv /\ [Next]_vars => KeptInv'
<1> SUFFICES ASSUME RunsInv, RunsInv', OneOwnerPerPath, KeptInv, [Next]_vars
             PROVE  KeptInv'
  OBVIOUS
<1>1. CASE Begin
  BY <1>1, BeginKept
<1>2. CASE RunStep
  BY <1>2, RunStepKept
<1>3. CASE ApplyWindow
  BY <1>3, WindowKept
<1>4. CASE CaptureBaseline
  BY <1>4, SteadyKept DEF CaptureBaseline, tallies
<1>5. CASE Surroundings
  <2>1. CASE \E i \in Items : \/ \E p \in Paths, b \in Blobs \cup {None} : RemoteWrite(i, p, b)
                              \/ RemoteRemove(i)
    BY <2>1, SteadyKept DEF RemoteWrite, RemoteRemove
  <2> QED BY <1>5, <2>1, UserKept, FailureKept DEF Surroundings
<1>6. CASE UNCHANGED vars
  BY <1>6, SteadyKept DEF vars, tallies, tree
<1> QED BY <1>1, <1>2, <1>3, <1>4, <1>5, <1>6 DEF Next

(* At every instant the bytes a receipt attests are under the file's name, *)
(* in its backup or in quarantine, unless the user changed that path: no   *)
(* step, failure or crash of apply_selected_root_file_replacement,         *)
(* quarantine_stale_file or their rollbacks loses the last copy.           *)
THEOREM AttestedBytesAreKept == Spec => []AttestedBytesExist
<1>1. Spec => []KeptInv
  BY KeptInit, KeptStep, RunsInvariant, OwnersAreUnique, PTL DEF Spec
<1>2. KeptInv => AttestedBytesExist
  BY DEF KeptInv
<1> QED BY <1>1, <1>2, PTL

-----------------------------------------------------------------------------
(* A plan in which nothing is left to do.                                  *)

LEMMA NothingPlanned ==
  ASSUME Decision = "converged"
  PROVE  /\ ~Collision /\ ~Blocked /\ Leftovers = {}
         /\ \A phase \in Phases : Plan[phase] = {}
<1>1. Active = {}
  <2>1. \A phase \in Phases : phase # "converged"
    BY PhaseNames
  <2>2. (\E phase \in Phases : Active = {phase}) =>
          (CHOOSE phase \in Phases : Active = {phase}) \in Phases
    OBVIOUS
  <2> QED BY <2>1, <2>2 DEF Decision
<1>2. ~Collision /\ ~Blocked
  BY DEF Decision
<1> QED BY <1>1, <1>2 DEF Active, Blocked

LEMMA ReportsConvergence == Report = "converged" => Decision = "converged"
<1>1. "converged" \notin Phases
  BY PhaseNames
<1>2. Decision = "converged" => ~(Collision \/ SharedPath)
  BY DEF Decision
<1>3. CASE Decision = "converged"
  BY <1>3
<1>4. CASE Decision # "converged"
  <2>1. CASE In("create") \/ In("materialize")
    BY <1>4, <2>1 DEF Report
  <2>2. CASE ~(In("create") \/ In("materialize"))
    BY <1>4, <2>2 DEF Report
  <2> QED BY <2>1, <2>2
<1> QED BY <1>3, <1>4

(* What such a plan says of one item of the catalog.                       *)
LEMMA InStep ==
  ASSUME RunsInv, ReceiptsInv, AttestedBytesExist, Decision = "converged",
         NEW i \in Items \ touched, remote[i] # None, remote[i].path \notin edited
  PROVE  IF i \in Folders THEN disk[remote[i].path] = Dir
         ELSE Holds(disk[remote[i].path], remote[i].blob)
<1>1. TablesOK /\ TreeOK
  BY RunItems
<1>2. i \in Expected /\ catalog[i].path = remote[i].path /\ remote[i].path \in Paths
  <2>1. catalog[i] = Record(i, remote[i])
    BY DEF ReceiptsInv, CatalogInv
  <2>2. Record(i, remote[i]) # None
    BY <1>1, RecordType, EntryAssumption, PartsOfInv DEF Present
  <2>3. remote[i] \in Object
    BY <1>1 DEF TablesOK
  <2> QED BY <2>1, <2>2, <2>3, RecordPath DEF Expected, Object
<1>3. i \in Undisputed
  BY <1>2, NothingPlanned DEF Blocked
<1>4. Matching(i)
  <2>1. ~Absent(i)
    BY <1>3, NothingPlanned, PhaseNames DEF Plan
  <2> QED BY <1>3, <2>1, NothingPlanned DEF Blocked
<1>5. CASE i \in Folders
  BY <1>2, <1>4, <1>5 DEF Matching, Shape, KindOf
<1>6. CASE i \notin Folders
  <2>1. i \in Owned /\ receipts[i].state # "stale"
    BY <1>3, <1>4, <1>6, NothingPlanned, PhaseNames DEF Plan, Stale
  <2>2. receipts[i].state = "current" /\ receipts[i].path = remote[i].path
    BY <1>1, <1>2, <1>3, <2>1 DEF TablesOK, Owned, Receipts, Undisputed, ReceiptConflict
  <2>3. remote[i].blob = receipts[i].blob
    <3>1. remote[i] = [path |-> receipts[i].path, blob |-> receipts[i].blob]
      BY <2>1, <2>2 DEF ReceiptsInv, CurrentReceiptsAgree
    <3> QED BY <3>1
  <2>4. backup[remote[i].path] = None /\ quarantine[remote[i].path] = None
    BY <1>2, NothingPlanned DEF Leftovers
  <2>5. \E x \in {disk[remote[i].path], backup[remote[i].path], quarantine[remote[i].path]} :
          Holds(x, remote[i].blob)
    BY <1>6, <2>1, <2>2, <2>3 DEF AttestedBytesExist, Holds
  <2>6. ~Holds(None, remote[i].blob)
    BY RecordsAreNotNone DEF Holds, IsFile
  <2> QED BY <1>6, <2>4, <2>5, <2>6
<1> QED BY <1>5, <1>6

LEMMA NothingElse ==
  ASSUME Decision = "converged"
  PROVE  /\ \A p \in Paths : disk[p] # None => ExpectedAt(p)
         /\ \A p \in Paths : {temp[p], backup[p], quarantine[p]} = {None}
<1>1. Plan.delete = {} /\ Plan.rmdir = {}
  BY NothingPlanned, PhaseNames
<1>2. LocalOnly = {}
  BY <1>1, NothingPlanned DEF Blocked
<1> QED BY <1>2, NothingPlanned DEF LocalOnly, Leftovers

(* A step that reports convergence leaves the directory equal to the       *)
(* provider, up to changes no window has brought and paths the user        *)
(* changed: the plan it looked at (receive_only_convergence) is empty, and *)
(* what an empty plan only counts is there by the receipts.                *)
THEOREM ConvergenceIsTrue == Spec => ConvergedMeansEqual
<1>1. ASSUME RunsInv, ReceiptsInv, AttestedBytesExist, [Next]_vars,
             outcome' = "converged", outcome # "converged"
      PROVE  Decision = "converged"
  <2>1. CASE Begin
    <3>1. outcome' \in {"none", "refused", Decision}
      BY <2>1 DEF Begin
    <3> QED BY <1>1, <3>1
  <2>2. CASE Finish
    BY <1>1, <2>2, ReportsConvergence DEF Finish
  <2>3. CASE Stop \/ Crash
    BY <1>1, <2>3 DEF Stop, Crash, Killed
  <2>4. CASE UNCHANGED outcome
    BY <1>1, <2>4
  <2>5. Next => Begin \/ Finish \/ Stop \/ Crash \/ UNCHANGED outcome
    BY DEF Next, RunStep, Surroundings, ApplyWindow, Apply, CaptureBaseline,
           RemoteWrite, RemoteRemove, UserStep, SaveInPlace, SaveByRename,
           RemoveEntry, MakeDir, Edit, CallFails
  <2> QED BY <1>1, <2>1, <2>2, <2>3, <2>4, <2>5 DEF vars
<1>2. RunsInv /\ ReceiptsInv /\ AttestedBytesExist /\ [Next]_vars =>
        [outcome' = "converged" /\ outcome # "converged" =>
           /\ \A i \in Items \ touched : remote[i] # None =>
                LET x == disk[remote[i].path] IN
                remote[i].path \in edited
                  \/ IF i \in Folders THEN x = Dir
                     ELSE IsFile(x) /\ x.blob = remote[i].blob
           /\ \A p \in Paths \ edited : disk[p] # None =>
                \E i \in Expected : catalog[i].path = p
           /\ \A p \in Paths : {temp[p], backup[p], quarantine[p]} = {None}]_vars
  <2>1. SUFFICES ASSUME RunsInv, ReceiptsInv, AttestedBytesExist, [Next]_vars,
                        outcome' = "converged", outcome # "converged"
                 PROVE
           /\ \A i \in Items \ touched : remote[i] # None =>
                LET x == disk[remote[i].path] IN
                remote[i].path \in edited
                  \/ IF i \in Folders THEN x = Dir
                     ELSE IsFile(x) /\ x.blob = remote[i].blob
           /\ \A p \in Paths \ edited : disk[p] # None =>
                \E i \in Expected : catalog[i].path = p
           /\ \A p \in Paths : {temp[p], backup[p], quarantine[p]} = {None}
    OBVIOUS
  <2>2. Decision = "converged"
    BY <1>1, <2>1
  <2> QED BY <2>1, <2>2, InStep, NothingElse DEF Holds, ExpectedAt
<1> QED BY <1>2, RunsInvariant, ReceiptsInvariant, AttestedBytesAreKept, PTL DEF Spec, ConvergedMeansEqual

-----------------------------------------------------------------------------
(* What a user saves.  The inductive invariant.                            *)

(* No file is dated later than the user's last change.                     *)
Dated == \A p \in Paths : \A x \in FilesAt(p) : x.stamp <= edits

(* What receipts attest, and what a batch is about to attest or compares   *)
(* with, the provider served.                                              *)
Served ==
  /\ \A i \in Owned \ Folders : receipts[i].blob \in ProviderBlobs
  /\ In("materialize") \/ In("replace") \/ In("delete") =>
       \A i \in Turned : run.memo[i].blob \in ProviderBlobs
  /\ In("verify") => \A i \in Done : run.memo[i].blob \in ProviderBlobs
  /\ In("delete") /\ Live => run.todo \cap Folders = {}
  /\ Now("clean") => run.todo \subseteq Done

(* Only a batch that replaces files has backups, only one that removes     *)
(* entries has them in quarantine, and neither has anything there for an   *)
(* item it is not through with.                                            *)
Waiting == run.todo \cup {i \in Items : /\ run.step \in Busy \ {"swap"}
                                        /\ run.item = i}

Slots ==
  /\ run.phase \notin {"idle", "replace"} => \A p \in Paths : backup[p] = None
  /\ run.phase \notin {"idle", "delete", "rmdir"} =>
       \A p \in Paths : quarantine[p] = None
  /\ Live => \A i \in Waiting : backup[Home(i)] = None /\ quarantine[Home(i)] = None

(* What is in the way of a replacement or kept as its backup holds bytes   *)
(* of the provider, or was saved after the file was compared.              *)
Late(x, was) == IsFile(x) => x.blob \in ProviderBlobs \/ x.stamp > was.stamp

ComparedFile(m) == m # None /\ IsFile(m.was) /\ m.was.stamp <= edits

Copies ==
  In("replace") =>
    /\ \A i \in Compared : /\ ComparedFile(run.memo[i])
                           /\ Late(backup[run.memo[i].path], run.memo[i].was)
    /\ run.step \in {"backup", "swap"} =>
         Late(disk[run.memo[run.item].path], run.memo[run.item].was)

SavedInv == Dated /\ Served /\ Slots /\ Copies

(* What UserWorkSurvives asks of a step.                                   *)
Survives == \A x \in UserWork : x \in UserWork' \/ SavedTooLate(x)

-----------------------------------------------------------------------------
(* What a step has to show for each part.                                  *)

LEMMA DatedMoves ==
  ASSUME Dated, TalliesOK, edits' = edits,
         \A p \in Paths : \A x \in FilesAt(p)' : x.stamp = 0 \/ x \in FilesAt(p)
  PROVE  Dated'
<1>1. edits \in Nat /\ 0 <= edits
  BY PlanAssumption DEF TalliesOK
<1> SUFFICES ASSUME NEW p \in Paths, NEW x \in FilesAt(p)' PROVE x.stamp <= edits
  BY DEF Dated
<1> HIDE DEF FilesAt
<1> QED BY <1>1 DEF Dated

LEMMA ServedMoves ==
  ASSUME Served, UNCHANGED receipts, run'.phase = run.phase, run'.step # "clean",
         NEW k, Turned' \subseteq Turned \cup {k}, Done' \subseteq Done \cup {k},
         \A j \in Turned \ {k} : run'.memo[j].blob = run.memo[j].blob,
         k \in Turned' /\ (In("materialize") \/ In("replace") \/ In("delete")) =>
           run'.memo[k].blob \in ProviderBlobs,
         k \in Done' /\ In("verify") => run'.memo[k].blob \in ProviderBlobs,
         Live' => Live /\ run'.todo \subseteq run.todo
  PROVE  Served'
<1>1. Owned' = Owned /\ Done \subseteq Turned
  BY DEF Owned, Turned
<1>2. \A phase : In(phase)' = In(phase)
  BY DEF In
<1> HIDE DEF Turned, Done, Live
<1>3. (In("materialize") \/ In("replace") \/ In("delete") =>
        \A i \in Turned : run.memo[i].blob \in ProviderBlobs)'
  BY <1>2 DEF Served
<1>4. (In("verify") => \A i \in Done : run.memo[i].blob \in ProviderBlobs)'
  BY <1>1, <1>2 DEF Served
<1>5. (In("delete") /\ Live => run.todo \cap Folders = {})'
  BY <1>2 DEF Served
<1> QED BY <1>1, <1>3, <1>4, <1>5 DEF Served, Now

Vacates(p) == /\ backup'[p] = backup[p] \/ backup'[p] = None
              /\ quarantine'[p] = quarantine[p] \/ quarantine'[p] = None

LEMMA SlotsMoves ==
  ASSUME Slots, RunsInv, UNCHANGED <<catalog, receipts>>, run'.phase = run.phase,
         NEW p, \A q \in Paths \ {p} : Vacates(q),
         p \in Paths =>
           /\ In("replace") \/ backup'[p] = backup[p] \/ backup'[p] = None
           /\ In("delete") \/ In("rmdir") \/ quarantine'[p] = quarantine[p]
                \/ quarantine'[p] = None,
         Live' => Live /\ Waiting' \subseteq Waiting,
         Vacates(p) \/ \A i \in Waiting' : Home(i) # p
  PROVE  Slots'
<1>1. \A i \in Items : Home(i)' = Home(i)
  BY PlanSteady
<1>2. (run.phase \notin {"idle", "replace"} => \A q \in Paths : backup[q] = None)'
  BY DEF Slots, Vacates, In
<1>3. (run.phase \notin {"idle", "delete", "rmdir"} => \A q \in Paths : quarantine[q] = None)'
  BY DEF Slots, Vacates, In
<1>4. ASSUME Live', NEW i \in Waiting'
      PROVE  backup'[Home(i)'] = None /\ quarantine'[Home(i)'] = None
  <2>1. Live /\ i \in Waiting /\ i \in run.todo \cup Turned
    BY <1>4 DEF Waiting, Turned
  <2>2. i \in Items /\ Home(i) \in Paths
    BY <2>1, BatchHomes
  <2>3. backup[Home(i)] = None /\ quarantine[Home(i)] = None
    BY <2>1 DEF Slots
  <2> HIDE DEF Home
  <2> QED BY <1>1, <1>4, <2>2, <2>3 DEF Vacates
<1> HIDE DEF Waiting, Live, Home
<1> QED BY <1>2, <1>3, <1>4 DEF Slots

(* A copy may stay or go; one that comes is the item's.                    *)
LEMMA CopiesMoves ==
  ASSUME Copies, UNCHANGED edits, run'.phase = run.phase,
         NEW k, Compared' \subseteq Compared \cup {k},
         In("replace") =>
           \A j \in Compared' \ {k} :
             /\ run'.memo[j] = run.memo[j]
             /\ \/ backup'[run.memo[j].path] = backup[run.memo[j].path]
                \/ backup'[run.memo[j].path] = None,
         In("replace") /\ k \in Compared' =>
           /\ ComparedFile(run.memo[k])'
           /\ Late(backup'[run'.memo[k].path], run'.memo[k].was),
         In("replace") /\ run'.step \in {"backup", "swap"} =>
           run'.item = k /\ Late(disk'[run'.memo[k].path], run'.memo[k].was)
  PROVE  Copies'
<1>1. SUFFICES ASSUME In("replace") PROVE Copies'
  BY DEF Copies, In
<1>2. ASSUME NEW j \in Compared' \ {k}
      PROVE  ComparedFile(run.memo[j])' /\ Late(backup'[run'.memo[j].path], run'.memo[j].was)
  <2>1. j \in Compared
    BY <1>2
  <2>2. ~Late(None, run.memo[j].was) => FALSE
    BY RecordsAreNotNone DEF Late, IsFile
  <2> QED BY <1>1, <1>2, <2>1, <2>2 DEF Copies, ComparedFile
<1> HIDE DEF Compared
<1>3. \A j \in Compared' : ComparedFile(run.memo[j])' /\ Late(backup'[run'.memo[j].path], run'.memo[j].was)
  BY <1>1, <1>2
<1>4. run'.step \in {"backup", "swap"} =>
        Late(disk'[run'.memo[run'.item].path], run'.memo[run'.item].was)
  BY <1>1
<1> QED BY <1>3, <1>4 DEF Copies, ComparedFile, Late

(* The files of the other paths stay where they are.                       *)
LEMMA SurvivesAt ==
  ASSUME NEW p \in Paths, \A q \in Paths \ {p} : SameAt(q),
         \A x \in {disk[p], backup[p], quarantine[p]} :
           x \in UserWork => \/ x \in {disk'[p], backup'[p], quarantine'[p]}
                             \/ SavedTooLate(x)
  PROVE  Survives
<1> SUFFICES ASSUME NEW x \in UserWork, ~SavedTooLate(x) PROVE x \in UserWork'
  BY DEF Survives
<1>1. PICK q \in Paths : x \in {disk[q], backup[q], quarantine[q]}
  BY DEF UserWork
<1>2. x \in {disk'[q], backup'[q], quarantine'[q]}
  BY <1>1 DEF SameAt
<1> QED BY <1>2 DEF UserWork

-----------------------------------------------------------------------------
(* The steps of a batch.                                                   *)

(* The run goes on with the item in progress, or is through with it.       *)
GoesOn(k, step) ==
  /\ run'.phase = run.phase /\ run'.todo = run.todo /\ run'.item = k
  /\ run'.step = step /\ Done' = Done /\ Turned' = Turned
  /\ run'.memo[k] # None
  /\ run'.memo[k].path = run.memo[k].path /\ run'.memo[k].blob = run.memo[k].blob
  /\ \A j \in Items \ {k} : run'.memo[j] = run.memo[j]

IsThrough(k) ==
  /\ run'.phase = run.phase /\ run'.todo = run.todo /\ run'.step = "next"
  /\ Done' = Done \cup {k} /\ Turned' = Turned
  /\ run'.memo[k] # None
  /\ run'.memo[k].path = run.memo[k].path /\ run'.memo[k].blob = run.memo[k].blob
  /\ run'.memo[k].was = run.memo[k].was
  /\ \A j \in Items \ {k} : run'.memo[j] = run.memo[j]

LEMMA NotedGoesOn ==
  ASSUME RunsInv, run.step \in Busy, NEW step \in Busy, Keeping(run', step),
         \A j \in Items \ {run.item} : run'.memo[j] = run.memo[j]
  PROVE  GoesOn(run.item, step)
BY BusyFacts DEF GoesOn, Keeping, Done, Turned

LEMMA CompletedIsThrough ==
  ASSUME RunsInv, run.step \in Busy, NEW r, Keeping(r, run.step),
         run' = Completed(r, run.item), r.memo[run.item].was = run.memo[run.item].was,
         \A j \in Items \ {run.item} : r.memo[j] = run.memo[j]
  PROVE  IsThrough(run.item)
<1>1. run.item \in Items /\ run.item \in Turned
  BY BusyFacts
<1>2. /\ run'.phase = r.phase /\ run'.step = "next" /\ run'.todo = r.todo
      /\ run'.memo = r.memo /\ Range(run'.done) = Range(r.done) \cup {run.item}
  BY <1>1, CompletedFacts DEF Keeping
<1>3. Done' = Done \cup {run.item} /\ Turned = Done \cup {run.item}
  BY <1>1, <1>2 DEF Keeping, Done, Turned
<1>4. Turned' = Done'
  BY <1>2 DEF Turned, Busy
<1> QED BY <1>1, <1>2, <1>3, <1>4 DEF IsThrough, Keeping

LEMMA ItemMoves ==
  ASSUME RunsInv, TreeOK
  PROVE  /\ Fetch => \/ In("materialize") /\ GoesOn(run.item, "promote")
                     \/ GoesOn(run.item, "compare")
         /\ Promote => GoesOn(run.item, "unlink")
         /\ Unlink => GoesOn(run.item, "confirm")
         /\ Confirm \/ CompareProvider \/ Swap \/ QuarantineFile => IsThrough(run.item)
         /\ CompareBaseline /\ IsFile(disk[Here]) =>
              GoesOn(run.item, "backup") /\ run'.memo[run.item].was = disk[Here]
         /\ LinkBackup => /\ GoesOn(run.item, "swap")
                          /\ run'.memo[run.item].was = run.memo[run.item].was
<1>1. Busy \subseteq Steps /\ {"promote", "compare", "unlink", "confirm", "backup", "swap"} \subseteq Busy
  BY DEF Steps, Busy
<1>2. ASSUME run.step \in Busy, NEW step \in Busy, run' = [run EXCEPT !.step = step]
      PROVE  GoesOn(run.item, step) /\ run'.memo[run.item].was = run.memo[run.item].was
  <2>1. Keeping(run', step)
    BY <1>1, <1>2, StepNoted
  <2>2. run'.memo = run.memo
    BY <1>2, RunItems DEF Runs
  <2> QED BY <1>2, <2>1, <2>2, NotedGoesOn
<1>3. run.step \in Busy => temp[Here] \in Files \cup {None}
  BY BusyFacts DEF TreeOK
<1>4. ASSUME Fetch
      PROVE  \/ In("materialize") /\ GoesOn(run.item, "promote")
             \/ GoesOn(run.item, "compare")
  <2>1. run.step \in Busy
    BY <1>4 DEF Fetch, Now, Busy
  <2>2. \/ In("materialize") /\ run' = [run EXCEPT !.step = "promote"]
        \/ run' = [run EXCEPT !.step = "compare"]
    BY <1>4 DEF Fetch
  <2> QED BY <1>1, <1>2, <2>1, <2>2
<1>5. ASSUME Promote PROVE GoesOn(run.item, "unlink")
  <2>1. run.step \in Busy
    BY <1>5 DEF Promote, Now, Busy
  <2>2. run' = [run EXCEPT !.step = "unlink", !.memo[run.item].now = temp[Here]]
    BY <1>5 DEF Promote
  <2>3. Keeping(run', "unlink")
    BY <1>1, <1>3, <2>1, <2>2, NowNoted, Zenon
  <2>4. \A j \in Items \ {run.item} : run'.memo[j] = run.memo[j]
    BY <2>2, RunItems DEF Runs
  <2> QED BY <1>1, <2>1, <2>3, <2>4, NotedGoesOn
<1>6. ASSUME Unlink PROVE GoesOn(run.item, "confirm")
  BY <1>1, <1>2, <1>6 DEF Unlink, Now
<1>7. ASSUME Confirm \/ CompareProvider \/ QuarantineFile PROVE IsThrough(run.item)
  <2>1. run.step \in Busy /\ run' = Completed(run, run.item)
    BY <1>7 DEF Confirm, CompareProvider, QuarantineFile, Now, Busy
  <2>2. Keeping(run, run.step)
    BY <2>1, BusyFacts, RunItems DEF Keeping, RunsInv, BatchInv
  <2> QED BY <2>1, <2>2, CompletedIsThrough
<1>8. ASSUME Swap PROVE IsThrough(run.item)
  <2> DEFINE r == [run EXCEPT !.memo[run.item].now = temp[Here]]
  <2>1. run.step = "swap" /\ run.step \in Busy
    BY <1>8 DEF Swap, Now, Busy
  <2>2. r = [run EXCEPT !.step = run.step, !.memo[run.item].now = temp[Here]]
    BY RunItems DEF Runs
  <2>3. run' = Completed(r, run.item)
    BY <1>8 DEF Swap
  <2>4. \A j \in Items \ {run.item} : r.memo[j] = run.memo[j]
    BY RunItems DEF Runs
  <2>5. r.memo[run.item].was = run.memo[run.item].was
    <3>1. run.memo[run.item] \in Memo /\ run.item \in Items
      BY <2>1, BusyFacts
    <3> QED BY <3>1, RunItems DEF Runs, Memo
  <2> HIDE DEF r
  <2>6. Keeping(r, run.step)
    BY <1>1, <1>3, <2>1, <2>2, NowNoted, Zenon
  <2> QED BY <2>1, <2>3, <2>4, <2>5, <2>6, CompletedIsThrough
<1>9. ASSUME CompareBaseline, IsFile(disk[Here])
      PROVE  GoesOn(run.item, "backup") /\ run'.memo[run.item].was = disk[Here]
  <2>1. run.step \in Busy
    BY <1>9 DEF CompareBaseline, Now, Busy
  <2>2. run' = [run EXCEPT !.step = "backup", !.memo[run.item].was = disk[Here]]
    BY <1>9 DEF CompareBaseline
  <2>3. Keeping(run', "backup")
    BY <1>1, <1>9, <2>1, <2>2, WasNoted, Zenon DEF IsFile
  <2>4. \A j \in Items \ {run.item} : run'.memo[j] = run.memo[j]
    BY <2>2, RunItems DEF Runs
  <2>5. run'.memo[run.item].was = disk[Here]
    <3>1. run.memo[run.item] \in Memo /\ run.item \in Items
      BY <2>1, BusyFacts
    <3> QED BY <2>2, <3>1, RunItems DEF Runs, Memo
  <2> QED BY <1>1, <2>1, <2>3, <2>4, <2>5, NotedGoesOn
<1>10. ASSUME LinkBackup
       PROVE  GoesOn(run.item, "swap") /\ run'.memo[run.item].was = run.memo[run.item].was
  BY <1>1, <1>2, <1>10 DEF LinkBackup, Now
<1> QED BY <1>4, <1>5, <1>6, <1>7, <1>8, <1>9, <1>10

LEMMA GoesOnFacts ==
  ASSUME RunsInv, NEW k, NEW p, AtWork(k, p), NEW step \in Busy, GoesOn(k, step)
  PROVE  /\ run.phase # "idle" /\ Live /\ Live' /\ run'.step # "clean" /\ k \in Turned
         /\ \A j \in Turned : run'.memo[j].blob = run.memo[j].blob
         /\ Compared \subseteq Items /\ Done \subseteq Items /\ k \notin Done
         /\ Compared' \subseteq Done \cup {k}
         /\ step \notin {"backup", "swap"} => Compared' = Done
         /\ run'.memo[k].path = p
         /\ run.step # "swap" /\ step # "swap" => Waiting' = Waiting /\ k \in Waiting
         /\ step = "swap" => Waiting' = run.todo
<1>1. run.item \in Items /\ run.step \in Busy /\ k = run.item /\ k \in Items
      /\ run.memo[k].path = p /\ k \notin Done
  BY DEF AtWork
<1>2. run.phase # "idle" /\ Live /\ Live' /\ run'.step # "clean"
  BY <1>1, BusyFacts DEF Live, GoesOn, Busy
<1>3. Turned \subseteq Items /\ Done \subseteq Items
  BY RunItems
<1>4. Done = Done' /\ run'.step = step /\ run'.item = k /\ run'.todo = run.todo
  BY DEF GoesOn
<1>5. k \in Turned
  BY <1>1 DEF Turned
<1>6. /\ \A j \in Turned : run'.memo[j].blob = run.memo[j].blob
      /\ run'.memo[k].path = p
  BY <1>1, <1>3 DEF GoesOn
<1>7. /\ Compared \subseteq Items /\ Compared' \subseteq Done \cup {k}
      /\ step \notin {"backup", "swap"} => Compared' = Done
  <2> HIDE DEF Done
  <2> QED BY <1>3, <1>4 DEF Compared
<1>8. /\ run.step # "swap" /\ step # "swap" => Waiting' = Waiting /\ k \in Waiting
      /\ step = "swap" => Waiting' = run.todo
  BY <1>1, <1>4 DEF Waiting
<1> QED BY <1>1, <1>2, <1>3, <1>5, <1>6, <1>7, <1>8

LEMMA ThroughFacts ==
  ASSUME RunsInv, NEW k, NEW p, AtWork(k, p), IsThrough(k)
  PROVE  /\ run.phase # "idle" /\ Live /\ Live' /\ run'.step # "clean" /\ k \in Turned
         /\ \A j \in Turned : run'.memo[j].blob = run.memo[j].blob
         /\ Done \subseteq Items /\ k \notin Done /\ Done \subseteq Compared
         /\ Compared' = Done \cup {k}
         /\ run'.memo[k].path = p
         /\ Waiting' = run.todo /\ Waiting' \subseteq Waiting
         /\ \A i \in Waiting' : Home(i) # p
<1>1. run.item \in Items /\ run.step \in Busy /\ k = run.item /\ k \in Items
      /\ run.memo[k].path = p /\ k \notin Done /\ p = Home(k) /\ k \in Batch
      /\ BatchKept /\ Underway
  BY DEF AtWork
<1>2. run.phase # "idle" /\ Live /\ Live' /\ run'.step # "clean"
  BY <1>1, BusyFacts DEF Live, IsThrough
<1>3. Turned \subseteq Items /\ Done \subseteq Items
  BY RunItems
<1>4. Done' = Done \cup {k} /\ run'.step = "next" /\ run'.todo = run.todo
  BY DEF IsThrough
<1>5. k \in Turned
  BY <1>1 DEF Turned
<1>6. /\ \A j \in Turned : run'.memo[j].blob = run.memo[j].blob
      /\ run'.memo[k].path = p
  BY <1>1, <1>3 DEF IsThrough
<1>7. Compared' = Done \cup {k} /\ Done \subseteq Compared
  BY <1>4 DEF Compared
<1>8. Waiting' = run.todo /\ Waiting' \subseteq Waiting
  BY <1>4 DEF Waiting, Busy
<1>9. \A i \in Waiting' : Home(i) # p
  <2>1. k \notin run.todo /\ run.todo \subseteq Batch
    BY <1>1, BusyFacts DEF Batch
  <2> HIDE DEF Batch, Home, Underway, Waiting
  <2> QED BY <1>1, <1>8, <2>1, HomesApart
<1> QED BY <1>1, <1>2, <1>3, <1>5, <1>6, <1>7, <1>8, <1>9

(* A step on the item in progress that only fetches, checks or looks.      *)
LEMMA GoesOnSaved ==
  ASSUME RunsInv, SavedInv, NEW k, NEW p, AtWork(k, p),
         UNCHANGED <<catalog, receipts, edits, backup, quarantine>>,
         NEW step \in Busy, step \notin {"backup", "swap"}, run.step # "swap",
         GoesOn(k, step),
         \A q \in Paths : \A x \in FilesAt(q)' : x.stamp = 0 \/ x \in FilesAt(q)
  PROVE  SavedInv'
<1>1. Dated'
  BY PartsOfInv, DatedMoves DEF SavedInv
<1>2. Served'
  <2>1. Turned' = Turned /\ Done' = Done /\ run'.phase = run.phase /\ run'.todo = run.todo
        /\ Done \subseteq Turned
    BY DEF GoesOn, Turned
  <2>2. Served
    BY DEF SavedInv
  <2>3. k \notin Done /\ k \in Turned
    BY GoesOnFacts
  <2> HIDE DEF Turned, Done
  <2>4. (In("materialize") \/ In("replace") \/ In("delete")) =>
          run'.memo[k].blob \in ProviderBlobs
    BY <2>2, <2>3, GoesOnFacts DEF Served
  <2> QED BY <2>1, <2>2, <2>3, <2>4, GoesOnFacts, ServedMoves
<1>3. Slots'
  <2>1. step # "swap" /\ run'.phase = run.phase
    BY DEF GoesOn
  <2> QED BY <2>1, GoesOnFacts, SlotsMoves DEF SavedInv, Vacates
<1>4. Copies'
  <2>1. Compared' = Done /\ Done \subseteq Compared /\ k \notin Done /\ Done \subseteq Items
    BY GoesOnFacts DEF Compared
  <2>2. \A j \in Compared' \ {k} : run'.memo[j] = run.memo[j]
    BY <2>1 DEF GoesOn
  <2>3. run'.step \notin {"backup", "swap"} /\ run'.phase = run.phase
    BY DEF GoesOn
  <2> HIDE DEF Compared
  <2> QED BY <2>1, <2>2, <2>3, CopiesMoves DEF SavedInv
<1> QED BY <1>1, <1>2, <1>3, <1>4 DEF SavedInv

(* The item gets done.                                                     *)
LEMMA ThroughSaved ==
  ASSUME RunsInv, SavedInv, NEW k, NEW p, AtWork(k, p),
         UNCHANGED <<catalog, receipts, edits, backup>>,
         \A q \in Paths \ {p} : quarantine'[q] = quarantine[q],
         In("delete") \/ quarantine' = quarantine,
         IsThrough(k), In("replace") => run.step = "swap",
         In("verify") => run.memo[k].blob \in ProviderBlobs,
         \A q \in Paths : \A x \in FilesAt(q)' : x.stamp = 0 \/ x \in FilesAt(q)
  PROVE  SavedInv'
<1>1. Dated'
  BY PartsOfInv, DatedMoves DEF SavedInv
<1>2. Served'
  <2>1. Turned' = Turned /\ Done' = Done \cup {k} /\ run'.phase = run.phase
        /\ run'.todo = run.todo /\ run'.memo[k].blob = run.memo[k].blob
    BY DEF IsThrough
  <2>2. Served
    BY DEF SavedInv
  <2>3. k \in Turned
    BY ThroughFacts
  <2> HIDE DEF Turned, Done
  <2>4. (In("materialize") \/ In("replace") \/ In("delete")) =>
          run'.memo[k].blob \in ProviderBlobs
    BY <2>1, <2>2, <2>3 DEF Served
  <2> QED BY <2>1, <2>2, <2>3, <2>4, ThroughFacts, ServedMoves
<1>3. Slots'
  <2>1. run'.phase = run.phase
    BY DEF IsThrough
  <2> QED BY <2>1, ThroughFacts, SlotsMoves DEF SavedInv, Vacates
<1>4. Copies'
  <2>1. Compared' = Done \cup {k} /\ Done \subseteq Compared /\ k \notin Done /\ Done \subseteq Items
    BY ThroughFacts
  <2>2. \A j \in Compared' \ {k} : run'.memo[j] = run.memo[j]
    BY <2>1 DEF IsThrough
  <2>3. run'.step \notin {"backup", "swap"} /\ run'.phase = run.phase
    BY DEF IsThrough
  <2>4. ASSUME In("replace")
        PROVE  ComparedFile(run.memo[k])' /\ Late(backup'[run'.memo[k].path], run'.memo[k].was)
    <3>1. k \in Compared
      BY <2>4 DEF AtWork, Compared
    <3>2. /\ ComparedFile(run.memo[k])
          /\ Late(backup[run.memo[k].path], run.memo[k].was)
      BY <2>4, <3>1 DEF SavedInv, Copies
    <3> QED BY <3>2 DEF IsThrough, ComparedFile
  <2> HIDE DEF Compared
  <2> QED BY <2>1, <2>2, <2>3, <2>4, CopiesMoves DEF SavedInv
<1> QED BY <1>1, <1>2, <1>3, <1>4 DEF SavedInv

LEMMA SurvivesStill == UNCHANGED <<disk, backup, quarantine>> => Survives
BY DEF Survives, UserWork

LEMMA FetchSaved ==
  ASSUME RunsInv, KeptInv, SavedInv, UNCHANGED <<catalog, edits>>,
         Fetch \/ Promote \/ Unlink
  PROVE  SavedInv' /\ Survives
<1>1. run.step \in {"fetch", "promote", "unlink"} /\ run.step \in Busy
      /\ UNCHANGED <<backup, quarantine, receipts>>
  BY DEF Fetch, Promote, Unlink, Now, Busy
<1>2. PICK k, p : k = run.item /\ p = Here
  OBVIOUS
<1>3. AtWork(k, p) /\ TreeOK
  BY <1>1, <1>2, ItemFacts, RunItems
<1>4. PICK step \in Busy : step \notin {"backup", "swap"} /\ GoesOn(k, step)
  <2>1. {"promote", "compare", "unlink", "confirm"} \subseteq Busy
    BY DEF Busy
  <2> QED BY <1>2, <1>3, <2>1, ItemMoves
<1>5. \/ disk' = disk /\ \E x : x.stamp = 0 /\ temp' = [temp EXCEPT ![p] = x]
      \/ disk[p] = None /\ disk' = [disk EXCEPT ![p] = temp[p]] /\ temp' = temp
      \/ disk' = disk /\ temp' = [temp EXCEPT ![p] = None]
  <2>1. CASE Fetch
    <3> DEFINE x == [node |-> FreshNode, blob |-> remote[run.item].blob, stamp |-> 0]
    <3>1. x.stamp = 0 /\ temp' = [temp EXCEPT ![p] = x]
      BY <1>2, <2>1 DEF Fetch
    <3> HIDE DEF x
    <3> QED BY <2>1, <3>1 DEF Fetch
  <2>2. CASE Promote
    BY <1>2, <2>2 DEF Promote, Passes, Now, Here
  <2>3. CASE Unlink
    BY <1>2, <2>3 DEF Unlink
  <2> QED BY <2>1, <2>2, <2>3
<1>6. p \in Paths
  BY <1>3 DEF AtWork
<1>7. \A q \in Paths : \A x \in FilesAt(q)' : x.stamp = 0 \/ x \in FilesAt(q)
  BY <1>1, <1>3, <1>5, <1>6, RecordsAreNotNone DEF FilesAt, TreeOK
<1>8. SavedInv'
  BY <1>1, <1>3, <1>4, <1>7, GoesOnSaved
<1>9. Survives
  <2>1. \A q \in Paths \ {p} : SameAt(q)
    BY <1>1, <1>3, <1>5 DEF SameAt, TreeOK
  <2>2. \A x \in {disk[p], backup[p], quarantine[p]} :
          x \in UserWork => x \in {disk'[p], backup'[p], quarantine'[p]}
    BY <1>1, <1>5, RecordsAreNotNone DEF UserWork
  <2> QED BY <1>6, <2>1, <2>2, SurvivesAt
<1> QED BY <1>8, <1>9

LEMMA ConfirmSaved ==
  ASSUME RunsInv, KeptInv, SavedInv, UNCHANGED <<catalog, edits>>,
         Confirm \/ CompareProvider
  PROVE  SavedInv' /\ Survives
<1>1. run.step \in Busy /\ UNCHANGED tree /\ UNCHANGED receipts
  BY DEF Confirm, CompareProvider, Now, Busy
<1>2. PICK k, p : k = run.item /\ p = Here
  OBVIOUS
<1>3. AtWork(k, p) /\ TreeOK
  BY <1>1, <1>2, ItemFacts, RunItems
<1>4. IsThrough(k)
  BY <1>2, <1>3, ItemMoves
<1>5. ~In("replace")
  BY <1>3 DEF Confirm, CompareProvider, Now, AtWork, StepFits, In
<1>6. In("verify") => run.memo[k].blob \in ProviderBlobs
  <2>1. SUFFICES ASSUME In("verify") PROVE run.memo[k].blob \in ProviderBlobs
    OBVIOUS
  <2>2. CompareProvider
    BY <1>3, <2>1 DEF Confirm, Now, AtWork, StepFits, In
  <2>3. remote[k] # None /\ remote[k].blob = run.memo[k].blob
    BY <1>2, <2>1, <2>2 DEF CompareProvider, Passes, Now, In, Announced
  <2>4. k \notin Folders /\ k \in Items
    BY <1>1, <1>2, <2>1, BusyFacts, BatchHomes DEF In
  <2> QED BY <2>3, <2>4 DEF RunsInv, RemoteInv, Present
<1>7. SavedInv'
  BY <1>1, <1>3, <1>4, <1>5, <1>6, ThroughSaved DEF FilesAt, tree
<1> QED BY <1>1, <1>7, SurvivesStill DEF tree

LEMMA BackupSaved ==
  ASSUME RunsInv, KeptInv, SavedInv, UNCHANGED <<catalog, edits>>,
         CompareBaseline \/ LinkBackup
  PROVE  SavedInv' /\ Survives
<1>1. run.step \in {"compare", "backup"} /\ run.step \in Busy
  BY DEF CompareBaseline, LinkBackup, Now, Busy
<1>2. PICK k, p : k = run.item /\ p = Here
  OBVIOUS
<1>3. AtWork(k, p) /\ TreeOK /\ p \in Paths /\ run.memo[k].path = p
  BY <1>1, <1>2, ItemFacts, RunItems DEF AtWork
<1>4. In("replace") /\ k \in Owned \ Folders /\ receipts[k].path = p
  <2>1. In("replace")
    BY <1>3 DEF CompareBaseline, LinkBackup, AtWork, StepFits, In, Now
  <2>2. k \notin Folders
    BY <1>1, <1>2, <2>1, BusyFacts, BatchHomes DEF In
  <2> QED BY <2>1, <2>2, <1>3 DEF AtWork, BatchKept
<1>5. /\ UNCHANGED <<disk, temp, quarantine, receipts>>
      /\ CompareBaseline => backup' = backup
      /\ LinkBackup => backup' = [backup EXCEPT ![p] = disk[p]]
  BY <1>2 DEF CompareBaseline, LinkBackup, tree
<1>6. /\ Late(disk[p], run'.memo[k].was) /\ ComparedFile(run.memo[k])'
      /\ \E step \in {"backup", "swap"} : GoesOn(k, step) /\ (step = "swap" <=> LinkBackup)
  <2>1. CASE CompareBaseline
    <3>1. IsFile(disk[p]) /\ disk[p].blob = receipts[k].blob
      BY <1>2, <1>4, <2>1 DEF CompareBaseline, Passes, Now, In, Unchanged
    <3>2. disk[p].blob \in ProviderBlobs
      BY <1>4, <3>1 DEF SavedInv, Served
    <3>3. disk[p].stamp <= edits
      BY <1>3, <3>1 DEF SavedInv, Dated, FilesAt, IsFile
    <3>4. GoesOn(k, "backup") /\ run'.memo[k].was = disk[p]
      BY <1>2, <1>3, <2>1, <3>1, ItemMoves
    <3>5. ~LinkBackup
      BY <2>1 DEF CompareBaseline, LinkBackup, Now
    <3>6. Late(disk[p], run'.memo[k].was)
      BY <3>2 DEF Late
    <3>7. ComparedFile(run.memo[k])'
      BY <3>1, <3>3, <3>4 DEF ComparedFile, GoesOn, IsFile
    <3> QED BY <3>4, <3>5, <3>6, <3>7
  <2>2. CASE LinkBackup
    <3>1. Now("backup") /\ k \in Compared
      BY <1>2, <1>3, <2>2 DEF LinkBackup, Compared, Now, AtWork
    <3>2. ComparedFile(run.memo[k]) /\ Late(disk[p], run.memo[k].was)
      BY <1>2, <1>3, <1>4, <3>1 DEF SavedInv, Copies, Now
    <3>3. GoesOn(k, "swap") /\ run'.memo[k].was = run.memo[k].was
      BY <1>2, <1>3, <2>2, ItemMoves
    <3>4. Late(disk[p], run'.memo[k].was)
      BY <3>2, <3>3
    <3>5. ComparedFile(run.memo[k])'
      BY <3>2, <3>3 DEF ComparedFile, GoesOn
    <3> QED BY <2>2, <3>3, <3>4, <3>5
  <2> QED BY <2>1, <2>2
<1>7. PICK step \in {"backup", "swap"} : GoesOn(k, step) /\ (step = "swap" <=> LinkBackup)
  BY <1>6
<1>8. step \in Busy /\ run.step # "swap"
  BY <1>1 DEF Busy
<1>9. /\ \A q \in Paths \ {p} : backup'[q] = backup[q]
      /\ backup[p] = None /\ quarantine[p] = None
      /\ LinkBackup => backup'[p] = disk[p]
  <2>1. k \in Waiting /\ Live /\ p = Home(k)
    BY <1>1, <1>3, BusyFacts DEF Waiting, AtWork
  <2> QED BY <1>3, <1>5, <2>1 DEF TreeOK, SavedInv, Slots
<1>10. Dated'
  <2>1. \A q \in Paths : \A x \in FilesAt(q)' : x \in FilesAt(q)
    BY <1>3, <1>5, <1>9 DEF FilesAt
  <2> QED BY <2>1, PartsOfInv, DatedMoves DEF SavedInv
<1>11. Served'
  <2>1. Turned' = Turned /\ Done' = Done /\ run'.phase = run.phase /\ run'.todo = run.todo
    BY <1>7 DEF GoesOn
  <2>2. Served
    BY DEF SavedInv
  <2>3. k \notin Done /\ k \in Turned
    BY <1>3, <1>7, <1>8, GoesOnFacts
  <2> HIDE DEF Turned, Done
  <2>4. run'.memo[k].blob \in ProviderBlobs
    BY <1>3, <1>4, <1>7, <1>8, <2>2, <2>3, GoesOnFacts DEF Served
  <2> QED BY <1>3, <1>5, <1>7, <1>8, <2>1, <2>2, <2>3, <2>4, GoesOnFacts, ServedMoves
<1>12. Slots'
  <2>1. run'.phase = run.phase /\ Live /\ Live'
    BY <1>3, <1>7, <1>8, GoesOnFacts DEF GoesOn
  <2>2. Waiting' \subseteq Waiting /\ (LinkBackup => Waiting' = run.todo)
    <3>1. run.todo \subseteq Waiting
      BY DEF Waiting
    <3> QED BY <1>3, <1>7, <1>8, <3>1, GoesOnFacts
  <2>3. \A i \in run.todo : Home(i) # p
    <3>1. k \notin run.todo /\ run.todo \subseteq Batch
      BY <1>1, <1>2, BusyFacts DEF Batch
    <3> HIDE DEF Batch, Home, Underway, Waiting
    <3> QED BY <1>3, <3>1, HomesApart DEF AtWork
  <2>4. LinkBackup \/ backup' = backup
    BY <1>5
  <2>5. \A q \in Paths \ {p} : Vacates(q)
    BY <1>5, <1>9 DEF Vacates
  <2>6. Vacates(p) \/ \A i \in Waiting' : Home(i) # p
    BY <1>5, <2>2, <2>3, <2>4 DEF Vacates
  <2> HIDE DEF Waiting, Live, Home, Vacates
  <2> QED BY <1>4, <1>5, <2>1, <2>2, <2>5, <2>6, SlotsMoves DEF SavedInv
<1>13. Copies'
  <2>1. Compared' \subseteq Done \cup {k} /\ k \notin Done /\ Done \subseteq Items
        /\ Done \subseteq Compared /\ k \in Batch /\ BatchKept /\ Underway /\ p = Home(k)
    BY <1>3, <1>7, <1>8, GoesOnFacts DEF Compared, AtWork
  <2>2. \A j \in Compared' \ {k} : run'.memo[j] = run.memo[j] /\ run.memo[j].path \in Paths \ {p}
    <3>1. \A j \in Done \ {k} : run.memo[j].path = Home(j) /\ Home(j) # p /\ Home(j) \in Paths
      BY <2>1, DoneHomes
    <3> QED BY <1>7, <2>1, <3>1 DEF GoesOn
  <2>3. Compared' \subseteq Compared \cup {k} /\ run'.phase = run.phase
        /\ run'.item = k /\ run'.step = step /\ run'.memo[k].path = p
    BY <1>3, <1>7, <2>1 DEF GoesOn
  <2>4. Late(backup'[p], run'.memo[k].was)
    BY <1>5, <1>6, <1>9, RecordsAreNotNone DEF Late, IsFile
  <2> HIDE DEF Compared
  <2> QED BY <1>5, <1>6, <1>9, <2>2, <2>3, <2>4, CopiesMoves DEF SavedInv
<1>14. Survives
  <2>1. \A x \in {disk[p], backup[p], quarantine[p]} :
          x \in UserWork => x \in {disk'[p], backup'[p], quarantine'[p]}
    BY <1>5, <1>9, RecordsAreNotNone DEF UserWork
  <2> QED BY <1>3, <1>5, <1>9, <2>1, SurvivesAt DEF SameAt
<1> QED BY <1>10, <1>11, <1>12, <1>13, <1>14 DEF SavedInv

(* What goes under another name was saved after the comparison, or the     *)
(* provider served it.                                                     *)
LEMMA SwapSaved ==
  ASSUME RunsInv, KeptInv, SavedInv, UNCHANGED <<catalog, edits>>, Swap
  PROVE  SavedInv' /\ Survives
<1>1. Now("swap") /\ run.step \in Busy /\ UNCHANGED <<backup, quarantine, receipts>>
  BY DEF Swap, Now, Busy
<1>2. PICK k, p : k = run.item /\ p = Here
  OBVIOUS
<1>3. AtWork(k, p) /\ TreeOK /\ p \in Paths /\ run.memo[k].path = p /\ k \in Items
  BY <1>1, <1>2, ItemFacts, RunItems DEF AtWork
<1>4. In("replace")
  BY <1>1, <1>3 DEF AtWork, StepFits, In, Now
<1>5. disk' = [disk EXCEPT ![p] = temp[p]] /\ temp' = [temp EXCEPT ![p] = None]
  BY <1>2 DEF Swap
<1>6. IsThrough(k)
  BY <1>2, <1>3, ItemMoves
<1>7. \A q \in Paths : \A x \in FilesAt(q)' : x \in FilesAt(q)
  BY <1>1, <1>3, <1>5, RecordsAreNotNone DEF FilesAt, TreeOK
<1>8. SavedInv'
  BY <1>1, <1>3, <1>4, <1>6, <1>7, ThroughSaved DEF In, Now
<1>9. Survives
  <2>1. \A q \in Paths \ {p} : SameAt(q)
    BY <1>1, <1>3, <1>5 DEF SameAt, TreeOK
  <2>2. ComparedFile(run.memo[k]) /\ Late(disk[p], run.memo[k].was)
    <3>1. k \in Compared
      BY <1>1, <1>2, <1>3 DEF Compared, Now
    <3> QED BY <1>1, <1>2, <1>3, <1>4, <3>1 DEF SavedInv, Copies, Now
  <2>3. disk[p] \in UserWork => SavedTooLate(disk[p])
    BY <1>1, <1>3, <1>4, <2>2 DEF UserWork, Late, IsFile, SavedTooLate, ComparedFile
  <2> QED BY <1>1, <1>3, <2>1, <2>3, SurvivesAt
<1> QED BY <1>8, <1>9

LEMMA QuarantineSaved ==
  ASSUME RunsInv, KeptInv, SavedInv, UNCHANGED <<catalog, edits>>, QuarantineFile
  PROVE  SavedInv' /\ Survives
<1>1. Now("quarantine") /\ run.step \in Busy /\ UNCHANGED <<temp, backup, receipts>>
  BY DEF QuarantineFile, Aside, Now, Busy
<1>2. PICK k, p : k = run.item /\ p = Here
  OBVIOUS
<1>3. AtWork(k, p) /\ TreeOK /\ p \in Paths /\ p = Home(k)
  BY <1>1, <1>2, ItemFacts, RunItems DEF AtWork
<1>4. In("delete")
  BY <1>1, <1>3 DEF AtWork, StepFits, In, Now
<1>5. /\ quarantine' = [quarantine EXCEPT ![p] = disk[p]]
      /\ disk' = [disk EXCEPT ![p] = None]
  BY <1>2 DEF QuarantineFile, Aside
<1>6. IsThrough(k)
  BY <1>2, <1>3, ItemMoves
<1>7. \A q \in Paths : \A x \in FilesAt(q)' : x \in FilesAt(q)
  BY <1>1, <1>3, <1>5, RecordsAreNotNone DEF FilesAt, TreeOK
<1>8. /\ \A q \in Paths \ {p} : SameAt(q)
      /\ quarantine'[p] = disk[p]
  BY <1>1, <1>3, <1>5 DEF SameAt, TreeOK
<1>9. SavedInv'
  BY <1>1, <1>3, <1>4, <1>6, <1>7, <1>8, ThroughSaved DEF In, SameAt
<1>10. Survives
  <2>1. quarantine[p] = None
    <3>1. k \in Waiting /\ Live
      BY <1>1, <1>2, <1>3, BusyFacts DEF Waiting, Now, AtWork
    <3> QED BY <1>3, <3>1 DEF SavedInv, Slots
  <2>2. None \notin UserWork
    BY RecordsAreNotNone DEF UserWork
  <2> QED BY <1>1, <1>3, <1>8, <2>1, <2>2, SurvivesAt
<1> QED BY <1>9, <1>10

(* The run turns to an item: a look at it, and nothing written.            *)
LEMMA TurnSaved ==
  ASSUME RunsInv, SavedInv, UNCHANGED <<catalog, edits>>,
         NEW i \in Items, Fingerprint(i) \/ HashLocal(i) \/ InspectStale(i)
  PROVE  SavedInv' /\ Survives
<1>1. /\ Now("next") /\ i \in run.todo /\ UNCHANGED <<tree, receipts>> /\ Live
      /\ run.phase # "idle"
  BY DEF Fingerprint, HashLocal, InspectStale, Turn, In, Now, Live
<1>2. run \in Runs /\ Home(i) \in Paths /\ TablesOK /\ TreeOK /\ Done \subseteq Items
      /\ (~In("create") /\ ~In("delete") /\ ~In("rmdir") => i \notin Folders)
  BY <1>1, BatchHomes, RunItems
<1>3. PICK step \in Busy, blob \in Blobs \cup {None}, was \in Files \cup {None} :
        /\ run' = Started(i, step, blob, was)
        /\ step \in {"fetch", "compare", "quarantine"}
        /\ In("verify") \/ blob \in ProviderBlobs
  <2>1. CASE Fingerprint(i)
    <3>1. Announced(i) /\ i \notin Folders
      BY <1>2, <2>1 DEF Fingerprint, Turn, FirstCheck, In
    <3>2. remote[i].blob \in ProviderBlobs /\ remote[i].blob \in Blobs
      BY <3>1, RunAssumption DEF Announced, RunsInv, RemoteInv, Present
    <3> QED BY <2>1, <3>2 DEF Fingerprint, Busy
  <2>2. CASE HashLocal(i)
    <3>1. IsFile(disk[Home(i)])
      BY <2>2 DEF HashLocal, Turn, FirstCheck, In
    <3>2. disk[Home(i)] \in Files /\ disk[Home(i)].blob \in Blobs
      BY <3>1 DEF IsFile, Files
    <3> QED BY <2>2, <3>2 DEF HashLocal, Busy
  <2>3. CASE InspectStale(i)
    <3>1. i \in Owned \ Expected /\ i \notin Folders
      BY <1>1, <2>3 DEF InspectStale, In, RunsInv, BatchInv, SavedInv, Served
    <3>2. Unchanged(i) /\ Home(i) = receipts[i].path
      BY <2>3, <3>1 DEF InspectStale, Turn, FirstCheck, In, Home
    <3>3. disk[Home(i)] \in Files
      BY <3>2 DEF Unchanged, IsFile
    <3>4. receipts[i].blob \in ProviderBlobs /\ receipts[i].blob \in Blobs
      BY <3>1, RunAssumption DEF SavedInv, Served
    <3> QED BY <2>3, <3>3, <3>4 DEF InspectStale, Busy
  <2> QED BY <2>1, <2>2, <2>3
<1>4. /\ run'.phase = run.phase /\ run'.step = step /\ run'.item = i
      /\ run'.todo = run.todo \ {i} /\ run'.done = run.done
      /\ run'.memo[i].blob = blob
      /\ \A j \in Items \ {i} : run'.memo[j] = run.memo[j]
  <2>1. step \in Steps /\ run' = Started(i, step, blob, was)
    BY <1>3 DEF Busy, Steps
  <2> QED BY <1>2, <2>1, StartedFacts
<1>5. /\ Done' = Done /\ Turned' = Done \cup {i} /\ Turned = Done /\ i \notin Done
      /\ Compared' = Done /\ Compared = Done
      /\ Waiting' \subseteq Waiting /\ Live' /\ run'.step # "clean"
  <2>1. i \notin Done
    BY <1>1, TypeParts DEF RunsInv, RunOK, Now
  <2>2. Done' = Done
    BY <1>4 DEF Done
  <2> HIDE DEF Done
  <2> QED BY <1>1, <1>3, <1>4, <2>1, <2>2 DEF Turned, Compared, Waiting, Live, Busy, Now
<1>6. Dated'
  BY <1>1, PartsOfInv, DatedMoves DEF SavedInv, FilesAt, tree
<1>7. Served'
  <2>1. \A j \in Turned \ {i} : run'.memo[j].blob = run.memo[j].blob
    BY <1>2, <1>4, <1>5
  <2>2. In("materialize") \/ In("replace") \/ In("delete") => ~In("verify")
    BY DEF In
  <2> HIDE DEF Turned, Done, Live
  <2> QED BY <1>1, <1>3, <1>4, <1>5, <2>1, <2>2, ServedMoves DEF SavedInv
<1>8. Slots'
  BY <1>1, <1>4, <1>5, SlotsMoves DEF SavedInv, Vacates, tree
<1>9. Copies'
  <2> HIDE DEF Compared, Done
  <2> QED BY <1>1, <1>2, <1>3, <1>4, <1>5, CopiesMoves DEF SavedInv, tree
<1> QED BY <1>1, <1>6, <1>7, <1>8, <1>9, SurvivesStill DEF SavedInv, tree

LEMMA FolderSaved ==
  ASSUME RunsInv, KeptInv, SavedInv, UNCHANGED <<catalog, edits>>,
         NEW i \in Items, MakeFolder(i) \/ QuarantineFolder(i)
  PROVE  SavedInv' /\ Survives
<1>1. /\ Now("next") /\ i \in run.todo /\ UNCHANGED <<temp, backup, receipts>> /\ Live
      /\ run.phase # "idle" /\ Underway /\ BatchKept
  BY DEF MakeFolder, QuarantineFolder, Turn, Aside, In, Now, Live, Underway, KeptInv, Kept
<1>2. run \in Runs /\ Home(i) \in Paths /\ TreeOK /\ Done \subseteq Items
  BY <1>1, BatchHomes, RunItems
<1>3. PICK p \in Paths : p = Home(i)
  BY <1>2
<1>4. \/ /\ In("create") /\ disk[p] \in {None, Dir} /\ disk' = [disk EXCEPT ![p] = Dir]
         /\ quarantine' = quarantine
      \/ /\ In("rmdir") /\ disk[p] = Dir /\ disk' = [disk EXCEPT ![p] = None]
         /\ quarantine' = [quarantine EXCEPT ![p] = disk[p]]
  <2>1. CASE MakeFolder(i)
    BY <1>3, <2>1 DEF MakeFolder, Turn, FirstCheck, In
  <2>2. CASE QuarantineFolder(i)
    BY <1>3, <2>2 DEF QuarantineFolder, Aside, Turn, FirstCheck, In
  <2> QED BY <2>1, <2>2
<1>5. /\ run'.phase = run.phase /\ run'.step = "next"
      /\ run'.todo = run.todo \ {i} /\ Done' \subseteq Done \cup {i}
      /\ \A j \in Items \ {i} : run'.memo[j] = run.memo[j]
  <2> DEFINE r == Started(i, "next", None, None)
  <2>1. /\ r \in Runs /\ r.phase = run.phase /\ r.step = "next" /\ r.item = i
        /\ r.todo = run.todo \ {i} /\ r.done = run.done
        /\ \A j \in Items \ {i} : r.memo[j] = run.memo[j]
    BY <1>2, StartedFacts DEF Steps
  <2>2. run' = Completed(r, i) \/ run' = [r EXCEPT !.item = None]
    BY DEF MakeFolder, QuarantineFolder
  <2> HIDE DEF r
  <2>3. CASE run' = Completed(r, i)
    BY <2>1, <2>3, CompletedFacts DEF Done
  <2>4. CASE run' = [r EXCEPT !.item = None]
    BY <2>1, <2>4 DEF Done, Runs
  <2> QED BY <2>2, <2>3, <2>4
<1>6. /\ Turned' = Done' /\ Turned = Done /\ i \notin Done
      /\ Waiting' = run.todo \ {i} /\ Waiting = run.todo /\ Live' /\ run'.step # "clean"
  <2>1. i \notin Done
    BY <1>1, TypeParts DEF RunsInv, RunOK, Now
  <2> HIDE DEF Done
  <2> QED BY <1>1, <1>5, <2>1 DEF Turned, Waiting, Live, Busy, Now
<1>7. \A j \in Waiting' : Home(j) # p
  <2>1. run.todo \subseteq Batch
    BY DEF Batch
  <2> HIDE DEF Batch, Home, Underway, Waiting
  <2> QED BY <1>1, <1>3, <1>6, <2>1, HomesApart
<1>8. Dated'
  <2>1. \A q \in Paths : \A x \in FilesAt(q)' : x \in FilesAt(q)
    BY <1>1, <1>2, <1>4, RecordsAreNotNone DEF FilesAt, TreeOK
  <2> QED BY <2>1, PartsOfInv, DatedMoves DEF SavedInv
<1>9. ~In("materialize") /\ ~In("replace") /\ ~In("delete") /\ ~In("verify")
  BY <1>4 DEF In
<1>10. Served'
  <2> HIDE DEF Done, Turned, Live
  <2> QED BY <1>1, <1>2, <1>5, <1>6, <1>9, ServedMoves DEF SavedInv
<1>11. Slots'
  <2>1. \A q \in Paths \ {p} : Vacates(q)
    BY <1>1, <1>2, <1>4 DEF Vacates, TreeOK
  <2>2. Waiting' \subseteq Waiting
    BY <1>6
  <2>3. quarantine'[p] = quarantine[p] \/ In("rmdir")
    BY <1>4
  <2> HIDE DEF Waiting, Live, Home, Vacates
  <2> QED BY <1>1, <1>5, <1>6, <1>7, <2>1, <2>2, <2>3, SlotsMoves DEF SavedInv
<1>12. Copies'
  BY <1>5, <1>9 DEF Copies, In
<1>13. Survives
  <2>1. \A q \in Paths \ {p} : SameAt(q)
    BY <1>1, <1>2, <1>4 DEF SameAt, TreeOK
  <2>2. \A x \in {disk[p], backup[p]} : x \in UserWork => x \in {disk'[p], backup'[p]}
    BY <1>1, <1>4, RecordsAreNotNone DEF UserWork
  <2>3. quarantine[p] = None \/ quarantine' = quarantine
    BY <1>1, <1>3, <1>6 DEF SavedInv, Slots
  <2>4. None \notin UserWork
    BY RecordsAreNotNone DEF UserWork
  <2> QED BY <2>1, <2>2, <2>3, <2>4, SurvivesAt
<1> QED BY <1>8, <1>10, <1>11, <1>12, <1>13 DEF SavedInv

-----------------------------------------------------------------------------
(* The end of a batch, and the way back.                                   *)

LEMMA RecordSaved ==
  ASSUME RunsInv, SavedInv, UNCHANGED <<catalog, edits>>,
         RecordReceipts \/ DropReceipts
  PROVE  SavedInv' /\ Survives
<1>1. /\ run.phase # "idle" /\ Now("next") /\ UNCHANGED tree /\ Live
      /\ run \in Runs /\ Done \subseteq Items
  BY RunItems DEF RecordReceipts, DropReceipts, AllDone, In, Now, Live
<1>2. /\ run'.phase = run.phase /\ run'.done = run.done /\ run'.memo = run.memo
      /\ run'.step = "finish" \/ (run'.step = "clean" /\ run'.todo = Done)
  BY <1>1 DEF RecordReceipts, DropReceipts, Runs
<1>3. /\ Turned = Done /\ Turned' = Done /\ Done' = Done /\ Compared = Done /\ Compared' = Done
      /\ ~Live'
  <2>1. Done' = Done
    BY <1>2 DEF Done
  <2> HIDE DEF Done
  <2> QED BY <1>1, <1>2, <2>1 DEF Turned, Compared, Busy, Now, Live
<1>4. Dated'
  BY <1>1, PartsOfInv, DatedMoves DEF SavedInv, FilesAt, tree
<1>5. \A i \in Owned' \ Folders : receipts'[i].blob \in ProviderBlobs
  <2>1. SUFFICES ASSUME NEW i \in Owned' \ Folders PROVE receipts'[i].blob \in ProviderBlobs
    OBVIOUS
  <2>2. CASE i \notin Done \/ DropReceipts
    <3>1. i \in Owned /\ receipts'[i] = receipts[i]
      BY <2>1, <2>2 DEF RecordReceipts, DropReceipts, AllDone, Owned
    <3> QED BY <2>1, <3>1 DEF SavedInv, Served
  <2>3. CASE i \in Done /\ RecordReceipts
    <3>1. i \in Items /\ receipts'[i] = [path |-> run.memo[i].path, state |-> "current",
                                         blob |-> run.memo[i].blob]
      BY <1>1, <2>3 DEF RecordReceipts
    <3>2. receipts'[i].blob = run.memo[i].blob
      BY <3>1
    <3>3. ~In("create")
      BY <1>1, <1>3, <2>1, <2>3 DEF RunsInv, BatchInv
    <3> QED BY <1>3, <2>3, <3>2, <3>3 DEF RecordReceipts, SavedInv, Served
  <2> QED BY <2>2, <2>3
<1>6. Served'
  <2> HIDE DEF Turned, Done, Live
  <2> QED BY <1>2, <1>3, <1>5 DEF SavedInv, Served, In, Now
<1>7. Slots'
  <2>1. UNCHANGED <<backup, quarantine>>
    BY <1>1 DEF tree
  <2> QED BY <1>2, <1>3, <2>1 DEF SavedInv, Slots
<1>8. Copies'
  <2> HIDE DEF Compared, Done
  <2> QED BY <1>1, <1>2, <1>3 DEF SavedInv, Copies, tree, In, ComparedFile
<1> QED BY <1>1, <1>4, <1>6, <1>7, <1>8, SurvivesStill DEF SavedInv, tree

LEMMA CleanSaved ==
  ASSUME RunsInv, SavedInv, UNCHANGED <<catalog, edits>>, NEW k \in Items, Clean(k)
  PROVE  SavedInv' /\ Survives
<1>1. PICK p : p = run.memo[k].path
  OBVIOUS
<1>2. /\ Now("clean") /\ k \in run.todo /\ k \in Done /\ MayClean(k)
      /\ UNCHANGED <<disk, temp, receipts>>
      /\ backup' = [backup EXCEPT ![p] = None]
      /\ quarantine' = [quarantine EXCEPT ![p] = None]
      /\ run \in Runs /\ TreeOK
  BY <1>1, RunItems DEF Clean, SavedInv, Served
<1>3. /\ run'.step = "clean" /\ run'.todo \subseteq run.todo /\ run'.memo = run.memo
      /\ run'.phase = run.phase /\ run'.done = run.done
  BY <1>2 DEF Clean, Runs, Now
<1>4. /\ Turned = Done /\ Turned' = Done /\ Done' = Done /\ Compared = Done /\ Compared' = Done
      /\ ~Live' /\ k \in Turned /\ k \in Compared
  <2>1. Done' = Done
    BY <1>3 DEF Done
  <2> HIDE DEF Done
  <2> QED BY <1>2, <1>3, <2>1 DEF Turned, Compared, Busy, Now, Live
<1>5. \A q \in Paths : /\ backup'[q] = backup[q] \/ backup'[q] = None
                       /\ quarantine'[q] = quarantine[q] \/ quarantine'[q] = None
                       /\ q # p => backup'[q] = backup[q] /\ quarantine'[q] = quarantine[q]
  BY <1>2 DEF TreeOK
<1>6. Dated'
  <2>1. \A q \in Paths : \A x \in FilesAt(q)' : x \in FilesAt(q)
    BY <1>2, <1>5, RecordsAreNotNone DEF FilesAt
  <2> QED BY <2>1, PartsOfInv, DatedMoves DEF SavedInv
<1>7. Served'
  <2>1. Owned' = Owned /\ UNCHANGED receipts
    BY <1>2 DEF Owned
  <2> HIDE DEF Turned, Done, Live
  <2> QED BY <1>2, <1>3, <1>4, <2>1 DEF SavedInv, Served, In, Now
<1>8. Slots'
  <2> HIDE DEF Live
  <2> QED BY <1>3, <1>4, <1>5 DEF SavedInv, Slots
<1>9. Copies'
  <2>1. ASSUME NEW x, NEW was PROVE Late(None, was)
    BY RecordsAreNotNone DEF Late, IsFile
  <2>2. SUFFICES ASSUME In("replace"), NEW j \in Done
                 PROVE  ComparedFile(run.memo[j])' /\ Late(backup'[run.memo[j].path], run.memo[j].was)
    <3> HIDE DEF Compared, Done
    <3> QED BY <1>3, <1>4 DEF Copies, In
  <2>3. ComparedFile(run.memo[j]) /\ Late(backup[run.memo[j].path], run.memo[j].was)
    BY <1>4, <2>2 DEF SavedInv, Copies
  <2>4. run.memo[j].path \in Paths
    <3>1. run.memo[j] # None /\ j \in Items
      BY <2>2, <2>3, RunItems DEF ComparedFile
    <3> QED BY <1>2, <3>1 DEF Runs, Memo
  <2> QED BY <1>3, <1>5, <2>1, <2>3, <2>4 DEF ComparedFile
<1>10. Survives
  <2>1. SUFFICES ASSUME NEW x \in UserWork, ~SavedTooLate(x) PROVE x \in UserWork'
    BY DEF Survives
  <2>2. PICK q \in Paths : x \in {disk[q], backup[q], quarantine[q]}
    BY DEF UserWork
  <2>3. x \in Files /\ x.stamp > 0 /\ x.blob \notin ProviderBlobs
    BY DEF UserWork
  <2>4. CASE x \in {disk'[q], backup'[q], quarantine'[q]}
    BY <2>3, <2>4 DEF UserWork
  <2>5. CASE x \notin {disk'[q], backup'[q], quarantine'[q]}
    <3>1. p = q /\ x \in {backup[p], quarantine[p]}
      BY <1>2, <1>5, <2>2, <2>5
    <3>2. CASE In("replace")
      <4>1. quarantine[p] = None
        BY <3>1, <3>2 DEF SavedInv, Slots, In
      <4>2. x = backup[p]
        BY <2>3, <3>1, <4>1, RecordsAreNotNone
      <4>3. ComparedFile(run.memo[k]) /\ Late(backup[p], run.memo[k].was)
        BY <1>1, <1>4, <3>2 DEF SavedInv, Copies
      <4>4. SavedTooLate(x)
        BY <1>2, <2>3, <3>2, <4>2, <4>3 DEF Late, IsFile, SavedTooLate, ComparedFile
      <4> QED BY <2>1, <4>4
    <3>3. CASE ~In("replace")
      <4>1. In("delete") \/ In("rmdir")
        BY <1>2, <3>3 DEF RunsInv, RunInv, StepFits, In, Now
      <4>2. backup[p] = None
        BY <3>1, <4>1 DEF SavedInv, Slots, In
      <4>3. x = quarantine[p]
        BY <2>3, <3>1, <4>2, RecordsAreNotNone
      <4>4. In("delete")
        BY <1>1, <1>2, <2>3, <4>1, <4>3, RecordsAreNotNone DEF MayClean, In
      <4>5. x.blob = run.memo[k].blob
        BY <1>1, <1>2, <4>3, <4>4 DEF MayClean, In
      <4>6. run.memo[k].blob \in ProviderBlobs
        BY <1>4, <4>4 DEF SavedInv, Served
      <4> QED BY <2>3, <4>5, <4>6
    <3> QED BY <3>2, <3>3
  <2> QED BY <2>4, <2>5
<1> QED BY <1>6, <1>7, <1>8, <1>9, <1>10 DEF SavedInv

(* A failure takes a backup away that was made after the comparison, or    *)
(* holds bytes of the provider.                                            *)
LEMMA GiveUpSaved ==
  ASSUME RunsInv, KeptInv, SavedInv, UNCHANGED <<catalog, edits>>, Mutating, GiveUp
  PROVE  SavedInv' /\ Survives
<1>1. /\ run.phase # "idle" /\ ~Now("rollback") /\ run.step \in Busy \cup {"next"}
      /\ run \in Runs /\ TreeOK /\ Live /\ Done \subseteq Items
  BY RunItems DEF Mutating, Now, Live, Runs, Steps, Busy
<1>2. /\ UNCHANGED <<disk, quarantine, receipts>>
      /\ \/ temp' = temp \/ temp' = [temp EXCEPT ![Here] = None]
      /\ \/ backup' = backup
         \/ Now("swap") /\ backup' = [backup EXCEPT ![Here] = None]
  BY DEF GiveUp
<1>3. /\ run'.phase = run.phase /\ run'.step = "rollback"
      /\ run'.memo = run.memo
      /\ run'.done = IF run.step \in {"unlink", "confirm"}
                     THEN Append(run.done, run.item) ELSE run.done
  BY <1>1 DEF GiveUp, Runs
<1>4. /\ Turned' = Done' /\ Compared' = Done' /\ ~Live' /\ Done' \subseteq Turned
      /\ In("materialize") \/ Done' = Done
  <2>1. Turned' = Done' /\ Compared' = Done' /\ ~Live'
    <3> HIDE DEF Done
    <3> QED BY <1>3 DEF Turned, Compared, Live, Busy
  <2>2. CASE run.step \in {"unlink", "confirm"}
    <3>1. In("materialize")
      BY <2>2 DEF RunsInv, RunInv, StepFits, In
    <3>2. run.step \in Busy /\ run.done \in Seq(Items)
      BY <1>1, <2>2 DEF Busy, Runs
    <3>3. run.item \in Items /\ run.item \in Turned
      BY <3>2, BusyFacts
    <3>4. Done' = Done \cup {run.item}
      BY <1>3, <2>2, <3>2, <3>3, AppendFacts DEF Done
    <3> QED BY <2>1, <3>1, <3>3, <3>4 DEF Turned
  <2>3. CASE run.step \notin {"unlink", "confirm"}
    BY <1>3, <2>1, <2>3 DEF Done, Turned
  <2> QED BY <2>1, <2>2, <2>3
<1>5. \A q \in Paths : backup'[q] = backup[q] \/ backup'[q] = None
  BY <1>1, <1>2 DEF TreeOK
<1>6. Dated'
  <2>1. \A q \in Paths : \A x \in FilesAt(q)' : x \in FilesAt(q)
    BY <1>1, <1>2, <1>5, RecordsAreNotNone DEF FilesAt, TreeOK
  <2> QED BY <2>1, PartsOfInv, DatedMoves DEF SavedInv
<1>7. Served'
  <2>1. Done \subseteq Turned /\ Owned' = Owned
    BY <1>2 DEF Turned, Owned
  <2>2. \A phase : In(phase)' = In(phase)
    BY <1>3 DEF In
  <2>3. ~Now("clean")'
    BY <1>3 DEF Now
  <2>4. ~(In("materialize") /\ In("verify"))
    BY DEF In
  <2> HIDE DEF Turned, Done, Live
  <2> QED BY <1>2, <1>3, <1>4, <2>1, <2>2, <2>3, <2>4 DEF SavedInv, Served
<1>8. Slots'
  <2> HIDE DEF Live
  <2> QED BY <1>2, <1>3, <1>4, <1>5 DEF SavedInv, Slots
<1>9. Copies'
  <2>1. ASSUME NEW was PROVE Late(None, was)
    BY RecordsAreNotNone DEF Late, IsFile
  <2>2. SUFFICES ASSUME In("replace"), NEW j \in Done
                 PROVE  ComparedFile(run.memo[j])' /\ Late(backup'[run.memo[j].path], run.memo[j].was)
    <3>1. In("replace")' = In("replace")
      BY <1>3 DEF In
    <3>2. In("replace") => Done' = Done
      BY <1>4 DEF In
    <3> HIDE DEF Compared, Done
    <3> QED BY <1>3, <1>4, <3>1, <3>2 DEF Copies
  <2>3. ComparedFile(run.memo[j]) /\ Late(backup[run.memo[j].path], run.memo[j].was)
    BY <2>2 DEF SavedInv, Copies, Compared
  <2>4. run.memo[j].path \in Paths
    <3>1. run.memo[j] # None /\ j \in Items
      BY <1>1, <2>2, <2>3 DEF ComparedFile
    <3> QED BY <1>1, <3>1 DEF Runs, Memo
  <2> QED BY <1>3, <1>5, <2>1, <2>3, <2>4 DEF ComparedFile
<1>10. Survives
  <2>1. CASE backup' = backup
    BY <1>2, <2>1, SurvivesStill
  <2>2. CASE Now("swap") /\ backup' = [backup EXCEPT ![Here] = None]
    <3>1. PICK k, p : k = run.item /\ p = Here
      OBVIOUS
    <3>2. AtWork(k, p) /\ p \in Paths /\ run.memo[k].path = p /\ k \in Items /\ k \in Compared
      BY <2>2, <3>1, ItemFacts DEF AtWork, Compared, Now, Busy
    <3>3. In("replace")
      BY <2>2 DEF RunsInv, RunInv, StepFits, In, Now
    <3>4. ComparedFile(run.memo[k]) /\ Late(backup[p], run.memo[k].was)
      BY <3>2, <3>3 DEF SavedInv, Copies
    <3>5. backup[p] \in UserWork => SavedTooLate(backup[p])
      BY <2>2, <3>2, <3>3, <3>4 DEF UserWork, Late, IsFile, SavedTooLate, ComparedFile
    <3>6. \A q \in Paths \ {p} : SameAt(q)
      BY <1>1, <1>2, <2>2, <3>1 DEF SameAt, TreeOK
    <3> QED BY <1>2, <3>2, <3>5, <3>6, SurvivesAt
  <2> QED BY <1>2, <2>1, <2>2
<1> QED BY <1>6, <1>7, <1>8, <1>9, <1>10 DEF SavedInv

(* A rollback removes by its name what the batch created, and puts back    *)
(* the rest over what the provider served or nothing at all.               *)
LEMMA TakeBackSaved ==
  ASSUME RunsInv, SavedInv, UNCHANGED <<catalog, edits>>, TakeBack
  PROVE  SavedInv' /\ Survives
<1>1. PICK k, p : k = Last(run.done) /\ p = run.memo[Last(run.done)].path
  OBVIOUS
<1>2. /\ Now("rollback") /\ run.done # <<>> /\ UNCHANGED <<temp, receipts>>
      /\ disk' = [disk EXCEPT ![p] =
                    IF In("create") \/ In("materialize") THEN None ELSE Before(p)]
      /\ backup' = [backup EXCEPT ![p] = None]
      /\ quarantine' = [quarantine EXCEPT ![p] = None]
      /\ run' = [run EXCEPT !.done = Front(run.done)]
      /\ Reversible(k) /\ ~In("verify")
  BY <1>1, RunItems DEF TakeBack, Runs
<1>3. /\ run.phase # "idle" /\ run \in Runs /\ run.done \in Seq(Items) /\ TreeOK
      /\ Done \subseteq Items
  <2>1. run.phase # "idle"
    BY <1>2 DEF RunsInv, RunInv, In, Now, Idle
  <2> QED BY <2>1, RunItems DEF Runs
<1>4. k \in Done /\ Done' \subseteq Done
  BY <1>1, <1>2, <1>3, FrontFacts DEF Done, Runs
<1>5. /\ run'.phase = run.phase /\ run'.step = "rollback" /\ run'.memo = run.memo
  BY <1>2, <1>3 DEF Runs, Now
<1>6. /\ Turned' = Done' /\ Compared' = Done' /\ ~Live'
      /\ Turned = Done /\ Compared = Done
  <2> HIDE DEF Done
  <2> QED BY <1>2, <1>5 DEF Turned, Compared, Live, Busy, Now
<1>7. \A q \in Paths : /\ backup'[q] = backup[q] \/ backup'[q] = None
                       /\ quarantine'[q] = quarantine[q] \/ quarantine'[q] = None
                       /\ q # p => SameAt(q)
                       /\ disk'[q] \in {disk[q], backup[q], quarantine[q], None}
  BY <1>2, <1>3 DEF TreeOK, SameAt, Before
<1>8. Dated'
  <2>1. \A q \in Paths : \A x \in FilesAt(q)' : x \in FilesAt(q)
    BY <1>2, <1>7, RecordsAreNotNone DEF FilesAt
  <2> QED BY <2>1, PartsOfInv, DatedMoves DEF SavedInv
<1>9. Served'
  <2>1. Owned' = Owned
    BY <1>2 DEF Owned
  <2>2. \A phase : In(phase)' = In(phase)
    BY <1>5 DEF In
  <2>3. ~Now("clean")'
    BY <1>5 DEF Now
  <2> HIDE DEF Turned, Done, Live
  <2> QED BY <1>2, <1>4, <1>5, <1>6, <2>1, <2>2, <2>3 DEF SavedInv, Served
<1>10. Slots'
  <2> HIDE DEF Live
  <2> QED BY <1>5, <1>6, <1>7 DEF SavedInv, Slots
<1>11. Copies'
  <2>1. ASSUME NEW was PROVE Late(None, was)
    BY RecordsAreNotNone DEF Late, IsFile
  <2>2. SUFFICES ASSUME In("replace"), NEW j \in Done
                 PROVE  ComparedFile(run.memo[j])' /\ Late(backup'[run.memo[j].path], run.memo[j].was)
    <3> HIDE DEF Compared, Done
    <3> QED BY <1>4, <1>5, <1>6 DEF Copies, In
  <2>3. ComparedFile(run.memo[j]) /\ Late(backup[run.memo[j].path], run.memo[j].was)
    BY <1>6, <2>2 DEF SavedInv, Copies
  <2>4. run.memo[j].path \in Paths
    <3>1. run.memo[j] # None /\ j \in Items
      BY <1>3, <2>2, <2>3 DEF ComparedFile
    <3> QED BY <1>3, <3>1 DEF Runs, Memo
  <2> QED BY <1>5, <1>7, <2>1, <2>3, <2>4 DEF ComparedFile
<1>12. CASE In("materialize")
  BY <1>2, <1>8, <1>9, <1>10, <1>11, <1>12 DEF SavedInv, Survives, SavedTooLate
<1>13. CASE ~In("materialize")
  <2>1. SUFFICES ASSUME p \in Paths,
                        NEW x \in {disk[p], backup[p], quarantine[p]}, x \in UserWork
                 PROVE  x = disk'[p]
    <3>1. CASE p \in Paths
      BY <1>7, <1>8, <1>9, <1>10, <1>11, <2>1, <3>1, SurvivesAt DEF SavedInv
    <3>2. CASE p \notin Paths
      <4>1. UNCHANGED <<disk, backup, quarantine>>
        BY <1>2, <1>3, <3>2 DEF TreeOK
      <4> QED BY <1>8, <1>9, <1>10, <1>11, <4>1, SurvivesStill DEF SavedInv
    <3> QED BY <3>1, <3>2
  <2>2. x # None /\ x # Dir /\ IsFile(x) /\ x.blob \notin ProviderBlobs
    BY <2>1, RecordsAreNotNone DEF UserWork, IsFile
  <2>3. run.phase \in Phases
    BY <1>3 DEF Runs
  <2>4. CASE In("create")
    <3>1. backup[p] = None /\ quarantine[p] = None
      BY <2>1, <2>4 DEF SavedInv, Slots, In
    <3>2. disk[p] \in {None, Dir}
      BY <1>1, <1>2, <2>4 DEF Reversible, In
    <3> QED BY <2>1, <2>2, <3>1, <3>2
  <2>5. CASE In("replace")
    <3>1. quarantine[p] = None /\ disk'[p] = backup[p]
      BY <1>2, <1>3, <2>1, <2>5 DEF SavedInv, Slots, In, Before, TreeOK
    <3>2. disk[p].blob = run.memo[k].blob
      BY <1>1, <1>2, <2>5 DEF Reversible, In
    <3>3. run.memo[k].blob \in ProviderBlobs
      BY <1>4, <1>6, <2>5 DEF SavedInv, Served
    <3> QED BY <2>1, <2>2, <3>1, <3>2, <3>3
  <2>6. CASE In("delete") \/ In("rmdir")
    <3>1. backup[p] = None /\ disk'[p] = quarantine[p]
      BY <1>2, <1>3, <2>1, <2>6 DEF SavedInv, Slots, In, Before, TreeOK
    <3>2. disk[p] = None
      BY <1>1, <1>2, <2>6 DEF Reversible, In
    <3> QED BY <2>1, <2>2, <3>1, <3>2
  <2> QED BY <1>2, <1>13, <2>3, <2>4, <2>5, <2>6, PhaseNames DEF In
<1> QED BY <1>12, <1>13

LEMMA WorkingSaved ==
  ASSUME RunsInv, KeptInv, SavedInv, UNCHANGED <<catalog, edits>>, Working
  PROVE  SavedInv' /\ Survives
BY TurnSaved, FolderSaved, FetchSaved, ConfirmSaved, BackupSaved, SwapSaved,
   QuarantineSaved, RecordSaved, CleanSaved, GiveUpSaved, TakeBackSaved
   DEF Working, Abandon

-----------------------------------------------------------------------------
(* The steps around a batch.                                               *)

LEMMA IdleSaved ==
  ASSUME RunsInv, SavedInv, run' = Idle, UNCHANGED <<tree, receipts, edits>>
  PROVE  SavedInv' /\ Survives
<1>1. /\ run'.phase = "idle" /\ run'.step = "next" /\ run'.done = <<>> /\ run'.todo = {}
  BY DEF Idle
<1>2. Owned' = Owned
  BY DEF Owned
<1>3. Dated'
  BY DEF SavedInv, Dated, FilesAt, tree
<1>4. Served' /\ Slots' /\ Copies'
  BY <1>1, <1>2 DEF SavedInv, Served, Slots, Copies, In, Now, Live
<1> QED BY <1>3, <1>4, SurvivesStill DEF SavedInv, tree

LEMMA SteadySaved ==
  ASSUME SavedInv, UNCHANGED <<tree, receipts, edits, catalog, run>>
  PROVE  SavedInv' /\ Survives
<1>1. SavedInv'
  BY DEF SavedInv, Dated, Served, Slots, Copies, FilesAt, Owned, Expected, Turned, Done,
         Compared, ComparedFile, Late, Live, Waiting, Home, In, Now, IsFile, tree
<1> QED BY <1>1, SurvivesStill DEF tree

LEMMA RunStepSaved ==
  ASSUME RunsInv, KeptInv, SavedInv, RunStep
  PROVE  SavedInv' /\ Survives
<1>1. CASE Working /\ UNCHANGED <<catalog, service, observation, outcome, tallies>>
  BY <1>1, WorkingSaved DEF tallies
<1>2. CASE (Finish \/ Stop) /\ UNCHANGED <<catalog, service, observation, tallies>>
  BY <1>2, IdleSaved DEF Finish, Stop, tallies
<1> QED BY <1>1, <1>2 DEF RunStep

LEMMA BeginSaved ==
  ASSUME RunsInv, SavedInv, Begin
  PROVE  SavedInv' /\ Survives
<1>1. UNCHANGED <<tree, receipts, catalog, edits>> /\ run = Idle
  BY DEF Begin, tallies
<1>2. CASE run' = run
  BY <1>1, <1>2, SteadySaved
<1>3. CASE Decision \in Phases /\ Ready(Decision)
  <2>1. /\ run'.phase = Decision /\ run'.done = <<>> /\ run'.step = "next"
        /\ run'.todo = Plan[Decision]
    <3>1. run' = [Idle EXCEPT !.phase = Decision, !.todo = Plan[Decision],
                              !.goal = Cardinality(Plan[Decision])]
      BY <1>3 DEF Begin
    <3> QED BY <3>1 DEF Idle
  <2>2. Done' = {} /\ Turned' = {} /\ Compared' = {} /\ Owned' = Owned
    BY <1>1, <2>1 DEF Done, Turned, Compared, Range, Busy, Owned
  <2>3. \A p \in Paths : backup'[p] = None /\ quarantine'[p] = None
    BY <1>1, <1>3, DecisionFacts DEF Leftovers, tree
  <2>4. In("delete")' => run'.todo \cap Folders = {}
    BY <2>1 DEF In, Plan
  <2>5. Dated'
    BY <1>1 DEF SavedInv, Dated, FilesAt, tree
  <2>6. Served'
    <3> HIDE DEF Done, Turned
    <3> QED BY <1>1, <2>1, <2>2, <2>4 DEF SavedInv, Served, Now
  <2>7. Slots'
    <3>1. \A i \in Waiting' : Home(i)' \in Paths
      <4>1. Waiting' = Plan[Decision]
        BY <2>1 DEF Waiting, Busy
      <4>2. Plan[Decision] \subseteq Expected \cup Owned
        BY <1>3, PhaseNames, PlannedItems DEF Undisputed
      <4>3. \A i \in Plan[Decision] : i \in Items /\ Home(i) \in Paths
        BY <4>2, RunItems, HomeType DEF Expected, Owned
      <4> QED BY <1>1, <4>1, <4>3, PlanSteady
    <3> HIDE DEF Waiting, Home
    <3> QED BY <2>3, <3>1 DEF Slots
  <2>8. Copies'
    <3> HIDE DEF Compared
    <3> QED BY <2>1, <2>2 DEF Copies
  <2> QED BY <1>1, <2>5, <2>6, <2>7, <2>8, SurvivesStill DEF SavedInv, tree
<1> QED BY <1>2, <1>3 DEF Begin

LEMMA WindowSaved ==
  ASSUME RunsInv, SavedInv, ApplyWindow
  PROVE  SavedInv' /\ Survives
<1>1. /\ run = Idle /\ run' = Idle /\ UNCHANGED <<tree, edits>>
      /\ receipts' = [i \in Items |->
           IF i \in Revised(Pages) \cap Owned
           THEN [receipts[i] EXCEPT !.state = "stale"] ELSE receipts[i]]
  BY DEF ApplyWindow, Apply, tallies
<1>2. ASSUME NEW i \in Owned' \ Folders PROVE receipts'[i].blob \in ProviderBlobs
  <2>1. i \in Items /\ receipts'[i] # None
    BY <1>2 DEF Owned
  <2>2. CASE i \in Revised(Pages) \cap Owned
    <3>1. receipts[i] \in Receipts
      BY <2>1, <2>2, RunItems DEF Owned, TablesOK
    <3>2. receipts'[i].blob = receipts[i].blob
      BY <1>1, <2>1, <2>2, <3>1 DEF Receipts
    <3> QED BY <1>2, <2>2, <3>2 DEF SavedInv, Served
  <2>3. CASE i \notin Revised(Pages) \cap Owned
    <3>1. receipts'[i] = receipts[i] /\ i \in Owned
      BY <1>1, <2>1, <2>3 DEF Owned
    <3> QED BY <1>2, <3>1 DEF SavedInv, Served
  <2> QED BY <2>2, <2>3
<1>3. /\ run'.phase = "idle" /\ run'.step = "next"
  BY <1>1 DEF Idle
<1>4. Dated'
  BY <1>1 DEF SavedInv, Dated, FilesAt, tree
<1>5. Served' /\ Slots' /\ Copies'
  BY <1>2, <1>3 DEF Served, Slots, Copies, In, Now, Live
<1> QED BY <1>1, <1>4, <1>5, SurvivesStill DEF SavedInv, tree

(* What a user saves is dated after everything else.                       *)
LEMMA UserWrites ==
  ASSUME RunsInv, UserStep
  PROVE  /\ UNCHANGED <<catalog, receipts, quarantine, run>> /\ edits' = edits + 1
         /\ \A q \in Paths :
              /\ backup'[q] = backup[q]
                   \/ (backup[q] # None /\ backup'[q].stamp = edits + 1)
              /\ disk'[q] \in {disk[q], None, Dir} \/ disk'[q].stamp = edits + 1
              /\ temp'[q] = temp[q] \/ temp'[q].stamp = edits + 1
<1>1. PICK p \in Paths : \/ \E b \in UserBlobs : SaveInPlace(p, b) \/ SaveByRename(p, b)
                         \/ RemoveEntry(p)
                         \/ MakeDir(p)
  BY DEF UserStep
<1>2. UNCHANGED <<catalog, receipts, quarantine, run>> /\ edits' = edits + 1 /\ TreeOK
  BY <1>1, RunItems DEF SaveInPlace, SaveByRename, RemoveEntry, MakeDir, Edit
<1>3. ASSUME NEW b \in UserBlobs, SaveInPlace(p, b)
      PROVE  \A q \in Paths :
               /\ backup'[q] = backup[q]
                    \/ (backup[q] # None /\ backup'[q].stamp = edits + 1)
               /\ disk'[q] = disk[q] \/ disk'[q].stamp = edits + 1
               /\ temp'[q] = temp[q] \/ temp'[q].stamp = edits + 1
  <2> DEFINE Rewritten(x) == IF IsFile(x) /\ x.node = disk[p].node
                             THEN [x EXCEPT !.blob = b, !.stamp = edits + 1] ELSE x
  <2>1. ASSUME NEW x
        PROVE  Rewritten(x) = x \/ (x # None /\ Rewritten(x).stamp = edits + 1)
    <3>1. CASE IsFile(x) /\ x.node = disk[p].node
      <4>1. x # None /\ Rewritten(x) = [x EXCEPT !.blob = b, !.stamp = edits + 1]
        BY <3>1, RecordsAreNotNone DEF IsFile
      <4>2. [x EXCEPT !.blob = b, !.stamp = edits + 1].stamp = edits + 1
        BY <3>1 DEF IsFile, Files
      <4> QED BY <4>1, <4>2
    <3>2. CASE ~(IsFile(x) /\ x.node = disk[p].node)
      BY <3>2
    <3> QED BY <3>1, <3>2
  <2>2. /\ disk' = [q \in Paths |-> Rewritten(disk[q])]
        /\ temp' = [q \in Paths |-> Rewritten(temp[q])]
        /\ backup' = [q \in Paths |-> Rewritten(backup[q])]
    BY <1>3 DEF SaveInPlace
  <2> HIDE DEF Rewritten
  <2> QED BY <2>1, <2>2
<1>4. ASSUME NEW b \in UserBlobs, SaveByRename(p, b)
      PROVE  \A q \in Paths : disk'[q] = disk[q] \/ disk'[q].stamp = edits + 1
  <2> DEFINE x == [node |-> FreshNode, blob |-> b, stamp |-> edits + 1]
  <2>1. disk' = [disk EXCEPT ![p] = x] /\ x.stamp = edits + 1
    BY <1>4 DEF SaveByRename
  <2> HIDE DEF x
  <2> QED BY <1>2, <2>1 DEF TreeOK
<1>5. CASE \E b \in UserBlobs : SaveInPlace(p, b)
  BY <1>2, <1>3, <1>5
<1>6. CASE \E b \in UserBlobs : SaveByRename(p, b)
  BY <1>2, <1>4, <1>6 DEF SaveByRename
<1>7. CASE RemoveEntry(p) \/ MakeDir(p)
  BY <1>2, <1>7 DEF RemoveEntry, MakeDir, TreeOK
<1> QED BY <1>1, <1>5, <1>6, <1>7

LEMMA UserSaved ==
  ASSUME RunsInv, SavedInv, UserStep
  PROVE  SavedInv' /\ edits' # edits
<1>1. /\ UNCHANGED <<catalog, receipts, quarantine, run>> /\ edits' = edits + 1
      /\ edits \in 0..MaxEdits /\ run \in Runs /\ Done \subseteq Items /\ TreeOK
  BY UserWrites, RunItems, PartsOfInv DEF TalliesOK
<1>2. edits \in Nat /\ MaxEdits \in Nat
  BY <1>1, PlanAssumption
<1>3. Dated'
  <2>1. SUFFICES ASSUME NEW p \in Paths, NEW x \in FilesAt(p)' PROVE x.stamp <= edits + 1
    BY <1>1 DEF Dated
  <2>2. x \in Files /\ x \in {disk'[p], temp'[p], backup'[p], quarantine[p]} /\ x # None /\ x # Dir
    BY <1>1, <2>1, RecordsAreNotNone DEF FilesAt
  <2>3. x.stamp = edits + 1 \/ x \in FilesAt(p)
    BY <2>2, UserWrites DEF FilesAt
  <2>4. x \in FilesAt(p) => x.stamp <= edits
    BY DEF SavedInv, Dated
  <2>5. x.stamp \in Nat
    BY <2>2 DEF Files
  <2> HIDE DEF FilesAt
  <2> QED BY <1>2, <2>3, <2>4, <2>5
<1>4. /\ Owned' = Owned /\ Turned' = Turned /\ Done' = Done /\ Compared' = Compared
      /\ Waiting' = Waiting /\ Live' = Live
      /\ (\A phase : In(phase)' = In(phase)) /\ \A step : Now(step)' = Now(step)
      /\ \A i \in Items : Home(i)' = Home(i)
  <2>1. \A i \in Items : Home(i)' = Home(i)
    BY <1>1, PlanSteady
  <2> QED BY <1>1, <2>1 DEF Owned, Turned, Done, Compared, Waiting, Live, In, Now
<1>5. Served'
  <2> HIDE DEF Turned, Done, Live
  <2> QED BY <1>1, <1>4 DEF SavedInv, Served
<1>6. Slots'
  <2>1. \A q \in Paths : backup[q] = None => backup'[q] = None
    BY UserWrites
  <2>2. Live => \A i \in Waiting : i \in Items /\ Home(i) \in Paths
    BY BatchHomes DEF Waiting, Turned
  <2> HIDE DEF Waiting, Live, Home
  <2> QED BY <1>1, <1>4, <2>1, <2>2 DEF SavedInv, Slots
<1>7. Copies'
  <2>1. SUFFICES ASSUME In("replace") PROVE Copies'
    BY <1>4 DEF Copies
  <2>2. ASSUME NEW q \in Paths, NEW was, IsFile(was), was.stamp <= edits
        PROVE  /\ Late(backup[q], was) => Late(backup'[q], was)
               /\ Late(disk[q], was) => Late(disk'[q], was)
    <3>1. was.stamp \in Nat
      BY <2>2 DEF IsFile, Files
    <3>2. ASSUME NEW x, x.stamp = edits + 1 PROVE Late(x, was)
      <4>1. edits + 1 > was.stamp
        BY <1>2, <2>2, <3>1
      <4> QED BY <3>2, <4>1 DEF Late
    <3>3. Late(None, was) /\ Late(Dir, was)
      BY RecordsAreNotNone DEF Late, IsFile
    <3> HIDE DEF Late
    <3> QED BY <3>2, <3>3, UserWrites
  <2>3. ASSUME NEW j \in Compared
        PROVE  ComparedFile(run.memo[j])' /\ Late(backup'[run.memo[j].path], run.memo[j].was)
    <3>1. ComparedFile(run.memo[j]) /\ Late(backup[run.memo[j].path], run.memo[j].was)
      BY <2>1, <2>3 DEF SavedInv, Copies
    <3>2. run.memo[j].path \in Paths
      <4>1. run.memo[j] # None /\ j \in Items
        BY <1>1, <2>3, <3>1 DEF ComparedFile, Compared
      <4> QED BY <1>1, <4>1 DEF Runs, Memo
    <3>3. Late(backup'[run.memo[j].path], run.memo[j].was)
      BY <2>2, <3>1, <3>2 DEF ComparedFile
    <3>4. run.memo[j].was.stamp <= edits + 1
      <4>1. run.memo[j].was.stamp \in Nat
        BY <3>1 DEF ComparedFile, IsFile, Files
      <4> QED BY <1>2, <3>1, <4>1 DEF ComparedFile
    <3> QED BY <1>1, <3>1, <3>3, <3>4 DEF ComparedFile
  <2>4. ASSUME run.step \in {"backup", "swap"}
        PROVE  Late(disk'[run.memo[run.item].path], run.memo[run.item].was)
    <3>1. run.item \in Compared /\ run.memo[run.item].path \in Paths
      BY <2>4, BusyFacts DEF Compared, Busy
    <3>2. ComparedFile(run.memo[run.item]) /\ Late(disk[run.memo[run.item].path], run.memo[run.item].was)
      BY <2>1, <2>4, <3>1 DEF SavedInv, Copies
    <3> QED BY <2>2, <3>1, <3>2 DEF ComparedFile
  <2> HIDE DEF Compared, ComparedFile, Late
  <2> QED BY <1>1, <1>4, <2>3, <2>4 DEF Copies
<1>8. edits' # edits
  BY <1>1, <1>2
<1> QED BY <1>3, <1>5, <1>6, <1>7, <1>8 DEF SavedInv

LEMMA FailureSaved ==
  ASSUME RunsInv, KeptInv, SavedInv, CallFails \/ Crash
  PROVE  SavedInv' /\ Survives
<1>1. CASE CallFails
  BY <1>1, GiveUpSaved DEF CallFails
<1>2. CASE Crash
  BY <1>2, IdleSaved DEF Crash, Killed
<1> QED BY <1>1, <1>2

-----------------------------------------------------------------------------
LEMMA SavedInit == Init => SavedInv
<1> SUFFICES ASSUME Init PROVE SavedInv
  OBVIOUS
<1>1. /\ temp = [p \in Paths |-> None] /\ backup = [p \in Paths |-> None]
      /\ quarantine = [p \in Paths |-> None] /\ run = Idle /\ edits = 0
  BY DEF Init
<1>2. run.phase = "idle" /\ run.step = "next"
  BY <1>1 DEF Idle
<1>3. Dated
  <2>1. SUFFICES ASSUME NEW p \in Paths, NEW x \in FilesAt(p) PROVE x.stamp = 0
    BY <1>1 DEF Dated
  <2>2. x \in Files /\ x = disk[p] /\ x # None /\ x # Dir
    BY <1>1, RecordsAreNotNone DEF FilesAt
  <2>3. \E i : x = [node |-> InitialNode[i], blob |-> remote[i].blob, stamp |-> 0]
    BY <2>2 DEF Init
  <2> QED BY <2>3
<1>4. Served
  <2>1. ASSUME NEW i \in Owned \ Folders PROVE receipts[i].blob \in ProviderBlobs
    <3>1. i \in Items /\ remote[i] # None /\ receipts[i] =
            [path |-> remote[i].path, state |-> "current", blob |-> remote[i].blob]
      <4>1. i \in Items /\ receipts[i] # None
        BY <2>1 DEF Owned
      <4> QED BY <4>1 DEF Init
    <3>2. receipts[i].blob = remote[i].blob
      BY <3>1
    <3> QED BY <2>1, <3>1, <3>2 DEF Init, Present
  <2> QED BY <1>2, <2>1 DEF Served, In, Now, Live
<1>5. Slots /\ Copies
  BY <1>2 DEF Slots, Copies, In, Live
<1> QED BY <1>3, <1>4, <1>5 DEF SavedInv

LEMMA SavedStep ==
  RunsInv /\ KeptInv /\ SavedInv /\ [Next]_vars =>
    SavedInv' /\ (edits' = edits => Survives)
<1> SUFFICES ASSUME RunsInv, KeptInv, SavedInv, [Next]_vars
             PROVE  SavedInv' /\ (edits' = edits => Survives)
  OBVIOUS
<1>1. CASE Begin
  BY <1>1, BeginSaved
<1>2. CASE RunStep
  BY <1>2, RunStepSaved
<1>3. CASE ApplyWindow
  BY <1>3, WindowSaved
<1>4. CASE CaptureBaseline
  BY <1>4, SteadySaved DEF CaptureBaseline, tallies
<1>5. CASE Surroundings
  <2>1. CASE \E i \in Items : \/ \E p \in Paths, b \in Blobs \cup {None} : RemoteWrite(i, p, b)
                              \/ RemoteRemove(i)
    BY <2>1, SteadySaved DEF RemoteWrite, RemoteRemove
  <2> QED BY <1>5, <2>1, UserSaved, FailureSaved DEF Surroundings
<1>6. CASE UNCHANGED vars
  BY <1>6, SteadySaved DEF vars, tallies, tree
<1> QED BY <1>1, <1>2, <1>3, <1>4, <1>5, <1>6 DEF Next

(* No step of a run, its rollbacks and cleanups included, removes bytes    *)
(* the user saved and the provider never served, unless they were saved    *)
(* after verify_stale_local_file_baseline compared the file and before the *)
(* replacement ends, or over a file that rollback_created_file removes by  *)
(* its name.                                                               *)
THEOREM SavedWorkSurvives == Spec => UserWorkSurvives
<1>1. Spec => []KeptInv
  BY KeptInit, KeptStep, RunsInvariant, OwnersAreUnique, PTL DEF Spec
<1>2. Spec => []SavedInv
  BY <1>1, SavedInit, SavedStep, RunsInvariant, PTL DEF Spec
<1>3. RunsInv /\ KeptInv /\ SavedInv /\ [Next]_vars =>
        [edits' = edits =>
           \A x \in UserWork : x \in UserWork' \/ SavedTooLate(x)]_vars
  BY SavedStep DEF Survives
<1> QED BY <1>1, <1>2, <1>3, RunsInvariant, PTL DEF Spec, UserWorkSurvives

-----------------------------------------------------------------------------
(* Part two: the whole batch.                                              *)

-----------------------------------------------------------------------------
(* The inductive invariant.                                                *)

Alone == crashes = 0 /\ edited = {}

(* What is under the name p is what the receipts say.                      *)
Held(p) ==
  /\ disk[p] # None => \E i \in Owned : receipts[i].path = p
  /\ \A i \in Owned : receipts[i].path = p =>
       IF i \in Folders THEN disk[p] = Dir ELSE Holds(disk[p], receipts[i].blob)

Settled(p) ==
  Held(p) /\ temp[p] = None /\ backup[p] = None /\ quarantine[p] = None

(* Every entry lies in a directory.                                        *)
Rooted == \A p \in Paths : disk[p] # None => Reachable(p)

Exact == In("idle") \/ Now("finish") => \A p \in Paths : Settled(p)

(* There is nothing to adopt, and an item with a receipt has it at the     *)
(* path the batch works on, where no other item has one.                   *)
Shares ==
  Underway =>
    /\ ~In("verify")
    /\ In("create") \/ In("materialize") => Batch \cap Owned = {}
    /\ In("replace") \/ In("delete") => Batch \cap Folders = {}
    /\ In("rmdir") => \A i \in Batch : i \in Owned /\ receipts[i].path = Home(i)
    /\ \A i \in Batch, j \in Owned : receipts[j].path = Home(i) => i = j

(* What is at the path of an item done can be taken back.                  *)
DonePlace(m) ==
  LET p == m.path IN
  /\ temp[p] = None
  /\ In("replace") \/ backup[p] = None
  /\ In("delete") \/ In("rmdir") \/ quarantine[p] = None
  /\ In("create") => disk[p] = Dir
  /\ In("materialize") => IsFile(disk[p])
  /\ In("replace") => /\ SameFile(m.now, disk[p]) /\ disk[p].blob = m.blob
                      /\ SameFile(m.was, backup[p])
  /\ In("delete") => /\ disk[p] = None /\ SameFile(m.was, quarantine[p])
                     /\ quarantine[p].blob = m.blob
  /\ In("rmdir") => disk[p] = None /\ quarantine[p] = Dir
  /\ In("delete") \/ In("rmdir") => Reachable(p)

(* What is at the path of the item in progress can be dropped.             *)
ItemPlace(m) ==
  LET p == m.path IN
  /\ quarantine[p] = None
  /\ IF Now("swap") THEN backup[p] = disk[p] /\ IsFile(disk[p]) ELSE backup[p] = None
  /\ run.step \in {"confirm", "quarantine"} => temp[p] = None
  /\ IF run.step \in {"unlink", "confirm"} THEN IsFile(disk[p]) ELSE Held(p)
  /\ Now("promote") => IsFile(temp[p]) /\ Reachable(p)
  /\ run.step \in {"backup", "swap", "quarantine"} => m.was = disk[p]
  /\ Now("quarantine") => disk[p].blob = m.blob

Places ==
  Underway =>
    /\ \A p \in Paths : (\A i \in Turned : Home(i) # p) => Settled(p)
    /\ \A i \in Done : DonePlace(run.memo[i])
    /\ run.step \in Busy => ItemPlace(run.memo[run.item])

(* Below a folder still to be made there is nothing, and below one already *)
(* made only folders made later.                                           *)
Order ==
  Underway /\ In("create") =>
    /\ \A i \in Batch, q \in Paths :
         Home(i) \in Above[q] /\ disk[q] # None => \E j \in Done : Home(j) = q
    /\ \A j \in Done, i \in run.todo : Home(i) \notin Above[Home(j)]
    /\ \A a, b \in DOMAIN run.done :
         a < b => Home(run.done[b]) \notin Above[Home(run.done[a])]

(* What is left to clean after the receipts are written may be removed,    *)
(* and all else is as they say.                                            *)
CleanPlace(k) ==
  LET p == run.memo[k].path IN
  /\ MayClean(k) /\ Held(p) /\ temp[p] = None /\ p \in Paths
  /\ In("replace") \/ backup[p] = None
  /\ In("replace") => quarantine[p] = None

Cleaning ==
  Now("clean") =>
    /\ \A p \in Paths : (\A k \in run.todo : run.memo[k].path # p) => Settled(p)
    /\ \A k, l \in run.todo : run.memo[k].path = run.memo[l].path => k = l
    /\ \A k \in run.todo : CleanPlace(k)

Clear == Rooted /\ Exact /\ Shares /\ Places /\ Order /\ Cleaning

AtomicInv == Alone => Clear

-----------------------------------------------------------------------------
(* What a change at one path leaves alone at the others.                   *)

Still(p) == SameAt(p) /\ temp'[p] = temp[p]

LEMMA AboveFacts ==
  /\ \A p \in Paths : Above[p] \subseteq Paths /\ p \notin Above[p]
  /\ \A p, q \in Paths : q \in Above[p] => p \notin Above[q]
<1>1. \A p \in Paths : Above[p] \subseteq Paths /\ p \notin Above[p]
  BY PlanAssumption
<1>2. \A p, q \in Paths : q \in Above[p] => Above[q] \subseteq Above[p]
  BY PlanAssumption
<1> QED BY <1>1, <1>2

LEMMA HeldStays ==
  ASSUME NEW p \in Paths, disk'[p] = disk[p], UNCHANGED receipts, Held(p)
  PROVE  Held(p)'
BY DEF Held, Owned, Holds, IsFile

LEMMA SettledStays ==
  ASSUME NEW p \in Paths, Still(p), UNCHANGED receipts, Settled(p)
  PROVE  Settled(p)'
BY HeldStays DEF Settled, Still, SameAt

(* An entry other than a directory comes or goes: nothing lies below it.   *)
LEMMA ReachStays ==
  ASSUME TreeOK, NEW p \in Paths, NEW x, disk' = [disk EXCEPT ![p] = x],
         NEW q \in Paths, Reachable(q), disk[p] # Dir \/ p \notin Above[q]
  PROVE  Reachable(q)'
<1> SUFFICES ASSUME NEW r \in Above[q] PROVE disk'[r] = Dir
  BY DEF Reachable
<1>1. r \in Paths /\ disk[r] = Dir /\ r # p
  BY AboveFacts DEF Reachable
<1> QED BY <1>1 DEF TreeOK

LEMMA RootedStays ==
  ASSUME Rooted, TreeOK, NEW p \in Paths, NEW x, disk' = [disk EXCEPT ![p] = x],
         x = None \/ Reachable(p),
         disk[p] # Dir \/ \A q \in Paths : p \in Above[q] => disk[q] = None
  PROVE  Rooted'
<1> SUFFICES ASSUME NEW q \in Paths, disk'[q] # None PROVE Reachable(q)'
  BY DEF Rooted
<1>1. CASE q = p
  <2>1. disk'[p] = x
    BY DEF TreeOK
  <2>2. Reachable(p) /\ p \notin Above[p]
    BY <1>1, <2>1, AboveFacts
  <2> QED BY <1>1, <2>2, ReachStays
<1>2. CASE q # p
  <2>1. disk[q] # None
    BY <1>2 DEF TreeOK
  <2>2. Reachable(q)
    BY <2>1 DEF Rooted
  <2>3. disk[p] # Dir \/ p \notin Above[q]
    BY <2>1
  <2> QED BY <2>2, <2>3, ReachStays
<1> QED BY <1>1, <1>2

LEMMA RootedSteady ==
  ASSUME Rooted, UNCHANGED disk
  PROVE  Rooted'
BY DEF Rooted, Reachable

-----------------------------------------------------------------------------
(* The steps of a batch.                                                   *)

(* The run goes on with its batch.                                         *)
Going ==
  /\ Underway /\ run'.phase = run.phase
  /\ run'.step \in Busy \cup {"next", "rollback"}
  /\ UNCHANGED <<catalog, receipts>>

LEMMA GoingFacts ==
  ASSUME Going
  PROVE  /\ Underway' /\ Exact' /\ Cleaning' /\ Owned' = Owned
         /\ \A i \in Items : Home(i)' = Home(i)
         /\ \A phase : In(phase)' = In(phase)
<1>1. run.phase # "idle" /\ run'.step \notin {"clean", "finish"}
  BY DEF Going, Underway, Busy
<1> QED BY <1>1, PlanSteady DEF Going, Underway, Exact, Cleaning, In, Now

LEMMA SharesStay ==
  ASSUME RunsInv, Going, Shares, Batch' \subseteq Batch
  PROVE  Shares'
<1>1. Batch \subseteq Items
  BY RunItems DEF Batch
<1>2. \A i \in Batch' : Home(i)' = Home(i)
  BY <1>1, GoingFacts
<1>3. /\ ~In("verify")
      /\ In("create") \/ In("materialize") => Batch \cap Owned = {}
      /\ In("replace") \/ In("delete") => Batch \cap Folders = {}
      /\ In("rmdir") => \A i \in Batch : i \in Owned /\ receipts[i].path = Home(i)
      /\ \A i \in Batch, j \in Owned : receipts[j].path = Home(i) => i = j
  BY DEF Going, Shares
<1> HIDE DEF Batch, Home
<1> QED BY <1>2, <1>3, GoingFacts DEF Shares, Going

(* A step on the item k of a batch, at its path p.                         *)
LEMMA PlaceStep ==
  ASSUME RunsInv, BatchKept, Places, Going, NEW k \in Batch, NEW p, p = Home(k),
         \A q \in Paths \ {p} : Still(q),
         Turned' \subseteq Batch, Turned \ {k} \subseteq Turned',
         Done' \subseteq Done \cup {k},
         \A j \in Done \ {k} : run'.memo[j] = run.memo[j],
         In("delete") \/ In("rmdir") =>
           \A j \in Done \ {k} : Reachable(Home(j)) => Reachable(Home(j))',
         k \notin Turned' => Settled(p)',
         k \in Done' => DonePlace(run.memo[k])',
         run'.step \in Busy => run'.item = k /\ ItemPlace(run.memo[k])'
  PROVE  Places'
<1>1. Batch \subseteq Items /\ Done \subseteq Items
  BY RunItems DEF Batch
<1>2. \A j \in Done \ {k} : /\ run.memo[j].path = Home(j)
                            /\ Home(j) # Home(k) /\ Home(j) \in Paths
  BY DoneHomes DEF Going
<1>3. Owned' = Owned /\ (\A i \in Items : Home(i)' = Home(i))
      /\ (\A phase : In(phase)' = In(phase)) /\ Underway /\ UNCHANGED receipts
  BY GoingFacts DEF Going
<1>4. ASSUME NEW q \in Paths, \A i \in Turned' : Home(i)' # q
      PROVE  Settled(q)'
  <2>1. \A i \in Turned' : Home(i) # q
    BY <1>1, <1>3, <1>4
  <2>2. CASE q = p
    BY <2>1, <2>2
  <2>3. CASE q # p
    <3>1. \A i \in Turned : Home(i) # q
      BY <2>1, <2>3
    <3>2. Settled(q) /\ Still(q)
      BY <1>3, <2>3, <3>1 DEF Places
    <3> QED BY <1>3, <3>2, SettledStays
  <2> QED BY <2>2, <2>3
<1>5. ASSUME NEW j \in Done' PROVE DonePlace(run.memo[j])'
  <2>1. CASE j = k
    BY <1>5, <2>1
  <2>2. CASE j # k
    <3>1. j \in Done \ {k} /\ DonePlace(run.memo[j]) /\ run'.memo[j] = run.memo[j]
      BY <1>3, <1>5, <2>2 DEF Places
    <3>2. PICK r \in Paths : r = run.memo[j].path /\ r = Home(j) /\ Still(r)
      BY <1>2, <3>1
    <3>3. In("delete") \/ In("rmdir") => Reachable(r)'
      <4>1. In("delete") \/ In("rmdir") => Reachable(Home(j))
        BY <3>1, <3>2 DEF DonePlace
      <4>2. In("delete") \/ In("rmdir") => Reachable(Home(j))'
        BY <3>1, <4>1
      <4>3. Home(j)' = Home(j)
        BY <1>1, <1>3, <3>1
      <4> QED BY <3>2, <4>2, <4>3 DEF Reachable
    <3> QED BY <1>3, <3>1, <3>2, <3>3 DEF DonePlace, Still, SameAt, SameFile, IsFile
  <2> QED BY <2>1, <2>2
<1> HIDE DEF Turned, Done, Home, Underway
<1>6. (run.step \in Busy => ItemPlace(run.memo[run.item]))'
  OBVIOUS
<1> QED BY <1>4, <1>5, <1>6 DEF Places

-----------------------------------------------------------------------------
(* The steps on the item in progress, k at path p.                         *)

(* All else in the directory stands still.                                 *)
Within(k, p) ==
  /\ run'.phase = run.phase /\ run'.todo = run.todo
  /\ UNCHANGED <<catalog, receipts>>
  /\ \A q \in Paths \ {p} : Still(q)
  /\ \A j \in Done \ {k} : run'.memo[j] = run.memo[j]
  /\ Rooted'
  /\ In("delete") => \A q \in Paths : Reachable(q) => Reachable(q)'

LEMMA ItemClear ==
  ASSUME RunsInv, Clear, NEW k, NEW p, AtWork(k, p), Within(k, p),
         run'.step \in Busy \cup {"next", "rollback"},
         Turned' \subseteq Batch, Turned \ {k} \subseteq Turned',
         Done' \subseteq Done \cup {k},
         k \notin Turned' => Settled(p)',
         k \in Done' => DonePlace(run.memo[k])',
         run'.step \in Busy => run'.item = k /\ ItemPlace(run.memo[k])'
  PROVE  Clear'
<1>1. /\ BatchKept /\ Going /\ k \in Batch /\ p = Home(k)
      /\ Places /\ Shares /\ Rooted'
  BY DEF AtWork, Going, Within, Clear
<1>2. ~In("create") /\ ~In("rmdir")
  BY DEF AtWork, StepFits, Busy, In
<1>3. Batch' \subseteq Batch
  BY DEF Within, Batch
<1>4. \A j \in Done \ {k} : Home(j) \in Paths
  BY <1>1, DoneHomes DEF Going
<1>5. Places'
  <2>1. In("delete") \/ In("rmdir") =>
          \A j \in Done \ {k} : Reachable(Home(j)) => Reachable(Home(j))'
    <3>1. SUFFICES ASSUME In("delete"), NEW j \in Done \ {k}, Reachable(Home(j))
                   PROVE  Reachable(Home(j))'
      BY <1>2
    <3>2. PICK q \in Paths : q = Home(j)
      BY <1>4, <3>1
    <3>3. j \in Items
      BY <3>1, RunItems
    <3>4. Home(j)' = q
      BY <1>1, <3>2, <3>3, GoingFacts
    <3>5. Reachable(q)'
      BY <3>1, <3>2 DEF Within
    <3> QED BY <3>4, <3>5 DEF Reachable
  <2> HIDE DEF Turned, Done, Batch, Home
  <2> QED BY <1>1, <2>1, PlaceStep DEF Within
<1>6. Shares'
  BY <1>1, <1>3, SharesStay
<1>7. Exact' /\ Cleaning' /\ Order'
  BY <1>1, <1>2, GoingFacts DEF Order
<1> QED BY <1>1, <1>5, <1>6, <1>7 DEF Clear

LEMMA ItemOn ==
  ASSUME RunsInv, Clear, NEW k, NEW p, AtWork(k, p), Within(k, p),
         run'.step \in Busy, run'.item = run.item, run'.done = run.done,
         ItemPlace(run.memo[k])'
  PROVE  Clear'
<1>1. Turned' = Turned /\ Done' = Done /\ k \in Turned /\ k \notin Done
  BY DEF AtWork, Turned, Done
<1>2. Turned \subseteq Batch /\ run'.item = k
  BY DEF Batch, AtWork
<1> QED BY <1>1, <1>2, ItemClear

LEMMA ItemOff ==
  ASSUME RunsInv, Clear, NEW k, NEW p, AtWork(k, p), Within(k, p),
         run'.step \in {"next", "rollback"},
         \/ Done' = Done /\ Settled(p)'
         \/ Done' = Done \cup {k} /\ DonePlace(run.memo[k])'
  PROVE  Clear'
<1>1. run'.step \notin Busy
  BY DEF Busy
<1>2. Turned' = Done' /\ Turned = Done \cup {k} /\ k \notin Done
  <2>1. Turned' = Done'
    BY <1>1 DEF Turned
  <2> QED BY <2>1 DEF Turned, AtWork
<1>3. Turned \subseteq Batch
  BY DEF Batch
<1> HIDE DEF Turned, Done, Batch
<1> QED BY <1>1, <1>2, <1>3, ItemClear

(* The directory under the names stands still.                             *)
LEMMA NamesStand ==
  ASSUME Clear, UNCHANGED disk
  PROVE  Rooted' /\ \A q \in Paths : Reachable(q) => Reachable(q)'
BY RootedSteady DEF Clear, Reachable

(* What is known of the item in progress.                                  *)
LEMMA ItemIsPlaced ==
  ASSUME Clear, NEW k, NEW p, AtWork(k, p)
  PROVE  /\ ItemPlace(run.memo[k]) /\ run.memo[k].path = p /\ p \in Paths
         /\ \A i \in Done : DonePlace(run.memo[i])
BY DEF Clear, Places, AtWork

(* What the steps on an item make of the run.                              *)
LEMMA StepMemo ==
  ASSUME RunsInv, NEW step \in Steps, NEW r, r = [run EXCEPT !.step = step]
  PROVE  /\ r.phase = run.phase /\ r.step = step /\ r.item = run.item
         /\ r.todo = run.todo /\ r.done = run.done /\ r.memo = run.memo
BY RunItems DEF Runs

WasNote(r, step, x) == r = [run EXCEPT !.step = step, !.memo[run.item].was = x]
NowNote(r, step, x) == r = [run EXCEPT !.step = step, !.memo[run.item].now = x]

LEMMA WasMemo ==
  ASSUME RunsInv, NEW k, NEW p, AtWork(k, p), NEW step \in Steps, NEW x, NEW r,
         WasNote(r, step, x)
  PROVE  /\ r.phase = run.phase /\ r.step = step /\ r.item = run.item
         /\ r.todo = run.todo /\ r.done = run.done
         /\ r.memo[k].path = p /\ r.memo[k].blob = run.memo[k].blob /\ r.memo[k].was = x
         /\ \A j \in Items \ {k} : r.memo[j] = run.memo[j]
<1>1. run \in Runs /\ DOMAIN run.memo = Items
  BY RunItems DEF Runs
<1>2. k = run.item /\ k \in Items /\ run.memo[k] \in Memo /\ run.memo[k].path = p
  BY BusyFacts DEF AtWork
<1>3. /\ r.phase = run.phase /\ r.step = step /\ r.item = run.item
      /\ r.todo = run.todo /\ r.done = run.done
      /\ r.memo = [run.memo EXCEPT ![k] = [run.memo[k] EXCEPT !.was = x]]
  BY <1>1, <1>2 DEF WasNote, Runs
<1> QED BY <1>1, <1>2, <1>3 DEF Memo

LEMMA NowMemo ==
  ASSUME RunsInv, NEW k, NEW p, AtWork(k, p), NEW step \in Steps, NEW x, NEW r,
         NowNote(r, step, x)
  PROVE  /\ r.phase = run.phase /\ r.step = step /\ r.item = run.item
         /\ r.todo = run.todo /\ r.done = run.done
         /\ r.memo[k].path = p /\ r.memo[k].blob = run.memo[k].blob /\ r.memo[k].now = x
         /\ r.memo[k].was = run.memo[k].was
         /\ \A j \in Items \ {k} : r.memo[j] = run.memo[j]
<1>1. run \in Runs /\ DOMAIN run.memo = Items
  BY RunItems DEF Runs
<1>2. k = run.item /\ k \in Items /\ run.memo[k] \in Memo /\ run.memo[k].path = p
  BY BusyFacts DEF AtWork
<1>3. /\ r.phase = run.phase /\ r.step = step /\ r.item = run.item
      /\ r.todo = run.todo /\ r.done = run.done
      /\ r.memo = [run.memo EXCEPT ![k] = [run.memo[k] EXCEPT !.now = x]]
  BY <1>1, <1>2 DEF NowNote, Runs
<1> QED BY <1>1, <1>2, <1>3 DEF Memo

LEMMA StartedMemo ==
  ASSUME RunsInv, NEW i \in Items, NEW step, NEW blob, NEW was
  PROVE  Started(i, step, blob, was).memo[i] =
           [path |-> Home(i), blob |-> blob, was |-> was, now |-> None]
BY RunItems DEF Started, Runs

(* An item the run turns to is still as the receipts say.                  *)
LEMMA NextItem ==
  ASSUME RunsInv, KeptInv, Clear, Now("next"), run.phase # "idle", NEW i \in run.todo
  PROVE  /\ Underway /\ BatchKept /\ i \in Batch /\ i \in Items /\ i \notin Done
         /\ Turned = Done /\ Done \subseteq Items /\ Home(i) \in Paths /\ Settled(Home(i))
         /\ Places /\ Shares /\ Order /\ Rooted /\ run \in Runs /\ TreeOK
<1>1. Underway /\ BatchKept /\ Live /\ i \in Batch
  BY DEF Now, Underway, KeptInv, Kept, Live, Batch
<1>2. /\ Places /\ Shares /\ Order /\ Rooted /\ run \in Runs /\ TreeOK
      /\ Turned = Done /\ Done \subseteq Items
  BY RunItems DEF Clear, Turned, Now, Busy
<1>3. i \in Items /\ i \notin Done /\ Home(i) \in Paths
  BY <1>1, BatchHomes, TypeParts DEF RunsInv, RunOK, Now
<1>4. \A j \in Turned : Home(j) # Home(i)
  <2>1. \A j \in Turned : j \in Batch /\ j # i
    BY <1>2, <1>3 DEF Batch
  <2> QED BY <1>1, <2>1, HomesApart
<1>5. Settled(Home(i))
  BY <1>1, <1>2, <1>3, <1>4 DEF Places
<1> QED BY <1>1, <1>2, <1>3, <1>5

LEMMA TurnClear ==
  ASSUME RunsInv, KeptInv, Clear, UNCHANGED catalog,
         NEW i \in Items, Fingerprint(i) \/ HashLocal(i) \/ InspectStale(i)
  PROVE  Clear'
<1>1. /\ Now("next") /\ i \in run.todo /\ UNCHANGED <<tree, receipts>>
      /\ run.phase # "idle"
  BY DEF Fingerprint, HashLocal, InspectStale, Turn, In
<1>2. PICK p : p = Home(i)
  OBVIOUS
<1>3. /\ Underway /\ BatchKept /\ i \in Batch /\ i \notin Done
      /\ Turned = Done /\ Done \subseteq Items /\ p \in Paths /\ Settled(p)
      /\ Places /\ Shares /\ Rooted /\ run \in Runs /\ TreeOK
  BY <1>1, <1>2, NextItem
<1>4. PICK step \in {"fetch", "quarantine"}, blob \in Blobs \cup {None}, was \in Files \cup {None} :
        /\ run' = Started(i, step, blob, was)
        /\ step = "quarantine" => was = disk[p] /\ disk[p].blob = blob
        /\ ~In("create") /\ ~In("rmdir")
  <2>1. CASE Fingerprint(i)
    <3>1. remote[i].blob \in Blobs \cup {None}
      BY <2>1, RunItems DEF Fingerprint, Turn, FirstCheck, In, Announced, TablesOK, Object
    <3> QED BY <2>1, <3>1 DEF Fingerprint, In
  <2>2. CASE HashLocal(i)
    BY <1>3, <2>2 DEF HashLocal, Shares
  <2>3. CASE InspectStale(i)
    <3>1. i \in Owned /\ Home(i) = receipts[i].path
      BY <2>3, <1>3 DEF InspectStale, BatchKept
    <3>2. Unchanged(i)
      BY <2>3 DEF InspectStale, Turn, FirstCheck, In
    <3>3. disk[p] \in Files /\ disk[p].blob = receipts[i].blob
          /\ receipts[i].blob \in Blobs \cup {None}
      BY <1>2, <3>1, <3>2, RunItems DEF Unchanged, IsFile, TablesOK, Owned, Receipts
    <3> QED BY <1>2, <2>3, <3>3 DEF InspectStale, In
  <2> QED BY <2>1, <2>2, <2>3
<1>5. step \in Busy /\ step \in Steps
  BY DEF Busy, Steps
<1>6. /\ run'.phase = run.phase /\ run'.step = step /\ run'.item = i
      /\ run'.todo = run.todo \ {i} /\ run'.done = run.done
      /\ \A j \in Items \ {i} : run'.memo[j] = run.memo[j]
  <2>1. run' = Started(i, step, blob, was)
    BY <1>4
  <2>2. Home(i) \in Paths /\ run \in Runs /\ step \in Steps
    BY <1>2, <1>3, <1>5
  <2> QED BY <2>1, <2>2, StartedFacts
<1>7. run'.memo[i] = [path |-> p, blob |-> blob, was |-> was, now |-> None]
  BY <1>2, <1>4, StartedMemo
<1>8. Done' = Done /\ Turned' = Done \cup {i} /\ Batch' = Batch
  BY <1>1, <1>3, <1>5, <1>6 DEF Done, Turned, Batch
<1>9. ItemPlace(run.memo[i])'
  <2>1. temp'[p] = None /\ backup'[p] = None /\ quarantine'[p] = None /\ Held(p)'
        /\ disk'[p] = disk[p]
    BY <1>1, <1>3, HeldStays DEF Settled, tree
  <2>2. Held(run.memo[i].path)'
    BY <1>7, <2>1 DEF Held
  <2> QED BY <1>4, <1>6, <1>7, <2>1, <2>2 DEF ItemPlace, Now
<1>10. Going /\ Rooted' /\ (\A q \in Paths : Still(q)) /\ \A q : Reachable(q) => Reachable(q)'
  BY <1>1, <1>3, <1>5, <1>6, RootedSteady DEF Going, Still, SameAt, tree, Reachable
<1>11. Places'
  <2>1. \A j \in Done \ {i} : Reachable(Home(j)) => Reachable(Home(j))'
    BY <1>3, <1>10, GoingFacts DEF Reachable
  <2>2. Turned' \subseteq Batch /\ Turned \ {i} \subseteq Turned' /\ Done' \subseteq Done \cup {i}
        /\ i \in Turned' /\ i \notin Done'
    BY <1>3, <1>8 DEF Batch
  <2>3. \A j \in Done \ {i} : run'.memo[j] = run.memo[j]
    BY <1>3, <1>6
  <2> HIDE DEF Turned, Done, Batch, Home
  <2> QED BY <1>2, <1>3, <1>6, <1>9, <1>10, <2>1, <2>2, <2>3, PlaceStep
<1>12. Shares'
  BY <1>3, <1>8, <1>10, SharesStay
<1>13. Exact' /\ Cleaning' /\ Order'
  BY <1>4, <1>10, GoingFacts DEF Order
<1> QED BY <1>10, <1>11, <1>12, <1>13 DEF Clear

(* A step that leaves the names alone.                                     *)
LEMMA WithinNames ==
  ASSUME RunsInv, Clear, NEW k, NEW p, AtWork(k, p), UNCHANGED <<disk, catalog, receipts>>,
         run'.phase = run.phase, run'.todo = run.todo,
         \A j \in Items \ {k} : run'.memo[j] = run.memo[j],
         \A q \in Paths \ {p} : temp'[q] = temp[q] /\ backup'[q] = backup[q]
                                /\ quarantine'[q] = quarantine[q]
  PROVE  Within(k, p)
<1>1. \A j \in Done \ {k} : run'.memo[j] = run.memo[j]
  BY RunItems
<1> QED BY <1>1, NamesStand DEF Within, Still, SameAt

LEMMA FetchClear ==
  ASSUME RunsInv, KeptInv, Clear, UNCHANGED catalog, Fetch
  PROVE  Clear'
<1>1. run.step \in Busy /\ Now("fetch")
  BY DEF Fetch, Now, Busy
<1>2. PICK k, p : k = run.item /\ p = Here
  OBVIOUS
<1>3. AtWork(k, p) /\ TreeOK
  BY <1>1, <1>2, ItemFacts, RunItems
<1>4. /\ ItemPlace(run.memo[k]) /\ run.memo[k].path = p /\ p \in Paths
      /\ quarantine[p] = None /\ backup[p] = None /\ Held(p)
  BY <1>1, <1>3, ItemIsPlaced DEF ItemPlace, Now
<1>5. /\ Reachable(p) /\ UNCHANGED <<disk, backup, quarantine, receipts>>
      /\ \E x \in Files : temp' = [temp EXCEPT ![p] = x]
  <2> DEFINE x == [node |-> FreshNode, blob |-> remote[k].blob, stamp |-> 0]
  <2>1. k \in Present /\ Reachable(p)
    BY <1>1, <1>2, <1>3 DEF Fetch, Passes, Announced, Present, Now, AtWork, Here
  <2>2. k \notin Folders
    BY <1>1, <1>2, <1>3, BusyFacts, BatchHomes DEF In, AtWork, StepFits, Now
  <2>3. remote[k].blob \in Blobs
    BY <2>1, <2>2, RunAssumption DEF RunsInv, RemoteInv
  <2>4. FreshNode \in Nodes
    BY FreshNodeType DEF Fetch
  <2>5. x \in Files
    BY <2>3, <2>4, PlanAssumption DEF Files
  <2>6. temp' = [temp EXCEPT ![p] = x]
    BY <1>2 DEF Fetch
  <2> HIDE DEF x
  <2> QED BY <2>1, <2>5, <2>6 DEF Fetch
<1>6. PICK step \in {"promote", "compare"} : run' = [run EXCEPT !.step = step]
  BY DEF Fetch
<1>7. /\ run'.phase = run.phase /\ run'.step = step /\ run'.item = run.item
      /\ run'.todo = run.todo /\ run'.done = run.done /\ run'.memo = run.memo
      /\ step \in Busy
  <2>1. step \in Steps /\ step \in Busy
    BY DEF Steps, Busy
  <2> QED BY <1>6, <2>1, StepMemo
<1>8. Within(k, p)
  <2>1. \A q \in Paths \ {p} : temp'[q] = temp[q]
    BY <1>3, <1>5 DEF TreeOK
  <2> QED BY <1>3, <1>5, <1>7, <2>1, WithinNames
<1>9. ItemPlace(run.memo[k])'
  <2>1. IsFile(temp'[p]) /\ Reachable(p)' /\ Held(p)'
    BY <1>3, <1>4, <1>5, HeldStays DEF IsFile, TreeOK, Reachable
  <2>2. Held(run.memo[k].path)' /\ Reachable(run.memo[k].path)'
    BY <1>4, <1>7, <2>1 DEF Held, Reachable
  <2> QED BY <1>4, <1>5, <1>7, <2>1, <2>2 DEF ItemPlace, Now, IsFile
<1> QED BY <1>3, <1>7, <1>8, <1>9, ItemOn

LEMMA PromoteClear ==
  ASSUME RunsInv, KeptInv, Clear, UNCHANGED catalog, Promote
  PROVE  Clear'
<1>1. run.step \in Busy /\ Now("promote")
  BY DEF Promote, Now, Busy
<1>2. PICK k, p : k = run.item /\ p = Here
  OBVIOUS
<1>3. AtWork(k, p) /\ TreeOK /\ Rooted
  BY <1>1, <1>2, ItemFacts, RunItems DEF Clear
<1>4. /\ run.memo[k].path = p /\ p \in Paths /\ quarantine[p] = None /\ backup[p] = None
      /\ IsFile(temp[p]) /\ Reachable(p)
  BY <1>1, <1>3, ItemIsPlaced DEF ItemPlace, Now
<1>5. disk[p] = None
  BY <1>1, <1>2 DEF Promote, Passes, Now, Here
<1>6. NowNote(run', "unlink", temp[p])
  BY <1>2 DEF Promote, NowNote
<1>7. /\ run'.phase = run.phase /\ run'.step = "unlink" /\ run'.item = run.item
      /\ run'.todo = run.todo /\ run'.done = run.done /\ run'.memo[k].path = p
      /\ \A j \in Items \ {k} : run'.memo[j] = run.memo[j]
  <2>1. "unlink" \in Steps
    BY DEF Steps
  <2> QED BY <1>3, <1>6, <2>1, NowMemo
<1>8. disk' = [disk EXCEPT ![p] = temp[p]] /\ UNCHANGED <<temp, backup, quarantine, receipts>>
  BY <1>2 DEF Promote
<1>9. Within(k, p)
  <2>1. Rooted'
    BY <1>3, <1>4, <1>5, <1>8, RecordsAreNotNone, RootedStays
  <2>2. \A q \in Paths \ {p} : Still(q)
    BY <1>3, <1>8 DEF Still, SameAt, TreeOK
  <2>3. ~In("delete")
    BY <1>1, <1>3 DEF AtWork, StepFits, In, Now
  <2> QED BY <1>7, <1>8, <2>1, <2>2, <2>3, RunItems DEF Within
<1>10. ItemPlace(run.memo[k])'
  <2>1. disk'[p] = temp[p]
    BY <1>3, <1>4, <1>8 DEF TreeOK
  <2> QED BY <1>4, <1>7, <1>8, <2>1 DEF ItemPlace, Now, IsFile
<1>11. run'.step \in Busy
  BY <1>7 DEF Busy
<1> QED BY <1>3, <1>7, <1>9, <1>10, <1>11, ItemOn

LEMMA UnlinkClear ==
  ASSUME RunsInv, KeptInv, Clear, UNCHANGED catalog, Unlink
  PROVE  Clear'
<1>1. run.step \in Busy /\ Now("unlink")
  BY DEF Unlink, Now, Busy
<1>2. PICK k, p : k = run.item /\ p = Here
  OBVIOUS
<1>3. AtWork(k, p) /\ TreeOK
  BY <1>1, <1>2, ItemFacts, RunItems
<1>4. /\ run.memo[k].path = p /\ p \in Paths /\ quarantine[p] = None /\ backup[p] = None
      /\ IsFile(disk[p])
  BY <1>1, <1>3, ItemIsPlaced DEF ItemPlace, Now
<1>5. /\ run'.phase = run.phase /\ run'.step = "confirm" /\ run'.item = run.item
      /\ run'.todo = run.todo /\ run'.done = run.done /\ run'.memo = run.memo
  <2>1. "confirm" \in Steps
    BY DEF Steps
  <2> QED BY <2>1, StepMemo DEF Unlink
<1>6. temp' = [temp EXCEPT ![p] = None] /\ UNCHANGED <<disk, backup, quarantine, receipts>>
  BY <1>2 DEF Unlink
<1>7. Within(k, p)
  <2>1. \A q \in Paths \ {p} : temp'[q] = temp[q]
    BY <1>3, <1>6 DEF TreeOK
  <2> QED BY <1>3, <1>5, <1>6, <2>1, WithinNames
<1>8. ItemPlace(run.memo[k])'
  <2>1. temp'[p] = None
    BY <1>3, <1>4, <1>6 DEF TreeOK
  <2> QED BY <1>4, <1>5, <1>6, <2>1 DEF ItemPlace, Now, IsFile
<1>9. run'.step \in Busy
  BY <1>5 DEF Busy
<1> QED BY <1>3, <1>5, <1>7, <1>8, <1>9, ItemOn

LEMMA ConfirmClear ==
  ASSUME RunsInv, KeptInv, Clear, UNCHANGED catalog, Confirm \/ CompareProvider
  PROVE  Clear'
<1>1. run.step \in Busy /\ UNCHANGED <<tree, receipts>> /\ run' = Completed(run, run.item)
  BY DEF Confirm, CompareProvider, Now, Busy
<1>2. PICK k, p : k = run.item /\ p = Here
  OBVIOUS
<1>3. AtWork(k, p) /\ run \in Runs
  BY <1>1, <1>2, ItemFacts, RunItems
<1>4. Now("confirm") /\ In("materialize")
  <2>1. ~In("verify")
    BY <1>3 DEF Clear, Shares, AtWork
  <2> QED BY <1>3, <2>1 DEF Confirm, CompareProvider, AtWork, StepFits, Now, In
<1>5. /\ run.memo[k].path = p /\ p \in Paths /\ quarantine[p] = None /\ backup[p] = None
      /\ IsFile(disk[p]) /\ temp[p] = None
  BY <1>3, <1>4, ItemIsPlaced DEF ItemPlace, Now
<1>6. /\ run'.phase = run.phase /\ run'.step = "next" /\ run'.todo = run.todo
      /\ run'.memo = run.memo /\ Done' = Done \cup {k}
  BY <1>1, <1>2, <1>3, CompletedFacts DEF AtWork, Done
<1>7. Within(k, p)
  BY <1>1, <1>3, <1>6, WithinNames DEF tree
<1>8. DonePlace(run.memo[k])'
  BY <1>1, <1>4, <1>5, <1>6 DEF DonePlace, In, IsFile, tree
<1> QED BY <1>3, <1>6, <1>7, <1>8, ItemOff

LEMMA BaselineClear ==
  ASSUME RunsInv, KeptInv, Clear, UNCHANGED catalog, CompareBaseline
  PROVE  Clear'
<1>1. run.step \in Busy /\ Now("compare") /\ UNCHANGED <<tree, receipts>>
  BY DEF CompareBaseline, Now, Busy
<1>2. PICK k, p : k = run.item /\ p = Here
  OBVIOUS
<1>3. AtWork(k, p) /\ TreeOK
  BY <1>1, <1>2, ItemFacts, RunItems
<1>4. /\ run.memo[k].path = p /\ p \in Paths /\ quarantine[p] = None /\ backup[p] = None
      /\ Held(p)
  BY <1>1, <1>3, ItemIsPlaced DEF ItemPlace, Now
<1>5. WasNote(run', "backup", disk[p])
  BY <1>2 DEF CompareBaseline, WasNote
<1>6. /\ run'.phase = run.phase /\ run'.step = "backup" /\ run'.item = run.item
      /\ run'.todo = run.todo /\ run'.done = run.done
      /\ run'.memo[k].path = p /\ run'.memo[k].was = disk[p]
      /\ \A j \in Items \ {k} : run'.memo[j] = run.memo[j]
  <2>1. "backup" \in Steps
    BY DEF Steps
  <2> QED BY <1>3, <1>5, <2>1, WasMemo
<1>7. Within(k, p)
  BY <1>1, <1>3, <1>6, WithinNames DEF tree
<1>8. ItemPlace(run.memo[k])'
  <2>1. Held(p)'
    BY <1>1, <1>4, HeldStays DEF tree
  <2>2. Held(run.memo[k].path)'
    BY <1>6, <2>1 DEF Held
  <2> QED BY <1>1, <1>4, <1>6, <2>2 DEF ItemPlace, Now, tree
<1>9. run'.step \in Busy
  BY <1>6 DEF Busy
<1> QED BY <1>3, <1>6, <1>7, <1>8, <1>9, ItemOn

LEMMA LinkClear ==
  ASSUME RunsInv, KeptInv, Clear, UNCHANGED catalog, LinkBackup
  PROVE  Clear'
<1>1. run.step \in Busy /\ Now("backup")
  BY DEF LinkBackup, Now, Busy
<1>2. PICK k, p : k = run.item /\ p = Here
  OBVIOUS
<1>3. AtWork(k, p) /\ TreeOK
  BY <1>1, <1>2, ItemFacts, RunItems
<1>4. /\ run.memo[k].path = p /\ p \in Paths /\ quarantine[p] = None
      /\ Held(p) /\ run.memo[k].was = disk[p]
  BY <1>1, <1>3, ItemIsPlaced DEF ItemPlace, Now
<1>5. IsFile(disk[p])
  BY <1>1, <1>2 DEF LinkBackup, Passes, Now, SameFile, Here
<1>6. /\ run'.phase = run.phase /\ run'.step = "swap" /\ run'.item = run.item
      /\ run'.todo = run.todo /\ run'.done = run.done /\ run'.memo = run.memo
  <2>1. "swap" \in Steps
    BY DEF Steps
  <2> QED BY <2>1, StepMemo DEF LinkBackup
<1>7. backup' = [backup EXCEPT ![p] = disk[p]] /\ UNCHANGED <<disk, temp, quarantine, receipts>>
  BY <1>2 DEF LinkBackup
<1>8. Within(k, p)
  <2>1. \A q \in Paths \ {p} : backup'[q] = backup[q]
    BY <1>3, <1>7 DEF TreeOK
  <2> QED BY <1>3, <1>6, <1>7, <2>1, WithinNames
<1>9. ItemPlace(run.memo[k])'
  <2>1. backup'[p] = disk[p] /\ Held(p)'
    BY <1>3, <1>4, <1>7, HeldStays DEF TreeOK
  <2>2. Held(run.memo[k].path)'
    BY <1>4, <1>6, <2>1 DEF Held
  <2> QED BY <1>4, <1>5, <1>6, <1>7, <2>1, <2>2 DEF ItemPlace, Now, IsFile
<1>10. run'.step \in Busy
  BY <1>6 DEF Busy
<1> QED BY <1>3, <1>6, <1>8, <1>9, <1>10, ItemOn

LEMMA SwapClear ==
  ASSUME RunsInv, KeptInv, Clear, edited = {}, UNCHANGED catalog, Swap
  PROVE  Clear'
<1>1. run.step \in Busy /\ Now("swap") /\ UNCHANGED <<backup, quarantine, receipts>>
  BY DEF Swap, Now, Busy
<1>2. PICK k, p : k = run.item /\ p = Here
  OBVIOUS
<1>3. AtWork(k, p) /\ TreeOK /\ Rooted
  BY <1>1, <1>2, ItemFacts, RunItems DEF Clear
<1>4. /\ run.memo[k].path = p /\ p \in Paths /\ quarantine[p] = None
      /\ IsFile(disk[p]) /\ backup[p] = disk[p] /\ run.memo[k].was = disk[p]
  BY <1>1, <1>3, ItemIsPlaced DEF ItemPlace, Now
<1>5. In("replace") /\ IsFile(temp[p]) /\ temp[p].blob = run.memo[k].blob
  <2>1. In("replace")
    BY <1>1, <1>3 DEF AtWork, StepFits, In, Now
  <2> QED BY <1>1, <1>3, <1>4, <2>1 DEF AtWork, ItemOK, Now
<1>6. PICK r : r = [run EXCEPT !.memo[run.item].now = temp[Here]]
  OBVIOUS
<1>7. /\ r.phase = run.phase /\ r.todo = run.todo /\ r.done = run.done
      /\ r.memo[k].path = p /\ r.memo[k].blob = run.memo[k].blob
      /\ r.memo[k].now = temp[p] /\ r.memo[k].was = disk[p]
      /\ (\A j \in Items \ {k} : r.memo[j] = run.memo[j]) /\ r \in Runs
  <2>1. run \in Runs /\ run.step \in Steps /\ temp[p] \in Files \cup {None}
    BY <1>5, RunItems DEF Runs, IsFile
  <2>2. r = [run EXCEPT !.step = run.step, !.memo[run.item].now = temp[p]]
    BY <1>2, <1>6, <2>1 DEF Runs
  <2>3. r \in Runs
    <3>1. Keeping(r, run.step)
      BY <1>1, <2>1, <2>2, NowNoted, Zenon
    <3> QED BY <3>1 DEF Keeping
  <2>4. NowNote(r, run.step, temp[p])
    BY <2>2 DEF NowNote
  <2> QED BY <1>3, <1>4, <2>1, <2>3, <2>4, NowMemo
<1>8. /\ run'.phase = run.phase /\ run'.step = "next" /\ run'.todo = run.todo
      /\ run'.memo = r.memo /\ Done' = Done \cup {k}
  <2>1. run' = Completed(r, k) /\ k \in Items
    BY <1>2, <1>3, <1>6 DEF Swap, AtWork
  <2> QED BY <1>7, <2>1, CompletedFacts DEF Done
<1>9. disk' = [disk EXCEPT ![p] = temp[p]] /\ temp' = [temp EXCEPT ![p] = None]
  BY <1>2 DEF Swap
<1>10. disk[p] # None /\ disk[p] # Dir
  BY <1>4, RecordsAreNotNone DEF IsFile
<1>11. Within(k, p)
  <2>1. Rooted'
    BY <1>3, <1>4, <1>9, <1>10, RootedStays DEF Rooted
  <2>2. \A q \in Paths \ {p} : Still(q)
    BY <1>1, <1>3, <1>9 DEF Still, SameAt, TreeOK
  <2>3. ~In("delete")
    BY <1>5 DEF In
  <2> QED BY <1>1, <1>7, <1>8, <2>1, <2>2, <2>3, RunItems DEF Within
<1>12. DonePlace(run.memo[k])'
  <2>1. disk'[p] = temp[p] /\ temp'[p] = None
    BY <1>3, <1>4, <1>9 DEF TreeOK
  <2> QED BY <1>1, <1>4, <1>5, <1>7, <1>8, <2>1 DEF DonePlace, SameFile, In, IsFile
<1> QED BY <1>3, <1>8, <1>11, <1>12, ItemOff

LEMMA QuarantineClear ==
  ASSUME RunsInv, KeptInv, Clear, UNCHANGED catalog, QuarantineFile
  PROVE  Clear'
<1>1. Now("quarantine") /\ run.step \in Busy /\ UNCHANGED <<temp, backup, receipts>>
      /\ run' = Completed(run, run.item)
  BY DEF QuarantineFile, Aside, Now, Busy
<1>2. PICK k, p : k = run.item /\ p = Here
  OBVIOUS
<1>3. AtWork(k, p) /\ TreeOK /\ run \in Runs /\ Rooted
  BY <1>1, <1>2, ItemFacts, RunItems DEF Clear
<1>4. /\ run.memo[k].path = p /\ p \in Paths /\ temp[p] = None /\ backup[p] = None
      /\ run.memo[k].was = disk[p] /\ disk[p].blob = run.memo[k].blob
  BY <1>1, <1>3, ItemIsPlaced DEF ItemPlace, Now
<1>5. In("delete")
  BY <1>1, <1>3 DEF AtWork, StepFits, In, Now
<1>6. SameFile(disk[p], disk[p]) /\ disk[p] # None /\ disk[p] # Dir
  <2>1. Unchanged(k) /\ receipts[k].path = p
    BY <1>2, <1>3, <1>5 DEF QuarantineFile, Passes, Now, AtWork, BatchKept
  <2> QED BY <2>1, RecordsAreNotNone DEF Unchanged, SameFile, IsFile
<1>7. /\ quarantine' = [quarantine EXCEPT ![p] = disk[p]]
      /\ disk' = [disk EXCEPT ![p] = None]
  BY <1>2 DEF QuarantineFile, Aside
<1>8. /\ run'.phase = run.phase /\ run'.step = "next" /\ run'.todo = run.todo
      /\ run'.memo = run.memo /\ Done' = Done \cup {k}
  BY <1>1, <1>2, <1>3, CompletedFacts DEF AtWork, Done
<1>9. Reachable(p) /\ \A q \in Paths : Reachable(q) => Reachable(q)'
  BY <1>3, <1>4, <1>6, <1>7, ReachStays DEF Rooted
<1>10. Within(k, p)
  <2>1. Rooted'
    BY <1>3, <1>4, <1>6, <1>7, RootedStays
  <2>2. \A q \in Paths \ {p} : Still(q)
    BY <1>1, <1>3, <1>7 DEF Still, SameAt, TreeOK
  <2> QED BY <1>1, <1>8, <1>9, <2>1, <2>2 DEF Within
<1>11. DonePlace(run.memo[k])'
  <2>1. disk'[p] = None /\ quarantine'[p] = disk[p] /\ Reachable(p)'
    BY <1>3, <1>4, <1>7, <1>9 DEF TreeOK
  <2>2. Reachable(run.memo[k].path)'
    BY <1>4, <1>8, <2>1 DEF Reachable
  <2> QED BY <1>1, <1>4, <1>5, <1>6, <1>8, <2>1, <2>2 DEF DonePlace, SameFile, In, IsFile
<1> QED BY <1>3, <1>8, <1>10, <1>11, ItemOff

-----------------------------------------------------------------------------
(* Folders.                                                                *)

LEMMA PassedRun ==
  ASSUME RunsInv, NEW i \in Items, Home(i) \in Paths,
         run' = Completed(Started(i, "next", None, None), i)
  PROVE  /\ run'.phase = run.phase /\ run'.step = "next" /\ run'.todo = run.todo \ {i}
         /\ run'.done = Append(run.done, i) /\ Done' = Done \cup {i}
         /\ run'.memo[i].path = Home(i)
         /\ \A j \in Items \ {i} : run'.memo[j] = run.memo[j]
<1>1. PICK r : r = Started(i, "next", None, None)
  OBVIOUS
<1>2. run \in Runs /\ "next" \in Steps /\ None \in Blobs \cup {None} /\ None \in Files \cup {None}
  BY RunItems DEF Steps
<1>3. /\ r \in Runs /\ r.phase = run.phase /\ r.todo = run.todo \ {i} /\ r.done = run.done
      /\ r.memo[i].path = Home(i) /\ \A j \in Items \ {i} : r.memo[j] = run.memo[j]
  BY <1>1, <1>2, StartedFacts
<1>4. /\ run'.phase = run.phase /\ run'.step = "next" /\ run'.todo = r.todo
      /\ run'.memo = r.memo /\ Done' = Done \cup {i}
  BY <1>1, <1>3, CompletedFacts DEF Done
<1>5. run'.done = Append(run.done, i)
  BY <1>1, <1>3 DEF Completed, Runs
<1> QED BY <1>3, <1>4, <1>5

LEMMA OrderGrows ==
  ASSUME RunsInv, Order, Underway, In("create"), UNCHANGED catalog, UNCHANGED receipts,
         NEW i \in run.todo, i \in Items, Home(i) \in Paths,
         Batch \subseteq Expected, Batch' \subseteq Batch, Eligible(i),
         \A q \in Paths \ {Home(i)} : disk'[q] = disk[q],
         run'.todo = run.todo \ {i}, run'.done = Append(run.done, i), Done' = Done \cup {i}
  PROVE  Order'
<1>1. /\ \A j \in Batch, q \in Paths :
           Home(j) \in Above[q] /\ disk[q] # None => \E l \in Done : Home(l) = q
      /\ \A j \in Done, l \in run.todo : Home(l) \notin Above[Home(j)]
      /\ \A a, b \in DOMAIN run.done :
           a < b => Home(run.done[b]) \notin Above[Home(run.done[a])]
  BY DEF Order
<1>2. \A j \in Items : Home(j)' = Home(j)
  BY PlanSteady
<1>3. Batch \subseteq Items /\ Done \subseteq Items /\ run.todo \subseteq Items
  BY RunItems DEF Batch
<1>4. \A j \in run.todo : Home(j) \notin Above[Home(i)]
  <2>1. \A j \in run.todo : Home(j) = catalog[j].path
    BY DEF Home, Batch
  <2> QED BY <2>1 DEF Eligible
<1>5. ASSUME NEW j \in Batch', NEW q \in Paths, Home(j)' \in Above[q], disk'[q] # None
      PROVE  \E l \in Done' : Home(l)' = q
  <2>1. CASE q = Home(i)
    BY <1>2, <2>1
  <2>2. CASE q # Home(i)
    <3>1. \E l \in Done : Home(l) = q
      BY <1>1, <1>2, <1>3, <1>5, <2>2
    <3> QED BY <1>2, <1>3, <3>1
  <2> QED BY <2>1, <2>2
<1>6. ASSUME NEW j \in Done', NEW l \in run'.todo PROVE Home(l)' \notin Above[Home(j)']
  <2>1. l \in run.todo /\ l \in Items /\ (j = i \/ j \in Done) /\ j \in Items
    BY <1>3, <1>6
  <2> QED BY <1>1, <1>2, <1>4, <2>1
<1>7. ASSUME NEW a \in DOMAIN run'.done, NEW b \in DOMAIN run'.done, a < b
      PROVE  (Home(run.done[b]) \notin Above[Home(run.done[a])])'
  <2>1. run.done \in Seq(Items)
    BY RunItems DEF Runs
  <2>2. PICK n \in Nat : n = Len(run.done) /\ DOMAIN run.done = 1..n
    BY <2>1
  <2>3. /\ DOMAIN run'.done = 1..(n + 1) /\ run'.done[n + 1] = i
        /\ \A c \in 1..n : run'.done[c] = run.done[c] /\ run.done[c] \in Items
    BY <2>1, <2>2
  <2>4. a \in 1..n /\ b \in 1..(n + 1)
    BY <1>7, <2>2, <2>3
  <2>5. run'.done[a] = run.done[a] /\ run.done[a] \in Done /\ run.done[a] \in Items
    BY <2>2, <2>3, <2>4 DEF Done, Range
  <2>6. CASE b \in 1..n
    <3>1. run'.done[b] = run.done[b] /\ run.done[b] \in Items
      BY <2>3, <2>6
    <3>2. Home(run.done[b]) \notin Above[Home(run.done[a])]
      BY <1>1, <1>7, <2>2, <2>4, <2>6
    <3> QED BY <1>2, <2>5, <3>1, <3>2
  <2>7. CASE b = n + 1
    <3>1. Home(i) \notin Above[Home(run.done[a])]
      BY <1>1, <2>5
    <3> QED BY <1>2, <2>3, <2>5, <2>7, <3>1
  <2> QED BY <2>4, <2>6, <2>7
<1> HIDE DEF Batch, Done, Home, Underway
<1> QED BY <1>5, <1>6, <1>7 DEF Order

LEMMA MakeFolderClear ==
  ASSUME RunsInv, KeptInv, Clear, UNCHANGED catalog, NEW i \in Items, MakeFolder(i)
  PROVE  Clear'
<1>1. /\ Now("next") /\ i \in run.todo /\ In("create") /\ run.phase # "idle"
      /\ UNCHANGED <<temp, backup, quarantine, receipts>> /\ Eligible(i)
      /\ Reachable(Home(i))
  BY DEF MakeFolder, Turn, FirstCheck, In
<1>2. PICK p : p = Home(i)
  OBVIOUS
<1>3. /\ Underway /\ BatchKept /\ i \in Batch /\ i \notin Done
      /\ Turned = Done /\ Done \subseteq Items /\ p \in Paths /\ Settled(p)
      /\ Places /\ Shares /\ Order /\ Rooted /\ TreeOK
  BY <1>1, <1>2, NextItem
<1>4. disk[p] = None
  <2>1. \A j \in Owned : receipts[j].path # p
    BY <1>1, <1>2, <1>3 DEF Shares
  <2> QED BY <1>3, <2>1 DEF Settled, Held
<1>5. /\ run'.phase = run.phase /\ run'.step = "next" /\ run'.todo = run.todo \ {i}
      /\ run'.done = Append(run.done, i) /\ Done' = Done \cup {i}
      /\ run'.memo[i].path = p /\ \A j \in Items \ {i} : run'.memo[j] = run.memo[j]
  <2>1. run' = Completed(Started(i, "next", None, None), i)
    BY <1>2, <1>4 DEF MakeFolder
  <2> QED BY <1>2, <1>3, <2>1, PassedRun
<1>6. Turned' = Done' /\ Batch' \subseteq Batch
  BY <1>3, <1>5 DEF Turned, Batch, Busy
<1>7. disk' = [disk EXCEPT ![p] = Dir]
  BY <1>2 DEF MakeFolder
<1>8. Going /\ Rooted' /\ (\A q \in Paths \ {p} : Still(q)) /\ disk'[p] = Dir
  <2>1. Rooted'
    BY <1>1, <1>2, <1>3, <1>4, <1>7, RecordsAreNotNone, RootedStays
  <2>2. (\A q \in Paths \ {p} : Still(q)) /\ disk'[p] = Dir
    BY <1>1, <1>3, <1>7 DEF Still, SameAt, TreeOK
  <2> QED BY <1>1, <1>3, <1>5, <2>1, <2>2 DEF Going
<1>9. DonePlace(run.memo[i])'
  BY <1>1, <1>3, <1>5, <1>8 DEF DonePlace, Settled, In
<1>10. Places'
  <2>1. Turned' \subseteq Batch /\ Turned \ {i} \subseteq Turned' /\ Done' \subseteq Done \cup {i}
        /\ i \in Turned' /\ run'.step \notin Busy
    BY <1>3, <1>5, <1>6 DEF Batch, Busy
  <2>2. \A j \in Done \ {i} : run'.memo[j] = run.memo[j]
    BY <1>3, <1>5
  <2>3. ~In("delete") /\ ~In("rmdir")
    BY <1>1 DEF In
  <2> HIDE DEF Turned, Done, Batch, Home
  <2> QED BY <1>2, <1>3, <1>8, <1>9, <2>1, <2>2, <2>3, PlaceStep
<1>11. Shares'
  BY <1>3, <1>6, <1>8, SharesStay
<1>12. Order'
  <2>1. Batch \subseteq Expected
    <3>1. Live /\ Recording
      BY <1>1 DEF Live, Recording, Now, In
    <3> QED BY <3>1 DEF RunsInv, BatchInv, Batch, Undisputed
  <2>2. \A q \in Paths \ {Home(i)} : disk'[q] = disk[q]
    BY <1>2, <1>8 DEF Still, SameAt
  <2> HIDE DEF Batch, Home, Underway
  <2> QED BY <1>1, <1>2, <1>3, <1>5, <1>6, <2>1, <2>2, OrderGrows
<1>13. Exact' /\ Cleaning'
  BY <1>8, GoingFacts
<1> QED BY <1>8, <1>10, <1>11, <1>12, <1>13 DEF Clear

LEMMA QuarantineFolderClear ==
  ASSUME RunsInv, KeptInv, Clear, UNCHANGED catalog, NEW i \in Items, QuarantineFolder(i)
  PROVE  Clear'
<1>1. /\ Now("next") /\ i \in run.todo /\ In("rmdir") /\ run.phase # "idle"
      /\ UNCHANGED <<temp, backup, receipts>>
      /\ Reachable(Home(i)) /\ disk[Home(i)] = Dir /\ EmptyFolder(Home(i))
      /\ run' = Completed(Started(i, "next", None, None), i)
  BY DEF QuarantineFolder, Turn, FirstCheck, In, Aside
<1>2. PICK p : p = Home(i)
  OBVIOUS
<1>3. /\ Underway /\ BatchKept /\ i \in Batch /\ i \notin Done
      /\ Turned = Done /\ Done \subseteq Items /\ p \in Paths /\ Settled(p)
      /\ Places /\ Shares /\ Rooted /\ TreeOK
  BY <1>1, <1>2, NextItem
<1>4. /\ run'.phase = run.phase /\ run'.step = "next" /\ run'.todo = run.todo \ {i}
      /\ Done' = Done \cup {i}
      /\ run'.memo[i].path = p /\ \A j \in Items \ {i} : run'.memo[j] = run.memo[j]
  BY <1>1, <1>2, <1>3, PassedRun
<1>5. Turned' = Done' /\ Batch' \subseteq Batch
  BY <1>3, <1>4 DEF Turned, Batch, Busy
<1>6. disk' = [disk EXCEPT ![p] = None] /\ quarantine' = [quarantine EXCEPT ![p] = disk[p]]
  BY <1>2 DEF QuarantineFolder, Aside
<1>7. Going /\ Rooted' /\ (\A q \in Paths \ {p} : Still(q))
      /\ disk'[p] = None /\ quarantine'[p] = Dir
  <2>1. \A q \in Paths : p \in Above[q] => disk[q] = None
    BY <1>1, <1>2 DEF EmptyFolder
  <2>2. Rooted'
    BY <1>3, <1>6, <2>1, RootedStays
  <2>3. (\A q \in Paths \ {p} : Still(q)) /\ disk'[p] = None /\ quarantine'[p] = Dir
    BY <1>1, <1>2, <1>3, <1>6 DEF Still, SameAt, TreeOK
  <2> QED BY <1>1, <1>3, <1>4, <2>2, <2>3 DEF Going
<1>8. Reachable(p)'
  BY <1>1, <1>2, <1>3, <1>6, AboveFacts, ReachStays
<1>9. DonePlace(run.memo[i])'
  <2>1. Reachable(run.memo[i].path)'
    BY <1>4, <1>8 DEF Reachable
  <2> QED BY <1>1, <1>3, <1>4, <1>7, <2>1 DEF DonePlace, Settled, In
<1>10. \A j \in Done \ {i} : Reachable(Home(j)) => Reachable(Home(j))'
  <2>1. SUFFICES ASSUME NEW j \in Done \ {i}, Reachable(Home(j)) PROVE Reachable(Home(j))'
    OBVIOUS
  <2>2. PICK q : q = Home(j)
    OBVIOUS
  <2>3. run.memo[j].path = q /\ q \in Paths
    BY <1>3, <2>1, <2>2, DoneHomes
  <2>4. quarantine[q] = Dir
    BY <1>1, <1>3, <2>1, <2>3 DEF Places, DonePlace
  <2>5. q \in Leftovers
    BY <2>3, <2>4, RecordsAreNotNone DEF Leftovers
  <2>6. p \notin Above[q]
    BY <1>1, <1>2, <2>3, <2>5 DEF EmptyFolder
  <2>7. Reachable(q)'
    BY <1>3, <1>6, <2>1, <2>2, <2>3, <2>6, ReachStays
  <2>8. Home(j)' = q
    BY <1>3, <1>7, <2>1, <2>2, GoingFacts
  <2> QED BY <2>7, <2>8 DEF Reachable
<1>11. Places'
  <2>1. Turned' \subseteq Batch /\ Turned \ {i} \subseteq Turned' /\ Done' \subseteq Done \cup {i}
        /\ i \in Turned' /\ run'.step \notin Busy
    BY <1>3, <1>4, <1>5 DEF Batch, Busy
  <2>2. \A j \in Done \ {i} : run'.memo[j] = run.memo[j]
    BY <1>3, <1>4
  <2> HIDE DEF Turned, Done, Batch, Home
  <2> QED BY <1>2, <1>3, <1>7, <1>9, <1>10, <2>1, <2>2, PlaceStep
<1>12. Shares'
  BY <1>3, <1>5, <1>7, SharesStay
<1>13. Exact' /\ Cleaning' /\ Order'
  BY <1>1, <1>7, GoingFacts DEF Order, In
<1> QED BY <1>7, <1>11, <1>12, <1>13 DEF Clear

-----------------------------------------------------------------------------
(* The way back.                                                           *)

LEMMA LastFacts ==
  ASSUME NEW S, NEW s \in Seq(S), s # <<>>
  PROVE  /\ \A x \in Range(s) : x = Last(s) \/ x \in Range(Front(s))
         /\ \A x \in Range(s) : x # Last(s) =>
              \E a \in DOMAIN s : a < Len(s) /\ s[a] = x
         /\ Len(s) \in DOMAIN s /\ Last(s) = s[Len(s)]
         /\ \A a \in DOMAIN Front(s) : a \in DOMAIN s /\ Front(s)[a] = s[a]
<1>1. PICK n \in Nat : n = Len(s) /\ n # 0 /\ DOMAIN s = 1..n
  OBVIOUS
<1>2. /\ DOMAIN Front(s) = 1..(n - 1) /\ \A a \in 1..(n - 1) : Front(s)[a] = s[a]
      /\ Last(s) = s[n]
  BY <1>1 DEF Front, Last
<1>3. \A a \in 1..n : a = n \/ (a \in 1..(n - 1) /\ a < n)
  BY <1>1
<1>4. n \in 1..n /\ \A a \in 1..(n - 1) : a \in 1..n
  BY <1>1
<1>5. ASSUME NEW x \in Range(s), x # Last(s)
      PROVE  x \in Range(Front(s)) /\ \E a \in DOMAIN s : a < Len(s) /\ s[a] = x
  <2>1. PICK a \in 1..n : s[a] = x
    BY <1>1, <1>5 DEF Range
  <2>2. a \in 1..(n - 1) /\ a < n
    BY <1>2, <1>3, <1>5, <2>1
  <2> QED BY <1>1, <1>2, <2>1, <2>2 DEF Range
<1> QED BY <1>1, <1>2, <1>4, <1>5

(* A run that gives up between two items has no temporary name to drop.    *)
LEMMA DropNothing ==
  ASSUME RunsInv, KeptInv, Clear, Mutating, GiveUp, UNCHANGED catalog, Now("next")
  PROVE  Clear'
<1>1. /\ Underway /\ BatchKept /\ run \in Runs /\ TreeOK /\ Places /\ Shares /\ Order /\ Rooted
      /\ Done \subseteq Items /\ Turned = Done
  BY RunItems DEF Mutating, Now, Underway, KeptInv, Kept, Clear, Turned, Busy
<1>2. /\ UNCHANGED <<disk, quarantine, receipts>> /\ backup' = backup
      /\ temp' = temp \/ temp' = [temp EXCEPT ![Here] = None]
  BY DEF GiveUp, Now
<1>3. /\ run'.phase = run.phase /\ run'.step = "rollback" /\ run'.todo = run.todo
      /\ run'.memo = run.memo /\ run'.done = run.done
  BY <1>1 DEF GiveUp, Runs, Now
<1>4. Done' = Done /\ Turned' = Done /\ Batch' = Batch
  BY <1>1, <1>3 DEF Done, Turned, Batch, Busy
<1>5. \A j \in Done : run.memo[j].path = Home(j) /\ Home(j) \in Paths
  <2>1. SUFFICES ASSUME NEW j \in Done
                 PROVE  run.memo[j].path = Home(j) /\ Home(j) \in Paths
    OBVIOUS
  <2>2. run.memo[j] # None /\ run.memo[j].path = Home(j)
    BY <1>1 DEF BatchKept
  <2>3. run.memo[j] \in Memo
    BY <1>1, <2>2 DEF Runs
  <2> QED BY <2>2, <2>3 DEF Memo
<1>6. \A q \in Paths : temp[q] = None
  <2>1. SUFFICES ASSUME NEW q \in Paths PROVE temp[q] = None
    OBVIOUS
  <2>2. CASE \E j \in Turned : Home(j) = q
    BY <1>1, <1>5, <2>2 DEF Places, DonePlace
  <2>3. CASE \A j \in Turned : Home(j) # q
    BY <1>1, <2>3 DEF Places, Settled
  <2> QED BY <2>2, <2>3
<1>7. \A q \in Paths : Still(q)
  BY <1>1, <1>2, <1>6 DEF Still, SameAt, TreeOK
<1>8. Going
  BY <1>1, <1>2, <1>3 DEF Going
<1>9. Places'
  <2>1. Owned' = Owned /\ (\A i \in Items : Home(i)' = Home(i))
        /\ (\A phase : In(phase)' = In(phase))
    BY <1>8, GoingFacts
  <2>2. ASSUME NEW q \in Paths, \A i \in Turned' : Home(i)' # q PROVE Settled(q)'
    <3>1. \A i \in Turned : Home(i) # q
      BY <1>1, <1>4, <2>1, <2>2
    <3> QED BY <1>1, <1>2, <1>7, <3>1, SettledStays DEF Places
  <2>3. ASSUME NEW j \in Done' PROVE DonePlace(run.memo[j])'
    <3>1. DonePlace(run.memo[j]) /\ run'.memo[j] = run.memo[j] /\ Still(run.memo[j].path)
      BY <1>1, <1>3, <1>4, <1>5, <1>7, <2>3 DEF Places
    <3> QED BY <1>2, <2>1, <3>1 DEF DonePlace, Still, SameAt, SameFile, IsFile, Reachable
  <2>4. run'.step \notin Busy
    BY <1>3 DEF Busy
  <2> HIDE DEF Turned, Done, Home, Underway
  <2> QED BY <2>2, <2>3, <2>4 DEF Places
<1>10. Shares'
  BY <1>1, <1>4, <1>8, SharesStay
<1>11. Order'
  <2>1. \A i \in Items : Home(i)' = Home(i)
    BY <1>8, GoingFacts
  <2>2. Batch \subseteq Items /\ run.todo \subseteq Items
    BY RunItems DEF Batch
  <2>3. \A a \in DOMAIN run.done : run.done[a] \in Items
    BY <1>1 DEF Runs
  <2>4. UNCHANGED <<run.done, run.todo>> /\ In("create")' = In("create")
    BY <1>3 DEF In
  <2> HIDE DEF Home, Batch, Done, Underway
  <2> QED BY <1>1, <1>2, <1>4, <2>1, <2>2, <2>3, <2>4 DEF Order
<1>12. Rooted' /\ Exact' /\ Cleaning'
  BY <1>1, <1>2, <1>8, GoingFacts, RootedSteady
<1> QED BY <1>9, <1>10, <1>11, <1>12 DEF Clear

LEMMA GiveUpClear ==
  ASSUME RunsInv, KeptInv, Clear, Mutating, GiveUp, UNCHANGED catalog
  PROVE  Clear'
<1>1. run.step \in Busy \cup {"next"} /\ run \in Runs /\ TreeOK
  BY RunItems DEF Mutating, Now, Runs, Steps, Busy
<1>2. CASE run.step = "next"
  BY <1>2, DropNothing DEF Now
<1>3. CASE run.step \in Busy
  <2>1. PICK k, p : k = run.item /\ p = Here
    OBVIOUS
  <2>2. AtWork(k, p)
    BY <1>3, <2>1, ItemFacts
  <2>3. /\ ItemPlace(run.memo[k]) /\ run.memo[k].path = p /\ p \in Paths
    BY <2>2, ItemIsPlaced
  <2>4. k # None
    BY <2>2, MemoAssumption DEF AtWork
  <2>5. /\ UNCHANGED <<disk, quarantine, receipts>> /\ temp' = [temp EXCEPT ![p] = None]
        /\ backup' = IF Now("swap") THEN [backup EXCEPT ![p] = None] ELSE backup
    BY <2>1, <2>4 DEF GiveUp
  <2>6. /\ run'.phase = run.phase /\ run'.step = "rollback" /\ run'.todo = run.todo
        /\ run'.memo = run.memo
        /\ run'.done = IF run.step \in {"unlink", "confirm"}
                       THEN Append(run.done, k) ELSE run.done
    BY <1>1, <2>1 DEF GiveUp, Runs
  <2>7. /\ \A q \in Paths \ {p} : temp'[q] = temp[q] /\ backup'[q] = backup[q]
        /\ temp'[p] = None /\ backup'[p] = IF Now("swap") THEN None ELSE backup[p]
        /\ backup'[p] = None
    BY <1>1, <2>3, <2>5 DEF TreeOK, ItemPlace
  <2>8. Within(k, p)
    BY <2>2, <2>5, <2>6, <2>7, WithinNames
  <2>9. CASE run.step \in {"unlink", "confirm"}
    <3>1. Done' = Done \cup {k}
      <4>1. run.done \in Seq(Items) /\ k \in Items
        BY <1>1, <2>2 DEF Runs, AtWork
      <4> QED BY <2>6, <2>9, <4>1, AppendFacts DEF Done
    <3>2. In("materialize")
      BY <2>2, <2>9 DEF AtWork, StepFits, In
    <3>3. DonePlace(run.memo[k])'
      BY <2>3, <2>5, <2>6, <2>7, <2>9, <3>2 DEF DonePlace, ItemPlace, In, IsFile
    <3> QED BY <2>2, <2>6, <2>8, <3>1, <3>3, ItemOff
  <2>10. CASE run.step \notin {"unlink", "confirm"}
    <3>1. Done' = Done
      BY <2>6, <2>10 DEF Done
    <3>2. Held(p) /\ quarantine[p] = None
      BY <2>3, <2>10 DEF ItemPlace
    <3>3. Settled(p)'
      BY <2>3, <2>5, <2>7, <3>2, HeldStays DEF Settled
    <3> QED BY <2>2, <2>6, <2>8, <3>1, <3>3, ItemOff
  <2> QED BY <2>9, <2>10
<1> QED BY <1>1, <1>2, <1>3

(* The last item done, at its path.                                        *)
LastDone(k, p) ==
  /\ k = Last(run.done) /\ p = run.memo[k].path /\ p = Home(k) /\ p \in Paths
  /\ k \in Done /\ k \in Batch /\ k \in Turned /\ Turned = Done /\ Done \subseteq Items
  /\ DonePlace(run.memo[k]) /\ DoneOK(k, run.memo[k])
  /\ Underway /\ BatchKept /\ Places /\ Shares /\ Order /\ Rooted /\ TreeOK
  /\ run \in Runs /\ run.done \in Seq(Items) /\ IsInjective(run.done)
  /\ \A j \in Owned : receipts[j].path = p => j = k

LEMMA LastIsPlaced ==
  ASSUME RunsInv, KeptInv, Clear, Now("rollback"), run.done # <<>>
  PROVE  LastDone(Last(run.done), run.memo[Last(run.done)].path)
<1>1. PICK k : k = Last(run.done)
  OBVIOUS
<1>2. run.phase # "idle" /\ Underway
  <2>1. run.phase # "idle"
    BY DEF RunsInv, RunInv, In, Now, Idle
  <2> QED BY <2>1 DEF Now, Underway
<1>3. /\ BatchKept /\ DoneKept /\ Places /\ Shares /\ Order /\ Rooted /\ TreeOK
      /\ run \in Runs /\ run.done \in Seq(Items) /\ IsInjective(run.done)
      /\ Done \subseteq Items /\ Turned = Done
  BY RunItems, TypeParts DEF KeptInv, Kept, Clear, Runs, RunsInv, RunOK, Turned, Now, Busy
<1>4. k \in Done /\ k \in Turned /\ k \in Batch
  BY <1>1, <1>3, FrontFacts DEF Done, Batch
<1>5. run.memo[k].path = Home(k) /\ Home(k) \in Paths
  <2>1. k \in Items /\ run.memo[k] # None /\ run.memo[k].path = Home(k)
    BY <1>2, <1>3, <1>4 DEF BatchKept
  <2>2. run.memo[k] \in Memo
    BY <1>3, <2>1 DEF Runs
  <2> QED BY <2>1, <2>2 DEF Memo
<1>6. \A j \in Owned : receipts[j].path = Home(k) => j = k
  BY <1>2, <1>3, <1>4 DEF Shares
<1>7. DonePlace(run.memo[k]) /\ DoneOK(k, run.memo[k])
  BY <1>2, <1>3, <1>4 DEF Places, DoneKept
<1> QED BY <1>1, <1>2, <1>3, <1>4, <1>5, <1>6, <1>7 DEF LastDone

(* A folder the batch made last has nothing below it.                      *)
LEMMA LastIsEmpty ==
  ASSUME NEW k, NEW p, LastDone(k, p), run.done # <<>>, In("create")
  PROVE  EmptyFolder(p)
<1> SUFFICES ASSUME NEW q \in Paths, p \in Above[q] PROVE disk[q] = None /\ q \notin Leftovers
  BY DEF EmptyFolder
<1>1. /\ p \in Paths /\ p = Home(k) /\ k \in Batch /\ k = Last(run.done) /\ Underway
      /\ Order /\ Places /\ BatchKept /\ Turned = Done /\ Done = Range(run.done)
      /\ run.done \in Seq(Items)
  BY DEF LastDone, Done
<1>2. disk[q] = None
  <2>1. SUFFICES ASSUME disk[q] # None PROVE FALSE
    OBVIOUS
  <2>2. PICK j \in Done : Home(j) = q
    BY <1>1, <2>1 DEF Order
  <2>3. j # k
    BY <1>1, <2>2, AboveFacts
  <2>4. PICK a \in DOMAIN run.done : a < Len(run.done) /\ run.done[a] = j
    BY <1>1, <2>2, <2>3, LastFacts
  <2>5. Len(run.done) \in DOMAIN run.done /\ run.done[Len(run.done)] = k
    BY <1>1, LastFacts
  <2>6. Home(k) \notin Above[Home(j)]
    BY <1>1, <2>4, <2>5 DEF Order
  <2> QED BY <1>1, <2>2, <2>6
<1>3. temp[q] = None /\ backup[q] = None /\ quarantine[q] = None
  <2>1. CASE \E j \in Turned : Home(j) = q
    <3>1. PICK j \in Done : Home(j) = q
      BY <1>1, <2>1
    <3>2. run.memo[j].path = q /\ DonePlace(run.memo[j])
      BY <1>1, <3>1 DEF BatchKept, Places
    <3> QED BY <3>2 DEF DonePlace, In
  <2>2. CASE \A j \in Turned : Home(j) # q
    BY <1>1, <2>2 DEF Places, Settled
  <2> QED BY <2>1, <2>2
<1> QED BY <1>2, <1>3 DEF Leftovers

(* Nothing stands in the way of a rollback.                                *)
LEMMA LastIsReversible ==
  ASSUME RunsInv, KeptInv, Clear, Now("rollback"), run.done # <<>>
  PROVE  Reversible(Last(run.done))
<1>1. PICK k, p : k = Last(run.done) /\ p = run.memo[k].path
  OBVIOUS
<1>2. LastDone(k, p)
  BY <1>1, LastIsPlaced
<1>3. DonePlace(run.memo[k]) /\ ~In("verify") /\ run.phase \in Phases
  BY <1>2 DEF LastDone, Shares, Underway, Runs
<1>4. In("create") => disk[p] = Dir /\ EmptyFolder(p)
  BY <1>1, <1>2, <1>3, LastIsEmpty DEF DonePlace
<1>5. In("materialize") => disk[p] # Dir
  BY <1>1, <1>3, RecordsAreNotNone DEF DonePlace, IsFile
<1>6. Reversible(k)
  BY <1>1, <1>3, <1>4, <1>5, PhaseNames DEF Reversible, DonePlace, In
<1> QED BY <1>1, <1>6

LEMMA OrderShrinks ==
  ASSUME RunsInv, Order, Underway, Going, NEW k, NEW p, p = Home(k), run.done # <<>>,
         k = Last(run.done), run'.todo = run.todo, run'.done = Front(run.done),
         Batch' \subseteq Batch, \A q \in Paths \ {p} : disk'[q] = disk[q], disk'[p] = None
  PROVE  Order'
<1> SUFFICES ASSUME In("create") PROVE Order'
  BY GoingFacts DEF Order
<1>1. /\ \A j \in Batch, q \in Paths :
           Home(j) \in Above[q] /\ disk[q] # None => \E l \in Done : Home(l) = q
      /\ \A j \in Done, l \in run.todo : Home(l) \notin Above[Home(j)]
      /\ \A a, b \in DOMAIN run.done :
           a < b => Home(run.done[b]) \notin Above[Home(run.done[a])]
  BY DEF Order
<1>2. \A j \in Items : Home(j)' = Home(j)
  BY GoingFacts
<1>3. /\ Batch \subseteq Items /\ Done \subseteq Items /\ run.todo \subseteq Items
      /\ run.done \in Seq(Items)
  BY RunItems DEF Batch, Runs
<1>4. Done' \subseteq Done /\ \A j \in Done : j = k \/ j \in Done'
  BY <1>3, FrontFacts, LastFacts DEF Done
<1>5. ASSUME NEW j \in Batch', NEW q \in Paths, Home(j)' \in Above[q], disk'[q] # None
      PROVE  \E l \in Done' : Home(l)' = q
  <2>1. q # p /\ disk[q] # None /\ Home(j) \in Above[q]
    BY <1>2, <1>3, <1>5
  <2>2. PICK l \in Done : Home(l) = q
    BY <1>1, <1>5, <2>1
  <2>3. l \in Done' /\ Home(l)' = q
    BY <1>2, <1>3, <1>4, <2>1, <2>2
  <2> QED BY <2>3
<1>6. ASSUME NEW j \in Done', NEW l \in run'.todo PROVE Home(l)' \notin Above[Home(j)']
  <2>1. l \in run.todo /\ l \in Items /\ j \in Done /\ j \in Items
    BY <1>3, <1>4, <1>6
  <2> QED BY <1>1, <1>2, <2>1
<1>7. ASSUME NEW a \in DOMAIN run'.done, NEW b \in DOMAIN run'.done, a < b
      PROVE  (Home(run.done[b]) \notin Above[Home(run.done[a])])'
  <2>1. /\ a \in DOMAIN run.done /\ b \in DOMAIN run.done
        /\ run'.done[a] = run.done[a] /\ run'.done[b] = run.done[b]
    BY <1>3, <1>7, LastFacts
  <2>2. Home(run.done[b]) \notin Above[Home(run.done[a])]
    BY <1>1, <1>7, <2>1
  <2>3. run.done[a] \in Items /\ run.done[b] \in Items
    BY <1>3, <2>1
  <2> QED BY <1>2, <2>1, <2>2, <2>3
<1> HIDE DEF Batch, Done, Home, Underway
<1> QED BY <1>5, <1>6, <1>7 DEF Order

LEMMA TakeBackClear ==
  ASSUME RunsInv, KeptInv, Clear, edited = {}, UNCHANGED catalog, TakeBack
  PROVE  Clear'
<1>1. PICK k, p : k = Last(run.done) /\ p = run.memo[k].path
  OBVIOUS
<1>2. /\ Now("rollback") /\ run.done # <<>> /\ UNCHANGED <<temp, receipts>>
      /\ disk' = [disk EXCEPT ![p] =
                    IF In("create") \/ In("materialize") THEN None ELSE Before(p)]
      /\ backup' = [backup EXCEPT ![p] = None]
      /\ quarantine' = [quarantine EXCEPT ![p] = None]
      /\ run' = [run EXCEPT !.done = Front(run.done)]
  BY <1>1, RunItems DEF TakeBack, Runs
<1>3. LastDone(k, p)
  BY <1>1, <1>2, LastIsPlaced
<1>4. /\ p = Home(k) /\ p \in Paths /\ k \in Done /\ k \in Batch /\ k \in Turned
      /\ Turned = Done /\ Done \subseteq Items /\ DonePlace(run.memo[k])
      /\ DoneOK(k, run.memo[k]) /\ Underway /\ BatchKept /\ Places /\ Shares /\ Order
      /\ Rooted /\ TreeOK /\ run \in Runs /\ run.done \in Seq(Items)
      /\ IsInjective(run.done) /\ \A j \in Owned : receipts[j].path = p => j = k
  BY <1>3 DEF LastDone
<1>5. /\ run'.phase = run.phase /\ run'.step = "rollback" /\ run'.todo = run.todo
      /\ run'.memo = run.memo /\ run'.done = Front(run.done)
  BY <1>2, <1>4 DEF Runs, Now
<1>6. /\ Done' \subseteq Done /\ k \notin Done' /\ Done \ {k} \subseteq Done'
      /\ Turned' = Done' /\ Batch' \subseteq Batch
  <2>1. Done' = Range(Front(run.done)) /\ Done = Range(run.done)
    BY <1>5 DEF Done
  <2>2. Done' \subseteq Done /\ k \notin Done' /\ Done \ {k} \subseteq Done'
    BY <1>1, <1>2, <1>4, <2>1, FrontFacts, LastIsGone, LastFacts
  <2> QED BY <1>4, <1>5, <2>2 DEF Turned, Batch, Busy
<1>7. PICK x : x = IF In("create") \/ In("materialize") THEN None ELSE Before(p)
  OBVIOUS
<1>8. /\ \A q \in Paths \ {p} : Still(q)
      /\ disk' = [disk EXCEPT ![p] = x] /\ disk'[p] = x
      /\ temp'[p] = temp[p] /\ backup'[p] = None /\ quarantine'[p] = None
  BY <1>2, <1>4, <1>7 DEF Still, SameAt, TreeOK
<1>9. Going
  BY <1>2, <1>4, <1>5 DEF Going
<1>10. run.phase \in {"create", "materialize", "replace", "delete", "rmdir"}
  BY <1>4, PhaseNames DEF Shares, Runs, Underway, In
<1>11. Rooted'
  <2>1. CASE In("create")
    <3>1. EmptyFolder(p) /\ x = None
      BY <1>2, <1>3, <1>7, <2>1, LastIsEmpty
    <3> QED BY <1>4, <1>8, <3>1, RootedStays DEF EmptyFolder
  <2>2. CASE In("materialize") \/ In("replace")
    <3>1. IsFile(disk[p])
      BY <1>1, <1>4, <2>2 DEF DonePlace, SameFile
    <3>2. disk[p] # None /\ disk[p] # Dir
      BY <3>1, RecordsAreNotNone DEF IsFile
    <3> QED BY <1>4, <1>8, <3>2, RootedStays DEF Rooted
  <2>3. CASE In("delete") \/ In("rmdir")
    <3>1. Reachable(p) /\ disk[p] = None
      BY <1>1, <1>4, <2>3 DEF DonePlace
    <3> QED BY <1>4, <1>8, <3>1, RecordsAreNotNone, RootedStays
  <2> QED BY <1>10, <2>1, <2>2, <2>3 DEF In
<1>12. Settled(p)'
  <2>1. CASE In("create") \/ In("materialize")
    <3>1. k \notin Owned
      BY <1>4, <2>1 DEF Shares
    <3>2. x = None /\ \A j \in Owned : receipts[j].path # p
      BY <1>4, <1>7, <2>1, <3>1
    <3>3. Held(p)'
      BY <1>2, <1>8, <3>2 DEF Held, Owned
    <3> QED BY <1>1, <1>2, <1>4, <1>8, <3>3 DEF Settled, DonePlace
  <2>2. CASE In("replace") \/ In("delete")
    <3>1. k \in Owned \ Folders /\ receipts[k].path = p
      BY <1>4, <2>2 DEF Shares, BatchKept
    <3>2. Holds(x, receipts[k].blob)
      BY <1>1, <1>4, <1>7, <2>2 DEF DoneOK, Before, In
    <3>3. Held(p)'
      BY <1>2, <1>4, <1>8, <3>1, <3>2 DEF Held, Owned, Holds, IsFile
    <3> QED BY <1>1, <1>2, <1>4, <1>8, <3>3 DEF Settled, DonePlace
  <2>3. CASE In("rmdir")
    <3>1. k \in Owned \cap Folders /\ receipts[k].path = p
      BY <1>4, <2>3 DEF Shares, BatchKept
    <3>2. x = Dir
      BY <1>1, <1>4, <1>7, <2>3 DEF DonePlace, Before, In
    <3>3. Held(p)'
      BY <1>2, <1>4, <1>8, <3>1, <3>2 DEF Held, Owned
    <3> QED BY <1>1, <1>2, <1>4, <1>8, <3>3 DEF Settled, DonePlace
  <2> QED BY <1>10, <2>1, <2>2, <2>3 DEF In
<1>13. Places'
  <2>1. In("delete") \/ In("rmdir") =>
          \A j \in Done \ {k} : Reachable(Home(j)) => Reachable(Home(j))'
    <3>1. SUFFICES ASSUME In("delete") \/ In("rmdir"), NEW j \in Done \ {k},
                          Reachable(Home(j))
                   PROVE  Reachable(Home(j))'
      OBVIOUS
    <3>2. PICK q : q = Home(j)
      OBVIOUS
    <3>3. q \in Paths
      BY <1>4, <3>1, <3>2, DoneHomes
    <3>4. disk[p] # Dir
      BY <1>1, <1>4, <3>1, RecordsAreNotNone DEF DonePlace
    <3>5. Reachable(q)'
      BY <1>4, <1>8, <3>1, <3>2, <3>3, <3>4, ReachStays
    <3>6. Home(j)' = q
      BY <1>4, <1>9, <3>1, <3>2, GoingFacts
    <3> QED BY <3>5, <3>6 DEF Reachable
  <2>2. Turned' \subseteq Batch /\ Turned \ {k} \subseteq Turned' /\ Done' \subseteq Done \cup {k}
        /\ k \notin Done' /\ run'.step \notin Busy
    BY <1>4, <1>5, <1>6 DEF Batch, Busy
  <2>3. \A j \in Done \ {k} : run'.memo[j] = run.memo[j]
    BY <1>5
  <2> HIDE DEF Turned, Done, Batch, Home, Settled
  <2> QED BY <1>4, <1>8, <1>9, <1>12, <2>1, <2>2, <2>3, PlaceStep
<1>14. Shares'
  BY <1>4, <1>6, <1>9, SharesStay
<1>15. Order'
  <2>1. CASE In("create")
    <3>1. \A q \in Paths \ {p} : disk'[q] = disk[q]
      BY <1>8 DEF Still, SameAt
    <3>2. disk'[p] = None
      BY <1>7, <1>8, <2>1
    <3> HIDE DEF Batch, Home, Underway
    <3> QED BY <1>1, <1>2, <1>4, <1>5, <1>6, <1>9, <3>1, <3>2, OrderShrinks
  <2>2. CASE ~In("create")
    BY <1>9, <2>2, GoingFacts DEF Order
  <2> QED BY <2>1, <2>2
<1>16. Exact' /\ Cleaning'
  BY <1>9, GoingFacts
<1> QED BY <1>11, <1>13, <1>14, <1>15, <1>16 DEF Clear

-----------------------------------------------------------------------------
(* The end of a batch.                                                     *)

(* What is known of a batch whose items are all done.                      *)
BatchDone ==
  /\ Rooted /\ TreeOK /\ TablesOK /\ run \in Runs /\ Done \subseteq Items
  /\ run.phase \in {"create", "materialize", "replace", "delete", "rmdir"}
  /\ \A i \in Done : /\ run.memo[i] \in Memo /\ run.memo[i].path = Home(i)
                     /\ DonePlace(run.memo[i]) /\ DoneOK(i, run.memo[i])
                     /\ i \in Folders <=> In("create") \/ In("rmdir")
  /\ \A p \in Paths : (\A i \in Done : run.memo[i].path # p) => Settled(p)
  /\ \A i, j \in Done : run.memo[i].path = run.memo[j].path => i = j
  /\ \A i \in Done, j \in Owned : receipts[j].path = run.memo[i].path => i = j
  /\ In("create") \/ In("materialize") => Done \cap Owned = {}
  /\ In("replace") \/ In("delete") \/ In("rmdir") =>
       \A i \in Done : i \in Owned /\ receipts[i].path = run.memo[i].path

LEMMA AllAreDone ==
  ASSUME RunsInv, KeptInv, Clear, AllDone, run.phase # "idle"
  PROVE  BatchDone
<1>1. /\ Underway /\ Live /\ BatchKept /\ DoneKept /\ Shares /\ Places /\ Rooted
      /\ TreeOK /\ TablesOK /\ run \in Runs /\ Done \subseteq Items
  BY RunItems DEF AllDone, Now, Underway, Live, KeptInv, Kept, Clear
<1>2. Turned = Done /\ Batch = Done
  BY DEF AllDone, Now, Turned, Busy, Batch
<1>3. run.phase \in {"create", "materialize", "replace", "delete", "rmdir"}
  BY <1>1, PhaseNames DEF Shares, Runs, Underway, In
<1>4. \A i \in Done : run.memo[i] \in Memo /\ run.memo[i].path = Home(i)
  <2>1. \A i \in Done : run.memo[i] # None /\ run.memo[i].path = Home(i)
    BY <1>1, <1>2 DEF BatchKept
  <2> QED BY <1>1, <2>1 DEF Runs
<1>5. \A i \in Done : DonePlace(run.memo[i]) /\ DoneOK(i, run.memo[i])
  BY <1>1 DEF Places, DoneKept
<1>6. \A i \in Done : i \in Folders <=> In("create") \/ In("rmdir")
  <2>1. In("create") \/ In("rmdir") => Done \subseteq Folders
    BY <1>1, <1>2 DEF BatchKept
  <2>2. In("replace") \/ In("delete") => Done \cap Folders = {}
    BY <1>1, <1>2 DEF Shares
  <2>3. In("materialize") => Done \cap Folders = {}
    BY <1>1, <1>2, BatchHomes DEF In, Batch
  <2> QED BY <1>3, <2>1, <2>2, <2>3 DEF In
<1>7. \A p \in Paths : (\A i \in Done : run.memo[i].path # p) => Settled(p)
  BY <1>1, <1>2, <1>4 DEF Places
<1>8. \A i, j \in Done : run.memo[i].path = run.memo[j].path => i = j
  BY <1>1, <1>2, <1>4 DEF BatchKept
<1>9. /\ \A i \in Done, j \in Owned : receipts[j].path = run.memo[i].path => i = j
      /\ In("create") \/ In("materialize") => Done \cap Owned = {}
  BY <1>1, <1>2, <1>4 DEF Shares
<1>10. In("replace") \/ In("delete") \/ In("rmdir") =>
         \A i \in Done : i \in Owned /\ receipts[i].path = run.memo[i].path
  BY <1>1, <1>2, <1>4 DEF Shares, BatchKept
<1> QED BY <1>1, <1>3, <1>4, <1>5, <1>6, <1>7, <1>8, <1>9, <1>10 DEF BatchDone

LEMMA RecordClear ==
  ASSUME RunsInv, KeptInv, Clear, edited = {}, UNCHANGED catalog, RecordReceipts
  PROVE  Clear'
<1>1. /\ AllDone /\ UNCHANGED tree /\ run.phase # "idle"
      /\ In("create") \/ In("materialize") \/ In("replace") \/ In("verify")
  BY DEF RecordReceipts, In
<1>2. BatchDone
  BY <1>1, AllAreDone
<1>3. /\ Rooted /\ run \in Runs /\ Done \subseteq Items
      /\ In("create") \/ In("materialize") \/ In("replace")
  BY <1>1, <1>2 DEF BatchDone, In
<1>4. \A i \in Items : receipts'[i] =
        IF i \in Done THEN [path |-> run.memo[i].path, state |-> "current",
                            blob |-> run.memo[i].blob]
        ELSE receipts[i]
  BY DEF RecordReceipts
<1>5. \A i \in Done : /\ receipts'[i] # None /\ receipts'[i].path = run.memo[i].path
                      /\ receipts'[i].blob = run.memo[i].blob /\ i \in Owned'
  <2>1. SUFFICES ASSUME NEW i \in Done
                 PROVE  /\ receipts'[i] # None /\ receipts'[i].path = run.memo[i].path
                        /\ receipts'[i].blob = run.memo[i].blob /\ i \in Owned'
    OBVIOUS
  <2>2. i \in Items /\ run.memo[i] \in Memo
    BY <1>2, <1>3 DEF BatchDone
  <2>3. PICK r : r = [path |-> run.memo[i].path, state |-> "current", blob |-> run.memo[i].blob]
    OBVIOUS
  <2>4. receipts'[i] = r
    BY <1>4, <2>1, <2>2, <2>3
  <2>5. r \in Receipts /\ r.path = run.memo[i].path /\ r.blob = run.memo[i].blob
    BY <2>2, <2>3 DEF Receipts, Memo
  <2> QED BY <2>2, <2>4, <2>5, EntryAssumption DEF Owned
<1>6. \A i \in Items \ Done : receipts'[i] = receipts[i] /\ (i \in Owned' <=> i \in Owned)
  BY <1>4 DEF Owned
<1>7. Owned' \subseteq Items /\ Owned \subseteq Items
  BY DEF Owned
<1>8. ASSUME NEW p \in Paths, \A i \in Done : run.memo[i].path # p
      PROVE  Settled(p)'
  <2>1. Settled(p)
    BY <1>2, <1>8 DEF BatchDone
  <2>2. \A i \in Owned : receipts[i].path = p => i \notin Done
    BY <1>2, <1>3, <1>8 DEF BatchDone
  <2>3. \A i \in Owned' : receipts'[i].path = p => i \notin Done
    BY <1>5, <1>8
  <2>4. disk'[p] # None => \E i \in Owned' : receipts'[i].path = p
    BY <1>1, <1>6, <1>7, <2>1, <2>2 DEF Settled, Held, tree
  <2>5. \A i \in Owned' : receipts'[i].path = p =>
          IF i \in Folders THEN disk'[p] = Dir ELSE Holds(disk[p], receipts[i].blob)
    BY <1>1, <1>6, <1>7, <2>1, <2>3 DEF Settled, Held, tree
  <2>6. Held(p)'
    BY <1>1, <1>6, <1>7, <2>3, <2>4, <2>5 DEF Held, Holds, IsFile, tree
  <2> QED BY <1>1, <2>1, <2>6 DEF Settled, tree
<1>9. ASSUME NEW i \in Done, NEW p, p = run.memo[i].path
      PROVE  Held(p)' /\ p \in Paths
  <2>1. \A j \in Owned' : receipts'[j].path = p => j = i
    BY <1>2, <1>5, <1>6, <1>7, <1>9 DEF BatchDone
  <2>2. /\ run.memo[i] \in Memo /\ DonePlace(run.memo[i]) /\ DoneOK(i, run.memo[i])
        /\ i \in Folders <=> In("create") \/ In("rmdir")
    BY <1>2 DEF BatchDone
  <2>3. IF i \in Folders THEN disk[p] = Dir ELSE Holds(disk[p], run.memo[i].blob)
    <3>1. CASE In("create")
      BY <1>9, <2>2, <3>1 DEF DonePlace
    <3>2. CASE In("materialize") \/ In("replace")
      BY <1>1, <1>9, <2>2, <3>2 DEF DoneOK, In, Now, AllDone
    <3> QED BY <1>3, <3>1, <3>2
  <2>4. \A j \in Owned' : receipts'[j].path = p =>
          IF j \in Folders THEN disk'[p] = Dir ELSE Holds(disk[p], receipts'[j].blob)
    BY <1>1, <1>5, <2>1, <2>3 DEF tree
  <2>5. Held(p)'
    BY <1>1, <1>5, <1>9, <2>4 DEF Held, Holds, IsFile, tree
  <2> QED BY <1>9, <2>2, <2>5 DEF Memo
<1>10. Rooted' /\ run'.phase = run.phase /\ run'.memo = run.memo
       /\ (\A phase : In(phase)' = In(phase))
  BY <1>1, <1>3, RootedSteady DEF RecordReceipts, Runs, In, tree
<1>11. CASE ~In("replace")
  <2>1. run'.step = "finish"
    BY <1>3, <1>11 DEF RecordReceipts, Runs
  <2>2. ASSUME NEW p \in Paths PROVE Settled(p)'
    <3>1. ASSUME NEW i \in Done, p = run.memo[i].path PROVE Settled(p)'
      <4>1. DonePlace(run.memo[i])
        BY <1>2 DEF BatchDone
      <4>2. temp[p] = None /\ backup[p] = None /\ quarantine[p] = None
        BY <1>3, <1>11, <3>1, <4>1 DEF DonePlace, In
      <4> QED BY <1>1, <1>9, <3>1, <4>2 DEF Settled, tree
    <3> QED BY <1>8, <3>1
  <2>3. Exact'
    BY <2>2 DEF Exact
  <2>4. Shares' /\ Places' /\ Order' /\ Cleaning'
    BY <2>1 DEF Shares, Places, Order, Cleaning, Underway, Busy, Now
  <2> QED BY <1>10, <2>3, <2>4 DEF Clear
<1>12. CASE In("replace")
  <2>1. run'.step = "clean" /\ run'.todo = Done
    BY <1>3, <1>12 DEF RecordReceipts, Runs
  <2>2. ASSUME NEW k \in Done PROVE CleanPlace(k)'
    <3>1. DonePlace(run.memo[k])
      BY <1>2 DEF BatchDone
    <3>2. MayClean(k)'
      BY <1>1, <1>10, <1>12, <3>1 DEF MayClean, DonePlace, SameFile, IsFile, In, tree
    <3>3. Held(run.memo[k].path)' /\ run.memo[k].path \in Paths
      <4>1. PICK p : p = run.memo[k].path
        OBVIOUS
      <4>2. Held(p)' /\ p \in Paths
        BY <1>9, <4>1
      <4> QED BY <1>10, <4>1, <4>2 DEF Held
    <3> QED BY <1>1, <1>10, <1>12, <3>1, <3>2, <3>3 DEF CleanPlace, DonePlace, In, tree
  <2>3. Cleaning'
    <3>1. \A k, l \in Done : run.memo[k].path = run.memo[l].path => k = l
      BY <1>2 DEF BatchDone
    <3> HIDE DEF Done
    <3> QED BY <1>8, <1>10, <2>1, <2>2, <3>1 DEF Cleaning
  <2>4. Shares' /\ Places' /\ Order' /\ Exact'
    BY <1>1, <1>10, <2>1 DEF Shares, Places, Order, Exact, Underway, Busy, Now, In
  <2> QED BY <1>10, <2>3, <2>4 DEF Clear
<1> QED BY <1>11, <1>12

LEMMA DropClear ==
  ASSUME RunsInv, KeptInv, Clear, UNCHANGED catalog, DropReceipts
  PROVE  Clear'
<1>1. /\ AllDone /\ UNCHANGED tree /\ run.phase # "idle"
      /\ In("delete") \/ In("rmdir")
  BY DEF DropReceipts, In
<1>2. BatchDone
  BY <1>1, AllAreDone
<1>3. Rooted /\ run \in Runs /\ Done \subseteq Items /\ Owned \subseteq Items
  BY <1>2 DEF BatchDone, Owned
<1>4. /\ \A i \in Done : receipts'[i] = None
      /\ \A i \in Items \ Done : receipts'[i] = receipts[i]
  BY <1>3 DEF DropReceipts
<1>5. Owned' = Owned \ Done
  BY <1>4 DEF Owned
<1>6. Rooted' /\ run'.phase = run.phase /\ run'.memo = run.memo /\ run'.todo = Done
      /\ run'.step = "clean" /\ (\A phase : In(phase)' = In(phase))
  BY <1>1, <1>3, RootedSteady DEF DropReceipts, Runs, In, tree
<1>7. ASSUME NEW p \in Paths, \A i \in Done : run.memo[i].path # p
      PROVE  Settled(p)'
  <2>1. Settled(p)
    BY <1>2, <1>7 DEF BatchDone
  <2>2. \A i \in Owned : receipts[i].path = p => i \notin Done
    BY <1>1, <1>2, <1>7 DEF BatchDone
  <2>3. \A i \in Owned' : i \in Owned /\ receipts'[i] = receipts[i]
    BY <1>3, <1>4, <1>5
  <2>4. disk'[p] # None => \E i \in Owned' : receipts'[i].path = p
    BY <1>1, <1>5, <2>1, <2>2, <2>3 DEF Settled, Held, tree
  <2>5. Held(p)'
    BY <1>1, <2>1, <2>3, <2>4 DEF Settled, Held, Holds, IsFile, tree
  <2> QED BY <1>1, <2>1, <2>5 DEF Settled, tree
<1>8. ASSUME NEW k \in Done PROVE CleanPlace(k)'
  <2>1. PICK p : p = run.memo[k].path
    OBVIOUS
  <2>2. run.memo[k] \in Memo /\ DonePlace(run.memo[k])
    BY <1>2 DEF BatchDone
  <2>3. p \in Paths /\ disk[p] = None /\ temp[p] = None /\ backup[p] = None
    BY <1>1, <2>1, <2>2 DEF DonePlace, Memo, In
  <2>4. \A j \in Owned' : receipts'[j].path # p
    BY <1>2, <1>3, <1>4, <1>5, <2>1 DEF BatchDone
  <2>5. Held(p)'
    BY <1>1, <2>3, <2>4 DEF Held, tree
  <2>6. Held(run.memo[k].path)'
    BY <1>6, <2>1, <2>5 DEF Held
  <2>7. MayClean(k)'
    BY <1>1, <1>6, <2>2 DEF MayClean, DonePlace, SameFile, IsFile, In, tree
  <2> QED BY <1>1, <1>6, <2>1, <2>3, <2>6, <2>7 DEF CleanPlace, In, tree
<1>9. Cleaning'
  <2>1. \A k, l \in Done : run.memo[k].path = run.memo[l].path => k = l
    BY <1>2 DEF BatchDone
  <2> HIDE DEF Done
  <2> QED BY <1>6, <1>7, <1>8, <2>1 DEF Cleaning
<1>10. Shares' /\ Places' /\ Order' /\ Exact'
  BY <1>1, <1>6 DEF Shares, Places, Order, Exact, Underway, Busy, Now, In
<1> QED BY <1>6, <1>9, <1>10 DEF Clear

LEMMA CleanClear ==
  ASSUME RunsInv, KeptInv, Clear, UNCHANGED catalog, NEW k \in Items, Clean(k)
  PROVE  Clear'
<1>1. PICK p : p = run.memo[k].path
  OBVIOUS
<1>2. /\ Now("clean") /\ k \in run.todo /\ UNCHANGED <<disk, temp, receipts>>
      /\ backup' = [backup EXCEPT ![p] = None]
      /\ quarantine' = [quarantine EXCEPT ![p] = None]
      /\ run \in Runs /\ TreeOK /\ Rooted /\ Cleaning
  BY <1>1, RunItems DEF Clean, Clear
<1>3. /\ run'.step = "clean" /\ run'.todo = run.todo \ {k} /\ run'.memo = run.memo
      /\ run'.phase = run.phase
  BY <1>2 DEF Clean, Runs, Now
<1>4. /\ \A q \in Paths : (\A l \in run.todo : run.memo[l].path # q) => Settled(q)
      /\ \A l, m \in run.todo : run.memo[l].path = run.memo[m].path => l = m
      /\ \A l \in run.todo : CleanPlace(l)
  BY <1>2 DEF Cleaning
<1>5. p \in Paths /\ Held(p) /\ temp[p] = None
  BY <1>1, <1>2, <1>4 DEF CleanPlace
<1>6. backup'[p] = None /\ quarantine'[p] = None /\ \A q \in Paths \ {p} : Still(q)
  BY <1>2, <1>5 DEF TreeOK, Still, SameAt
<1>7. ASSUME NEW q \in Paths, \A l \in run'.todo : run.memo[l].path # q
      PROVE  Settled(q)'
  <2>1. CASE q = p
    BY <1>2, <1>5, <1>6, <2>1, HeldStays DEF Settled
  <2>2. CASE q # p
    <3>1. \A l \in run.todo : run.memo[l].path # q
      BY <1>1, <1>3, <1>7, <2>2
    <3> QED BY <1>2, <1>4, <1>6, <2>2, <3>1, SettledStays
  <2> QED BY <2>1, <2>2
<1>8. ASSUME NEW l \in run'.todo PROVE CleanPlace(l)'
  <2>1. PICK q : q = run.memo[l].path
    OBVIOUS
  <2>2. CleanPlace(l) /\ q # p /\ q \in Paths
    BY <1>1, <1>2, <1>3, <1>4, <1>8, <2>1 DEF CleanPlace
  <2>3. Still(q)
    BY <1>6, <2>2
  <2>4. Held(q)'
    BY <1>2, <2>1, <2>2, HeldStays DEF CleanPlace
  <2>5. Held(run.memo[l].path)'
    BY <1>3, <2>1, <2>4 DEF Held
  <2>6. MayClean(l)'
    BY <1>3, <2>1, <2>2, <2>3 DEF CleanPlace, MayClean, SameFile, IsFile, In, Still, SameAt
  <2> QED BY <1>3, <2>1, <2>2, <2>3, <2>5, <2>6 DEF CleanPlace, Still, SameAt, In
<1>9. Cleaning'
  BY <1>3, <1>4, <1>7, <1>8 DEF Cleaning
<1>10. Shares' /\ Places' /\ Order' /\ Exact' /\ Rooted'
  <2>1. ~In("idle")
    BY <1>2 DEF RunsInv, RunInv, Now, Idle
  <2>2. ~In("idle")' /\ ~Now("finish")' /\ ~Underway'
    BY <1>3, <2>1 DEF Underway, Busy, Now, In
  <2> QED BY <1>2, <2>2, RootedSteady DEF Shares, Places, Order, Exact
<1> QED BY <1>9, <1>10 DEF Clear

(* The run is over: the directory is as the receipts say.                  *)
LEMMA OverClear ==
  ASSUME Rooted, run' = Idle, UNCHANGED <<tree, receipts>>, \A p \in Paths : Settled(p)
  PROVE  Clear'
<1>1. run'.phase = "idle" /\ run'.step = "next"
  BY DEF Idle
<1>2. \A p \in Paths : Settled(p)'
  BY SettledStays DEF Still, SameAt, tree
<1>3. Rooted'
  BY RootedSteady DEF tree
<1> QED BY <1>1, <1>2, <1>3 DEF Clear, Exact, Shares, Places, Order, Cleaning, Underway, Now

LEMMA FinishClear ==
  ASSUME RunsInv, KeptInv, Clear, Finish
  PROVE  Clear'
<1>1. \A p \in Paths : Settled(p)
  BY DEF Finish, Clear, Exact, Cleaning
<1> QED BY <1>1, OverClear DEF Finish, Clear

LEMMA StopClear ==
  ASSUME RunsInv, KeptInv, Clear, Stop
  PROVE  Clear'
<1>1. Now("rollback") /\ run.done = <<>>
  <2>1. CASE Now("clean")
    BY <2>1 DEF Stop, Clear, Cleaning, CleanPlace, Now
  <2>2. CASE Now("rollback")
    <3>1. ~In("verify")
      <4>1. Underway
        BY <2>2 DEF RunsInv, RunInv, In, Now, Idle, Underway
      <4> QED BY <4>1 DEF Clear, Shares
    <3> QED BY <2>2, <3>1, LastIsReversible DEF Stop, Now
  <2> QED BY <2>1, <2>2 DEF Stop
<1>2. Underway /\ Turned = {}
  BY <1>1 DEF RunsInv, RunInv, In, Now, Idle, Underway, Turned, Done, Range, Busy
<1>3. \A p \in Paths : Settled(p)
  BY <1>2 DEF Clear, Places
<1> QED BY <1>3, OverClear DEF Stop, Clear

-----------------------------------------------------------------------------
(* The steps around a batch.                                               *)

(* What is planned for a directory that is as the receipts say.            *)
LEMMA PlannedBatch ==
  ASSUME TablesOK, OneOwnerPerPath, Rooted, \A p \in Paths : Settled(p),
         NEW phase \in Phases, phase = Decision
  PROVE  /\ phase # "verify" /\ Plan[phase] \subseteq Items
         /\ phase \in {"create", "materialize"} => Plan[phase] \cap Owned = {}
         /\ phase \in {"replace", "delete"} => Plan[phase] \cap Folders = {}
         /\ phase = "rmdir" =>
              \A i \in Plan[phase] : i \in Owned /\ receipts[i].path = Home(i)
         /\ \A i \in Plan[phase], j \in Owned : receipts[j].path = Home(i) => i = j
         /\ phase = "create" => \A i \in Plan[phase], q \in Paths :
              Home(i) \in Above[q] => disk[q] = None
<1>1. \A i \in Undisputed : /\ i \in Expected /\ Home(i) = catalog[i].path
                            /\ i \in Owned => receipts[i].path = Home(i)
                            /\ \A j \in Owned \ {i} : receipts[j].path # Home(i)
                            /\ i \in Items /\ Home(i) \in Paths
  BY HomeType DEF Undisputed, ReceiptConflict, Home, Expected
<1>2. \A i \in Owned \ Expected : Home(i) = receipts[i].path /\ i \in Items
  BY DEF Home, Owned
<1>3. /\ phase \in {"create", "materialize", "verify", "replace"} =>
           Plan[phase] \subseteq Undisputed
      /\ phase \in {"delete", "rmdir"} => Plan[phase] \subseteq Owned \ Expected
      /\ phase \in {"create", "materialize"} => \A i \in Plan[phase] : Absent(i)
      /\ phase = "verify" => \A i \in Plan[phase] : i \notin Owned \cup Folders /\ Matching(i)
      /\ phase \in {"replace", "delete"} => Plan[phase] \cap Folders = {}
  BY PhaseNames DEF Plan, Disposable
<1>4. \A p \in Paths : Held(p)
  BY DEF Settled
<1>5. phase \in {"create", "materialize"} =>
        \A i \in Plan[phase] : disk[Home(i)] = None /\ i \notin Owned
  <2>1. SUFFICES ASSUME phase \in {"create", "materialize"}, NEW i \in Plan[phase]
                 PROVE  disk[Home(i)] = None /\ i \notin Owned
    OBVIOUS
  <2>2. i \in Undisputed /\ disk[Home(i)] = None
    BY <1>1, <1>3, <2>1 DEF Absent, Shape
  <2>3. i \notin Owned
    BY <1>1, <1>4, <2>2, RecordsAreNotNone DEF Held, Holds, IsFile
  <2> QED BY <2>2, <2>3
<1>6. phase # "verify"
  <2>1. SUFFICES ASSUME phase = "verify" PROVE FALSE
    OBVIOUS
  <2>2. Plan[phase] # {}
    <3>1. \A x \in Phases : Active = {x} => x \in Active
      OBVIOUS
    <3>2. (\E x \in Phases : Active = {x}) =>
            Active = {CHOOSE x \in Phases : Active = {x}}
      OBVIOUS
    <3>3. phase \in Active
      BY <2>1, <3>2 DEF Decision
    <3> QED BY <3>3 DEF Active
  <2>3. PICK i \in Plan[phase] : TRUE
    BY <2>2
  <2>4. i \in Undisputed /\ i \notin Owned \cup Folders /\ Shape(Home(i)) = "file"
    BY <1>1, <1>3, <2>1, <2>3 DEF Matching, KindOf
  <2>5. disk[Home(i)] # None
    BY <2>4 DEF Shape
  <2>6. PICK j \in Owned : receipts[j].path = Home(i)
    BY <1>1, <1>4, <2>4, <2>5 DEF Held
  <2> QED BY <1>1, <2>4, <2>6
<1>7. \A i \in Plan[phase], j \in Owned : receipts[j].path = Home(i) => i = j
  <2>1. CASE phase \in {"create", "materialize", "verify", "replace"}
    BY <1>1, <1>3, <2>1
  <2>2. CASE phase \in {"delete", "rmdir"}
    BY <1>2, <1>3, <2>2 DEF OneOwnerPerPath
  <2> QED BY <2>1, <2>2, PhaseNames
<1>8. phase = "create" => \A i \in Plan[phase], q \in Paths :
        Home(i) \in Above[q] => disk[q] = None
  BY <1>5, RecordsAreNotNone DEF Rooted, Reachable
<1>9. Plan[phase] \subseteq Items
  BY <1>1, <1>2, <1>3, PhaseNames
<1> QED BY <1>2, <1>3, <1>5, <1>6, <1>7, <1>8, <1>9

LEMMA SteadyClear ==
  ASSUME Clear, UNCHANGED <<tree, receipts, catalog, run>>
  PROVE  Clear'
<1>1. \A p \in Paths : Held(p)' = Held(p) /\ Settled(p)' = Settled(p)
  BY DEF Held, Settled, Owned, Holds, IsFile, tree
<1>2. Owned' = Owned /\ Expected' = Expected /\ Batch' = Batch /\ Turned' = Turned
      /\ Done' = Done /\ Underway' = Underway
      /\ (\A phase : In(phase)' = In(phase)) /\ (\A step : Now(step)' = Now(step))
  BY DEF Owned, Expected, Batch, Turned, Done, Underway, In, Now
<1>3. \A i : Home(i)' = Home(i)
  BY DEF Home, Expected
<1>4. Rooted' /\ Exact' /\ Shares' /\ Order'
  <2> HIDE DEF Batch, Done, Turned, Underway, Home, Settled
  <2> QED BY <1>1, <1>2, <1>3, RootedSteady DEF Clear, Exact, Shares, Order, tree
<1>5. Places'
  <2>1. \A m : DonePlace(m)' = DonePlace(m)
    BY <1>2 DEF DonePlace, Reachable, SameFile, IsFile, tree
  <2>2. ItemPlace(run.memo[run.item])' = ItemPlace(run.memo[run.item])
    BY <1>2 DEF ItemPlace, Reachable, IsFile, Held, Holds, Owned, tree
  <2> HIDE DEF Batch, Done, Turned, Underway, Home, Settled
  <2> QED BY <1>1, <1>2, <1>3, <2>1, <2>2 DEF Clear, Places
<1>6. Cleaning'
  <2>1. \A k : CleanPlace(k)' = CleanPlace(k)
    BY <1>2 DEF CleanPlace, MayClean, SameFile, IsFile, Held, Holds, Owned, tree
  <2> HIDE DEF Settled
  <2> QED BY <1>1, <1>2, <2>1 DEF Clear, Cleaning
<1> QED BY <1>4, <1>5, <1>6 DEF Clear

LEMMA BeginClear ==
  ASSUME RunsInv, OneOwnerPerPath, KeptInv, Clear, Begin
  PROVE  Clear'
<1>1. /\ UNCHANGED <<tree, receipts, catalog>> /\ run = Idle
      /\ \A p \in Paths : Settled(p)
  BY DEF Begin, Clear, Exact, In, Idle
<1>2. CASE run' = run
  BY <1>1, <1>2, SteadyClear
<1>3. CASE Decision \in Phases /\ Ready(Decision)
  <2>1. PICK phase \in Phases : phase = Decision
    BY <1>3
  <2>2. /\ run'.phase = phase /\ run'.done = <<>> /\ run'.step = "next"
        /\ run'.todo = Plan[phase]
    <3>1. run' = [Idle EXCEPT !.phase = Decision, !.todo = Plan[Decision],
                              !.goal = Cardinality(Plan[Decision])]
      BY <1>3 DEF Begin
    <3> QED BY <2>1, <3>1 DEF Idle
  <2>3. Done' = {} /\ Turned' = {} /\ Batch' = Plan[phase]
    BY <2>2 DEF Done, Turned, Batch, Range, Busy
  <2>4. /\ phase # "verify" /\ Plan[phase] \subseteq Items
        /\ phase \in {"create", "materialize"} => Plan[phase] \cap Owned = {}
        /\ phase \in {"replace", "delete"} => Plan[phase] \cap Folders = {}
        /\ phase = "rmdir" =>
             \A i \in Plan[phase] : i \in Owned /\ receipts[i].path = Home(i)
        /\ \A i \in Plan[phase], j \in Owned : receipts[j].path = Home(i) => i = j
        /\ phase = "create" => \A i \in Plan[phase], q \in Paths :
             Home(i) \in Above[q] => disk[q] = None
    BY <1>1, <2>1, PlannedBatch, RunItems DEF Clear
  <2>5. Owned' = Owned /\ \A i \in Items : Home(i)' = Home(i)
    BY <1>1, PlanSteady
  <2>6. \A p \in Paths : Settled(p)'
    BY <1>1, SettledStays DEF Still, SameAt, tree
  <2>7. \A q : In(q)' <=> phase = q
    BY <2>2 DEF In
  <2>8. Rooted' /\ Exact' /\ Cleaning'
    BY <1>1, <2>2, <2>6, RootedSteady DEF Clear, Exact, Cleaning, Now, tree
  <2>9. Shares'
    <3>1. \A i \in Batch' : Home(i)' = Home(i)
      BY <2>3, <2>4, <2>5
    <3> HIDE DEF Batch, Home
    <3> QED BY <1>1, <2>3, <2>4, <2>5, <2>7, <3>1 DEF Shares
  <2>10. Places'
    BY <2>2, <2>3, <2>6 DEF Places, Busy
  <2>11. Order'
    <3>1. \A i \in Batch', q \in Paths : In("create")' /\ Home(i)' \in Above[q] => disk'[q] = None
      BY <1>1, <2>3, <2>4, <2>5, <2>7 DEF tree
    <3>2. DOMAIN run'.done = {}
      BY <2>2
    <3> HIDE DEF Batch, Done, Home, Underway
    <3> QED BY <2>3, <3>1, <3>2 DEF Order
  <2> QED BY <2>8, <2>9, <2>10, <2>11 DEF Clear
<1> QED BY <1>2, <1>3 DEF Begin

LEMMA WindowClear ==
  ASSUME RunsInv, Clear, ApplyWindow
  PROVE  Clear'
<1>1. /\ run = Idle /\ run' = Idle /\ UNCHANGED tree
      /\ receipts' = [i \in Items |->
           IF i \in Revised(Pages) \cap Owned
           THEN [receipts[i] EXCEPT !.state = "stale"] ELSE receipts[i]]
      /\ \A p \in Paths : Settled(p)
  BY DEF ApplyWindow, Apply, Clear, Exact, In, Idle
<1>2. ASSUME NEW i \in Items
      PROVE  /\ i \in Owned' <=> i \in Owned
             /\ i \in Owned => /\ receipts'[i].path = receipts[i].path
                               /\ receipts'[i].blob = receipts[i].blob
  <2>1. CASE i \in Revised(Pages) \cap Owned
    <3>1. receipts[i] \in Receipts /\ receipts[i] # None
      BY <2>1, RunItems DEF Owned, TablesOK
    <3>2. receipts'[i] = [receipts[i] EXCEPT !.state = "stale"]
      BY <1>1, <2>1
    <3>3. /\ receipts'[i] \in Receipts /\ receipts'[i].path = receipts[i].path
          /\ receipts'[i].blob = receipts[i].blob
      BY <3>1, <3>2 DEF Receipts
    <3> QED BY <3>1, <3>3, EntryAssumption DEF Owned
  <2>2. CASE i \notin Revised(Pages) \cap Owned
    BY <1>1, <2>2 DEF Owned
  <2> QED BY <2>1, <2>2
<1>3. Owned' = Owned
  BY <1>2 DEF Owned
<1>4. \A p \in Paths : Settled(p)'
  <2>1. SUFFICES ASSUME NEW p \in Paths PROVE Settled(p)'
    OBVIOUS
  <2>2. \A i \in Owned : /\ receipts'[i].path = receipts[i].path
                         /\ receipts'[i].blob = receipts[i].blob
    BY <1>2 DEF Owned
  <2>3. Settled(p)
    BY <1>1
  <2>4. Held(p)'
    BY <1>1, <1>3, <2>2, <2>3 DEF Settled, Held, Holds, IsFile, tree
  <2> QED BY <1>1, <2>3, <2>4 DEF Settled, tree
<1>5. run'.phase = "idle" /\ run'.step = "next"
  BY <1>1 DEF Idle
<1>6. Rooted'
  BY <1>1, RootedSteady DEF Clear, tree
<1> QED BY <1>4, <1>5, <1>6
        DEF Clear, Exact, Shares, Places, Order, Cleaning, Underway, Now

LEMMA WorkingClear ==
  ASSUME RunsInv, KeptInv, Clear, edited = {}, UNCHANGED catalog, Working
  PROVE  Clear'
BY TurnClear, MakeFolderClear, QuarantineFolderClear, FetchClear, PromoteClear,
   UnlinkClear, ConfirmClear, BaselineClear, LinkClear, SwapClear, QuarantineClear,
   RecordClear, DropClear, CleanClear, GiveUpClear, TakeBackClear
   DEF Working, Abandon

LEMMA RunStepClear ==
  ASSUME RunsInv, KeptInv, Clear, edited = {}, RunStep
  PROVE  Clear'
BY WorkingClear, FinishClear, StopClear DEF RunStep

-----------------------------------------------------------------------------
LEMMA AtomicInit == Init => AtomicInv
<1> SUFFICES ASSUME Init PROVE Clear
  BY DEF AtomicInv
<1>1. /\ temp = [p \in Paths |-> None] /\ backup = [p \in Paths |-> None]
      /\ quarantine = [p \in Paths |-> None] /\ run = Idle
  BY DEF Init
<1>2. ASSUME NEW p \in Paths, NEW i \in Present, remote[i].path = p
      PROVE  disk[p] = IF i \in Folders THEN Dir
                       ELSE [node |-> InitialNode[i], blob |-> remote[i].blob, stamp |-> 0]
  <2> DEFINE j == CHOOSE j \in Present : remote[j].path = p
  <2>1. j \in Present /\ remote[j].path = p
    BY <1>2
  <2>2. j = i
    BY <2>1, <1>2 DEF Init
  <2>3. disk[p] = IF j \in Folders THEN Dir
                  ELSE [node |-> InitialNode[j], blob |-> remote[j].blob, stamp |-> 0]
    BY <1>2 DEF Init
  <2> HIDE DEF j
  <2> QED BY <2>2, <2>3
<1>3. ASSUME NEW p \in Paths, disk[p] # None
      PROVE  \E i \in Present : remote[i].path = p
  BY <1>3 DEF Init
<1>4. Owned = Present /\ \A i \in Owned : /\ receipts[i].path = remote[i].path
                                          /\ receipts[i].blob = remote[i].blob
  <2>1. \A i \in Items : receipts[i] =
          IF remote[i] = None THEN None
          ELSE [path |-> remote[i].path, state |-> "current", blob |-> remote[i].blob]
    BY DEF Init
  <2>2. \A i \in Items : receipts[i] \in Receipts \cup {None}
    BY RunsInit, RunItems DEF TablesOK
  <2>3. ASSUME NEW i \in Items, remote[i] # None
        PROVE  /\ receipts[i] # None /\ receipts[i].path = remote[i].path
               /\ receipts[i].blob = remote[i].blob
    <3>1. remote[i] \in Object
      BY <2>3, RunsInit, RunItems DEF TablesOK
    <3>2. PICK r : r = [path |-> remote[i].path, state |-> "current", blob |-> remote[i].blob]
      OBVIOUS
    <3>3. r \in Receipts /\ r.path = remote[i].path /\ r.blob = remote[i].blob
      BY <3>1, <3>2 DEF Receipts, Object
    <3> QED BY <2>1, <2>3, <3>2, <3>3, EntryAssumption
  <2> QED BY <2>1, <2>3 DEF Owned, Present
<1>5. Rooted
  <2>1. SUFFICES ASSUME NEW p \in Paths, disk[p] # None, NEW q \in Above[p]
                 PROVE  disk[q] = Dir
    BY DEF Rooted, Reachable
  <2>2. PICK i \in Present : remote[i].path = p
    BY <1>3, <2>1
  <2>3. PICK j \in Present \cap Folders : remote[j].path = q
    BY <2>1, <2>2 DEF Init, FolderAt
  <2>4. q \in Paths
    BY <2>1, AboveFacts
  <2> QED BY <1>2, <2>3, <2>4
<1>6. ASSUME NEW p \in Paths PROVE Settled(p)
  <2>1. ASSUME NEW i \in Owned, receipts[i].path = p
        PROVE  IF i \in Folders THEN disk[p] = Dir ELSE Holds(disk[p], receipts[i].blob)
    <3>1. i \in Present /\ i \in Items /\ remote[i].path = p /\ receipts[i].blob = remote[i].blob
      BY <1>4, <2>1 DEF Present
    <3>2. CASE i \in Folders
      BY <1>2, <3>1, <3>2
    <3>3. CASE i \notin Folders
      <4>1. disk[p] = [node |-> InitialNode[i], blob |-> remote[i].blob, stamp |-> 0]
        BY <1>2, <3>1, <3>3
      <4>2. remote[i].blob \in Blobs
        BY <3>1, <3>3, RunsInit, RunAssumption DEF RunsInv, RemoteInv
      <4>3. InitialNode[i] \in Nodes
        BY <3>1, RunAssumption DEF InitialNode
      <4>4. disk[p] \in Files /\ disk[p].blob = remote[i].blob
        BY <4>1, <4>2, <4>3, PlanAssumption DEF Files
      <4> QED BY <3>1, <3>3, <4>4 DEF Holds, IsFile
    <3> QED BY <3>2, <3>3
  <2>2. Held(p)
    BY <1>3, <1>4, <2>1 DEF Held
  <2> QED BY <1>1, <2>2 DEF Settled
<1>7. run.phase = "idle" /\ run.step = "next"
  BY <1>1 DEF Idle
<1> QED BY <1>5, <1>6, <1>7
        DEF Clear, Exact, Shares, Places, Order, Cleaning, Underway, Now

LEMMA AtomicStep ==
  RunsInv /\ OneOwnerPerPath /\ KeptInv /\ AtomicInv /\ [Next]_vars => AtomicInv'
<1> SUFFICES ASSUME RunsInv, OneOwnerPerPath, KeptInv, AtomicInv, [Next]_vars, Alone'
             PROVE  Clear'
  BY DEF AtomicInv
<1>1. ASSUME UNCHANGED <<crashes, edited>> PROVE Clear /\ edited = {}
  BY <1>1 DEF AtomicInv, Alone
<1>2. CASE Begin
  BY <1>1, <1>2, BeginClear DEF Begin, tallies
<1>3. CASE RunStep
  <2>1. UNCHANGED <<crashes, edited>>
    BY <1>3 DEF RunStep, tallies
  <2> QED BY <1>1, <1>3, <2>1, RunStepClear
<1>4. CASE ApplyWindow
  <2>1. UNCHANGED <<crashes, edited>>
    BY <1>4 DEF ApplyWindow, Apply, tallies
  <2> QED BY <1>1, <1>4, <2>1, WindowClear
<1>5. CASE CaptureBaseline
  BY <1>1, <1>5, SteadyClear DEF CaptureBaseline, tallies
<1>6. CASE Surroundings
  <2>1. CASE \E i \in Items : \/ \E p \in Paths, b \in Blobs \cup {None} : RemoteWrite(i, p, b)
                              \/ RemoteRemove(i)
    BY <1>1, <2>1, SteadyClear DEF RemoteWrite, RemoteRemove
  <2>2. CASE UserStep
    <3>1. PICK p \in Paths : edited' = edited \cup {p}
      BY <2>2 DEF UserStep, SaveInPlace, SaveByRename, RemoveEntry, MakeDir, Edit
    <3> QED BY <3>1 DEF Alone
  <2>3. CASE CallFails
    BY <1>1, <2>3, GiveUpClear DEF CallFails
  <2>4. CASE Crash
    <3>1. crashes' = crashes + 1 /\ crashes \in Nat
      BY <2>4, TypeParts, RunAssumption DEF Crash, Killed, RunsInv, TalliesOK
    <3> QED BY <3>1 DEF Alone
  <2> QED BY <1>6, <2>1, <2>2, <2>3, <2>4 DEF Surroundings
<1>7. CASE UNCHANGED vars
  BY <1>1, <1>7, SteadyClear DEF vars, tallies
<1> QED BY <1>2, <1>3, <1>4, <1>5, <1>6, <1>7 DEF Next

(* Between runs, if no process died and nobody else wrote to the           *)
(* directory, it holds what the receipts say and nothing else, for every   *)
(* catalog, batch and failure: rollback_file_batch,                        *)
(* rollback_created_directories and their likes can always take back all   *)
(* that a batch did, and a cleanup leaves nothing behind.                  *)
THEOREM BatchesHappenWhole == Spec => []BatchesAreAtomic
<1>1. Spec => []KeptInv
  BY KeptInit, KeptStep, RunsInvariant, OwnersAreUnique, PTL DEF Spec
<1>2. Spec => []AtomicInv
  BY <1>1, AtomicInit, AtomicStep, RunsInvariant, OwnersAreUnique, PTL DEF Spec
<1>3. RunsInv /\ AtomicInv => BatchesAreAtomic
  <2>1. SUFFICES ASSUME RunsInv, Clear, run = Idle PROVE BatchesAreAtomic
    BY DEF AtomicInv, Alone, BatchesAreAtomic
  <2>2. \A p \in Paths : Settled(p)
    BY <2>1 DEF Clear, Exact, In, Idle
  <2>3. \A i \in Owned : receipts[i].path \in Paths
    BY <2>1, RunItems DEF TablesOK, Owned, Receipts
  <2> QED BY <2>2, <2>3 DEF BatchesAreAtomic, Settled, Held, Holds
<1> QED BY <1>2, <1>3, RunsInvariant, PTL

=============================================================================
