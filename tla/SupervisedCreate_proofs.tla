----------------------- MODULE SupervisedCreate_proofs -----------------------
(***************************************************************************)
(* Machine-checked safety of the supervised commands, for every directory, *)
(* every number of entries, ids, crashes and changes by other clients.     *)
(***************************************************************************)
EXTENDS SupervisedCreate, RemoteWriteStore_proofs

-----------------------------------------------------------------------------
(* The inductive invariant.                                                *)

IsFile(k) == intents[k].op = "create_file"

(* The progress of a command agrees with the row it works on.              *)
RunInv ==
  /\ run = At(run.at, run.key, run.seen)
  /\ run.at \in {"stream", "put", "wait", "answered", "decide"} =>
       run.key \in Rows(intents)
  /\ run.at \in {"stream", "put"} => intents[run.key].attempts > 0
  /\ run.at = "put" => /\ run.seen = intents[run.key].content
                       /\ IsFile(run.key) => run.seen # None
  /\ run.at = "answered" => intents[run.key].remote \in Used
  /\ run.at \in {"recheck", "insert"} =>
       \E K \in SUBSET EventKeys : K # {} /\ run.seen \in [K -> RemoteIds]

(* What is on its way carries the digest its intent records.               *)
RequestsInv ==
  \A m \in inflight :
    /\ m.key \in Rows(intents)
    /\ m.content = intents[m.key].content
    /\ IsFile(m.key) => m.content # None

(* Only the intents create objects under the generated ids, and a created  *)
(* object was born with the digest of its intent.                          *)
ObjectsInv ==
  /\ \A r \in RemoteIds : IF r \in Used THEN r \in OwnedIds
                                        ELSE provider[r].born = None
  /\ \A k \in Rows(intents) :
       /\ intents[k].remote \in Used =>
            /\ provider[intents[k].remote].born = intents[k].content
            /\ IsFile(k) => intents[k].content # None
       /\ intents[k].status \in {"awaiting", "confirmed"} =>
            intents[k].remote \in Used

(* An object that did not change after the end of the pages collected so   *)
(* far is projected as it is.                                              *)
PagesInv ==
  staged # None =>
    /\ staged.upTo <= head
    /\ \A r \in RemoteIds :
         r \notin {log[i] : i \in staged.upTo + 1 .. head} =>
           staged.cat[r] = Sight(r)

SupervisedInv ==
  /\ StoreInv
  /\ SupervisedTypeOK
  /\ RunInv
  /\ RequestsInv
  /\ ObjectsInv
  /\ PagesInv
  /\ CatalogIsCurrentAtCursor

-----------------------------------------------------------------------------
(* Every step is a transaction of the store.                               *)

(* The writes a command makes to an intent it has looked up are steps of   *)
(* the store.                                                              *)
LEMMA IntentTransactions ==
  ASSUME NEW k \in Rows(intents), NEW op,
         \/ BeginSubmission(k, op, intents[k].execGen, cursor)
         \/ \E c \in Contents : RecordFingerprint(k, intents[k].execGen, c)
         \/ CompleteFileUpload(k, intents[k].execGen)
         \/ RestartSubmission(k, intents[k].execGen, intents[k].attempts,
                              cursor)
         \/ \E from, to : Transition(k, op, intents[k].execGen, from, to)
         \/ RecoverConflict(k, intents[k].execGen, intents[k].attempts)
  PROVE  StoreNext
<1>1. ASSUME NEW from, NEW to,
             Transition(k, op, intents[k].execGen, from, to)
      PROVE  /\ to \in Statuses
             /\ Transition(k, intents[k].op, intents[k].execGen,
                           intents[k].status, to)
  <2>1. op = intents[k].op /\ from = intents[k].status
    BY <1>1 DEF Transition, HasIntent
  <2>2. to \in Statuses
    BY <1>1 DEF Transition, Transitions, FileTransitions,
       FolderTransitions, Statuses
  <2> QED BY <1>1, <2>1, <2>2
<1>2. ASSUME BeginSubmission(k, op, intents[k].execGen, cursor)
      PROVE  BeginSubmission(k, intents[k].op, intents[k].execGen, cursor)
  <2>1. op = intents[k].op
    BY <1>2 DEF BeginSubmission, HasIntent
  <2> QED BY <1>2, <2>1
<1> QED BY <1>1, <1>2 DEF StoreNext, IntentStep

(* The surroundings do not touch the store.                                *)
LEMMA SurroundingsKeepStore ==
  ASSUME Surroundings PROVE UNCHANGED storeVars
  BY DEF Surroundings, Edit, ForeignChange, Land, Refuse, Lose, Interrupt

(* A page of the feed opens the change window or adds to it.               *)
LEMMA PageIsTransaction ==
  ASSUME NEW upTo, NEW complete \in BOOLEAN, CollectPage(upTo, complete)
  PROVE  StoreNext
  BY DEF CollectPage, StoreNext, RemoteStep

(* The execution of a window commits exactly the collected pages.          *)
LEMMA ExecutionIsTransaction ==
  ASSUME SupervisedTypeOK, ExecuteWindow
  PROVE  StoreNext
<1>1. staged # None
  BY DEF ExecuteWindow, CommitWindow, SupervisedTypeOK
<1>2. staged \in Pages
  BY <1>1 DEF SupervisedTypeOK
<1>3. /\ staged.upTo \in Cursors /\ staged.cat \in [RemoteIds -> Sightings]
      /\ staged.touched \in SUBSET RemoteIds
      /\ staged.moved \in SUBSET RemoteIds
  BY <1>2 DEF Pages
<1> QED BY <1>3 DEF ExecuteWindow, StoreNext, RemoteStep

(* The bytes of an entry that is still the planned file have a digest.     *)
LEMMA SourceHasBytes ==
  ASSUME StoreInv, NEW k \in Rows(intents), IsFile(k), SourceInPlace(k)
  PROVE  BytesOf[disk[k[2]]] \in Contents
<1>1. KindOf(intents[k].item) = "file"
  BY DEF StoreInv, IntentInv, IsFile, SourceKind
<1>2. intents[k].item \in FileMeta
  BY <1>1 DEF KindOf
<1> QED BY <1>2, SurroundingsAssumption DEF SourceInPlace

(* Every step of the commands and of their surroundings is one transaction *)
(* of the store or leaves the store alone.                                 *)
LEMMA StepIsTransaction ==
  ASSUME SupervisedInv, [SupervisedNext]_vars
  PROVE  [StoreNext]_storeVars
<1> USE DEF SupervisedInv
<1>1. disk \in Trees
  BY DEF SupervisedTypeOK
<1>2. CASE Surroundings
  BY <1>2, SurroundingsKeepStore
<1>3. CASE Allocation
  <2>1. ASSUME AllocateJournal \/ AllocateRecheck PROVE StoreNext
    BY <1>1, <2>1 DEF AllocateJournal, AllocateRecheck, StoreNext, LocalStep
  <2>2. ASSUME AllocateInsert PROVE StoreNext
    <3>1. PICK K \in SUBSET EventKeys :
            K # {} /\ run.seen \in [K -> RemoteIds]
      BY <2>2 DEF AllocateInsert, RunInv
    <3>2. \A k \in K : IsCreate(k)
      BY <2>2, <3>1 DEF AllocateInsert, CreateIntents
    <3>3. CreateIntents(run.seen, disk)
      BY <2>2 DEF AllocateInsert
    <3>4. K \in SUBSET {k \in EventKeys : IsCreate(k)}
      BY <3>2
    <3> QED BY <1>1, <3>1, <3>3, <3>4 DEF StoreNext, IntentStep
  <2> QED
    BY <1>3, <2>1, <2>2 DEF Allocation, AllocateEnds, AllocateIds,
       AllocateAbandons
<1>4. CASE Upload
  <2> DEFINE k == run.key
  <2>1. ASSUME NEW content \in Contents, Stream(content) PROVE StoreNext
    BY <2>1, IntentTransactions DEF Stream, RunInv
  <2>2. ASSUME FileStored PROVE StoreNext
    BY <2>2, IntentTransactions DEF FileStored, RunInv
  <2>3. ASSUME FileStoredInDoubt PROVE [StoreNext]_storeVars
    BY <2>3, IntentTransactions DEF FileStoredInDoubt, RunInv
  <2>4. ASSUME FolderAnswered PROVE [StoreNext]_storeVars
    BY <2>4, IntentTransactions DEF FolderAnswered, FolderFound, RunInv
  <2> QED
    BY <1>4, <2>1, <2>2, <2>3, <2>4 DEF Upload, StreamDiffers, Send
<1>5. CASE Submission
  <2> SUFFICES ASSUME NEW k \in Rows(intents),
                      \/ SubmitFile(k) \/ SubmitFolder(k)
                      \/ RecoverFingerprint(k) \/ RecoverFileFound(k)
                      \/ RecoverFileMissing(k) \/ RecoverFolder(k)
               PROVE  StoreNext
    BY <1>5 DEF Submission
  <2>1. CASE SubmitFile(k) \/ SubmitFolder(k)
    BY <2>1, IntentTransactions DEF SubmitFile, SubmitFolder
  <2>2. CASE RecoverFingerprint(k)
    <3>1. IsFile(k)
      BY <2>2 DEF RecoverFingerprint, RecordFingerprint, HasIntent, IsFile
    <3>2. BytesOf[disk[k[2]]] \in Contents
      BY <2>2, <3>1, SourceHasBytes DEF RecoverFingerprint
    <3> QED BY <2>2, <3>2, IntentTransactions DEF RecoverFingerprint
  <2>3. CASE RecoverFileFound(k) \/ RecoverFileMissing(k)
    BY <2>3, IntentTransactions DEF RecoverFileFound, RecoverFileMissing
  <2>4. CASE RecoverFolder(k)
    BY <2>4, IntentTransactions DEF RecoverFolder, FolderFound
  <2> QED BY <2>1, <2>2, <2>3, <2>4
<1>6. CASE Confirmation
  <2>1. ASSUME NEW k \in Rows(intents), NEW upTo \in Cursors,
               NEW complete \in BOOLEAN, ConfirmPage(k, upTo, complete)
        PROVE  StoreNext
    BY <2>1, PageIsTransaction DEF ConfirmPage
  <2>2. ASSUME NEW k \in Rows(intents), ConfirmLater(k) PROVE StoreNext
    BY <2>2 DEF ConfirmLater, StoreNext, RemoteStep
  <2>3. ASSUME NEW k \in Rows(intents), ConfirmExecute(k) PROVE StoreNext
    BY <2>3, ExecutionIsTransaction DEF ConfirmExecute
  <2>4. ASSUME NEW k \in Rows(intents), RecoverConfirmation(k)
        PROVE  StoreNext
    BY <2>4, IntentTransactions DEF RecoverConfirmation
  <2>5. ASSUME ConfirmDecide PROVE StoreNext
    BY <2>5, IntentTransactions DEF ConfirmDecide, RunInv
  <2> QED BY <1>6, <2>1, <2>2, <2>3, <2>4, <2>5 DEF Confirmation
<1>7. CASE Refresh
  <2>1. ASSUME NEW upTo \in Cursors, NEW complete \in BOOLEAN,
               RefreshPage(upTo, complete)
        PROVE  StoreNext
    BY <2>1, PageIsTransaction DEF RefreshPage
  <2>2. ASSUME RefreshExecute PROVE StoreNext
    BY <2>2, ExecutionIsTransaction DEF RefreshExecute
  <2>3. ASSUME ObserveAuthority PROVE StoreNext
    BY <2>3 DEF ObserveAuthority, StoreNext, RemoteStep
  <2> QED BY <1>7, <2>1, <2>2, <2>3 DEF Refresh
<1>8. CASE Settlement
  BY <1>1, <1>8 DEF Settlement, SettleFile, SettleFolder, StoreNext,
     SettlementStep
<1>9. CASE UNCHANGED vars
  BY <1>9 DEF vars
<1> QED
  BY <1>2, <1>3, <1>4, <1>5, <1>6, <1>7, <1>8, <1>9 DEF SupervisedNext

-----------------------------------------------------------------------------
(* What the steps do to the state around the store.                        *)

(* The surroundings act, or a command moves the change window, or it sends *)
(* a request, or it leaves everything but its own progress and the tables  *)
(* of the write pipeline alone.                                            *)
LEMMA StepKinds ==
  ASSUME [SupervisedNext]_vars
  PROVE  \/ Surroundings
         \/ \E upTo \in Cursors, complete \in BOOLEAN :
              CollectPage(upTo, complete)
         \/ ExecuteWindow
         \/ DiscardWindow /\ staged' = None /\ UNCHANGED surroundings
         \/ Send
         \/ UNCHANGED <<surroundings, staged, catalog, window, cursor>>
<1> USE DEF Continue, localVars, remoteVars, storeVars
<1>1. CASE Allocation
  BY <1>1 DEF Allocation, AllocateJournal, AllocateEnds, AllocateIds,
     AllocateRecheck, AllocateInsert, AllocateAbandons, ReconcileJournal,
     CreateIntents
<1>2. CASE Upload
  BY <1>2 DEF Upload, Stream, StreamDiffers, FileStored, FileStoredInDoubt,
     FolderAnswered, FolderFound, RecordFingerprint, CompleteFileUpload,
     Transition
<1>3. CASE Submission
  BY <1>3 DEF Submission, SubmitFile, SubmitFolder, RecoverFingerprint,
     RecoverFileFound, RecoverFileMissing, RecoverFolder, FolderFound,
     BeginSubmission, RecordFingerprint, CompleteFileUpload,
     RestartSubmission, Transition
<1>4. CASE Confirmation
  BY <1>4 DEF Confirmation, ConfirmPage, ConfirmLater, ConfirmExecute,
     RecoverConfirmation, ConfirmDecide, Transition, RecoverConflict
<1>5. CASE Refresh
  <2>1. CASE ObserveAuthority
    BY <2>1 DEF ObserveAuthority, CommitAuthority
  <2> QED BY <1>5, <2>1 DEF Refresh, RefreshPage, RefreshExecute
<1>6. CASE Settlement
  BY <1>6 DEF Settlement, SettleFile, SettleFolder, SettleFileCreate,
     SettleFolderCreate, SettlementEffect
<1>7. CASE UNCHANGED vars
  BY <1>7 DEF vars, outside, surroundings
<1> QED
  BY <1>1, <1>2, <1>3, <1>4, <1>5, <1>6, <1>7 DEF SupervisedNext

(* Only the surroundings change the directory, the provider or the feed.   *)
LEMMA CommandsOnlyLook ==
  ASSUME [SupervisedNext]_vars, ~Surroundings
  PROVE  UNCHANGED <<disk, provider, head, log, interruptions>>
  BY StepKinds DEF CollectPage, ExecuteWindow, Send, surroundings, outside

(* A change of the provider concerns one object, and the feed reports it.  *)
LEMMA ProviderSteps ==
  ASSUME SupervisedInv, [SupervisedNext]_vars
  PROVE  \/ UNCHANGED <<provider, head, log>>
         \/ \E r \in RemoteIds \cup {None} :
              /\ Publish(r)
              /\ provider' \in [RemoteIds -> Objects]
              /\ \A x \in RemoteIds \ {r} : provider'[x] = provider[x]
              /\ \/ r = None
                 \/ /\ r \in Used /\ provider'[r].place # "absent"
                    /\ provider'[r].born = provider[r].born
                 \/ \E m \in inflight : Land(m) /\ r = intents[m.key].remote
<1>1. CASE ~Surroundings
  BY <1>1, CommandsOnlyLook
<1>2. provider \in [RemoteIds -> Objects]
  BY DEF SupervisedInv, SupervisedTypeOK
<1>3. ASSUME NEW r \in RemoteIds, NEW place \in Places \ {"absent"},
             NEW content \in Contents \cup {None},
             ForeignChange(r, place, content)
      PROVE  /\ Publish(r) /\ r \in Used
             /\ provider' \in [RemoteIds -> Objects]
             /\ provider'[r].place # "absent"
             /\ provider'[r].born = provider[r].born
             /\ \A x \in RemoteIds \ {r} : provider'[x] = provider[x]
  <2> USE NoneAssumption
  <2>1. /\ r # None /\ Publish(r)
        /\ provider[r].place \in {"exact", "other", "outside"}
        /\ provider' = [provider EXCEPT ![r].place = place,
                                        ![r].content = content]
    BY <1>3 DEF ForeignChange
  <2> DEFINE new == [provider[r] EXCEPT !.place = place,
                                        !.content = content]
  <2>2. provider' = [provider EXCEPT ![r] = new]
    BY <2>1
  <2>3. /\ new \in Objects /\ new.place = place
        /\ new.born = provider[r].born
    BY <1>2 DEF Objects
  <2> HIDE DEF new
  <2> QED BY <1>2, <2>1, <2>2, <2>3 DEF Used
<1>4. ASSUME NEW m \in inflight, Land(m)
      PROVE  LET r == intents[m.key].remote IN
             /\ r \in RemoteIds /\ Publish(r)
             /\ provider' \in [RemoteIds -> Objects]
             /\ \A x \in RemoteIds \ {r} : provider'[x] = provider[x]
  <2> DEFINE r == intents[m.key].remote
             new == [place |-> "exact", content |-> m.content,
                     born |-> m.content]
  <2>1. new \in Objects
    BY <1>4 DEF SupervisedInv, SupervisedTypeOK, Requests, Objects, Places
  <2>2. Publish(r) /\ provider' = [provider EXCEPT ![r] = new]
    BY <1>4 DEF Land
  <2>3. r \in RemoteIds
    BY <1>4 DEF SupervisedInv, RequestsInv, StoreInv, TypeOK, Rows,
       IntentRows
  <2> HIDE DEF new
  <2> QED BY <1>2, <2>1, <2>2, <2>3
<1>5. CASE Surroundings
  <2>1. CASE ForeignChange(None, "absent", None)
    BY <1>2, <2>1, NoneAssumption DEF ForeignChange
  <2> QED
    BY <1>3, <1>4, <1>5, <2>1 DEF Surroundings, Edit, Refuse, Lose,
       Interrupt, outside
<1> QED BY <1>1, <1>5

-----------------------------------------------------------------------------
(* The catalog follows the provider.                                       *)

Unreported(c, feed, end) ==
  {r \in RemoteIds : r \notin {feed[i] : i \in c + 1 .. end}}

(* What the feed does not report after a position has not changed since.   *)
LEMMA UnreportedIsUnchanged ==
  ASSUME SupervisedInv, [SupervisedNext]_vars
  PROVE  \A c \in Nat : c <= head =>
         \A r \in Unreported(c, log', head') :
           r \in Unreported(c, log, head) /\ Sight(r)' = Sight(r)
<1> USE BoundsAssumption
<1> SUFFICES ASSUME NEW c \in Nat, c <= head
             PROVE  \A r \in Unreported(c, log', head') :
                      r \in Unreported(c, log, head) /\ Sight(r)' = Sight(r)
  OBVIOUS
<1>1. head \in Nat /\ head <= MaxCursor
      /\ log \in [1..MaxCursor -> RemoteIds \cup {None}]
  BY DEF SupervisedInv, SupervisedTypeOK, StoreInv, TypeOK, Cursors
<1>2. CASE UNCHANGED <<provider, head, log>>
  BY <1>2 DEF Unreported, Sight
<1>3. ASSUME NEW x \in RemoteIds \cup {None}, Publish(x),
             \A r \in RemoteIds \ {x} : provider'[r] = provider[r]
      PROVE  \A r \in Unreported(c, log', head') :
               r \in Unreported(c, log, head) /\ Sight(r)' = Sight(r)
  <2>1. /\ head' = head + 1 /\ log'[head + 1] = x
        /\ \A i \in c + 1 .. head : log'[i] = log[i]
    BY <1>1, <1>3 DEF Publish
  <2>2. ASSUME NEW r \in Unreported(c, log', head') PROVE r # x
    BY <1>1, <2>1 DEF Unreported
  <2>3. ASSUME NEW r \in Unreported(c, log', head') PROVE r \in Unreported(c, log, head)
    BY <1>1, <2>1 DEF Unreported
  <2> QED BY <1>3, <2>2, <2>3 DEF Unreported, Sight
<1> QED BY <1>2, <1>3, ProviderSteps

(* The end of the collected pages, and with it the durable cursor, never   *)
(* passes a change that is not in the projection.                          *)
LEMMA ProjectionPreserved ==
  ASSUME SupervisedInv, [SupervisedNext]_vars
  PROVE  /\ PagesInv' /\ CatalogIsCurrentAtCursor'
         /\ head' \in cursor' .. MaxCursor
<1> USE BoundsAssumption
<1>1. /\ head \in Nat /\ cursor \in Nat
      /\ cursor <= head /\ head <= MaxCursor
  BY DEF SupervisedInv, SupervisedTypeOK, StoreInv, TypeOK, Cursors
<1>2. /\ head' \in Nat /\ head <= head' /\ head' <= MaxCursor
  BY <1>1, ProviderSteps DEF Publish
<1>3. \A r \in Unreported(cursor, log, head) : catalog[r] = Sight(r)
  BY DEF SupervisedInv, CatalogIsCurrentAtCursor, Unreported
<1>4. ASSUME staged # None
      PROVE  /\ staged.upTo \in Nat /\ staged.upTo <= head
             /\ staged \in Pages
             /\ \A r \in Unreported(staged.upTo, log, head) : staged.cat[r] = Sight(r)
  BY <1>4 DEF SupervisedInv, SupervisedTypeOK, Pages, Cursors, PagesInv,
     Unreported
<1>5. ASSUME cursor' = cursor, catalog' = catalog
      PROVE  CatalogIsCurrentAtCursor' /\ head' \in cursor' .. MaxCursor
  <2>1. \A r \in RemoteIds :
          r \in Unreported(cursor, log', head') => catalog[r] = Sight(r)'
    BY <1>1, <1>3, UnreportedIsUnchanged
  <2> QED
    BY <1>1, <1>2, <1>5, <2>1 DEF CatalogIsCurrentAtCursor, Unreported
<1>6. ASSUME staged' = staged PROVE PagesInv'
  <2>1. CASE staged = None
    BY <1>6, <2>1 DEF PagesInv
  <2>2. CASE staged # None
    <3>1. \A r \in Unreported(staged.upTo, log', head') : staged.cat[r] = Sight(r)'
      BY <1>4, <1>6, <2>2, UnreportedIsUnchanged
    <3> QED
      BY <1>1, <1>2, <1>4, <1>6, <2>2, <3>1 DEF PagesInv, Unreported
  <2> QED BY <2>1, <2>2
<1>7. CASE UNCHANGED <<staged, catalog, cursor>>
  BY <1>5, <1>6, <1>7
<1>8. ASSUME NEW upTo \in Cursors, NEW complete \in BOOLEAN,
             CollectPage(upTo, complete)
      PROVE  /\ PagesInv' /\ CatalogIsCurrentAtCursor'
             /\ head' \in cursor' .. MaxCursor
  <2>1. UNCHANGED <<catalog, cursor, provider, head, log>>
    BY <1>8 DEF CollectPage, StageWindow, surroundings, outside
  <2> DEFINE from    == IF window = None THEN cursor ELSE staged.upTo
             known   == IF window = None THEN catalog ELSE staged.cat
             changed == {log[i] : i \in from + 1 .. upTo} \ {None}
  <2>2. /\ from \in Nat /\ from <= head
        /\ \A r \in Unreported(from, log, head) : known[r] = Sight(r)
    BY <1>1, <1>3, <1>4 DEF SupervisedInv, SupervisedTypeOK
  <2>3. /\ upTo \in from .. head
        /\ staged'.upTo = upTo
        /\ \A r \in RemoteIds :
             staged'.cat[r] = IF r \in changed THEN Sight(r) ELSE known[r]
    BY <1>8 DEF CollectPage
  <2>4. ASSUME NEW r \in RemoteIds, r \in Unreported(upTo, log, head), r \notin changed
        PROVE  r \in Unreported(from, log, head)
    <3>1. r # None
      BY NoneAssumption
    <3> QED BY <1>1, <2>2, <2>3, <2>4, <3>1 DEF Unreported
  <2> HIDE DEF from, known, changed
  <2>5. \A r \in Unreported(upTo, log, head) : staged'.cat[r] = Sight(r)
    BY <2>2, <2>3, <2>4 DEF Unreported
  <2>6. \A r \in Unreported(upTo, log', head') : staged'.cat[r] = Sight(r)'
    BY <2>1, <2>5 DEF Unreported, Sight
  <2>7. staged'.upTo <= head'
    BY <1>1, <2>1, <2>2, <2>3
  <2>8. PagesInv'
    BY <2>3, <2>6, <2>7 DEF PagesInv, Unreported
  <2> QED BY <1>5, <2>1, <2>8
<1>9. CASE ExecuteWindow
  <2>1. staged # None
    BY <1>9 DEF ExecuteWindow, CommitWindow, SupervisedInv,
       SupervisedTypeOK
  <2>2. /\ staged' = None /\ UNCHANGED <<provider, head, log>>
        /\ catalog' = staged.cat /\ cursor' = staged.upTo
    BY <1>9 DEF ExecuteWindow, CommitWindow, surroundings, outside
  <2>3. CatalogIsCurrentAtCursor'
    BY <1>4, <2>1, <2>2 DEF CatalogIsCurrentAtCursor, Unreported, Sight
  <2>4. head' \in cursor' .. MaxCursor
    BY <1>1, <1>4, <2>1, <2>2
  <2> QED BY <2>2, <2>3, <2>4 DEF PagesInv
<1>10. CASE DiscardWindow /\ staged' = None
  <2>1. PagesInv'
    BY <1>10 DEF PagesInv
  <2> QED BY <1>5, <1>10, <2>1 DEF DiscardWindow
<1>11. CASE Surroundings \/ Send
  BY <1>7, <1>11, SurroundingsKeepStore DEF Surroundings, Edit,
     ForeignChange, Land, Refuse, Lose, Interrupt, Send, storeVars
<1> QED BY <1>7, <1>8, <1>9, <1>10, <1>11, StepKinds

-----------------------------------------------------------------------------
(* What a command says of an object.                                       *)

(* A step writes at most the row k, and leaves it in this status.          *)
Writes(k, status) ==
  /\ intents'[k].status = status
  /\ \A j \in EventKeys \ {k} : intents'[j] = intents[j]

(* The status each transaction leaves behind.                              *)
LEMMA StatusWritten ==
  ASSUME TypeOK, NEW k \in Rows(intents), NEW op, NEW e, NEW n, NEW pre
  PROVE  /\ BeginSubmission(k, op, e, pre) => Writes(k, "submitted")
         /\ RestartSubmission(k, e, n, pre) => Writes(k, "submitted")
         /\ CompleteFileUpload(k, e) => Writes(k, "awaiting")
         /\ RecoverConflict(k, e, n) => Writes(k, "confirmed")
         /\ \A c : RecordFingerprint(k, e, c) => Writes(k, "submitted")
         /\ \A from, to : Transition(k, op, e, from, to) => Writes(k, to)
<1>1. k \in EventKeys /\ intents \in [EventKeys -> IntentRows \cup {None}]
      /\ intents[k] \in IntentRows
  BY DEF TypeOK, Rows
<1>2. ASSUME NEW row, intents' = [intents EXCEPT ![k] = row]
      PROVE  Writes(k, row.status)
  BY <1>1, <1>2 DEF Writes
<1>3. ASSUME BeginSubmission(k, op, e, pre) PROVE Writes(k, "submitted")
  <2> DEFINE row == [intents[k] EXCEPT !.status = "submitted",
                       !.attempts = @ + 1, !.execGen = @ + 1,
                       !.preCursor = pre]
  <2>1. intents' = [intents EXCEPT ![k] = row]
    BY <1>3 DEF BeginSubmission
  <2>2. row.status = "submitted"
    BY <1>1 DEF IntentRows
  <2> HIDE DEF row
  <2>3. Writes(k, row.status)
    BY <1>2, <2>1
  <2> QED BY <2>2, <2>3
<1>4. ASSUME RestartSubmission(k, e, n, pre) PROVE Writes(k, "submitted")
  <2> DEFINE row == [intents[k] EXCEPT !.attempts = @ + 1,
                       !.execGen = @ + 1, !.preCursor = pre]
  <2>1. intents' = [intents EXCEPT ![k] = row]
    BY <1>4 DEF RestartSubmission
  <2>2. row.status = "submitted"
    BY <1>1, <1>4 DEF RestartSubmission, HasIntent, IntentRows
  <2> HIDE DEF row
  <2>3. Writes(k, row.status)
    BY <1>2, <2>1
  <2> QED BY <2>2, <2>3
<1>5. ASSUME CompleteFileUpload(k, e) PROVE Writes(k, "awaiting")
  <2> DEFINE row == [intents[k] EXCEPT !.status = "awaiting",
                       !.execGen = @ + 1, !.versioned = TRUE]
  <2>1. intents' = [intents EXCEPT ![k] = row]
    BY <1>5 DEF CompleteFileUpload
  <2>2. row.status = "awaiting"
    BY <1>1 DEF IntentRows
  <2> HIDE DEF row
  <2>3. Writes(k, row.status)
    BY <1>2, <2>1
  <2> QED BY <2>2, <2>3
<1>6. ASSUME NEW to, \/ RecoverConflict(k, e, n) /\ to = "confirmed"
                     \/ \E from : Transition(k, op, e, from, to)
      PROVE  Writes(k, to)
  <2> DEFINE row == [intents[k] EXCEPT !.status = to, !.execGen = @ + 1]
  <2>1. intents' = [intents EXCEPT ![k] = row]
    BY <1>6 DEF RecoverConflict, Transition
  <2>2. row.status = to
    BY <1>1 DEF IntentRows
  <2> HIDE DEF row
  <2>3. Writes(k, row.status)
    BY <1>2, <2>1
  <2> QED BY <2>2, <2>3
<1>7. ASSUME NEW c, RecordFingerprint(k, e, c) PROVE Writes(k, "submitted")
  <2> DEFINE row == [intents[k] EXCEPT !.content = c]
  <2>1. intents' = [intents EXCEPT ![k] = row]
    BY <1>7 DEF RecordFingerprint
  <2>2. row.status = "submitted"
    BY <1>1, <1>7 DEF RecordFingerprint, HasIntent, IntentRows
  <2> HIDE DEF row
  <2>3. Writes(k, row.status)
    BY <1>2, <2>1
  <2> QED BY <2>2, <2>3
<1> QED BY <1>3, <1>4, <1>5, <1>6, <1>7

(* A command writes awaiting or confirmed only of an object that is there: *)
(* it was answered, it was inspected, or it was awaited already.           *)
Founded(j) ==
  intents'[j].status \in {"awaiting", "confirmed"} => intents[j].remote \in Used

LEMMA BeliefIsFounded ==
  ASSUME SupervisedInv, [SupervisedNext]_vars, NEW j \in Rows(intents)
  PROVE  Founded(j)
<1>1. TypeOK /\ j \in EventKeys
  BY DEF SupervisedInv, StoreInv, Rows
<1>2. intents[j].status \in {"awaiting", "confirmed"} =>
        intents[j].remote \in Used
  BY DEF SupervisedInv, ObjectsInv
<1>3. ASSUME intents'[j] = intents[j] PROVE Founded(j)
  BY <1>2, <1>3 DEF Founded
<1>4. ASSUME NEW k \in Rows(intents), NEW status, Writes(k, status),
             status \in {"awaiting", "confirmed"} => intents[k].remote \in Used
      PROVE  Founded(j)
  BY <1>1, <1>3, <1>4 DEF Writes, Founded
<1>5. ASSUME NEW k \in Rows(intents), Inspect(k) \in {"exact", "mismatch"}
      PROVE  intents[k].remote \in Used
  <2>1. intents[k].remote \in RemoteIds
    BY <1>1 DEF TypeOK, Rows, IntentRows
  <2>2. provider[intents[k].remote].place # "absent"
    BY <1>5 DEF Inspect
  <2> QED BY <2>1, <2>2 DEF Used
<1>6. CASE Allocation
  BY <1>1, <1>3, <1>6 DEF Allocation, AllocateJournal, AllocateEnds,
     AllocateIds, AllocateRecheck, AllocateInsert, AllocateAbandons,
     ReconcileJournal, CreateIntents, storeVars, Rows
<1>7. CASE Upload
  <2>1. run.key \in Rows(intents) \/ UNCHANGED intents
    BY <1>7 DEF Upload, SupervisedInv, RunInv, Stream, StreamDiffers, Send,
       FileStored, FileStoredInDoubt, FolderAnswered, storeVars
  <2>2. CASE UNCHANGED intents
    BY <1>3, <2>2
  <2>3. CASE run.key \in Rows(intents)
    <3>1. ASSUME NEW content, Stream(content) PROVE Founded(j)
      BY <1>1, <1>4, <2>3, <3>1, StatusWritten DEF Stream
    <3>2. run.at = "answered" => intents[run.key].remote \in Used
      BY DEF SupervisedInv, RunInv
    <3>3. CASE FileStored
      BY <1>1, <1>4, <2>3, <3>2, <3>3, StatusWritten DEF FileStored
    <3>4. CASE FileStoredInDoubt
      BY <1>1, <1>3, <1>4, <2>3, <3>2, <3>4, StatusWritten
         DEF FileStoredInDoubt, storeVars
    <3>5. CASE FolderAnswered
      BY <1>1, <1>3, <1>4, <2>3, <3>2, <3>5, StatusWritten
         DEF FolderAnswered, FolderFound, storeVars
    <3>6. CASE StreamDiffers \/ Send
      BY <1>3, <3>6 DEF StreamDiffers, Send, storeVars
    <3> QED BY <1>7, <3>1, <3>3, <3>4, <3>5, <3>6 DEF Upload
  <2> QED BY <2>1, <2>2, <2>3
<1>8. CASE Submission
  <2> SUFFICES ASSUME NEW k \in Rows(intents),
                      \/ SubmitFile(k) \/ SubmitFolder(k)
                      \/ RecoverFingerprint(k) \/ RecoverFileFound(k)
                      \/ RecoverFileMissing(k) \/ RecoverFolder(k)
               PROVE  Founded(j)
    BY <1>8 DEF Submission
  <2>1. CASE SubmitFile(k) \/ SubmitFolder(k)
    BY <1>1, <1>4, <2>1, StatusWritten DEF SubmitFile, SubmitFolder
  <2>2. CASE RecoverFingerprint(k) \/ RecoverFileMissing(k)
    BY <1>1, <1>4, <2>2, StatusWritten
       DEF RecoverFingerprint, RecoverFileMissing
  <2>3. CASE RecoverFileFound(k)
    BY <1>1, <1>4, <1>5, <2>3, StatusWritten DEF RecoverFileFound
  <2>4. CASE RecoverFolder(k)
    BY <1>1, <1>4, <1>5, <2>4, StatusWritten DEF RecoverFolder, FolderFound
  <2> QED BY <2>1, <2>2, <2>3, <2>4
<1>9. CASE Confirmation
  <2>1. ASSUME NEW k \in Rows(intents), RecoverConfirmation(k)
        PROVE  Founded(j)
    BY <1>1, <1>4, <1>5, <2>1, StatusWritten DEF RecoverConfirmation
  <2>2. CASE ConfirmDecide
    <3>1. run.key \in Rows(intents)
      BY <2>2 DEF ConfirmDecide, SupervisedInv, RunInv
    <3>2. intents[run.key].status = "awaiting"
      BY <2>2 DEF ConfirmDecide, Transition, HasIntent
    <3>3. intents[run.key].remote \in Used
      BY <3>1, <3>2 DEF SupervisedInv, ObjectsInv
    <3> QED BY <1>1, <1>4, <2>2, <3>1, <3>3, StatusWritten DEF ConfirmDecide
  <2>3. CASE UNCHANGED intents
    BY <1>3, <2>3
  <2> QED
    BY <1>9, <2>1, <2>2, <2>3 DEF Confirmation, ConfirmPage, CollectPage,
       StageWindow, ConfirmLater, DiscardWindow, ConfirmExecute,
       ExecuteWindow, CommitWindow
<1>10. CASE Refresh \/ Settlement
  BY <1>3, <1>10 DEF Refresh, RefreshPage, CollectPage, StageWindow,
     RefreshExecute, ExecuteWindow, CommitWindow, ObserveAuthority,
     CommitAuthority, Settlement, SettleFile, SettleFolder,
     SettleFileCreate, SettleFolderCreate, SettlementEffect
<1>11. CASE Surroundings \/ UNCHANGED vars
  BY <1>3, <1>11, SurroundingsKeepStore DEF vars, storeVars
<1> QED
  BY <1>6, <1>7, <1>8, <1>9, <1>10, <1>11 DEF SupervisedNext

-----------------------------------------------------------------------------
(* Requests, objects and rows keep agreeing.                               *)

(* Rows stay, with their id and operation, and a digest stays what it is.  *)
LEMMA RowsAreKept ==
  ASSUME StoreInv, StoreInv', [StoreNext]_storeVars, NEW k \in Rows(intents)
  PROVE  /\ k \in Rows(intents)'
         /\ intents'[k].remote = intents[k].remote
         /\ IsFile(k)' = IsFile(k)
         /\ (IsFile(k) => intents[k].content # None) =>
              /\ intents'[k].content = intents[k].content
              /\ (IsFile(k) => intents[k].content # None)'
<1>1. /\ k \in EventKeys /\ intents'[k] # None
      /\ Advances(intents[k], intents'[k])
  BY RowsAdvance DEF StoreInv, Rows
<1>2. k \in Rows(intents)'
  BY <1>1 DEF Rows
<1>3. intents[k].op \in Operations
  BY DEF StoreInv, TypeOK, Rows, IntentRows
<1>4. ASSUME ~IsFile(k)
      PROVE  intents[k].content = None /\ intents'[k].content = None
  <2>1. intents[k].op = "create_folder" /\ intents'[k].op = "create_folder"
    BY <1>1, <1>3, <1>4 DEF IsFile, Operations, Advances
  <2> QED BY <1>2, <2>1 DEF StoreInv, EvidenceBeforeBelief
<1> QED BY <1>1, <1>2, <1>4 DEF Advances, IsFile

(* An id never becomes unused, and becomes used by the landing of the      *)
(* request for it, with what that request carried.                         *)
LEMMA UsedGrows ==
  ASSUME SupervisedInv, [SupervisedNext]_vars
  PROVE  /\ Used \subseteq Used'
         /\ \A r \in RemoteIds :
              \/ (r \in Used') = (r \in Used) /\ provider'[r].born = provider[r].born
              \/ \E m \in inflight : /\ Land(m) /\ r = intents[m.key].remote
                                     /\ provider'[r].born = m.content
<1>1. provider \in [RemoteIds -> Objects]
  BY DEF SupervisedInv, SupervisedTypeOK
<1>2. CASE UNCHANGED <<provider, head, log>>
  BY <1>2 DEF Used
<1>3. ASSUME NEW x \in RemoteIds \cup {None},
             \A r \in RemoteIds \ {x} : provider'[r] = provider[r],
             \/ x = None
             \/ /\ x \in Used /\ provider'[x].place # "absent"
                /\ provider'[x].born = provider[x].born
             \/ \E m \in inflight : Land(m) /\ x = intents[m.key].remote
      PROVE  /\ Used \subseteq Used'
             /\ \A r \in RemoteIds :
                  \/ (r \in Used') = (r \in Used)
                     /\ provider'[r].born = provider[r].born
                  \/ \E m \in inflight :
                       /\ Land(m) /\ r = intents[m.key].remote
                       /\ provider'[r].born = m.content
  <2>1. ASSUME NEW r \in RemoteIds, r # x
        PROVE  (r \in Used') = (r \in Used)
               /\ provider'[r].born = provider[r].born
    BY <1>3, <2>1 DEF Used
  <2>2. CASE x = None
    <3>1. \A r \in RemoteIds : r # x
      BY <2>2, NoneAssumption
    <3> QED BY <2>1, <3>1 DEF Used
  <2>3. CASE x \in Used /\ provider'[x].place # "absent"
             /\ provider'[x].born = provider[x].born
    BY <2>1, <2>3 DEF Used
  <2>4. ASSUME NEW m \in inflight, Land(m), x = intents[m.key].remote,
               x # None
        PROVE  x \in Used' /\ x \notin Used /\ provider'[x].born = m.content
    BY <1>1, <2>4 DEF Land, Used
  <2> QED BY <1>3, <2>1, <2>2, <2>3, <2>4 DEF Used
<1> QED BY <1>2, <1>3, ProviderSteps

(* A request keeps carrying the digest that its intent records.            *)
LEMMA RequestsPreserved ==
  ASSUME SupervisedInv, StoreInv', [SupervisedNext]_vars
  PROVE  RequestsInv'
<1>1. StoreInv /\ [StoreNext]_storeVars
  BY StepIsTransaction DEF SupervisedInv
<1>2. ASSUME NEW m \in inflight
      PROVE  /\ m.key \in Rows(intents)'
             /\ m.content = intents'[m.key].content
             /\ (IsFile(m.key) => m.content # None)'
  BY <1>1, <1>2, RowsAreKept DEF SupervisedInv, RequestsInv
<1>3. CASE inflight' \subseteq inflight
  BY <1>2, <1>3 DEF RequestsInv
<1>4. CASE Send
  <2> DEFINE new == [key |-> run.key,
                     attempt |-> intents[run.key].attempts,
                     content |-> run.seen]
  <2>1. inflight' = inflight \cup {new} /\ intents' = intents
    BY <1>4 DEF Send, storeVars
  <2>2. /\ run.key \in Rows(intents)
        /\ run.seen = intents[run.key].content
        /\ IsFile(run.key) => run.seen # None
    BY <1>4 DEF Send, SupervisedInv, RunInv
  <2>3. \A m \in inflight' :
          /\ m.key \in Rows(intents)
          /\ m.content = intents[m.key].content
          /\ IsFile(m.key) => m.content # None
    BY <2>1, <2>2 DEF SupervisedInv, RequestsInv
  <2> QED BY <2>1, <2>3 DEF RequestsInv, Rows, IsFile
<1> QED
  BY <1>3, <1>4, StepKinds DEF Surroundings, Edit, ForeignChange, Land,
     Refuse, Lose, Interrupt, CollectPage, ExecuteWindow, surroundings

(* Objects and rows keep agreeing about what was created.                  *)
LEMMA ObjectsPreserved ==
  ASSUME SupervisedInv, StoreInv', [SupervisedNext]_vars
  PROVE  ObjectsInv'
<1>1. StoreInv /\ [StoreNext]_storeVars
  BY StepIsTransaction DEF SupervisedInv
<1>2. ASSUME NEW k \in Rows(intents)
      PROVE  /\ k \in EventKeys /\ intents[k].remote \in RemoteIds
             /\ k \in Rows(intents)'
             /\ intents'[k].remote = intents[k].remote
  BY <1>1, RowsAreKept DEF StoreInv, TypeOK, Rows, IntentRows
<1>3. OwnedIds \subseteq OwnedIds'
  BY <1>2 DEF OwnedIds
<1>4. ASSUME NEW m \in inflight, Land(m)
      PROVE  /\ m.key \in Rows(intents) /\ UNCHANGED intents
             /\ m.content = intents[m.key].content
             /\ IsFile(m.key) => m.content # None
  BY <1>4 DEF Land, storeVars, SupervisedInv, RequestsInv
<1>5. ASSUME NEW r \in RemoteIds
      PROVE  IF r \in Used' THEN r \in OwnedIds' ELSE provider'[r].born = None
  <2>1. CASE (r \in Used') = (r \in Used)
             /\ provider'[r].born = provider[r].born
    BY <1>3, <2>1 DEF SupervisedInv, ObjectsInv
  <2>2. ASSUME NEW m \in inflight, Land(m), r = intents[m.key].remote
        PROVE  r \in Used' /\ r \in OwnedIds'
    <3>1. r \in OwnedIds'
      BY <1>3, <1>4, <2>2 DEF OwnedIds
    <3>2. provider'[r].place = "exact"
      BY <2>2 DEF Land, SupervisedInv, SupervisedTypeOK
    <3> QED BY <3>1, <3>2 DEF Used
  <2> QED BY <2>1, <2>2, UsedGrows
<1>6. ASSUME NEW k \in Rows(intents), intents[k].remote \in Used'
      PROVE  /\ provider'[intents[k].remote].born = intents'[k].content
             /\ (IsFile(k) => intents[k].content # None)'
  <2> DEFINE r == intents[k].remote
  <2>1. ASSUME NEW m \in inflight, Land(m), r = intents[m.key].remote,
               provider'[r].born = m.content
        PROVE  /\ provider'[intents[k].remote].born = intents'[k].content
               /\ (IsFile(k) => intents[k].content # None)'
    <3>1. m.key = k
      BY <1>1, <1>4, <2>1 DEF StoreInv, IntentInv
    <3> QED BY <1>4, <2>1, <3>1 DEF IsFile
  <2>2. CASE (r \in Used') = (r \in Used)
             /\ provider'[r].born = provider[r].born
    <3>1. /\ provider[r].born = intents[k].content
          /\ IsFile(k) => intents[k].content # None
      BY <1>6, <2>2 DEF SupervisedInv, ObjectsInv
    <3> QED BY <1>1, <2>2, <3>1, RowsAreKept
  <2> QED BY <1>2, <2>1, <2>2, UsedGrows
<1>7. ASSUME NEW k \in Rows(intents),
             intents'[k].status \in {"awaiting", "confirmed"}
      PROVE  intents[k].remote \in Used'
  BY <1>7, BeliefIsFounded, UsedGrows DEF Founded
<1>8. ASSUME NEW k \in EventKeys, intents[k] = None, intents'[k] # None
      PROVE  intents'[k].remote \notin Used' /\ intents'[k].status = "planned"
  <2>1. PICK K \in SUBSET EventKeys :
          \E ids \in [K -> RemoteIds], scan \in Trees :
            CreateIntents(ids, scan) /\ k \in K
    BY <1>1, <1>8, NewRowsArePlanned DEF StoreInv
  <2>2. PICK ids \in [K -> RemoteIds], scan \in Trees :
          CreateIntents(ids, scan) /\ k \in K
    BY <2>1
  <2>3. /\ intents'[k].remote \in RemoteIds /\ intents'[k].remote \notin OwnedIds
        /\ intents'[k].status = "planned"
    BY <1>1, <2>2, NewRowIsFresh DEF StoreInv
  <2>4. intents'[k].remote \notin Used
    BY <2>3 DEF SupervisedInv, ObjectsInv
  <2>5. ~\E m \in inflight : Land(m)
    BY <1>4, <1>8
  <2> QED BY <2>3, <2>4, <2>5, UsedGrows
<1>9. ASSUME NEW k \in Rows(intents)'
      PROVE  k \in EventKeys /\ intents'[k] # None
             /\ (k \in Rows(intents) \/ intents[k] = None)
  BY DEF Rows
<1>10. \A k \in Rows(intents)' :
         /\ intents'[k].remote \in Used' =>
              /\ provider'[intents'[k].remote].born = intents'[k].content
              /\ (IsFile(k) => intents[k].content # None)'
         /\ intents'[k].status \in {"awaiting", "confirmed"} =>
              intents'[k].remote \in Used'
  BY <1>2, <1>6, <1>7, <1>8, <1>9
<1> QED BY <1>5, <1>10 DEF ObjectsInv

-----------------------------------------------------------------------------
(* The running command.                                                    *)

(* The progress a command records always agrees with what its transaction  *)
(* has made durable.                                                       *)
LEMMA RunPreserved ==
  ASSUME SupervisedInv, StoreInv', [SupervisedNext]_vars
  PROVE  RunInv' /\ run'.at \in Progress
<1> DEFINE Goal == RunInv' /\ run'.at \in Progress
<1>1. StoreInv /\ TypeOK /\ [StoreNext]_storeVars
      /\ RunInv /\ run.at \in Progress
  BY StepIsTransaction DEF SupervisedInv, StoreInv, SupervisedTypeOK
<1>2. Used \subseteq Used'
  BY UsedGrows
<1>3. ASSUME NEW k \in Rows(intents)
      PROVE  /\ k \in EventKeys /\ intents[k] \in IntentRows
             /\ k \in Rows(intents)' /\ intents'[k].remote = intents[k].remote
             /\ IsFile(k)' = IsFile(k)
  BY <1>1, RowsAreKept DEF TypeOK, Rows
<1>4. ASSUME run' = Idle PROVE Goal
  BY <1>4 DEF RunInv, Idle, At, Progress
<1>5. ASSUME run' = run, UNCHANGED intents PROVE Goal
  BY <1>1, <1>2, <1>5 DEF RunInv, Rows, IsFile
<1>6. ASSUME NEW k \in Rows(intents), NEW seen,
             run' = At("stream", k, seen), intents'[k].attempts > 0
      PROVE  Goal
  BY <1>3, <1>6 DEF RunInv, At, Progress
<1>7. ASSUME NEW k \in Rows(intents), NEW seen,
             run' = At("put", k, seen), intents'[k].attempts > 0,
             seen = intents'[k].content, IsFile(k) => seen # None
      PROVE  Goal
  BY <1>3, <1>7 DEF RunInv, At, Progress
<1>8. CASE Surroundings
  <2>1. UNCHANGED intents
    BY <1>8, SurroundingsKeepStore DEF storeVars
  <2>2. ASSUME NEW m \in inflight, Land(m), Waiting(m) PROVE Goal
    <3>1. run' = At("answered", run.key, run.seen) /\ run.at = "wait"
      BY <1>1, <2>2 DEF Land, Waiting, RunInv, At
    <3>2. run.key \in Rows(intents) /\ run.key = m.key
      BY <1>1, <2>2, <3>1 DEF RunInv, Waiting
    <3>3. intents[m.key].remote \in Used'
      <4>1. provider' = [provider EXCEPT ![intents[m.key].remote] =
                           [place |-> "exact", content |-> m.content,
                            born |-> m.content]]
        BY <2>2 DEF Land
      <4>2. intents[m.key].remote \in RemoteIds
        BY <1>3, <3>2 DEF IntentRows
      <4> QED
        BY <4>1, <4>2 DEF Used, SupervisedInv, SupervisedTypeOK
    <3> QED BY <1>3, <2>1, <3>1, <3>2, <3>3 DEF RunInv, At, Progress
  <2> QED
    BY <1>4, <1>5, <1>8, <2>1, <2>2 DEF Surroundings, Edit, ForeignChange,
       Land, Refuse, Lose, Interrupt
<1>9. CASE Allocation
  <2>1. CASE AllocateJournal
    BY <2>1 DEF AllocateJournal, Continue, RunInv, At, Progress
  <2>2. ASSUME NEW ids \in [Eligible -> RemoteIds], AllocateIds(ids)
        PROVE  Goal
    <3>1. Eligible \in SUBSET EventKeys /\ Eligible # {}
      BY <2>2 DEF AllocateIds, Eligible
    <3>2. \E K \in SUBSET EventKeys : K # {} /\ ids \in [K -> RemoteIds]
      BY <3>1
    <3>3. run' = At("recheck", None, ids)
      BY <2>2 DEF AllocateIds, Continue
    <3> QED BY <3>2, <3>3 DEF RunInv, At, Progress
  <2>3. CASE AllocateRecheck
    <3>1. run' = At("insert", run.key, run.seen) /\ run.at = "recheck"
      BY <1>1, <2>3 DEF AllocateRecheck, Continue, RunInv, At
    <3> QED BY <1>1, <3>1 DEF RunInv, At, Progress
  <2> QED
    BY <1>4, <1>9, <2>1, <2>2, <2>3 DEF Allocation, AllocateEnds,
       AllocateInsert, AllocateAbandons, Continue
<1>10. CASE Upload
  <2>1. ASSUME NEW content \in Contents, Stream(content) PROVE Goal
    <3>1. run.key \in Rows(intents) /\ intents[run.key].attempts > 0
      BY <1>1, <2>1 DEF Stream, RunInv
    <3>2. /\ run' = At("put", run.key, content)
          /\ intents' = [intents EXCEPT ![run.key].content = content]
      BY <2>1 DEF Stream, RecordFingerprint, Continue
    <3>3. intents'[run.key] = [intents[run.key] EXCEPT !.content = content]
      BY <1>1, <1>3, <3>1, <3>2 DEF TypeOK
    <3>4. intents'[run.key].attempts > 0 /\ content = intents'[run.key].content
      BY <1>3, <3>1, <3>3 DEF IntentRows
    <3>5. content # None
      BY NoneAssumption
    <3> QED BY <1>7, <3>1, <3>2, <3>4, <3>5
  <2>2. CASE Send
    <3>1. /\ run' = At("wait", run.key, run.seen) /\ run.at = "put"
          /\ UNCHANGED intents
      BY <1>1, <2>2 DEF Send, RunInv, At, storeVars
    <3> QED BY <1>1, <1>3, <3>1 DEF RunInv, At, Progress
  <2> QED
    BY <1>4, <1>10, <2>1, <2>2 DEF Upload, StreamDiffers, FileStored,
       FileStoredInDoubt, FolderAnswered, Continue
<1>11. CASE Submission
  <2>1. ASSUME NEW k \in Rows(intents), SubmitFile(k) \/ RecoverFileMissing(k)
        PROVE  Goal
    <3>1. run' = At("stream", k, BytesOf[disk[k[2]]])
      BY <2>1 DEF SubmitFile, RecoverFileMissing, Continue
    <3>2. intents'[k].attempts = intents[k].attempts + 1
      BY <1>1, <1>3, <2>1 DEF SubmitFile, RecoverFileMissing, TypeOK,
         BeginSubmission, RestartSubmission, IntentRows
    <3>3. intents'[k].attempts > 0
      BY <1>3, <3>2 DEF IntentRows
    <3> QED BY <1>6, <3>1, <3>3
  <2>2. ASSUME NEW k \in Rows(intents), SubmitFolder(k) PROVE Goal
    <3>1. /\ run' = At("put", k, None)
          /\ HasIntent(k, "create_folder", "planned", intents[k].execGen)
      BY <2>2 DEF SubmitFolder, BeginSubmission, Continue
    <3>2. intents[k].content = None /\ ~IsFile(k)
      BY <1>1, <3>1 DEF HasIntent, StoreInv, EvidenceBeforeBelief, IsFile
    <3>3. /\ intents'[k].attempts = intents[k].attempts + 1
          /\ intents'[k].content = intents[k].content
      BY <1>1, <1>3, <2>2 DEF SubmitFolder, TypeOK, BeginSubmission,
         IntentRows
    <3>4. intents'[k].attempts > 0
      BY <1>3, <3>3 DEF IntentRows
    <3> QED BY <1>7, <3>1, <3>2, <3>3, <3>4
  <2> QED
    BY <1>4, <1>11, <2>1, <2>2 DEF Submission, RecoverFingerprint,
       RecoverFileFound, RecoverFolder, Continue
<1>12. CASE Confirmation
  <2>1. ASSUME NEW k \in Rows(intents), ConfirmExecute(k) PROVE Goal
    <3>1. PICK seen : run' = At("decide", k, seen)
      BY <2>1 DEF ConfirmExecute
    <3> QED BY <1>3, <3>1 DEF RunInv, At, Progress
  <2>2. ASSUME NEW k \in Rows(intents), NEW upTo, NEW complete,
               ConfirmPage(k, upTo, complete) \/ ConfirmLater(k)
        PROVE  Goal
    <3>1. run' = run /\ UNCHANGED intents
      BY <2>2 DEF ConfirmPage, CollectPage, StageWindow, ConfirmLater,
         DiscardWindow
    <3> QED BY <1>5, <3>1
  <2> QED
    BY <1>4, <1>12, <2>1, <2>2 DEF Confirmation, RecoverConfirmation,
       ConfirmDecide, Continue
<1>13. CASE Refresh
  BY <1>4, <1>5, <1>13 DEF Refresh, RefreshPage, CollectPage, StageWindow,
     RefreshExecute, ExecuteWindow, CommitWindow, ObserveAuthority, Continue
<1>14. CASE Settlement
  BY <1>4, <1>14 DEF Settlement, SettleFile, SettleFolder, Continue
<1>15. CASE UNCHANGED vars
  BY <1>5, <1>15 DEF vars, storeVars
<1> QED
  BY <1>8, <1>9, <1>10, <1>11, <1>12, <1>13, <1>14, <1>15
     DEF SupervisedNext

-----------------------------------------------------------------------------
(* Types.                                                                  *)

(* The pages of a window are well typed, and are there exactly while the   *)
(* window is open.                                                         *)
LEMMA StagedTypePreserved ==
  ASSUME SupervisedInv, [SupervisedNext]_vars
  PROVE  staged' \in Pages \cup {None} /\ (staged' = None <=> window' = None)
<1> USE BoundsAssumption
<1>1. /\ staged \in Pages \cup {None} /\ (staged = None <=> window = None)
      /\ log \in [1..MaxCursor -> RemoteIds \cup {None}]
      /\ head \in Nat /\ cursor \in Nat /\ head <= MaxCursor
      /\ catalog \in [RemoteIds -> Sightings]
      /\ window \in Windows \cup {None} /\ cursor \in Cursors
  BY DEF SupervisedInv, SupervisedTypeOK, StoreInv, TypeOK, Cursors
<1>2. CASE UNCHANGED <<staged, window>>
  BY <1>1, <1>2
<1>3. ASSUME NEW upTo \in Cursors, NEW complete \in BOOLEAN,
             CollectPage(upTo, complete)
      PROVE  staged' \in Pages /\ window' \in Windows
  <2> DEFINE from    == IF window = None THEN cursor ELSE staged.upTo
             known   == IF window = None THEN catalog ELSE staged.cat
             before  == IF window = None THEN {} ELSE staged.touched
             placed  == IF window = None THEN {} ELSE staged.moved
             changed == {log[i] : i \in from + 1 .. upTo} \ {None}
  <2>1. /\ from \in Nat /\ known \in [RemoteIds -> Sightings]
        /\ before \in SUBSET RemoteIds /\ placed \in SUBSET RemoteIds
    BY <1>1 DEF Pages, Cursors
  <2>2. upTo \in from .. head
        /\ staged' = [upTo |-> upTo,
                      cat |-> [r \in RemoteIds |->
                                 IF r \in changed THEN Sight(r) ELSE known[r]],
                      touched |-> before \cup changed,
                      moved |-> placed \cup
                                {r \in changed : Sight(r) # known[r]}]
    BY <1>3 DEF CollectPage
  <2>3. changed \in SUBSET RemoteIds
    BY <1>1, <2>1, <2>2
  <2>4. \A r \in RemoteIds : Sight(r) \in Sightings
    BY DEF Sight, Sightings
  <2> HIDE DEF from, known, before, placed, changed
  <2>5. staged' \in Pages
    BY <2>1, <2>2, <2>3, <2>4 DEF Pages
  <2>6. window' \in Windows
    BY <1>1, <1>3 DEF CollectPage, StageWindow, Windows
  <2> QED BY <2>5, <2>6
<1>4. CASE ExecuteWindow \/ (DiscardWindow /\ staged' = None)
  BY <1>4 DEF ExecuteWindow, CommitWindow, DiscardWindow
<1>5. CASE Surroundings \/ Send
  BY <1>2, <1>5, SurroundingsKeepStore DEF Surroundings, Edit,
     ForeignChange, Land, Refuse, Lose, Interrupt, Send, storeVars
<1>6. None \notin Windows
  BY RowsAssumption
<1> QED
  BY <1>2, <1>3, <1>4, <1>5, <1>6, PagesAssumption, StepKinds

(* Everything around the store stays well typed.                           *)
LEMMA CommandTypePreserved ==
  ASSUME SupervisedInv, StoreInv', [SupervisedNext]_vars
  PROVE  SupervisedTypeOK'
<1> USE BoundsAssumption, SurroundingsAssumption
<1>1. SupervisedTypeOK
  BY DEF SupervisedInv
<1>2. disk' \in Trees
  <2>1. ASSUME NEW p \in Paths, NEW item \in Items \cup {None}, Edit(p, item)
        PROVE  disk' \in Trees
    BY <1>1, <2>1 DEF Edit, SupervisedTypeOK, Trees
  <2>2. CASE UNCHANGED disk
    BY <1>1, <2>2 DEF SupervisedTypeOK
  <2> QED
    BY <2>1, <2>2, CommandsOnlyLook DEF Surroundings, ForeignChange, Land,
       Refuse, Lose, Interrupt, outside
<1>3. provider' \in [RemoteIds -> Objects]
  BY <1>1, ProviderSteps DEF SupervisedTypeOK
<1>4. log' \in [1..MaxCursor -> RemoteIds \cup {None}]
  <2>1. ASSUME NEW r \in RemoteIds \cup {None}, Publish(r)
        PROVE  log' \in [1..MaxCursor -> RemoteIds \cup {None}]
    BY <1>1, <2>1 DEF Publish, SupervisedTypeOK
  <2> QED BY <1>1, <2>1, ProviderSteps DEF SupervisedTypeOK
<1>5. inflight' \in SUBSET Requests
  <2>1. CASE Send
    <3>1. /\ run.key \in Rows(intents) /\ intents[run.key].attempts > 0
          /\ run.seen = intents[run.key].content
      BY <2>1 DEF Send, SupervisedInv, RunInv
    <3>2. /\ run.key \in EventKeys /\ intents[run.key] \in IntentRows
          /\ intents[run.key].attempts <= MaxAttempts
      BY <3>1 DEF SupervisedInv, StoreInv, TypeOK, IntentInv, Rows
    <3>3. [key |-> run.key, attempt |-> intents[run.key].attempts,
           content |-> run.seen] \in Requests
      BY <3>1, <3>2 DEF Requests, IntentRows
    <3> QED BY <1>1, <2>1, <3>3 DEF Send, SupervisedTypeOK
  <2>2. CASE inflight' \subseteq inflight
    BY <1>1, <2>2 DEF SupervisedTypeOK
  <2> QED
    BY <2>1, <2>2, StepKinds DEF Surroundings, Edit, ForeignChange, Land,
       Refuse, Lose, Interrupt, CollectPage, ExecuteWindow, surroundings
<1>6. interruptions' \in 0..MaxInterruptions
  <2>1. \/ interruptions' = interruptions
        \/ /\ interruptions < MaxInterruptions
           /\ interruptions' = interruptions + 1
    BY CommandsOnlyLook DEF Surroundings, Edit, ForeignChange, Land, Refuse,
       Lose, Interrupt
  <2> QED BY <1>1, <2>1 DEF SupervisedTypeOK
<1>7. TypeOK'
  BY DEF StoreInv
<1> QED
  BY <1>2, <1>3, <1>4, <1>5, <1>6, <1>7, ProjectionPreserved, RunPreserved,
     StagedTypePreserved DEF SupervisedTypeOK

-----------------------------------------------------------------------------
(* The theorems.                                                           *)

(* The invariant holds of the empty directory that was just activated.     *)
LEMMA SupervisedInvInitially ==
  ASSUME SupervisedInit PROVE SupervisedInv
<1> USE BoundsAssumption, SurroundingsAssumption DEF SupervisedInit
<1>1. TypeOK
  BY DEF TypeOK, Trees, Cursors, Sightings, Authorities
<1>2. EvidenceBeforeBelief /\ IntentInv /\ JournalInv /\ SettledIsOwned
      /\ CurrentReceiptIsCatalogued
  BY DEF EvidenceBeforeBelief, IntentInv, JournalInv, Rows, SettledIsOwned,
     JournalFollowsGeneration, AppliedExactlyWhenSettled,
     OneSettlementPerGeneration, CurrentReceiptIsCatalogued
<1>3. SupervisedTypeOK
  BY <1>1 DEF SupervisedTypeOK, Trees, Objects, Places, Idle, Progress
<1>4. RunInv /\ RequestsInv /\ PagesInv
  BY DEF RunInv, Idle, At, RequestsInv, PagesInv
<1>5. ObjectsInv
  BY DEF ObjectsInv, Used, Rows
<1>6. CatalogIsCurrentAtCursor
  BY DEF CatalogIsCurrentAtCursor, Sight
<1> QED
  BY <1>1, <1>2, <1>3, <1>4, <1>5, <1>6 DEF SupervisedInv, StoreInv

(* It is inductive.                                                        *)
LEMMA SupervisedInvPreserved ==
  ASSUME SupervisedInv, [SupervisedNext]_vars PROVE SupervisedInv'
<1>1. StoreInv'
  BY StepIsTransaction, StoreInvPreserved DEF SupervisedInv
<1> QED
  BY <1>1, CommandTypePreserved, RunPreserved, RequestsPreserved,
     ObjectsPreserved, ProjectionPreserved DEF SupervisedInv

(* The inductive invariant of the commands, with that of the store inside, *)
(* holds whatever users, other clients and crashes do.                     *)
THEOREM SupervisedInvariant == SupervisedSpec => []SupervisedInv
  BY SupervisedInvInitially, SupervisedInvPreserved, PTL DEF SupervisedSpec

(* Whatever the commands and their surroundings do is one transaction of   *)
(* the store or leaves it alone.                                           *)
THEOREM CommandsImplementStore == SupervisedSpec => StoreTransactions
<1>1. SupervisedInv /\ [SupervisedNext]_vars => [StoreNext]_storeVars
  BY StepIsTransaction
<1> QED
  BY <1>1, SupervisedInvariant, PTL DEF SupervisedSpec, StoreTransactions

(* What is proved of the tables holds of them under the commands.          *)
THEOREM StoreStaysSound ==
  SupervisedSpec => [](AppliedExactlyWhenSettled /\ OneSettlementPerGeneration
                       /\ SettledIsOwned /\ EvidenceBeforeBelief)
<1>1. SupervisedInv => /\ AppliedExactlyWhenSettled
                       /\ OneSettlementPerGeneration
                       /\ SettledIsOwned /\ EvidenceBeforeBelief
  BY DEF SupervisedInv, StoreInv, JournalInv
<1> QED BY <1>1, SupervisedInvariant, PTL

(* Type correctness of the commands and their surroundings.                *)
THEOREM SupervisedTypeCorrect == SupervisedSpec => []SupervisedTypeOK
<1>1. SupervisedInv => SupervisedTypeOK
  BY DEF SupervisedInv
<1> QED BY <1>1, SupervisedInvariant, PTL

(* No bytes are on their way or at the provider without their digest being *)
(* durable, and no second attempt carries other bytes.                     *)
THEOREM UploadsAreEvidenced == SupervisedSpec => []UploadIsEvidenced
<1>1. ASSUME SupervisedInv PROVE UploadIsEvidenced
  <2>1. ASSUME NEW k \in Rows(intents)
        PROVE  provider[intents[k].remote].born \in {None, intents[k].content}
    <3>1. intents[k].remote \in RemoteIds
      BY <1>1 DEF SupervisedInv, StoreInv, TypeOK, Rows, IntentRows
    <3> QED BY <1>1, <3>1 DEF SupervisedInv, ObjectsInv
  <2> QED
    BY <1>1, <2>1 DEF SupervisedInv, RequestsInv, UploadIsEvidenced
<1> QED BY <1>1, SupervisedInvariant, PTL

(* awaiting and confirmed are only said of an object that was created      *)
(* under the predetermined id with the recorded bytes.                     *)
THEOREM BeliefsAreReal == SupervisedSpec => []BeliefIsReal
<1>1. SupervisedInv => BeliefIsReal
  BY DEF SupervisedInv, ObjectsInv, BeliefIsReal
<1> QED BY <1>1, SupervisedInvariant, PTL

(* The durable cursor never passes a change the catalog does not hold.     *)
THEOREM CatalogFollowsProvider ==
  SupervisedSpec => []CatalogIsCurrentAtCursor
<1>1. SupervisedInv => CatalogIsCurrentAtCursor
  BY DEF SupervisedInv
<1> QED BY <1>1, SupervisedInvariant, PTL

(* A settlement accepts a file only with the bytes it holds now.           *)
THEOREM SettlementsMatchTheDisk == SupervisedSpec => SettlementMatchesDisk
<1> DEFINE Matches ==
      \A k \in settled' \ settled :
        /\ intents[k].op = "create_file"
        /\ disk[k[2]] # None /\ baseline'[k[2]] = disk[k[2]]
        => /\ receipts'[intents[k].remote].content = BytesOf[disk[k[2]]]
           /\ intents[k].content = BytesOf[disk[k[2]]]
<1>1. ASSUME SupervisedInv, SupervisedNext, ~Settlement
      PROVE  settled' = settled
  BY <1>1, SurroundingsKeepStore DEF SupervisedNext, storeVars,
     Allocation, AllocateJournal, AllocateEnds, AllocateIds, AllocateRecheck,
     AllocateInsert, AllocateAbandons, ReconcileJournal, CreateIntents,
     Upload, Stream, StreamDiffers, Send, FileStored, FileStoredInDoubt,
     FolderAnswered, FolderFound, RecordFingerprint, CompleteFileUpload,
     Transition, Submission, SubmitFile, SubmitFolder, RecoverFingerprint,
     RecoverFileFound, RecoverFileMissing, RecoverFolder, BeginSubmission,
     RestartSubmission, Confirmation, ConfirmPage, CollectPage, StageWindow,
     ConfirmLater, DiscardWindow, ConfirmExecute, ExecuteWindow,
     CommitWindow, RecoverConfirmation, RecoverConflict, ConfirmDecide,
     Refresh, RefreshPage, RefreshExecute, ObserveAuthority, CommitAuthority
<1>2. ASSUME SupervisedInv, NEW k \in Rows(intents),
             \/ SettleFile(k)
             \/ SettleFolder(k)
      PROVE  Matches
  <2>1. /\ k \in EventKeys /\ k[2] \in Paths
        /\ intents[k] \in IntentRows /\ intents[k].remote \in RemoteIds
        /\ baseline \in Trees /\ receipts \in [RemoteIds -> ReceiptRows \cup {None}]
    BY <1>2 DEF SupervisedInv, StoreInv, TypeOK, Rows, EventKeys, IntentRows
  <2>2. CASE SettleFolder(k)
    <3>1. settled' = settled \cup {k} /\ intents[k].op = "create_folder"
      BY <2>2 DEF SettleFolder, SettleFolderCreate, SettlementGuard,
         HasIntent, SettlementEffect
    <3> QED BY <3>1
  <2>3. CASE SettleFile(k)
    <3>1. /\ settled' = settled \cup {k}
          /\ baseline' = [baseline EXCEPT ![k[2]] = intents[k].item]
          /\ receipts' = [receipts EXCEPT ![intents[k].remote] =
               [path |-> k[2], content |-> intents[k].content,
                state |-> "current"]]
          /\ SourceInPlace(k) => BytesOf[disk[k[2]]] = intents[k].content
      BY <2>3 DEF SettleFile, SettleFileCreate, SettlementEffect, Promote
    <3>2. /\ baseline'[k[2]] = intents[k].item
          /\ receipts'[intents[k].remote].content = intents[k].content
      BY <2>1, <3>1 DEF Trees
    <3> QED BY <3>1, <3>2 DEF SourceInPlace
  <2> QED BY <1>2, <2>2, <2>3
<1>3. SupervisedInv /\ [SupervisedNext]_vars => [Matches]_vars
  <2>1. ASSUME SupervisedInv, SupervisedNext PROVE Matches
    <3>1. CASE Settlement
      BY <1>2, <2>1, <3>1 DEF Settlement
    <3>2. CASE ~Settlement
      BY <1>1, <2>1, <3>2
    <3> QED BY <3>1, <3>2
  <2> QED BY <2>1
<1> QED
  BY <1>3, SupervisedInvariant, PTL DEF SupervisedSpec, SettlementMatchesDisk

-----------------------------------------------------------------------------
(* How often an entry is planned, and what a confirmation finds.           *)

(* What the generations tell: each closed one was left by a settlement, of *)
(* an entry that is in the inventory since.                                *)
HistoryInv ==
  /\ \A k \in settled : baseline[k[2]] # None
  /\ \A g \in Generations :
       g < inventory.generation => \E s \in settled : s[1] = g
  /\ \A k \in Rows(intents) : k[1] <= inventory.generation
  /\ RecreatedOnlyAfterASibling

(* Only settlements write the inventory, and no command changes the mode.  *)
LEMMA OnlySettlementsAccept ==
  ASSUME [SupervisedNext]_vars, ~Settlement
  PROVE  UNCHANGED <<mode, inventory, baseline, settled>>
<1> USE DEF localVars
<1>1. CASE Surroundings
  BY <1>1, SurroundingsKeepStore DEF storeVars
<1>2. CASE Allocation
  BY <1>2 DEF Allocation, AllocateJournal, AllocateEnds, AllocateIds,
     AllocateRecheck, AllocateInsert, AllocateAbandons, ReconcileJournal,
     CreateIntents, storeVars
<1>3. CASE Upload
  BY <1>3 DEF Upload, Stream, StreamDiffers, Send, FileStored,
     FileStoredInDoubt, FolderAnswered, FolderFound, RecordFingerprint,
     CompleteFileUpload, Transition, storeVars
<1>4. CASE Submission
  BY <1>4 DEF Submission, SubmitFile, SubmitFolder, RecoverFingerprint,
     RecoverFileFound, RecoverFileMissing, RecoverFolder, FolderFound,
     BeginSubmission, RecordFingerprint, CompleteFileUpload,
     RestartSubmission, Transition
<1>5. CASE Confirmation
  BY <1>5 DEF Confirmation, ConfirmPage, CollectPage, StageWindow,
     ConfirmLater, DiscardWindow, ConfirmExecute, ExecuteWindow,
     CommitWindow, RecoverConfirmation, RecoverConflict, ConfirmDecide,
     Transition
<1>6. CASE Refresh
  BY <1>6 DEF Refresh, RefreshPage, RefreshExecute, CollectPage,
     StageWindow, ExecuteWindow, CommitWindow, ObserveAuthority,
     CommitAuthority
<1>7. CASE UNCHANGED vars
  BY <1>7 DEF vars, storeVars
<1> QED
  BY <1>1, <1>2, <1>3, <1>4, <1>5, <1>6, <1>7 DEF SupervisedNext

(* A create that may have reached the provider and is not decided.         *)
Doubtful(row) == row.status \in {"submitted", "awaiting"}

(* A transaction on the row k writes no other one, and a create is in      *)
(* doubt afterwards only if it was already or starts at the cursor.        *)
Renews(k) ==
  /\ \A j \in EventKeys \ {k} : intents'[j] = intents[j]
  /\ cursor' = cursor
  /\ Doubtful(intents'[k]) =>
       \/ intents'[k].preCursor = cursor
       \/ Doubtful(intents[k]) /\ intents'[k].preCursor = intents[k].preCursor

(* Every transaction on a row does that.                                   *)
LEMMA RowRenewed ==
  ASSUME TypeOK, NEW k \in Rows(intents), NEW op, NEW e, NEW n
  PROVE  /\ BeginSubmission(k, op, e, cursor) => Renews(k)
         /\ RestartSubmission(k, e, n, cursor) => Renews(k)
         /\ CompleteFileUpload(k, e) => Renews(k)
         /\ RecoverConflict(k, e, n) => Renews(k)
         /\ \A c : RecordFingerprint(k, e, c) => Renews(k)
         /\ \A from, to : Transition(k, op, e, from, to) => Renews(k)
<1> USE DEF remoteVars
<1>1. k \in EventKeys /\ intents \in [EventKeys -> IntentRows \cup {None}]
      /\ intents[k] \in IntentRows
  BY DEF TypeOK, Rows
<1>2. ASSUME NEW row, intents' = [intents EXCEPT ![k] = row],
             cursor' = cursor,
             Doubtful(row) =>
               \/ row.preCursor = cursor
               \/ Doubtful(intents[k]) /\ row.preCursor = intents[k].preCursor
      PROVE  Renews(k)
  BY <1>1, <1>2 DEF Renews
<1>3. ASSUME BeginSubmission(k, op, e, cursor) PROVE Renews(k)
  <2> DEFINE row == [intents[k] EXCEPT !.status = "submitted",
                       !.attempts = @ + 1, !.execGen = @ + 1,
                       !.preCursor = cursor]
  <2>1. intents' = [intents EXCEPT ![k] = row] /\ cursor' = cursor
    BY <1>3 DEF BeginSubmission
  <2>2. row.preCursor = cursor
    BY <1>1 DEF IntentRows
  <2> HIDE DEF row
  <2> QED BY <1>2, <2>1, <2>2
<1>4. ASSUME RestartSubmission(k, e, n, cursor) PROVE Renews(k)
  <2> DEFINE row == [intents[k] EXCEPT !.attempts = @ + 1,
                       !.execGen = @ + 1, !.preCursor = cursor]
  <2>1. intents' = [intents EXCEPT ![k] = row] /\ cursor' = cursor
    BY <1>4 DEF RestartSubmission
  <2>2. row.preCursor = cursor
    BY <1>1 DEF IntentRows
  <2> HIDE DEF row
  <2> QED BY <1>2, <2>1, <2>2
<1>5. ASSUME CompleteFileUpload(k, e) PROVE Renews(k)
  <2> DEFINE row == [intents[k] EXCEPT !.status = "awaiting",
                       !.execGen = @ + 1, !.versioned = TRUE]
  <2>1. intents' = [intents EXCEPT ![k] = row] /\ cursor' = cursor
    BY <1>5 DEF CompleteFileUpload
  <2>2. row.preCursor = intents[k].preCursor
    BY <1>1 DEF IntentRows
  <2>3. Doubtful(intents[k])
    BY <1>5 DEF CompleteFileUpload, HasIntent, Doubtful
  <2> HIDE DEF row
  <2> QED BY <1>2, <2>1, <2>2, <2>3
<1>6. ASSUME NEW from, NEW to,
             \/ RecoverConflict(k, e, n) /\ to = "confirmed"
             \/ Transition(k, op, e, from, to)
      PROVE  Renews(k)
  <2> DEFINE row == [intents[k] EXCEPT !.status = to, !.execGen = @ + 1]
  <2>1. intents' = [intents EXCEPT ![k] = row] /\ cursor' = cursor
    BY <1>6 DEF RecoverConflict, Transition
  <2>2. row.status = to /\ row.preCursor = intents[k].preCursor
    BY <1>1 DEF IntentRows
  <2>3. to \in {"submitted", "awaiting"} => Doubtful(intents[k])
    BY <1>6 DEF Transition, Transitions, FileTransitions, FolderTransitions,
       HasIntent, Doubtful
  <2>4. Doubtful(row) => Doubtful(intents[k])
    BY <2>2, <2>3 DEF Doubtful
  <2> HIDE DEF row
  <2> QED BY <1>2, <2>1, <2>2, <2>4
<1>7. ASSUME NEW c, RecordFingerprint(k, e, c) PROVE Renews(k)
  <2> DEFINE row == [intents[k] EXCEPT !.content = c]
  <2>1. intents' = [intents EXCEPT ![k] = row] /\ cursor' = cursor
    BY <1>7 DEF RecordFingerprint
  <2>2. row.status = intents[k].status /\ row.preCursor = intents[k].preCursor
    BY <1>1 DEF IntentRows
  <2>3. Doubtful(row) => Doubtful(intents[k])
    BY <2>2 DEF Doubtful
  <2> HIDE DEF row
  <2> QED BY <1>2, <2>1, <2>2, <2>3
<1>8. ASSUME RecoverConflict(k, e, n) PROVE Renews(k)
  BY <1>6, <1>8
<1>9. \A from, to : Transition(k, op, e, from, to) => Renews(k)
  BY <1>6
<1> QED BY <1>3, <1>4, <1>5, <1>7, <1>8, <1>9

(* What the commands do to the queue: allocate-create-ids adds rows, every *)
(* other step is a transaction on at most one of them.                     *)
LEMMA QueueSteps ==
  ASSUME SupervisedInv, [SupervisedNext]_vars
  PROVE  UNCHANGED intents \/ AllocateInsert \/ \E k \in Rows(intents) : Renews(k)
<1>1. TypeOK
  BY DEF SupervisedInv, StoreInv
<1>2. CASE Surroundings
  BY <1>2, SurroundingsKeepStore DEF storeVars
<1>3. CASE Allocation
  BY <1>3 DEF Allocation, AllocateJournal, AllocateEnds, AllocateIds,
     AllocateRecheck, AllocateAbandons, ReconcileJournal, storeVars
<1>4. CASE Upload
  <2>1. ASSUME NEW content \in Contents, Stream(content)
        PROVE  \E k \in Rows(intents) : Renews(k)
    BY <1>1, <2>1, RowRenewed DEF Stream, SupervisedInv, RunInv
  <2>2. ASSUME FileStored PROVE \E k \in Rows(intents) : Renews(k)
    BY <1>1, <2>2, RowRenewed DEF FileStored, SupervisedInv, RunInv
  <2>3. ASSUME FileStoredInDoubt
        PROVE  UNCHANGED intents \/ \E k \in Rows(intents) : Renews(k)
    BY <1>1, <2>3, RowRenewed DEF FileStoredInDoubt, SupervisedInv, RunInv,
       storeVars
  <2>4. ASSUME FolderAnswered
        PROVE  UNCHANGED intents \/ \E k \in Rows(intents) : Renews(k)
    BY <1>1, <2>4, RowRenewed DEF FolderAnswered, FolderFound, SupervisedInv,
       RunInv, storeVars
  <2> QED
    BY <1>4, <2>1, <2>2, <2>3, <2>4 DEF Upload, StreamDiffers, Send, storeVars
<1>5. CASE Submission
  <2> SUFFICES ASSUME NEW k \in Rows(intents),
                      \/ SubmitFile(k) \/ SubmitFolder(k)
                      \/ RecoverFingerprint(k) \/ RecoverFileFound(k)
                      \/ RecoverFileMissing(k) \/ RecoverFolder(k)
               PROVE  Renews(k)
    BY <1>5 DEF Submission
  <2>1. CASE SubmitFile(k) \/ SubmitFolder(k) \/ RecoverFingerprint(k)
    BY <1>1, <2>1, RowRenewed DEF SubmitFile, SubmitFolder, RecoverFingerprint
  <2>2. CASE RecoverFileFound(k) \/ RecoverFileMissing(k)
    BY <1>1, <2>2, RowRenewed DEF RecoverFileFound, RecoverFileMissing
  <2>3. CASE RecoverFolder(k)
    BY <1>1, <2>3, RowRenewed DEF RecoverFolder, FolderFound
  <2> QED BY <2>1, <2>2, <2>3
<1>6. CASE Confirmation
  <2>1. ASSUME NEW k \in Rows(intents), RecoverConfirmation(k)
        PROVE  Renews(k)
    BY <1>1, <2>1, RowRenewed DEF RecoverConfirmation
  <2>2. ASSUME ConfirmDecide PROVE Renews(run.key) /\ run.key \in Rows(intents)
    BY <1>1, <2>2, RowRenewed DEF ConfirmDecide, SupervisedInv, RunInv
  <2> QED
    BY <1>6, <2>1, <2>2 DEF Confirmation, ConfirmPage, CollectPage,
       StageWindow, ConfirmLater, DiscardWindow, ConfirmExecute,
       ExecuteWindow, CommitWindow
<1>7. CASE Refresh
  BY <1>7 DEF Refresh, RefreshPage, RefreshExecute, CollectPage,
     StageWindow, ExecuteWindow, CommitWindow, ObserveAuthority,
     CommitAuthority
<1>8. CASE Settlement
  BY <1>8 DEF Settlement, SettleFile, SettleFolder, SettleFileCreate,
     SettleFolderCreate, SettlementEffect
<1>9. CASE UNCHANGED vars
  BY <1>9 DEF vars, storeVars
<1> QED
  BY <1>2, <1>3, <1>4, <1>5, <1>6, <1>7, <1>8, <1>9 DEF SupervisedNext

(* An allocated row is of the current generation and of an entry that is   *)
(* not in the inventory.                                                   *)
LEMMA PlannedIsUnaccepted ==
  ASSUME SupervisedInv, AllocateInsert,
         NEW k \in EventKeys, intents[k] = None, intents'[k] # None
  PROVE  /\ k[1] = inventory.generation /\ baseline[k[2]] = None
         /\ intents'[k].status = "planned"
<1> USE DEF SupervisedInv, StoreInv
<1>1. k \in DOMAIN run.seen
  BY DEF AllocateInsert, CreateIntents
<1>2. k[1] = inventory.generation /\ IsCreate(k)
  BY <1>1 DEF AllocateInsert, CreateIntents, AtGeneration
<1>3. k[2] \in Paths /\ k = <<inventory.generation, k[2]>>
  BY <1>2 DEF EventKeys
<1>4. k[2] \in PendingAt(inventory.generation)
  BY <1>2, <1>3 DEF PendingAt, IsCreate
<1>5. events[k].from = KindOf(baseline[k[2]])
  BY <1>3, <1>4 DEF AllocateInsert, PlanPasses
<1>6. baseline[k[2]] \in Items \cup {None} /\ KindOf(baseline[k[2]]) = "none"
  BY <1>2, <1>3, <1>5 DEF IsCreate, TypeOK, Trees
<1>7. baseline[k[2]] = None
  BY <1>6 DEF KindOf, Items
<1>8. intents'[k].status = "planned"
  BY <1>1 DEF AllocateInsert, CreateIntents, NewIntent
<1> QED BY <1>2, <1>7, <1>8

(* The history is kept.                                                    *)
LEMMA HistoryPreserved ==
  ASSUME SupervisedInv, HistoryInv, [SupervisedNext]_vars
  PROVE  HistoryInv'
<1> USE DEF SupervisedInv, StoreInv
<1>1. /\ inventory.generation \in Nat /\ baseline \in Trees
      /\ intents \in [EventKeys -> IntentRows \cup {None}]
      /\ settled \subseteq EventKeys
      /\ \A k \in EventKeys : k[1] \in Nat /\ k[2] \in Paths
  BY BoundsAssumption DEF TypeOK, EventKeys, Generations
<1>2. CASE Settlement
  <2>1. SettlementStep
    <3>1. disk \in Trees
      BY DEF SupervisedTypeOK
    <3> QED BY <1>2, <3>1 DEF Settlement, SettleFile, SettleFolder, SettlementStep
  <2>2. PICK s \in EventKeys, scan \in Trees :
          /\ s[1] = inventory.generation /\ baseline[s[2]] = None
          /\ intents[s] # None
          /\ SettlementEffect(s, scan, intents[s].content)
    BY <2>1, SettlementStepShape
  <2>3. /\ settled' = settled \cup {s} /\ intents' = intents
        /\ inventory'.generation = inventory.generation + 1
        /\ baseline' = [baseline EXCEPT ![s[2]] = intents[s].item]
    <3>1. inventory' = [inventory EXCEPT !.generation = s[1] + 1]
      BY <2>2 DEF SettlementEffect
    <3>2. inventory'.generation = s[1] + 1
      BY <3>1 DEF TypeOK
    <3> QED BY <2>2, <3>2 DEF SettlementEffect, Promote
  <2>4. intents[s].item # None
    <3>1. intents[s] \in IntentRows
      BY <1>1, <2>2
    <3> QED BY <3>1, NoneAssumption DEF IntentRows, Items
  <2>5. \A k \in settled' : baseline'[k[2]] # None
    BY <1>1, <2>2, <2>3, <2>4 DEF HistoryInv, Trees
  <2>6. \A g \in Generations :
          g < inventory'.generation => \E x \in settled' : x[1] = g
    BY <1>1, <2>2, <2>3 DEF HistoryInv, Generations
  <2>7. \A k \in Rows(intents)' : k[1] <= inventory'.generation
    <3>1. \A k \in Rows(intents) : k[1] <= inventory.generation + 1
      BY <1>1 DEF HistoryInv, Rows
    <3> QED BY <2>3, <3>1 DEF Rows
  <2>8. RecreatedOnlyAfterASibling'
    BY <2>3 DEF HistoryInv, RecreatedOnlyAfterASibling, Rows
  <2> QED BY <2>5, <2>6, <2>7, <2>8 DEF HistoryInv
<1>3. CASE ~Settlement
  <2>1. UNCHANGED <<inventory, baseline, settled>>
    BY <1>3, OnlySettlementsAccept
  <2>2. \A k \in Rows(intents)' : k \in Rows(intents) \/
          (AllocateInsert /\ k \in EventKeys /\ intents[k] = None
             /\ intents'[k] # None)
    <3>1. ASSUME NEW k \in EventKeys, intents[k] = None, intents'[k] # None
          PROVE  AllocateInsert
      BY <3>1, QueueSteps DEF Renews, Rows
    <3> QED BY <3>1 DEF Rows
  <2>3. \A k \in Rows(intents)' : \/ k \in Rows(intents)
                                  \/ /\ k[1] = inventory.generation
                                     /\ baseline[k[2]] = None
    BY <2>2, PlannedIsUnaccepted
  <2>4. \A k \in Rows(intents)' : k[1] <= inventory'.generation
    BY <1>1, <2>1, <2>3 DEF HistoryInv
  <2>5. ASSUME NEW j \in Rows(intents)', NEW k \in Rows(intents)',
               j[2] = k[2], j[1] < k[1]
        PROVE  \E x \in settled' : x[1] = j[1] /\ x[2] # j[2]
    <3>0. j \in EventKeys /\ k \in EventKeys
      BY DEF Rows
    <3>1. k[1] <= inventory.generation
      BY <2>1, <2>4
    <3>2. j \in Rows(intents)
      BY <1>1, <2>3, <2>5, <3>0, <3>1
    <3>3. CASE k \in Rows(intents)
      BY <2>1, <2>5, <3>2, <3>3 DEF HistoryInv, RecreatedOnlyAfterASibling
    <3>4. CASE k \notin Rows(intents)
      <4>1. baseline[k[2]] = None
        BY <2>3, <3>4
      <4>2. j[1] \in Generations /\ j[1] < inventory.generation
        BY <1>1, <2>5, <3>0, <3>1 DEF EventKeys
      <4>3. PICK x \in settled : x[1] = j[1]
        BY <4>2 DEF HistoryInv
      <4>4. x[2] # j[2]
        BY <2>5, <4>1 DEF HistoryInv
      <4> QED BY <2>1, <4>3, <4>4
    <3> QED BY <3>3, <3>4
  <2>6. RecreatedOnlyAfterASibling'
    BY <2>5 DEF RecreatedOnlyAfterASibling
  <2> QED BY <2>1, <2>4, <2>6 DEF HistoryInv
<1> QED BY <1>2, <1>3

(* Nothing has happened yet.                                               *)
LEMMA HistoryInitially ==
  ASSUME SupervisedInit PROVE HistoryInv
  BY SurroundingsAssumption, BoundsAssumption DEF SupervisedInit, HistoryInv,
     Rows, RecreatedOnlyAfterASibling, Generations

(* An entry gets a second id only after the settlement of another entry    *)
(* closed the generation of its first one.                                 *)
THEOREM DuplicatesFollowSiblings ==
  SupervisedSpec => []RecreatedOnlyAfterASibling
<1>1. SupervisedInit => HistoryInv
  BY HistoryInitially
<1>2. SupervisedInv /\ HistoryInv /\ [SupervisedNext]_vars => HistoryInv'
  BY HistoryPreserved
<1>3. HistoryInv => RecreatedOnlyAfterASibling
  BY DEF HistoryInv
<1> QED
  BY <1>1, <1>2, <1>3, SupervisedInvariant, PTL DEF SupervisedSpec


(* The directory holds at most one entry.                                  *)
OneEntry == \A p, q \in Paths : p = q

(* Then there is never more than one intent.                               *)
LEMMA OneRow ==
  ASSUME OneEntry, SupervisedInv, HistoryInv,
         NEW j \in Rows(intents), NEW k \in Rows(intents)
  PROVE  j = k
<1>1. /\ j = <<j[1], j[2]>> /\ k = <<k[1], k[2]>> /\ j[2] = k[2]
      /\ j[1] \in Nat /\ k[1] \in Nat
  BY DEF OneEntry, Rows, EventKeys, Generations
<1>2. settled \subseteq EventKeys
  BY DEF SupervisedInv, StoreInv, TypeOK
<1>3. \A s \in settled : s[2] = j[2] /\ s[2] = k[2]
  BY <1>2 DEF OneEntry, Rows, EventKeys
<1>4. ~(j[1] < k[1]) /\ ~(k[1] < j[1])
  BY <1>1, <1>3 DEF HistoryInv, RecreatedOnlyAfterASibling
<1> QED BY <1>1, <1>4

(* An entry that is alone in the directory is created at most once at the  *)
(* provider, through crashes, late answers and second attempts (the run    *)
(* two_entries shows that its siblings are the one reason).                *)
THEOREM OneEntryIsCreatedOnce ==
  ASSUME OneEntry PROVE SupervisedSpec => []NoDuplicateRemote
<1>1. SupervisedInit => HistoryInv
  BY HistoryInitially
<1>2. SupervisedInv /\ HistoryInv /\ [SupervisedNext]_vars => HistoryInv'
  BY HistoryPreserved
<1>3. SupervisedInv /\ HistoryInv => NoDuplicateRemote
  BY OneRow DEF NoDuplicateRemote
<1> QED
  BY <1>1, <1>2, <1>3, SupervisedInvariant, PTL DEF SupervisedSpec

(* While nothing failed, a create in doubt was begun at the durable cursor,*)
(* and so was the open window; a confirmation moves the cursor before the  *)
(* intent.                                                                 *)
DoubtInv ==
  /\ window # None => window.base = cursor
  /\ interruptions = 0 /\ run.at # "decide" =>
       \A k \in Rows(intents) :
         Doubtful(intents[k]) => intents[k].preCursor = cursor

(* Only its second transaction, or an interruption, ends a confirmation.   *)
LEMMA DecisionEnds ==
  ASSUME SupervisedInv, [SupervisedNext]_vars,
         run.at = "decide", run'.at # "decide", interruptions' = 0
  PROVE  ConfirmDecide
<1>1. run # Idle
  BY DEF Idle
<1>2. interruptions \in Nat
  BY SurroundingsAssumption DEF SupervisedInv, SupervisedTypeOK
<1>3. ~Surroundings
  <2>1. \A m : ~Waiting(m)
    BY DEF Waiting
  <2>2. \A m \in inflight : Land(m) \/ Refuse(m) => run' = run
    BY <2>1 DEF Land, Refuse
  <2>3. \A m \in inflight : Lose(m) => interruptions' = interruptions + 1
    BY DEF Lose
  <2>4. Interrupt => interruptions' = interruptions + 1
    BY DEF Interrupt
  <2>5. /\ \A p, item : Edit(p, item) => run' = run
        /\ \A r, place, content : ForeignChange(r, place, content) => run' = run
    BY DEF Edit, ForeignChange
  <2>6. interruptions + 1 # 0
    BY <1>2
  <2> QED BY <2>2, <2>3, <2>4, <2>5, <2>6 DEF Surroundings
<1>4. ~Allocation
  BY <1>1 DEF Allocation, AllocateJournal, AllocateEnds, AllocateIds,
     AllocateRecheck, AllocateInsert, AllocateAbandons
<1>5. ~Upload
  BY DEF Upload, Stream, StreamDiffers, Send, FileStored, FileStoredInDoubt,
     FolderAnswered
<1>6. ~Submission
  BY <1>1 DEF Submission, SubmitFile, SubmitFolder, RecoverFingerprint,
     RecoverFileFound, RecoverFileMissing, RecoverFolder
<1>7. Confirmation => ConfirmDecide
  BY <1>1 DEF Confirmation, ConfirmPage, Confirmable, ConfirmLater,
     ConfirmExecute, RecoverConfirmation
<1>8. ~Refresh
  BY <1>1 DEF Refresh, RefreshPage, RefreshExecute, Refreshable,
     ObserveAuthority
<1>9. ~Settlement
  BY <1>1 DEF Settlement, SettleFile, SettleFolder
<1>10. ~UNCHANGED vars
  BY DEF vars
<1> QED
  BY <1>3, <1>4, <1>5, <1>6, <1>7, <1>8, <1>9, <1>10 DEF SupervisedNext

(* The cursor moves only where no create is in doubt, or a confirmation    *)
(* decides it next.                                                        *)
LEMMA CursorMoves ==
  ASSUME SupervisedInv, [SupervisedNext]_vars
  PROVE  \/ cursor' = cursor
         \/ UNCHANGED intents /\ run'.at = "decide"
         \/ UNCHANGED intents /\ \A k \in Rows(intents) : ~Doubtful(intents[k])
<1> USE DEF remoteVars
<1>1. CASE Confirmation
  <2>1. ASSUME NEW k \in Rows(intents), ConfirmExecute(k)
        PROVE  UNCHANGED intents /\ run'.at = "decide"
    BY <2>1 DEF ConfirmExecute, ExecuteWindow, CommitWindow, At
  <2>2. ASSUME NEW k \in Rows(intents),
               \/ \E upTo \in Cursors, complete \in BOOLEAN :
                    ConfirmPage(k, upTo, complete)
               \/ ConfirmLater(k)
               \/ RecoverConfirmation(k)
        PROVE  cursor' = cursor
    BY <2>2 DEF ConfirmPage, CollectPage, StageWindow, ConfirmLater,
       DiscardWindow, RecoverConfirmation, RecoverConflict
  <2>3. ConfirmDecide => cursor' = cursor
    BY DEF ConfirmDecide, Transition
  <2> QED BY <1>1, <2>1, <2>2, <2>3 DEF Confirmation
<1>2. CASE Refresh
  BY <1>2 DEF Refresh, RefreshPage, RefreshExecute, CollectPage,
     StageWindow, ExecuteWindow, CommitWindow, ObserveAuthority,
     CommitAuthority, Refreshable, Doubtful
<1>5. CASE Allocation
  BY <1>5 DEF Allocation, AllocateJournal, AllocateEnds, AllocateIds,
     AllocateRecheck, AllocateInsert, AllocateAbandons, ReconcileJournal,
     CreateIntents, storeVars
<1>6. CASE Upload
  BY <1>6 DEF Upload, Stream, StreamDiffers, Send, FileStored,
     FileStoredInDoubt, FolderAnswered, FolderFound, RecordFingerprint,
     CompleteFileUpload, Transition, storeVars
<1>7. CASE Submission
  BY <1>7 DEF Submission, SubmitFile, SubmitFolder, RecoverFingerprint,
     RecoverFileFound, RecoverFileMissing, RecoverFolder, FolderFound,
     BeginSubmission, RecordFingerprint, CompleteFileUpload,
     RestartSubmission, Transition
<1>8. CASE Settlement
  BY <1>8 DEF Settlement, SettleFile, SettleFolder, SettleFileCreate,
     SettleFolderCreate, SettlementEffect
<1>9. CASE Surroundings
  BY <1>9, SurroundingsKeepStore DEF storeVars
<1>10. CASE UNCHANGED vars
  BY <1>10 DEF vars, storeVars
<1> QED
  BY <1>1, <1>2, <1>5, <1>6, <1>7, <1>8, <1>9, <1>10
     DEF SupervisedNext

(* With one entry, that is kept.                                           *)
LEMMA DoubtPreserved ==
  ASSUME OneEntry, SupervisedInv, HistoryInv, DoubtInv,
         [SupervisedNext]_vars
  PROVE  DoubtInv'
<1>1. [StoreNext]_storeVars /\ TypeOK
  BY StepIsTransaction DEF SupervisedInv, StoreInv
<1>2. interruptions' = 0 => interruptions = 0
  <2>1. interruptions \in Nat
    BY SurroundingsAssumption DEF SupervisedInv, SupervisedTypeOK
  <2>2. Surroundings => interruptions' \in {interruptions, interruptions + 1}
    BY DEF Surroundings, Edit, ForeignChange, Land, Refuse, Lose, Interrupt
  <2> QED BY <2>1, <2>2, CommandsOnlyLook
<1>3. (window # None => window.base = cursor)'
  <2>1. CASE RemoteStep
    <3>1. ASSUME NEW complete \in BOOLEAN, StageWindow(complete)
          PROVE  window'.base = cursor /\ cursor' = cursor
      BY <3>1, <1>1 DEF StageWindow, DoubtInv
    <3> QED
      BY <2>1, <3>1 DEF RemoteStep, DiscardWindow, CommitWindow,
         CommitAuthority, DoubtInv
  <2>2. CASE ~RemoteStep
    <3>1. UNCHANGED <<window, cursor>>
      <4>1. CASE LocalStep
        BY <4>1 DEF LocalStep, ActivateTwoWay, DeactivateTwoWay,
           InvalidateObservation, CommitLocalSnapshot, ReconcileJournal,
           remoteVars
      <4>2. CASE SettlementStep
        BY <4>2 DEF SettlementStep, SettleFileCreate, SettleFolderCreate,
           SettlementEffect, remoteVars
      <4> QED BY <1>1, <2>2, <4>1, <4>2, IntentStepFrame DEF StoreNext, storeVars
    <3> QED BY <3>1 DEF DoubtInv
  <2> QED BY <2>1, <2>2
<1>4. ASSUME interruptions' = 0, run'.at # "decide",
             NEW k \in Rows(intents)', Doubtful(intents[k])'
      PROVE  intents'[k].preCursor = cursor'
  <2>0. k \in EventKeys /\ intents'[k] # None
    BY DEF Rows
  <2>1. CASE run.at = "decide"
    <3>1. ConfirmDecide
      BY <1>4, <2>1, DecisionEnds
    <3>2. run.key \in Rows(intents)
      BY <2>1 DEF SupervisedInv, RunInv
    <3>3. intents'[run.key].status \in {"confirmed", "conflict"}
          /\ \A j \in EventKeys \ {run.key} : intents'[j] = intents[j]
      <4>1. PICK to \in {"confirmed", "conflict"} :
              Transition(run.key, intents[run.key].op,
                         intents[run.key].execGen, "awaiting", to)
        BY <3>1 DEF ConfirmDecide
      <4>2. Writes(run.key, to)
        BY <1>1, <3>2, <4>1, StatusWritten
      <4> QED BY <4>1, <4>2 DEF Writes
    <3>4. k # run.key
      BY <1>4, <3>3 DEF Doubtful
    <3>5. k \in Rows(intents)
      BY <2>0, <3>3, <3>4 DEF Rows
    <3> QED BY <3>2, <3>4, <3>5, OneRow
  <2>2. CASE run.at # "decide"
    <3>1. \A j \in Rows(intents) :
            Doubtful(intents[j]) => intents[j].preCursor = cursor
      BY <1>2, <1>4, <2>2 DEF DoubtInv
    <3>2. CASE UNCHANGED intents /\ cursor' = cursor
      BY <1>4, <3>1, <3>2 DEF Rows, Doubtful
    <3>3. CASE UNCHANGED intents /\ cursor' # cursor
      <4>1. \A j \in Rows(intents) : ~Doubtful(intents[j])
        BY <1>4, <3>3, CursorMoves
      <4> QED BY <1>4, <3>3, <4>1 DEF Rows, Doubtful
    <3>4. CASE AllocateInsert
      <4>1. cursor' = cursor
        BY <3>4 DEF AllocateInsert, CreateIntents, remoteVars
      <4>2. k \in Rows(intents) /\ intents'[k] = intents[k]
        <5>1. intents[k] # None
          BY <1>4, <2>0, <3>4, PlannedIsUnaccepted DEF Doubtful
        <5>2. k \notin DOMAIN run.seen
          BY <3>4, <5>1 DEF AllocateInsert, CreateIntents
        <5> QED BY <2>0, <3>4, <5>1, <5>2 DEF AllocateInsert, CreateIntents, Rows
      <4> QED BY <1>4, <3>1, <4>1, <4>2 DEF Doubtful
    <3>5. ASSUME NEW j \in Rows(intents), Renews(j)
          PROVE  intents'[k].preCursor = cursor'
      <4>1. CASE k = j
        BY <1>4, <3>1, <3>5, <4>1 DEF Renews
      <4>2. CASE k # j
        BY <1>4, <2>0, <3>1, <3>5, <4>2 DEF Renews, Rows, Doubtful
      <4> QED BY <4>1, <4>2
    <3> QED BY <3>2, <3>3, <3>4, <3>5, QueueSteps
  <2> QED BY <2>1, <2>2
<1> QED BY <1>3, <1>4 DEF DoubtInv

(* While no call failed, the create of a single entry can still be         *)
(* confirmed, however changes, windows and refreshes were interleaved.     *)
THEOREM UninterruptedStaysConfirmable ==
  ASSUME OneEntry PROVE SupervisedSpec => []AwaitingStaysConfirmable
<1>1. SupervisedInit => HistoryInv /\ DoubtInv
  <2>1. SupervisedInit => DoubtInv
    BY DEF SupervisedInit, DoubtInv, Rows
  <2> QED BY <2>1, HistoryInitially
<1>2. SupervisedInv /\ HistoryInv /\ DoubtInv /\ [SupervisedNext]_vars
        => HistoryInv' /\ DoubtInv'
  BY HistoryPreserved, DoubtPreserved
<1>3. DoubtInv => AwaitingStaysConfirmable
  BY DEF DoubtInv, AwaitingStaysConfirmable, Idle, Doubtful
<1> QED
  BY <1>1, <1>2, <1>3, SupervisedInvariant, PTL DEF SupervisedSpec

=============================================================================
