----------------------- MODULE RemoteWriteStore_proofs -----------------------
(***************************************************************************)
(* Machine-checked safety of the durable store, for every set of paths,    *)
(* items, contents and provider ids and for every bound.                   *)
(***************************************************************************)
EXTENDS RemoteWriteStore, TLAPS

(* The rows a comparison writes into the journal are event rows.           *)
LEMMA JournalType ==
  ASSUME NEW ev \in [EventKeys -> EventRows \cup {None}],
         NEW base \in Trees, NEW scan \in Trees, NEW g \in Nat
  PROVE  Journal(ev, base, scan, g) \in [EventKeys -> EventRows \cup {None}]
<1>1. ASSUME NEW k \in EventKeys
      PROVE  Supersede(ev[k]) \in EventRows \cup {None}
  BY DEF Supersede, EventRows
<1>2. ASSUME NEW x PROVE KindOf(x) \in Kinds
  BY DEF KindOf, Kinds
<1>3. ASSUME NEW k \in EventKeys
      PROVE  [from |-> KindOf(base[k[2]]), to |-> KindOf(scan[k[2]]),
              status |-> "pending"] \in EventRows
  BY <1>2 DEF EventRows
<1> QED
  BY <1>1, <1>3 DEF Journal

(* The field updates the transitions make keep an intent row well typed.   *)
LEMMA IntentRowUpdate ==
  ASSUME NEW row \in IntentRows, NEW status \in Statuses,
         NEW cur \in Cursors \cup {None}
  PROVE  /\ [row EXCEPT !.status = status, !.execGen = @ + 1] \in IntentRows
         /\ [row EXCEPT !.status = status, !.execGen = @ + 1,
               !.versioned = TRUE] \in IntentRows
         /\ [row EXCEPT !.attempts = @ + 1, !.execGen = @ + 1,
               !.preCursor = cur] \in IntentRows
         /\ [row EXCEPT !.status = status, !.attempts = @ + 1,
               !.execGen = @ + 1, !.preCursor = cur] \in IntentRows
<1> DEFINE e == row.execGen + 1
           a == row.attempts + 1
<1>1. e \in Nat /\ a \in Nat
  BY DEF IntentRows
<1> HIDE DEF e, a
<1>2. /\ [row EXCEPT !.status = status, !.execGen = e] \in IntentRows
      /\ [row EXCEPT !.status = status, !.execGen = e,
            !.versioned = TRUE] \in IntentRows
      /\ [row EXCEPT !.attempts = a, !.execGen = e,
            !.preCursor = cur] \in IntentRows
      /\ [row EXCEPT !.status = status, !.attempts = a,
            !.execGen = e, !.preCursor = cur] \in IntentRows
  BY <1>1 DEF IntentRows
<1> QED BY <1>2 DEF e, a

(* Every storage transaction keeps the tables well typed.                  *)
LEMMA TypePreserved ==
  ASSUME TypeOK, [StoreNext]_storeVars
  PROVE  TypeOK'
<1> USE BoundsAssumption, NoneAssumption
<1>1. ASSUME LocalStep PROVE TypeOK'
  <2>1. CASE ActivateTwoWay
    BY <2>1 DEF ActivateTwoWay, TypeOK, localVars, remoteVars
  <2>2. CASE DeactivateTwoWay
    BY <2>2 DEF DeactivateTwoWay, TypeOK, localVars, remoteVars
  <2>3. CASE InvalidateObservation
    BY <2>3 DEF InvalidateObservation, TypeOK, remoteVars
  <2>4. ASSUME NEW scan \in Trees, CommitLocalSnapshot(scan) PROVE TypeOK'
    <3>1. events' \in [EventKeys -> EventRows \cup {None}]
      BY <2>4 DEF CommitLocalSnapshot, TypeOK, Supersede, EventRows
    <3>2. inventory' \in [complete : BOOLEAN, valid : BOOLEAN,
                          generation : 0..MaxGeneration]
      BY <2>4 DEF CommitLocalSnapshot, TypeOK
    <3> QED BY <2>4, <3>1, <3>2 DEF CommitLocalSnapshot, TypeOK, remoteVars
  <2>5. ASSUME NEW scan \in Trees, ReconcileJournal(scan) PROVE TypeOK'
    <3>1. inventory.generation \in Nat
      BY DEF TypeOK
    <3>2. events' \in [EventKeys -> EventRows \cup {None}]
      BY <2>5, <3>1, JournalType DEF ReconcileJournal, TypeOK
    <3> QED BY <2>5, <3>2 DEF ReconcileJournal, TypeOK, remoteVars
  <2> QED BY <1>1, <2>1, <2>2, <2>3, <2>4, <2>5 DEF LocalStep
<1>2. ASSUME RemoteStep PROVE TypeOK'
  <2>1. ASSUME NEW complete \in BOOLEAN, StageWindow(complete) PROVE TypeOK'
    <3>1. window' \in Windows
      BY <2>1 DEF StageWindow, TypeOK, Windows
    <3> QED BY <2>1, <3>1 DEF StageWindow, TypeOK, localVars
  <2>2. CASE DiscardWindow
    BY <2>2 DEF DiscardWindow, TypeOK, localVars
  <2>3. ASSUME NEW checkpoint \in Cursors, NEW cat \in [RemoteIds -> Sightings],
               NEW touched \in SUBSET RemoteIds, NEW moved \in SUBSET RemoteIds,
               CommitWindow(checkpoint, cat, touched, moved)
        PROVE  TypeOK'
    <3>1. receipts' \in [RemoteIds -> ReceiptRows \cup {None}]
      BY <2>3 DEF CommitWindow, Invalidated, TypeOK, ReceiptRows
    <3> QED BY <2>3, <3>1 DEF CommitWindow, TypeOK, localVars
  <2>4. ASSUME NEW canAdd \in BOOLEAN, CommitAuthority(canAdd) PROVE TypeOK'
    BY <2>4 DEF CommitAuthority, TypeOK, Authorities, localVars
  <2> QED BY <1>2, <2>1, <2>2, <2>3, <2>4 DEF RemoteStep
<1>3. ASSUME IntentStep PROVE TypeOK'
  <2>1. ASSUME NEW K \in SUBSET EventKeys, NEW ids \in [K -> RemoteIds],
               NEW scan \in Trees, CreateIntents(ids, scan)
        PROVE  TypeOK'
    <3>1. ASSUME NEW k \in K
          PROVE  NewIntent(events[k].to, scan[k[2]], ids[k]) \in IntentRows
      <4>1. events[k] # None /\ events[k].to # "none"
            /\ events[k].to = KindOf(scan[k[2]])
        BY <2>1 DEF CreateIntents, IsCreate, IsPending
      <4>2. scan[k[2]] \in Items
        BY <4>1 DEF Trees, EventKeys, KindOf, Items
      <4> QED
        BY <4>2 DEF NewIntent, IntentRows, OperationFor, Operations, Statuses
    <3>2. intents' \in [EventKeys -> IntentRows \cup {None}]
      BY <2>1, <3>1 DEF CreateIntents, TypeOK
    <3> QED BY <2>1, <3>2 DEF CreateIntents, TypeOK, localVars, remoteVars
  <2>2. ASSUME NEW k \in Rows(intents), NEW row \in IntentRows,
               intents' = [intents EXCEPT ![k] = row],
               UNCHANGED <<mode, localVars, settled, receipts, remoteVars>>
        PROVE  TypeOK'
    BY <2>2 DEF TypeOK, localVars, remoteVars, Rows
  <2>3. ASSUME NEW k \in Rows(intents)
        PROVE  /\ k \in EventKeys
               /\ intents[k] \in IntentRows
    BY DEF Rows, TypeOK
  <2>cur. cursor \in Cursors \cup {None}
    BY DEF TypeOK
  <2>4. ASSUME NEW k \in Rows(intents),
               BeginSubmission(k, intents[k].op, intents[k].execGen, cursor)
        PROVE  TypeOK'
    <3> DEFINE row == [intents[k] EXCEPT !.status = "submitted",
                         !.attempts = @ + 1, !.execGen = @ + 1,
                         !.preCursor = cursor]
    <3>1. row \in IntentRows
      BY <2>3, <2>cur, IntentRowUpdate DEF Statuses
    <3>2. /\ intents' = [intents EXCEPT ![k] = row]
          /\ UNCHANGED <<mode, localVars, settled, receipts, remoteVars>>
      BY <2>4 DEF BeginSubmission
    <3> HIDE DEF row
    <3> QED BY <2>2, <3>1, <3>2
  <2>5. ASSUME NEW k \in Rows(intents), NEW c \in Contents,
               RecordFingerprint(k, intents[k].execGen, c)
        PROVE  TypeOK'
    <3> DEFINE row == [intents[k] EXCEPT !.content = c]
    <3>1. row \in IntentRows
      BY <2>3 DEF IntentRows
    <3>2. /\ intents' = [intents EXCEPT ![k] = row]
          /\ UNCHANGED <<mode, localVars, settled, receipts, remoteVars>>
      BY <2>5 DEF RecordFingerprint
    <3> HIDE DEF row
    <3> QED BY <2>2, <3>1, <3>2
  <2>6. ASSUME NEW k \in Rows(intents),
               CompleteFileUpload(k, intents[k].execGen)
        PROVE  TypeOK'
    <3> DEFINE row == [intents[k] EXCEPT !.status = "awaiting",
                         !.execGen = @ + 1, !.versioned = TRUE]
    <3>1. row \in IntentRows
      BY <2>3, <2>cur, IntentRowUpdate DEF Statuses
    <3>2. /\ intents' = [intents EXCEPT ![k] = row]
          /\ UNCHANGED <<mode, localVars, settled, receipts, remoteVars>>
      BY <2>6 DEF CompleteFileUpload
    <3> HIDE DEF row
    <3> QED BY <2>2, <3>1, <3>2
  <2>7. ASSUME NEW k \in Rows(intents),
               RestartSubmission(k, intents[k].execGen, intents[k].attempts, cursor)
        PROVE  TypeOK'
    <3> DEFINE row == [intents[k] EXCEPT !.attempts = @ + 1,
                         !.execGen = @ + 1, !.preCursor = cursor]
    <3>1. row \in IntentRows
      BY <2>3, <2>cur, IntentRowUpdate DEF Statuses
    <3>2. /\ intents' = [intents EXCEPT ![k] = row]
          /\ UNCHANGED <<mode, localVars, settled, receipts, remoteVars>>
      BY <2>7 DEF RestartSubmission
    <3> HIDE DEF row
    <3> QED BY <2>2, <3>1, <3>2
  <2>8. ASSUME NEW k \in Rows(intents), NEW to \in Statuses,
               Transition(k, intents[k].op, intents[k].execGen, intents[k].status, to)
        PROVE  TypeOK'
    <3> DEFINE row == [intents[k] EXCEPT !.status = to, !.execGen = @ + 1]
    <3>1. row \in IntentRows
      BY <2>3, <2>cur, IntentRowUpdate DEF Statuses
    <3>2. /\ intents' = [intents EXCEPT ![k] = row]
          /\ UNCHANGED <<mode, localVars, settled, receipts, remoteVars>>
      BY <2>8 DEF Transition
    <3> HIDE DEF row
    <3> QED BY <2>2, <3>1, <3>2
  <2>9. ASSUME NEW k \in Rows(intents),
               RecoverConflict(k, intents[k].execGen, intents[k].attempts)
        PROVE  TypeOK'
    <3> DEFINE row == [intents[k] EXCEPT !.status = "confirmed",
                         !.execGen = @ + 1]
    <3>1. row \in IntentRows
      BY <2>3, <2>cur, IntentRowUpdate DEF Statuses
    <3>2. /\ intents' = [intents EXCEPT ![k] = row]
          /\ UNCHANGED <<mode, localVars, settled, receipts, remoteVars>>
      BY <2>9 DEF RecoverConflict
    <3> HIDE DEF row
    <3> QED BY <2>2, <3>1, <3>2
  <2> QED
    BY <1>3, <2>1, <2>4, <2>5, <2>6, <2>7, <2>8, <2>9 DEF IntentStep
<1>4. ASSUME NEW k \in Rows(intents), NEW scan \in Trees,
             NEW content \in Contents \cup {None},
             IsPending(k), k[1] < MaxGeneration,
             SettlementEffect(k, scan, content)
      PROVE  TypeOK'
  <2>1. k \in EventKeys /\ k[1] \in Generations /\ k[2] \in Paths
        /\ intents[k] \in IntentRows
    BY DEF Rows, TypeOK, EventKeys
  <2>2. baseline' \in Trees
    BY <1>4, <2>1 DEF SettlementEffect, Promote, TypeOK, Trees, IntentRows
  <2>3. inventory' \in [complete : BOOLEAN, valid : BOOLEAN,
                        generation : 0..MaxGeneration]
    BY <1>4, <2>1 DEF SettlementEffect, TypeOK, Generations
  <2>4. receipts' \in [RemoteIds -> ReceiptRows \cup {None}]
    BY <1>4, <2>1 DEF SettlementEffect, TypeOK, ReceiptRows
  <2>5. events' \in [EventKeys -> EventRows \cup {None}]
    <3> DEFINE closed ==
          [j \in EventKeys |->
             IF j = k THEN [events[k] EXCEPT !.status = "applied"]
             ELSE IF j[1] = k[1] THEN Supersede(events[j])
             ELSE events[j]]
    <3>1. closed \in [EventKeys -> EventRows \cup {None}]
      <4>1. [events[k] EXCEPT !.status = "applied"] \in EventRows
        BY <1>4, <2>1 DEF IsPending, TypeOK, EventRows
      <4>2. ASSUME NEW j \in EventKeys
            PROVE  events[j] \in EventRows \cup {None}
                   /\ Supersede(events[j]) \in EventRows \cup {None}
        BY DEF TypeOK, Supersede, EventRows
      <4> QED BY <4>1, <4>2
    <3>2. k[1] + 1 \in Nat
      BY <2>1 DEF Generations
    <3>3. Promote(baseline, k[2], intents[k].item) \in Trees
      BY <1>4, <2>2 DEF SettlementEffect
    <3>4. events' = Journal(closed, baseline', scan, k[1] + 1)
      BY <1>4 DEF SettlementEffect, SettledEvents
    <3> QED BY <2>2, <3>1, <3>2, <3>4, JournalType
  <2> QED BY <1>4, <2>1, <2>2, <2>3, <2>4, <2>5 DEF SettlementEffect, TypeOK, remoteVars
<1>5. CASE UNCHANGED storeVars
  BY <1>5 DEF TypeOK, storeVars
<1>6. ASSUME SettlementStep PROVE TypeOK'
  <2>1. PICK k \in Rows(intents), scan \in Trees :
          \/ SettleFileCreate(k, intents[k].execGen, scan)
          \/ SettleFolderCreate(k, intents[k].execGen, scan)
    BY <1>6 DEF SettlementStep
  <2>2. intents[k].content \in Contents \cup {None}
    BY DEF Rows, TypeOK, IntentRows
  <2>3. k[1] < MaxGeneration /\ IsPending(k)
    BY <2>1 DEF SettleFileCreate, SettleFolderCreate, SettlementGuard, IsCreate
  <2>4. CASE SettlementEffect(k, scan, intents[k].content)
    BY <1>4, <2>2, <2>3, <2>4
  <2>5. CASE SettlementEffect(k, scan, None)
    BY <1>4, <2>3, <2>5
  <2> QED BY <2>1, <2>4, <2>5 DEF SettleFileCreate, SettleFolderCreate
<1> QED
  BY <1>1, <1>2, <1>3, <1>5, <1>6 DEF StoreNext

-----------------------------------------------------------------------------
(* Which tables the three kinds of steps leave alone.                      *)
LEMMA RemoteStepFrame ==
  ASSUME RemoteStep
  PROVE  UNCHANGED <<mode, inventory, baseline, events, intents, settled>>
  BY DEF RemoteStep, StageWindow, DiscardWindow, CommitWindow,
         CommitAuthority, localVars

(* The steps of the intent queue write no table but the queue itself.      *)
LEMMA IntentStepFrame ==
  ASSUME IntentStep
  PROVE  UNCHANGED <<mode, inventory, baseline, events, settled, receipts,
                     catalog, window, cursor, authority>>
  BY DEF IntentStep, CreateIntents, BeginSubmission, RecordFingerprint,
         CompleteFileUpload, RestartSubmission, Transition, RecoverConflict,
         localVars, remoteVars

(* What every settlement step does, whichever kind of object it settles.   *)
LEMMA SettlementStepShape ==
  ASSUME TypeOK, EvidenceBeforeBelief, SettlementStep
  PROVE  \E k \in EventKeys, scan \in Trees :
           /\ k \notin settled
           /\ intents[k] # None /\ intents[k].status = "confirmed"
           /\ k[1] = inventory.generation /\ BaselineUsable
           /\ mode = "two_way"
           /\ IsPending(k)
           /\ baseline[k[2]] = None
           /\ catalog[intents[k].remote] = "exact"
           /\ receipts[intents[k].remote] = None
           /\ k[1] < MaxGeneration
           /\ SettlementEffect(k, scan, intents[k].content)
<1>1. PICK k \in Rows(intents), scan \in Trees :
        \/ SettleFileCreate(k, intents[k].execGen, scan)
        \/ SettleFolderCreate(k, intents[k].execGen, scan)
  BY DEF SettlementStep
<1>2. k \in EventKeys
  BY DEF Rows
<1>3. CASE SettleFileCreate(k, intents[k].execGen, scan)
  BY <1>2, <1>3 DEF SettleFileCreate, SettlementGuard, HasIntent,
     AtGeneration, IsCreate
<1>4. CASE SettleFolderCreate(k, intents[k].execGen, scan)
  <2>1. intents[k].content = None
    BY <1>4 DEF SettleFolderCreate, SettlementGuard, HasIntent,
       EvidenceBeforeBelief
  <2> QED
    BY <1>2, <1>4, <2>1 DEF SettleFolderCreate, SettlementGuard, HasIntent,
       AtGeneration, IsCreate
<1> QED BY <1>1, <1>3, <1>4

(* The journal invariants together: nothing pending outside the current    *)
(* generation, applied exactly when settled, one settlement per generation.*)
JournalInv ==
  /\ JournalFollowsGeneration
  /\ AppliedExactlyWhenSettled
  /\ OneSettlementPerGeneration

(* Every transaction keeps the journal invariant: a journal pass writes only*)
(* the current generation, a settlement closes it and opens the next one.  *)
LEMMA JournalPreserved ==
  ASSUME TypeOK, EvidenceBeforeBelief, JournalInv, [StoreNext]_storeVars
  PROVE  JournalInv'
<1> USE BoundsAssumption, NoneAssumption
<1>1. ASSUME UNCHANGED <<inventory, events, settled>> PROVE JournalInv'
  BY <1>1 DEF JournalInv, JournalFollowsGeneration, Rows, IsPending,
     AppliedExactlyWhenSettled, OneSettlementPerGeneration
<1>2. CASE UNCHANGED storeVars
  BY <1>1, <1>2 DEF storeVars
<1>3. CASE RemoteStep
  BY <1>1, <1>3, RemoteStepFrame
<1>4. CASE IntentStep
  BY <1>1, <1>4, IntentStepFrame
<1>5. ASSUME LocalStep PROVE JournalInv'
  <2>1. CASE ActivateTwoWay \/ DeactivateTwoWay
    BY <1>1, <2>1 DEF ActivateTwoWay, DeactivateTwoWay, localVars
  <2>2. CASE InvalidateObservation
    BY <2>2 DEF InvalidateObservation, TypeOK, JournalInv,
       JournalFollowsGeneration, Rows, IsPending,
       AppliedExactlyWhenSettled, OneSettlementPerGeneration
  <2>3. ASSUME NEW scan \in Trees, CommitLocalSnapshot(scan)
        PROVE  JournalInv'
    <3>1. /\ inventory'.generation = inventory.generation + 1
          /\ settled' = settled
          /\ inventory.generation \in Nat
      BY <2>3 DEF CommitLocalSnapshot, TypeOK
    <3>2. ASSUME NEW k \in EventKeys
          PROVE  /\ events'[k] = Supersede(events[k])
                 /\ events'[k] = None <=> events[k] = None
                 /\ events'[k] # None => events'[k].status # "pending"
                 /\ events[k] # None =>
                      (events'[k].status = "applied"
                         <=> events[k].status = "applied")
      <4>1. events'[k] = Supersede(events[k])
        BY <2>3 DEF CommitLocalSnapshot
      <4>2. CASE events[k] = None
        BY <4>1, <4>2 DEF Supersede
      <4>3. CASE events[k] \in EventRows
        <5>1. [events[k] EXCEPT !.status = "superseded"] \in EventRows
          BY <4>3 DEF EventRows
        <5>2. Supersede(events[k]) \in EventRows
          BY <4>3, <5>1 DEF Supersede
        <5>3. events[k] # None /\ Supersede(events[k]) # None
          BY <4>3, <5>2, RowsAssumption
        <5> QED BY <4>1, <4>3, <5>3 DEF Supersede, EventRows
      <4> QED BY <4>2, <4>3 DEF TypeOK
    <3>3. ASSUME NEW k \in EventKeys PROVE k[1] \in Nat
      BY DEF EventKeys, Generations
    <3>4. JournalFollowsGeneration'
      BY <3>1, <3>2, <3>3 DEF JournalInv, JournalFollowsGeneration, Rows,
         IsPending
    <3>5. AppliedExactlyWhenSettled'
      BY <3>1, <3>2, <3>3 DEF JournalInv, AppliedExactlyWhenSettled, TypeOK
    <3>6. OneSettlementPerGeneration'
      BY <3>1 DEF JournalInv, OneSettlementPerGeneration
    <3> QED BY <3>4, <3>5, <3>6 DEF JournalInv
  <2>4. ASSUME NEW scan \in Trees, ReconcileJournal(scan)
        PROVE  JournalInv'
    <3>1. UNCHANGED <<inventory, settled>> /\ inventory.generation \in Nat
      BY <2>4 DEF ReconcileJournal, TypeOK
    <3>2. ASSUME NEW k \in EventKeys, k[1] # inventory.generation
          PROVE  events'[k] = events[k]
      BY <2>4, <3>2 DEF ReconcileJournal, Journal
    <3>3. ASSUME NEW k \in EventKeys, k[1] = inventory.generation
          PROVE  /\ events'[k] # None => events'[k].status # "applied"
                 /\ k \notin settled
      <4>1. k \notin settled
        BY <3>1, <3>3 DEF JournalInv, AppliedExactlyWhenSettled
      <4>2. events[k] # None => events[k].status # "applied"
        BY <4>1 DEF JournalInv, AppliedExactlyWhenSettled
      <4> QED
        BY <2>4, <3>3, <4>1, <4>2 DEF ReconcileJournal, Journal, Supersede,
           TypeOK, EventRows
    <3>4. JournalFollowsGeneration'
      BY <3>1, <3>2 DEF JournalInv, JournalFollowsGeneration, Rows,
         IsPending
    <3>5. AppliedExactlyWhenSettled'
      BY <3>1, <3>2, <3>3 DEF JournalInv, AppliedExactlyWhenSettled
    <3>6. OneSettlementPerGeneration'
      BY <3>1 DEF JournalInv, OneSettlementPerGeneration
    <3> QED BY <3>4, <3>5, <3>6 DEF JournalInv
  <2> QED BY <1>5, <2>1, <2>2, <2>3, <2>4 DEF LocalStep
<1>6. ASSUME SettlementStep PROVE JournalInv'
  <2>1. PICK k \in EventKeys, scan \in Trees :
          /\ k \notin settled
          /\ k[1] = inventory.generation
          /\ IsPending(k)
          /\ k[1] < MaxGeneration
          /\ SettlementEffect(k, scan, intents[k].content)
    BY <1>6, SettlementStepShape
  <2> DEFINE g == inventory.generation
             base == Promote(baseline, k[2], intents[k].item)
  <2>2. g \in Nat /\ k[1] = g
    BY <2>1 DEF TypeOK
  <2>3. inventory'.generation = g + 1 /\ settled' = settled \cup {k}
    BY <2>1, <2>2 DEF SettlementEffect, TypeOK
  <2>4. ASSUME NEW j \in EventKeys PROVE j[1] \in Nat
    BY DEF EventKeys, Generations
  <2>5. ASSUME NEW j \in EventKeys, j[1] # g, j[1] # g + 1
        PROVE  events'[j] = events[j]
    BY <2>1, <2>2, <2>5 DEF SettlementEffect, SettledEvents, Journal
  <2>6. ASSUME NEW j \in EventKeys, j[1] = g, j # k
        PROVE  events'[j] = Supersede(events[j])
    BY <2>1, <2>2, <2>6 DEF SettlementEffect, SettledEvents, Journal
  <2>7. events'[k] # None /\ events'[k].status = "applied"
    <3>1. events[k] \in EventRows
      BY <2>1 DEF IsPending, TypeOK
    <3>2. events'[k] = [events[k] EXCEPT !.status = "applied"]
      BY <2>1, <2>2 DEF SettlementEffect, SettledEvents, Journal
    <3>3. events'[k] \in EventRows /\ events'[k].status = "applied"
      BY <3>1, <3>2 DEF EventRows
    <3> QED BY <3>3, RowsAssumption
  <2>8. ASSUME NEW j \in EventKeys, j[1] = g + 1
        PROVE  /\ j \notin settled /\ j # k
               /\ events'[j] # None => events'[j].status = "pending"
    <3>1. events[j] = None /\ j \notin settled /\ j # k
      BY <2>2, <2>8 DEF JournalInv, JournalFollowsGeneration, Rows,
         AppliedExactlyWhenSettled
    <3> QED
      BY <2>1, <2>2, <2>8, <3>1 DEF SettlementEffect, SettledEvents,
         Journal, Supersede
  <2>9. ASSUME NEW j \in EventKeys, j[1] = g, j # k
        PROVE  /\ j \notin settled
               /\ events'[j] # None => events'[j].status = "superseded"
    <3>1. j \notin settled
      BY <2>2, <2>9 DEF JournalInv, AppliedExactlyWhenSettled
    <3>2. events[j] # None => events[j].status # "applied"
      BY <3>1 DEF JournalInv, AppliedExactlyWhenSettled
    <3> QED
      BY <2>6, <2>9, <3>1, <3>2 DEF Supersede, TypeOK, EventRows
  <2>10. JournalFollowsGeneration'
    <3> SUFFICES ASSUME NEW j \in EventKeys, events'[j] # None
                 PROVE  /\ j[1] <= g + 1
                        /\ events'[j].status = "pending" => j[1] = g + 1
      BY <2>3 DEF JournalFollowsGeneration, Rows, IsPending
    <3>1. CASE j[1] = g + 1
      BY <2>2, <3>1
    <3>2. CASE j[1] = g
      BY <2>2, <2>7, <2>9, <3>2
    <3>3. CASE j[1] # g /\ j[1] # g + 1
      BY <2>2, <2>4, <2>5, <3>3 DEF JournalInv, JournalFollowsGeneration,
         Rows, IsPending
    <3> QED BY <3>1, <3>2, <3>3
  <2>11. AppliedExactlyWhenSettled'
    <3> SUFFICES ASSUME NEW j \in EventKeys
                 PROVE  /\ (events'[j] # None /\ events'[j].status = "applied")
                              <=> j \in settled \cup {k}
                        /\ j \in settled \cup {k} => j[1] < g + 1
      BY <2>3 DEF AppliedExactlyWhenSettled
    <3>1. CASE j[1] = g + 1
      BY <2>8, <3>1
    <3>2. CASE j[1] = g
      BY <2>2, <2>7, <2>9, <3>2
    <3>3. CASE j[1] # g /\ j[1] # g + 1
      BY <2>2, <2>4, <2>5, <3>3 DEF JournalInv, AppliedExactlyWhenSettled
    <3> QED BY <3>1, <3>2, <3>3
  <2>12. OneSettlementPerGeneration'
    BY <2>2, <2>3 DEF JournalInv, OneSettlementPerGeneration,
       AppliedExactlyWhenSettled, TypeOK
  <2> QED BY <2>10, <2>11, <2>12 DEF JournalInv
<1> QED
  BY <1>2, <1>3, <1>4, <1>5, <1>6 DEF StoreNext

-----------------------------------------------------------------------------
(* Evidence only accumulates on the way to awaiting and confirmed.         *)
LEMMA EvidencePreserved ==
  ASSUME TypeOK, EvidenceBeforeBelief, [StoreNext]_storeVars
  PROVE  EvidenceBeforeBelief'
<1> USE BoundsAssumption, NoneAssumption, RowsAssumption
<1>1. ASSUME UNCHANGED intents PROVE EvidenceBeforeBelief'
  BY <1>1 DEF EvidenceBeforeBelief, Rows
<1>2. CASE LocalStep
  BY <1>1, <1>2 DEF LocalStep, ActivateTwoWay, DeactivateTwoWay,
     InvalidateObservation, CommitLocalSnapshot, ReconcileJournal
<1>3. CASE RemoteStep
  BY <1>1, <1>3, RemoteStepFrame
<1>4. CASE SettlementStep
  BY <1>1, <1>4 DEF SettlementStep, SettleFileCreate, SettleFolderCreate,
     SettlementEffect
<1>5. CASE UNCHANGED storeVars
  BY <1>1, <1>5 DEF storeVars
<1>6. ASSUME IntentStep PROVE EvidenceBeforeBelief'
  <2> DEFINE Backed(row) ==
        /\ row.status # "planned" =>
             row.attempts > 0 /\ row.preCursor # None
        /\ row.status \in {"awaiting", "confirmed"}
           /\ row.op = "create_file" =>
             row.content # None /\ row.versioned
        /\ row.op = "create_folder" =>
             row.content = None /\ ~row.versioned
  <2>1. ASSUME NEW k \in Rows(intents)
        PROVE  intents[k] \in IntentRows /\ Backed(intents[k])
    BY DEF Rows, TypeOK, EvidenceBeforeBelief
  <2>2. ASSUME NEW k \in Rows(intents), NEW row,
               intents' = [intents EXCEPT ![k] = row], Backed(row)
        PROVE  EvidenceBeforeBelief'
    BY <2>1, <2>2 DEF EvidenceBeforeBelief, Rows, TypeOK
  <2>3. ASSUME NEW K \in SUBSET EventKeys, NEW ids \in [K -> RemoteIds],
               NEW scan \in Trees, CreateIntents(ids, scan)
        PROVE  EvidenceBeforeBelief'
    <3>1. ASSUME NEW k \in K
          PROVE  Backed(NewIntent(events[k].to, scan[k[2]], ids[k]))
      BY DEF NewIntent, OperationFor
    <3>2. ASSUME NEW k \in EventKeys, intents'[k] # None
          PROVE  Backed(intents'[k])
      BY <2>1, <2>3, <3>1, <3>2 DEF CreateIntents, Rows
    <3> QED BY <3>2 DEF EvidenceBeforeBelief, Rows
  <2>4. ASSUME NEW k \in Rows(intents),
               BeginSubmission(k, intents[k].op, intents[k].execGen, cursor)
        PROVE  EvidenceBeforeBelief'
    <3> DEFINE row == [intents[k] EXCEPT !.status = "submitted",
                         !.attempts = @ + 1, !.execGen = @ + 1,
                         !.preCursor = cursor]
    <3>1. cursor # None
      BY DEF TypeOK, Cursors
    <3>2. Backed(row)
      BY <2>1, <3>1 DEF IntentRows
    <3>3. intents' = [intents EXCEPT ![k] = row]
      BY <2>4 DEF BeginSubmission
    <3> QED BY <2>2, <3>2, <3>3
  <2>5. ASSUME NEW k \in Rows(intents), NEW c \in Contents,
               RecordFingerprint(k, intents[k].execGen, c)
        PROVE  EvidenceBeforeBelief'
    <3> DEFINE row == [intents[k] EXCEPT !.content = c]
    <3>1. intents[k].op = "create_file" /\ intents[k].status = "submitted"
      BY <2>5 DEF RecordFingerprint, HasIntent
    <3>2. Backed(row)
      BY <2>1, <3>1 DEF IntentRows
    <3>3. intents' = [intents EXCEPT ![k] = row]
      BY <2>5 DEF RecordFingerprint
    <3> QED BY <2>2, <3>2, <3>3
  <2>6. ASSUME NEW k \in Rows(intents),
               CompleteFileUpload(k, intents[k].execGen)
        PROVE  EvidenceBeforeBelief'
    <3> DEFINE row == [intents[k] EXCEPT !.status = "awaiting",
                         !.execGen = @ + 1, !.versioned = TRUE]
    <3>1. /\ intents[k].op = "create_file" /\ intents[k].content # None
          /\ intents[k].status = "submitted"
      BY <2>6 DEF CompleteFileUpload, HasIntent
    <3>2. Backed(row)
      BY <2>1, <3>1 DEF IntentRows
    <3>3. intents' = [intents EXCEPT ![k] = row]
      BY <2>6 DEF CompleteFileUpload
    <3> QED BY <2>2, <3>2, <3>3
  <2>7. ASSUME NEW k \in Rows(intents),
               RestartSubmission(k, intents[k].execGen, intents[k].attempts,
                                 cursor)
        PROVE  EvidenceBeforeBelief'
    <3> DEFINE row == [intents[k] EXCEPT !.attempts = @ + 1,
                         !.execGen = @ + 1, !.preCursor = cursor]
    <3>1. cursor # None /\ intents[k].op = "create_file"
          /\ intents[k].status = "submitted"
      BY <2>7 DEF TypeOK, Cursors, RestartSubmission, HasIntent
    <3>2. Backed(row)
      BY <2>1, <3>1 DEF IntentRows
    <3>3. intents' = [intents EXCEPT ![k] = row]
      BY <2>7 DEF RestartSubmission
    <3> QED BY <2>2, <3>2, <3>3
  <2>8. ASSUME NEW k \in Rows(intents), NEW to \in Statuses,
               Transition(k, intents[k].op, intents[k].execGen,
                          intents[k].status, to)
        PROVE  EvidenceBeforeBelief'
    <3> DEFINE row == [intents[k] EXCEPT !.status = to, !.execGen = @ + 1]
    <3>1. /\ intents[k].status # "planned"
          /\ to \in {"awaiting", "confirmed"} /\ intents[k].op = "create_file"
               => intents[k].status \in {"awaiting", "confirmed"}
      BY <2>8 DEF Transition, Transitions, FileTransitions, FolderTransitions
    <3>2. Backed(row)
      BY <2>1, <3>1 DEF IntentRows
    <3>3. intents' = [intents EXCEPT ![k] = row]
      BY <2>8 DEF Transition
    <3> QED BY <2>2, <3>2, <3>3
  <2>9. ASSUME NEW k \in Rows(intents),
               RecoverConflict(k, intents[k].execGen, intents[k].attempts)
        PROVE  EvidenceBeforeBelief'
    <3> DEFINE row == [intents[k] EXCEPT !.status = "confirmed",
                         !.execGen = @ + 1]
    <3>1. /\ intents[k].op = "create_file" /\ intents[k].status = "conflict"
          /\ intents[k].content # None /\ intents[k].versioned
      BY <2>9 DEF RecoverConflict, HasIntent
    <3>2. Backed(row)
      BY <2>1, <3>1 DEF IntentRows
    <3>3. intents' = [intents EXCEPT ![k] = row]
      BY <2>9 DEF RecoverConflict
    <3> QED BY <2>2, <3>2, <3>3
  <2> HIDE DEF Backed
  <2> QED
    BY <1>6, <2>3, <2>4, <2>5, <2>6, <2>7, <2>8, <2>9 DEF IntentStep
<1> QED
  BY <1>2, <1>3, <1>4, <1>5, <1>6 DEF StoreNext

-----------------------------------------------------------------------------
(* No transition leaves confirmed: such a row is never written again.      *)
LEMMA ConfirmedIsFrozen ==
  ASSUME TypeOK, [StoreNext]_storeVars,
         NEW k \in Rows(intents), intents[k].status = "confirmed"
  PROVE  intents'[k] = intents[k]
<1>1. ASSUME NEW j \in Rows(intents), NEW row,
             intents' = [intents EXCEPT ![j] = row], j # k
      PROVE  intents'[k] = intents[k]
  BY <1>1 DEF TypeOK, Rows
<1>2. ASSUME IntentStep PROVE intents'[k] = intents[k]
  <2>1. CASE \E K \in SUBSET {j \in EventKeys : IsCreate(j)} :
               \E ids \in [K -> RemoteIds], scan \in Trees :
                 K # {} /\ CreateIntents(ids, scan)
    BY <2>1 DEF CreateIntents, Rows
  <2>2. ASSUME NEW j \in Rows(intents),
               \/ BeginSubmission(j, intents[j].op, intents[j].execGen, cursor)
               \/ \E c \in Contents :
                    RecordFingerprint(j, intents[j].execGen, c)
               \/ CompleteFileUpload(j, intents[j].execGen)
               \/ RestartSubmission(j, intents[j].execGen,
                                    intents[j].attempts, cursor)
               \/ \E to \in Statuses :
                    Transition(j, intents[j].op, intents[j].execGen,
                               intents[j].status, to)
               \/ RecoverConflict(j, intents[j].execGen, intents[j].attempts)
        PROVE  intents'[k] = intents[k]
    <3>1. intents[j].status # "confirmed"
      BY <2>2 DEF BeginSubmission, RecordFingerprint, CompleteFileUpload,
         RestartSubmission, Transition, RecoverConflict, HasIntent,
         Transitions, FileTransitions, FolderTransitions
    <3>2. j # k
      BY <3>1
    <3>3. \E row : intents' = [intents EXCEPT ![j] = row]
      BY <2>2 DEF BeginSubmission, RecordFingerprint, CompleteFileUpload,
         RestartSubmission, Transition, RecoverConflict
    <3> QED BY <1>1, <3>2, <3>3
  <2> QED BY <1>2, <2>1, <2>2 DEF IntentStep
<1>3. CASE LocalStep
  BY <1>3 DEF LocalStep, ActivateTwoWay, DeactivateTwoWay,
     InvalidateObservation, CommitLocalSnapshot, ReconcileJournal
<1>4. CASE RemoteStep
  BY <1>4, RemoteStepFrame
<1>5. CASE SettlementStep
  BY <1>5 DEF SettlementStep, SettleFileCreate, SettleFolderCreate,
     SettlementEffect
<1>6. CASE UNCHANGED storeVars
  BY <1>6 DEF storeVars
<1> QED
  BY <1>2, <1>3, <1>4, <1>5, <1>6 DEF StoreNext

(* Only the queue's own steps write intents; every other step keeps them.  *)
LEMMA OnlyIntentStepsWriteIntents ==
  ASSUME [StoreNext]_storeVars, ~IntentStep
  PROVE  UNCHANGED intents
<1>1. CASE LocalStep
  BY <1>1 DEF LocalStep, ActivateTwoWay, DeactivateTwoWay,
     InvalidateObservation, CommitLocalSnapshot, ReconcileJournal
<1>2. CASE RemoteStep
  BY <1>2, RemoteStepFrame
<1>3. CASE SettlementStep
  BY <1>3 DEF SettlementStep, SettleFileCreate, SettleFolderCreate,
     SettlementEffect
<1>4. CASE UNCHANGED storeVars
  BY <1>4 DEF storeVars
<1> QED BY <1>1, <1>2, <1>3, <1>4 DEF StoreNext

(* What a step makes of an intent row.  Identity, operation and item are   *)
(* fixed, a recorded digest is fixed, and a status or attempt that moves   *)
(* takes the token along.                                                  *)
Advances(old, new) ==
  /\ new \in IntentRows
  /\ new.op = old.op /\ new.item = old.item /\ new.remote = old.remote
  /\ old.content \in {None, new.content}
  /\ new.execGen >= old.execGen
  /\ new.status # old.status \/ new.attempts # old.attempts =>
       new.execGen > old.execGen
  /\ new.attempts <= old.attempts \/ new.attempts <= MaxAttempts

(* Every step of the store advances an intent row or leaves it alone.      *)
LEMMA RowsAdvance ==
  ASSUME TypeOK, [StoreNext]_storeVars, NEW k \in Rows(intents)
  PROVE  intents'[k] # None /\ Advances(intents[k], intents'[k])
<1> USE NoneAssumption, RowsAssumption, BoundsAssumption
<1>1. k \in EventKeys /\ intents[k] \in IntentRows
  BY DEF Rows, TypeOK
<1>2. Advances(intents[k], intents[k])
  BY <1>1 DEF Advances, IntentRows
<1>3. SUFFICES ASSUME intents'[k] # intents[k]
               PROVE  Advances(intents[k], intents'[k])
  <2>1. ASSUME NEW row, Advances(intents[k], row) PROVE row # None
    BY <2>1 DEF Advances
  <2> QED BY <1>2, <1>3, <2>1
<1>4. IntentStep
  BY <1>3, OnlyIntentStepsWriteIntents
<1>5. ASSUME NEW j \in Rows(intents), NEW row,
             intents' = [intents EXCEPT ![j] = row]
      PROVE  j = k /\ intents'[k] = row
  BY <1>1, <1>3, <1>5 DEF TypeOK
<1>6. intents' \in [EventKeys -> IntentRows \cup {None}]
  BY TypePreserved DEF TypeOK
<1>7. ASSUME NEW K \in SUBSET EventKeys, NEW ids \in [K -> RemoteIds],
             NEW scan \in Trees, CreateIntents(ids, scan)
      PROVE  FALSE
  BY <1>1, <1>3, <1>7 DEF CreateIntents
<1>8. ASSUME NEW j \in Rows(intents),
             BeginSubmission(j, intents[j].op, intents[j].execGen, cursor)
      PROVE  Advances(intents[k], intents'[k])
  <2> DEFINE row == [intents[j] EXCEPT !.status = "submitted",
                       !.attempts = @ + 1, !.execGen = @ + 1,
                       !.preCursor = cursor]
  <2>1. /\ intents' = [intents EXCEPT ![j] = row]
        /\ intents[j].attempts < MaxAttempts
    BY <1>8 DEF BeginSubmission
  <2>2. j = k /\ intents'[k] = row
    BY <1>5, <2>1
  <2>3. row \in IntentRows
    BY <1>1, <2>1, <2>2, IntentRowUpdate DEF TypeOK, Statuses
  <2> QED BY <1>1, <2>1, <2>2, <2>3 DEF Advances, IntentRows
<1>9. ASSUME NEW j \in Rows(intents), NEW c \in Contents,
             RecordFingerprint(j, intents[j].execGen, c)
      PROVE  Advances(intents[k], intents'[k])
  <2> DEFINE row == [intents[j] EXCEPT !.content = c]
  <2>1. /\ intents' = [intents EXCEPT ![j] = row]
        /\ intents[j].content \in {None, c}
    BY <1>9 DEF RecordFingerprint
  <2>2. j = k /\ intents'[k] = row
    BY <1>5, <2>1
  <2>3. row \in IntentRows
    BY <1>1, <2>1, <2>2 DEF IntentRows
  <2> QED BY <1>1, <2>1, <2>2, <2>3 DEF Advances, IntentRows
<1>10. ASSUME NEW j \in Rows(intents),
              CompleteFileUpload(j, intents[j].execGen)
      PROVE  Advances(intents[k], intents'[k])
  <2> DEFINE row == [intents[j] EXCEPT !.status = "awaiting",
                       !.execGen = @ + 1, !.versioned = TRUE]
  <2>1. /\ intents' = [intents EXCEPT ![j] = row]
    BY <1>10 DEF CompleteFileUpload
  <2>2. j = k /\ intents'[k] = row
    BY <1>5, <2>1
  <2>3. row \in IntentRows
    BY <1>1, <2>1, <2>2, IntentRowUpdate DEF Statuses, Cursors
  <2> QED BY <1>1, <2>1, <2>2, <2>3 DEF Advances, IntentRows
<1>11. ASSUME NEW j \in Rows(intents),
              RestartSubmission(j, intents[j].execGen, intents[j].attempts,
                                cursor)
      PROVE  Advances(intents[k], intents'[k])
  <2> DEFINE row == [intents[j] EXCEPT !.attempts = @ + 1, !.execGen = @ + 1,
                       !.preCursor = cursor]
  <2>1. /\ intents' = [intents EXCEPT ![j] = row]
        /\ intents[j].attempts < MaxAttempts
    BY <1>11 DEF RestartSubmission
  <2>2. j = k /\ intents'[k] = row
    BY <1>5, <2>1
  <2>3. row \in IntentRows
    BY <1>1, <2>1, <2>2, IntentRowUpdate DEF TypeOK, Statuses
  <2> QED BY <1>1, <2>1, <2>2, <2>3 DEF Advances, IntentRows
<1>12. ASSUME NEW j \in Rows(intents), NEW to \in Statuses,
              \/ Transition(j, intents[j].op, intents[j].execGen,
                            intents[j].status, to)
              \/ RecoverConflict(j, intents[j].execGen, intents[j].attempts)
       PROVE  Advances(intents[k], intents'[k])
  <2>1. PICK status \in Statuses :
          intents' = [intents EXCEPT ![j] =
            [intents[j] EXCEPT !.status = status, !.execGen = @ + 1]]
    <3>1. CASE RecoverConflict(j, intents[j].execGen, intents[j].attempts)
      BY <3>1 DEF RecoverConflict, Statuses
    <3>2. CASE Transition(j, intents[j].op, intents[j].execGen,
                          intents[j].status, to)
      BY <3>2 DEF Transition
    <3> QED BY <1>12, <3>1, <3>2
  <2> DEFINE row == [intents[j] EXCEPT !.status = status, !.execGen = @ + 1]
  <2>2. j = k /\ intents'[k] = row
    BY <1>5, <2>1
  <2>3. row \in IntentRows
    BY <1>1, <2>2, IntentRowUpdate DEF Cursors
  <2> QED BY <1>1, <2>2, <2>3 DEF Advances, IntentRows
<1> QED
  BY <1>4, <1>7, <1>8, <1>9, <1>10, <1>11, <1>12
     DEF IntentStep, Statuses

(* A row that appears was planned by an allocation in that very step.      *)
LEMMA NewRowsArePlanned ==
  ASSUME TypeOK, [StoreNext]_storeVars,
         NEW k \in EventKeys, intents[k] = None, intents'[k] # None
  PROVE  \E K \in SUBSET EventKeys :
           \E ids \in [K -> RemoteIds], scan \in Trees :
             CreateIntents(ids, scan) /\ k \in K
<1>1. IntentStep
  BY OnlyIntentStepsWriteIntents
<1>2. ASSUME NEW j \in Rows(intents), NEW row,
             intents' = [intents EXCEPT ![j] = row]
      PROVE  FALSE
  BY <1>2 DEF Rows, TypeOK
<1>3. ASSUME NEW j \in Rows(intents),
             \/ BeginSubmission(j, intents[j].op, intents[j].execGen, cursor)
             \/ \E c \in Contents :
                  RecordFingerprint(j, intents[j].execGen, c)
             \/ CompleteFileUpload(j, intents[j].execGen)
             \/ RestartSubmission(j, intents[j].execGen,
                                  intents[j].attempts, cursor)
             \/ \E to \in Statuses :
                  Transition(j, intents[j].op, intents[j].execGen,
                             intents[j].status, to)
             \/ RecoverConflict(j, intents[j].execGen, intents[j].attempts)
      PROVE  FALSE
  <2>1. \E row : intents' = [intents EXCEPT ![j] = row]
    BY <1>3 DEF BeginSubmission, RecordFingerprint, CompleteFileUpload,
       RestartSubmission, Transition, RecoverConflict
  <2> QED BY <1>2, <2>1
<1>4. CASE \E K \in SUBSET {j \in EventKeys : IsCreate(j)} :
             \E ids \in [K -> RemoteIds], scan \in Trees :
               K # {} /\ CreateIntents(ids, scan)
  <2>1. PICK K \in SUBSET EventKeys :
          \E ids \in [K -> RemoteIds], scan \in Trees :
            CreateIntents(ids, scan)
    BY <1>4
  <2>2. k \in K
    BY <2>1 DEF CreateIntents
  <2> QED BY <2>1, <2>2
<1> QED BY <1>1, <1>3, <1>4 DEF IntentStep

(* Rows of the queue: the attempts stay within the bound, the item is of   *)
(* the kind the operation creates, and no two intents share an id.         *)
IntentInv ==
  /\ \A k \in Rows(intents) :
       /\ intents[k].attempts <= MaxAttempts
       /\ KindOf(intents[k].item) = SourceKind(intents[k].op)
  /\ \A j, k \in Rows(intents) :
       intents[j].remote = intents[k].remote => j = k

(* What an allocation adds is new in every respect.                        *)
LEMMA NewRowIsFresh ==
  ASSUME TypeOK, NEW K \in SUBSET EventKeys, NEW ids \in [K -> RemoteIds],
         NEW scan \in Trees, CreateIntents(ids, scan), NEW k \in K
  PROVE  /\ intents'[k].remote = ids[k] /\ ids[k] \notin OwnedIds
         /\ intents'[k].status = "planned" /\ intents'[k].attempts = 0
         /\ intents'[k].content = None
         /\ KindOf(intents'[k].item) = SourceKind(intents'[k].op)
         /\ \A j \in K : ids[j] = ids[k] => j = k
<1>1. intents'[k] = NewIntent(events[k].to, scan[k[2]], ids[k])
  BY DEF CreateIntents
<1>2. events[k].to = KindOf(scan[k[2]]) /\ events[k].to # "none"
  BY DEF CreateIntents, IsCreate
<1>3. events[k].to \in {"file", "directory"}
  BY <1>2 DEF KindOf
<1>4. ids[k] \notin OwnedIds /\ \A j \in K : ids[j] = ids[k] => j = k
  BY DEF CreateIntents
<1> QED
  BY <1>1, <1>2, <1>3, <1>4 DEF NewIntent, OperationFor, SourceKind

(* Every transaction keeps the queue well formed.                          *)
LEMMA QueuePreserved ==
  ASSUME TypeOK, IntentInv, [StoreNext]_storeVars
  PROVE  IntentInv'
<1> USE BoundsAssumption
<1>1. ASSUME NEW k \in Rows(intents)
      PROVE  /\ intents'[k].remote = intents[k].remote
             /\ intents'[k].attempts <= MaxAttempts
             /\ KindOf(intents'[k].item) = SourceKind(intents'[k].op)
  <2>1. intents[k] \in IntentRows /\ intents'[k] \in IntentRows
    BY RowsAdvance DEF Rows, TypeOK, Advances
  <2> QED
    BY <2>1, RowsAdvance DEF Advances, IntentInv, IntentRows
<1>2. CASE \A k \in EventKeys : intents'[k] # None => intents[k] # None
  <2>1. Rows(intents)' \subseteq Rows(intents)
    BY <1>2 DEF Rows
  <2> QED BY <1>1, <2>1 DEF IntentInv
<1>3. CASE \E k \in EventKeys : intents'[k] # None /\ intents[k] = None
  <2>1. PICK K \in SUBSET EventKeys :
          \E ids \in [K -> RemoteIds], scan \in Trees :
            CreateIntents(ids, scan)
    BY <1>3, NewRowsArePlanned
  <2>0. PICK ids \in [K -> RemoteIds], scan \in Trees :
          CreateIntents(ids, scan)
    BY <2>1
  <2>2. Rows(intents)' \subseteq Rows(intents) \cup K
    BY <2>0 DEF CreateIntents, Rows
  <2>3. ASSUME NEW k \in K
        PROVE  /\ intents'[k].attempts <= MaxAttempts
               /\ KindOf(intents'[k].item) = SourceKind(intents'[k].op)
    BY <2>0, NewRowIsFresh
  <2>4. ASSUME NEW j \in Rows(intents), NEW k \in K
        PROVE  intents'[j].remote # intents'[k].remote
    BY <1>1, <2>0, NewRowIsFresh DEF OwnedIds
  <2>5. ASSUME NEW j \in K, NEW k \in K,
               intents'[j].remote = intents'[k].remote
        PROVE  j = k
    BY <2>0, <2>5, NewRowIsFresh
  <2> QED BY <1>1, <2>2, <2>3, <2>4, <2>5 DEF IntentInv
<1> QED BY <1>2, <1>3

(* A window commit may age a receipt, it never rebinds or drops one.       *)
LEMMA ReceiptsKeepTheirBinding ==
  ASSUME TypeOK, RemoteStep, NEW r \in RemoteIds, receipts[r] # None
  PROVE  /\ receipts'[r] # None
         /\ receipts'[r].path = receipts[r].path
         /\ receipts'[r].content = receipts[r].content
<1>1. CASE UNCHANGED receipts
  BY <1>1
<1>2. ASSUME NEW checkpoint \in Cursors, NEW cat \in [RemoteIds -> Sightings],
             NEW touched \in SUBSET RemoteIds, NEW moved \in SUBSET RemoteIds,
             CommitWindow(checkpoint, cat, touched, moved)
      PROVE  /\ receipts'[r] # None
             /\ receipts'[r].path = receipts[r].path
             /\ receipts'[r].content = receipts[r].content
  <2>1. receipts[r] \in ReceiptRows
    BY DEF TypeOK
  <2>2. receipts'[r] \in {receipts[r], [receipts[r] EXCEPT !.state = "stale"]}
    BY <1>2 DEF CommitWindow, Invalidated
  <2>3. receipts'[r] \in ReceiptRows
    BY <2>1, <2>2 DEF ReceiptRows
  <2> QED BY <2>1, <2>2, <2>3, RowsAssumption DEF ReceiptRows
<1> QED
  BY <1>1, <1>2 DEF RemoteStep, StageWindow, DiscardWindow, CommitAuthority

(* Every transaction keeps the receipts of settled creates: a settlement   *)
(* writes the receipt with its own row, a window commit never removes one. *)
LEMMA OwnershipPreserved ==
  ASSUME TypeOK, EvidenceBeforeBelief, SettledIsOwned, [StoreNext]_storeVars
  PROVE  SettledIsOwned'
<1>1. ASSUME NEW k \in settled
      PROVE  /\ k \in Rows(intents) /\ intents[k].status = "confirmed"
             /\ intents'[k] = intents[k]
             /\ intents[k].remote \in RemoteIds
  BY ConfirmedIsFrozen DEF SettledIsOwned, TypeOK, Rows, IntentRows
<1>2. ASSUME UNCHANGED <<settled, receipts>> PROVE SettledIsOwned'
  BY <1>1, <1>2 DEF SettledIsOwned
<1>3. CASE LocalStep
  BY <1>2, <1>3 DEF LocalStep, ActivateTwoWay, DeactivateTwoWay,
     InvalidateObservation, CommitLocalSnapshot, ReconcileJournal
<1>4. CASE IntentStep
  BY <1>2, <1>4, IntentStepFrame
<1>5. CASE RemoteStep
  BY <1>1, <1>5, RemoteStepFrame, ReceiptsKeepTheirBinding
     DEF SettledIsOwned
<1>6. ASSUME SettlementStep PROVE SettledIsOwned'
  <2>1. PICK k \in EventKeys, scan \in Trees :
          /\ intents[k] # None /\ intents[k].status = "confirmed"
          /\ receipts[intents[k].remote] = None
          /\ SettlementEffect(k, scan, intents[k].content)
    BY <1>6, SettlementStepShape
  <2> DEFINE new == [path |-> k[2], content |-> intents[k].content,
                     state |-> "current"]
  <2>2. /\ settled' = settled \cup {k} /\ intents' = intents
        /\ receipts' = [receipts EXCEPT ![intents[k].remote] = new]
    BY <2>1 DEF SettlementEffect
  <2>3. /\ intents[k].remote \in RemoteIds /\ new \in ReceiptRows
    BY <2>1 DEF TypeOK, IntentRows, ReceiptRows, EventKeys
  <2>4. receipts'[intents[k].remote] = new /\ new # None
    BY <2>2, <2>3, RowsAssumption DEF TypeOK
  <2>5. ASSUME NEW j \in settled
        PROVE  /\ intents[j].remote # intents[k].remote
               /\ receipts'[intents[j].remote] = receipts[intents[j].remote]
    BY <1>1, <2>1, <2>2, <2>5 DEF SettledIsOwned, TypeOK
  <2> QED BY <2>1, <2>2, <2>4, <2>5 DEF SettledIsOwned
<1>7. CASE UNCHANGED storeVars
  BY <1>2, <1>7 DEF storeVars
<1> QED
  BY <1>3, <1>4, <1>5, <1>6, <1>7 DEF StoreNext

(* Every transaction keeps current receipts catalogued: the window commit  *)
(* that deletes a catalog row makes the receipt historical with it.        *)
LEMMA CataloguePreserved ==
  ASSUME TypeOK, EvidenceBeforeBelief, CurrentReceiptIsCatalogued,
         [StoreNext]_storeVars
  PROVE  CurrentReceiptIsCatalogued'
<1>1. ASSUME UNCHANGED <<receipts, catalog>> PROVE CurrentReceiptIsCatalogued'
  BY <1>1 DEF CurrentReceiptIsCatalogued
<1>2. CASE LocalStep
  BY <1>1, <1>2 DEF LocalStep, ActivateTwoWay, DeactivateTwoWay, remoteVars,
     InvalidateObservation, CommitLocalSnapshot, ReconcileJournal
<1>3. CASE IntentStep
  BY <1>1, <1>3, IntentStepFrame
<1>4. ASSUME RemoteStep PROVE CurrentReceiptIsCatalogued'
  <2>1. ASSUME NEW checkpoint \in Cursors, NEW cat \in [RemoteIds -> Sightings],
               NEW touched \in SUBSET RemoteIds, NEW moved \in SUBSET RemoteIds,
               CommitWindow(checkpoint, cat, touched, moved)
        PROVE  CurrentReceiptIsCatalogued'
    <3>1. ASSUME NEW r \in RemoteIds, receipts'[r] # None,
                 receipts'[r].state = "current"
          PROVE  /\ receipts'[r] = receipts[r]
                 /\ catalog[r] # "absent" /\ cat[r] = catalog[r]
      <4>1. receipts'[r] = receipts[r]
        <5>1. receipts'[r] \in {receipts[r],
                                [receipts[r] EXCEPT !.state = "stale"]}
              /\ receipts[r] # None
          BY <2>1, <3>1 DEF CommitWindow, Invalidated
        <5>2. receipts[r] \in ReceiptRows
          BY <5>1 DEF TypeOK
        <5> QED BY <3>1, <5>1, <5>2 DEF ReceiptRows
      <4>2. catalog[r] # "absent"
        BY <3>1, <4>1 DEF CurrentReceiptIsCatalogued
      <4>3. cat[r] = catalog[r]
        <5> SUFFICES ASSUME cat[r] # catalog[r] PROVE FALSE
          OBVIOUS
        <5>1. receipts'[r] = [receipts[r] EXCEPT !.state = "stale"]
          BY <2>1, <3>1, <4>1, <4>2 DEF CommitWindow, Invalidated
        <5>2. receipts[r] \in ReceiptRows
          BY <3>1, <4>1 DEF TypeOK
        <5> QED BY <3>1, <5>1, <5>2 DEF ReceiptRows
      <4> QED BY <4>1, <4>2, <4>3
    <3>2. catalog' = cat
      BY <2>1 DEF CommitWindow
    <3> QED BY <3>1, <3>2 DEF CurrentReceiptIsCatalogued
  <2> QED
    BY <1>1, <1>4, <2>1 DEF RemoteStep, StageWindow, DiscardWindow,
       CommitAuthority
<1>5. ASSUME SettlementStep PROVE CurrentReceiptIsCatalogued'
  <2>1. PICK k \in EventKeys, scan \in Trees :
          /\ intents[k] # None
          /\ catalog[intents[k].remote] = "exact"
          /\ SettlementEffect(k, scan, intents[k].content)
    BY <1>5, SettlementStepShape
  <2>2. /\ catalog' = catalog
        /\ \A r \in RemoteIds \ {intents[k].remote} :
             receipts'[r] = receipts[r]
    BY <2>1 DEF SettlementEffect, remoteVars, TypeOK
  <2> QED BY <2>1, <2>2 DEF CurrentReceiptIsCatalogued
<1>6. CASE UNCHANGED storeVars
  BY <1>1, <1>6 DEF storeVars
<1> QED
  BY <1>2, <1>3, <1>4, <1>5, <1>6 DEF StoreNext

-----------------------------------------------------------------------------
(* The inductive invariant.  JournalInv and SettledIsOwned are not         *)
(* inductive alone: a settlement only writes the right receipt content     *)
(* because a folder intent carries none (EvidenceBeforeBelief), and only   *)
(* inserts fresh residual rows because no row of a later generation exists *)
(* (JournalFollowsGeneration).                                             *)
StoreInv ==
  /\ TypeOK
  /\ EvidenceBeforeBelief
  /\ IntentInv
  /\ JournalInv
  /\ SettledIsOwned
  /\ CurrentReceiptIsCatalogued

(* The invariant holds of the freshly created tables.                      *)
LEMMA StoreInvInitially ==
  ASSUME StoreInit PROVE StoreInv
<1> USE BoundsAssumption DEF StoreInit
<1>1. TypeOK
  BY DEF TypeOK, Trees, Cursors, Sightings
<1>2. EvidenceBeforeBelief /\ IntentInv /\ JournalInv /\ SettledIsOwned
      /\ CurrentReceiptIsCatalogued
  BY DEF EvidenceBeforeBelief, IntentInv, JournalInv, JournalFollowsGeneration, Rows,
     AppliedExactlyWhenSettled, OneSettlementPerGeneration, SettledIsOwned,
     CurrentReceiptIsCatalogued
<1> QED BY <1>1, <1>2 DEF StoreInv

(* The invariant is inductive: each part needs TypeOK and evidence beside it.*)
LEMMA StoreInvPreserved ==
  ASSUME StoreInv, [StoreNext]_storeVars PROVE StoreInv'
  BY TypePreserved, EvidencePreserved, QueuePreserved, JournalPreserved, OwnershipPreserved,
     CataloguePreserved DEF StoreInv

(* The inductive invariant holds in every state of the store, whatever order*)
(* the commands run their transactions in.                                 *)
THEOREM StoreInvariant == StoreSpec => []StoreInv
  BY StoreInvInitially, StoreInvPreserved, PTL DEF StoreSpec

(* Type correctness of every table of the store.                           *)
THEOREM TypeCorrect == StoreSpec => []TypeOK
<1>1. StoreInv => TypeOK
  BY DEF StoreInv
<1> QED BY <1>1, StoreInvariant, PTL

(* A local create is applied exactly when its settlement row exists, and   *)
(* no later journal, snapshot or settlement re-opens its event.            *)
THEOREM AppliedExactlyOnce == StoreSpec => []AppliedExactlyWhenSettled
<1>1. StoreInv => AppliedExactlyWhenSettled
  BY DEF StoreInv, JournalInv
<1> QED BY <1>1, StoreInvariant, PTL

(* One settlement leaves each inventory generation.                        *)
THEOREM GenerationsFormAChain == StoreSpec => []OneSettlementPerGeneration
<1>1. StoreInv => OneSettlementPerGeneration
  BY DEF StoreInv, JournalInv
<1> QED BY <1>1, StoreInvariant, PTL

(* Only the current generation has pending journal rows.                   *)
THEOREM PendingIsCurrent == StoreSpec => []JournalFollowsGeneration
<1>1. StoreInv => JournalFollowsGeneration
  BY DEF StoreInv, JournalInv
<1> QED BY <1>1, StoreInvariant, PTL

(* Every settled create keeps a receipt of its object, path and content.   *)
THEOREM SettledStaysOwned == StoreSpec => []SettledIsOwned
<1>1. StoreInv => SettledIsOwned
  BY DEF StoreInv
<1> QED BY <1>1, StoreInvariant, PTL

(* Awaiting and confirmed file intents carry the full upload evidence.     *)
THEOREM BeliefIsBacked == StoreSpec => []EvidenceBeforeBelief
<1>1. StoreInv => EvidenceBeforeBelief
  BY DEF StoreInv
<1> QED BY <1>1, StoreInvariant, PTL

(* A current receipt never outlives the catalog row of its object.         *)
THEOREM CurrentReceiptsAreLive == StoreSpec => []CurrentReceiptIsCatalogued
<1>1. StoreInv => CurrentReceiptIsCatalogued
  BY DEF StoreInv
<1> QED BY <1>1, StoreInvariant, PTL

-----------------------------------------------------------------------------
(* A settlement is final: the applied event and its intent never change.   *)
THEOREM SettlementNeverUndone == StoreSpec => SettlementIsFinal
<1>1. ASSUME StoreInv, StoreInv', [StoreNext]_storeVars, NEW k \in settled
      PROVE  /\ k \in settled' /\ events'[k] = events[k]
             /\ intents'[k] = intents[k]
  <2>1. k \in EventKeys /\ k[1] < inventory.generation
        /\ events[k] # None /\ events[k].status = "applied"
    BY <1>1 DEF StoreInv, TypeOK, JournalInv, AppliedExactlyWhenSettled
  <2>2. intents'[k] = intents[k]
    BY <1>1, <2>1, ConfirmedIsFrozen DEF StoreInv, SettledIsOwned, Rows
  <2>3. k \in settled'
    BY <1>1 DEF StoreNext, LocalStep, ActivateTwoWay, DeactivateTwoWay,
       InvalidateObservation, CommitLocalSnapshot, ReconcileJournal,
       RemoteStep, StageWindow, DiscardWindow, CommitWindow,
       CommitAuthority, IntentStep, CreateIntents, BeginSubmission,
       RecordFingerprint, CompleteFileUpload, RestartSubmission,
       Transition, RecoverConflict, SettlementStep, SettleFileCreate,
       SettleFolderCreate, SettlementEffect, storeVars
  <2>4. inventory.generation \in Nat /\ k[1] \in Nat
    BY <1>1, <2>1, BoundsAssumption
       DEF StoreInv, TypeOK, EventKeys, Generations
  <2>5. events'[k] = events[k]
    <3>1. ASSUME LocalStep PROVE events'[k] = events[k]
      BY <2>1, <2>4, <3>1 DEF LocalStep, ActivateTwoWay,
         DeactivateTwoWay, InvalidateObservation, CommitLocalSnapshot,
         ReconcileJournal, Journal, Supersede, localVars
    <3>2. ASSUME SettlementStep PROVE events'[k] = events[k]
      <4>1. PICK j \in EventKeys, scan \in Trees :
              /\ j[1] = inventory.generation
              /\ SettlementEffect(j, scan, intents[j].content)
        BY <1>1, <3>2, SettlementStepShape DEF StoreInv
      <4> QED
        BY <2>1, <2>4, <4>1 DEF SettlementEffect, SettledEvents, Journal
    <3> QED
      BY <1>1, <3>1, <3>2, RemoteStepFrame, IntentStepFrame
         DEF StoreNext, storeVars
  <2> QED BY <2>2, <2>3, <2>5
<1>2. StoreInv /\ StoreInv' /\ [StoreNext]_storeVars
        => [\A k \in settled :
              k \in settled' /\ events'[k] = events[k]
                             /\ intents'[k] = intents[k]]_storeVars
  BY <1>1
<1> QED BY <1>2, StoreInvariant, PTL DEF StoreSpec, SettlementIsFinal

(* A stale (status, execution_generation) pair never matches again, and an *)
(* intent keeps the id, operation and item it was planned with.            *)
THEOREM TokensOnlyAdvance == StoreSpec => IntentRowsOnlyAdvance
<1>1. StoreInv /\ [StoreNext]_storeVars
        => [\A k \in Rows(intents) :
              /\ intents'[k] # None
              /\ intents'[k].remote = intents[k].remote
              /\ intents'[k].item = intents[k].item
              /\ intents'[k].execGen >= intents[k].execGen
              /\ intents'[k].status # intents[k].status \/
                 intents'[k].attempts # intents[k].attempts =>
                   intents'[k].execGen > intents[k].execGen]_storeVars
  BY RowsAdvance DEF StoreInv, Advances
<1> QED BY <1>1, StoreInvariant, PTL DEF StoreSpec, IntentRowsOnlyAdvance

(* While the root is two-way, settlements only add to the inventory.       *)
THEOREM AcceptedItemsNeverLost == StoreSpec => AcceptedItemsStay
<1>1. ASSUME StoreInv, [StoreNext]_storeVars, mode = "two_way",
             NEW p \in Paths, baseline[p] # None
      PROVE  baseline'[p] = baseline[p]
  <2>1. ASSUME LocalStep PROVE baseline'[p] = baseline[p]
    BY <1>1, <2>1 DEF LocalStep, ActivateTwoWay, DeactivateTwoWay,
       InvalidateObservation, CommitLocalSnapshot, ReconcileJournal,
       localVars
  <2>2. ASSUME SettlementStep PROVE baseline'[p] = baseline[p]
    <3>1. PICK k \in EventKeys, scan \in Trees :
            /\ baseline[k[2]] = None
            /\ SettlementEffect(k, scan, intents[k].content)
      BY <1>1, <2>2, SettlementStepShape DEF StoreInv
    <3> QED
      BY <1>1, <3>1 DEF SettlementEffect, Promote, StoreInv, TypeOK, Trees
  <2> QED
    BY <1>1, <2>1, <2>2, RemoteStepFrame, IntentStepFrame
       DEF StoreNext, storeVars
<1>2. StoreInv /\ [StoreNext]_storeVars
        => [mode = "two_way" =>
              \A p \in Paths : baseline[p] # None =>
                baseline'[p] = baseline[p]]_storeVars
  BY <1>1
<1> QED BY <1>2, StoreInvariant, PTL DEF StoreSpec, AcceptedItemsStay
=============================================================================
