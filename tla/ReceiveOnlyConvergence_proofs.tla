-------------------- MODULE ReceiveOnlyConvergence_proofs --------------------
(***************************************************************************)
(* Machine-checked safety of the receive-only executors, for every tree,   *)
(* every batch, every user and provider, and every failure and crash.      *)
(***************************************************************************)
EXTENDS ReceiveOnlyConvergence, FiniteSetTheorems, TLAPS

-----------------------------------------------------------------------------
(* Sequences of items without repetition.                                  *)

LEMMA AppendFacts ==
  ASSUME NEW S, NEW s \in Seq(S), NEW x \in S
  PROVE  /\ Append(s, x) \in Seq(S)
         /\ Range(Append(s, x)) = Range(s) \cup {x}
         /\ IsInjective(s) /\ x \notin Range(s) => IsInjective(Append(s, x))
<1> DEFINE t == Append(s, x)
<1>1. t \in Seq(S) /\ Len(t) = Len(s) + 1 /\ DOMAIN t = 1..(Len(s) + 1)
  OBVIOUS
<1>2. \A k \in 1..Len(s) : t[k] = s[k]
  OBVIOUS
<1>3. t[Len(s) + 1] = x
  OBVIOUS
<1>4. Len(s) \in Nat /\ DOMAIN s = 1..Len(s)
  OBVIOUS
<1>5. Range(t) = Range(s) \cup {x}
  <2>1. ASSUME NEW y \in Range(t) PROVE y \in Range(s) \cup {x}
    BY <1>1, <1>2, <1>3, <1>4, <2>1 DEF Range
  <2>2. ASSUME NEW y \in Range(s) PROVE y \in Range(t)
    <3>1. PICK k \in 1..Len(s) : y = s[k]
      BY <1>4 DEF Range
    <3>2. k \in DOMAIN t /\ t[k] = y
      BY <3>1, <1>1, <1>2, <1>4
    <3> QED BY <3>2 DEF Range
  <2>3. x \in Range(t)
    <3>1. Len(s) + 1 \in DOMAIN t
      BY <1>1, <1>4
    <3> QED BY <3>1, <1>3 DEF Range
  <2> QED BY <2>1, <2>2, <2>3
<1>6. ASSUME IsInjective(s), x \notin Range(s) PROVE IsInjective(t)
  <2>1. SUFFICES ASSUME NEW a \in DOMAIN t, NEW b \in DOMAIN t, t[a] = t[b]
                 PROVE  a = b
    BY DEF IsInjective
  <2>2. \A k \in 1..Len(s) : s[k] # x
    BY <1>4, <1>6 DEF Range
  <2>3. a \in 1..Len(s) /\ b \in 1..Len(s) => a = b
    BY <1>2, <1>4, <1>6, <2>1 DEF IsInjective
  <2>4. a \in 1..Len(s) \/ a = Len(s) + 1
    BY <1>1, <1>4
  <2>5. b \in 1..Len(s) \/ b = Len(s) + 1
    BY <1>1, <1>4
  <2> QED BY <1>2, <1>3, <2>1, <2>2, <2>3, <2>4, <2>5
<1> QED BY <1>1, <1>5, <1>6

LEMMA FrontFacts ==
  ASSUME NEW S, NEW s \in Seq(S), s # <<>>
  PROVE  /\ Front(s) \in Seq(S)
         /\ Last(s) \in Range(s)
         /\ Range(Front(s)) \subseteq Range(s)
         /\ IsInjective(s) => IsInjective(Front(s))
<1> DEFINE t == Front(s)
<1>1. Len(s) \in Nat /\ Len(s) # 0 /\ DOMAIN s = 1..Len(s)
  OBVIOUS
<1>2. /\ t \in Seq(S) /\ DOMAIN t = 1..(Len(s) - 1)
      /\ \A k \in 1..(Len(s) - 1) : t[k] = s[k]
  BY <1>1 DEF Front
<1>3. Last(s) \in Range(s)
  BY <1>1 DEF Last, Range
<1>4. \A k \in DOMAIN t : k \in DOMAIN s /\ t[k] = s[k]
  BY <1>1, <1>2
<1>5. Range(t) \subseteq Range(s)
  BY <1>4 DEF Range
<1>6. IsInjective(s) => IsInjective(t)
  BY <1>4 DEF IsInjective
<1> QED BY <1>2, <1>3, <1>5, <1>6

-----------------------------------------------------------------------------
(* The plan.                                                               *)

LEMMA PhaseNames ==
  Phases = {"create", "materialize", "verify", "replace", "delete", "rmdir"}
BY DEF Phases, Plan

(* What is planned for a phase.                                            *)
LEMMA PlannedItems ==
  /\ Plan["create"] \subseteq Undisputed \cap Folders
  /\ Plan["materialize"] \subseteq Undisputed \ Folders
  /\ Plan["verify"] \subseteq Undisputed \ Folders
  /\ Plan["replace"] \subseteq (Undisputed \cap Owned) \ Folders
  /\ Plan["delete"] \subseteq (Owned \ Expected) \ Folders
  /\ Plan["rmdir"] \subseteq Owned \ Expected
BY DEF Plan, Disposable, Stale

(* A phase is chosen only from a plan without conflicts or leftovers.      *)
LEMMA DecisionFacts ==
  /\ Decision \in Phases \cup {"refused", "converged", "manual"}
  /\ Decision \in Phases => ~Collision /\ ~Blocked /\ Leftovers = {}
  /\ Decision \notin Phases => Decision \in Outcomes
<1>1. (\E phase \in Phases : Active = {phase}) =>
        (CHOOSE phase \in Phases : Active = {phase}) \in Phases
  OBVIOUS
<1>2. "create" \in Active => "create" \in Phases
  BY DEF Active
<1>3. "refused" \notin Phases /\ "converged" \notin Phases /\ "manual" \notin Phases
  BY PhaseNames
<1> QED BY <1>1, <1>2, <1>3 DEF Decision, Blocked, Outcomes

-----------------------------------------------------------------------------
(* The inductive invariant of a run.                                       *)

Busy == {"fetch", "promote", "unlink", "confirm", "compare", "backup", "swap",
         "quarantine"}

(* The items a run has turned to, and whether it still works on its batch. *)
Turned  == Done \cup {i \in Items : run.step \in Busy /\ run.item = i}
Live    == run.phase # "idle" /\ run.step \in Busy \cup {"next"}
Recording == run.phase \in {"create", "materialize", "verify", "replace"}

(* The step fits the phase, and the item in progress is one of the batch   *)
(* that is neither done nor waiting.                                       *)
StepFits(phase, step) ==
  /\ step = "fetch" => phase \in {"materialize", "replace"}
  /\ step \in {"promote", "unlink", "confirm"} => phase = "materialize"
  /\ step = "compare" => phase \in {"replace", "verify"}
  /\ step \in {"backup", "swap"} => phase = "replace"
  /\ step = "quarantine" => phase = "delete"
  /\ step = "clean" => phase \in {"replace", "delete", "rmdir"}

RunInv ==
  /\ In("idle") => run = Idle
  /\ StepFits(run.phase, run.step)
  /\ run.step \in Busy => run.item \in Items \ (run.todo \cup Done)

(* What a run works on is what its plan said: while it runs, catalog and   *)
(* receipts stand still.                                                   *)
BatchInv ==
  Live =>
    /\ \A i \in Turned : run.memo[i] # None /\ run.memo[i].path = Home(i)
    /\ Recording => ~Collision /\ run.todo \cup Turned \subseteq Expected
    /\ In("create") => run.todo \cup Turned \subseteq Folders
    /\ Recording /\ ~In("create") => (run.todo \cup Turned) \cap Folders = {}
    /\ In("replace") =>
         \A i \in run.todo \cup Turned : i \in Owned /\ receipts[i].path = Home(i)
    /\ In("delete") => (run.todo \cup Turned) \cap Folders = {}
    /\ In("delete") \/ In("rmdir") =>
         run.todo \cup Turned \subseteq Owned \ Expected

(* No receipt is in the way of what a batch records.                       *)
PlannedInv == Live /\ Recording => run.todo \cup Turned \subseteq Undisputed

(* Whatever may write runs without a baseline; verify has nothing to take  *)
(* back.                                                                   *)
FenceInv ==
  /\ run.phase \notin {"idle", "verify"} => ~observation
  /\ In("verify") => temp = [p \in Paths |-> None]

(* The provider's objects are well formed.                                 *)
RemoteInv ==
  \A i \in Present :
    /\ remote[i].path \in Homes[i]
    /\ remote[i].blob \in (IF i \in Folders THEN {None} ELSE ProviderBlobs)

RunsInv == ConvergenceTypeOK /\ RunInv /\ BatchInv /\ FenceInv /\ RemoteInv


-----------------------------------------------------------------------------
(* Catalog and receipts against the provider.                              *)

(* The catalog is the provider's state but for changes still to be         *)
(* collected, and a folder that disappeared took its contents with it.     *)
CatalogInv ==
  /\ \A i \in Expected : catalog[i].path \in Homes[i]
  /\ \A i \in Items \ touched :
       catalog[i] = IF remote[i] = None THEN None ELSE Record(i, remote[i])
  /\ \A i \in Expected \cap Folders, j \in Expected :
       remote[i] = None /\ catalog[i].path \in Above[catalog[j].path]
         => j \in touched

(* A current receipt is for an item of the catalog, where the catalog has  *)
(* it.                                                                     *)
ReceiptInv ==
  \A i \in Owned :
    /\ i \in Folders => receipts[i].blob = None
    /\ receipts[i].state = "current" =>
         i \in Expected /\ receipts[i].path = catalog[i].path

(* What an item done is about to be attested with is what the provider     *)
(* has, unless it changed since.                                           *)
Compared == Done \cup {i \in Items : run.step \in {"backup", "swap"} /\ run.item = i}

Witness(i) ==
  /\ i \in Folders => run.memo[i].blob = None
  /\ i \notin touched =>
       remote[i] # None /\ remote[i].blob = run.memo[i].blob

WitnessInv == Live /\ Recording => \A i \in Compared : Witness(i)

ReceiptsInv == /\ CatalogInv /\ ReceiptInv /\ WitnessInv /\ PlannedInv
               /\ OneOwnerPerPath /\ CurrentReceiptsAgree


-----------------------------------------------------------------------------
(* Types.                                                                  *)

TreeOK ==
  /\ disk \in [Paths -> Files \cup {None, Dir}]
  /\ temp \in [Paths -> Files \cup {None}]
  /\ backup \in [Paths -> Files \cup {None}]
  /\ quarantine \in [Paths -> Files \cup {None, Dir}]

TablesOK ==
  /\ catalog \in [Items -> Catalogued \cup {None}]
  /\ receipts \in [Items -> Receipts \cup {None}]
  /\ remote \in [Items -> Object \cup {None}]
  /\ touched \subseteq Items
  /\ observation \in BOOLEAN
  /\ outcome \in Outcomes

RunOK ==
  /\ run \in Runs
  /\ IsInjective(run.done)
  /\ ~Now("clean") => Done \cap run.todo = {}

TalliesOK ==
  /\ edited \subseteq Paths
  /\ edits \in 0..MaxEdits /\ changes \in 0..MaxChanges
  /\ failures \in 0..MaxFailures /\ crashes \in 0..MaxCrashes

LEMMA TypeParts == ConvergenceTypeOK <=> TreeOK /\ TablesOK /\ RunOK /\ TalliesOK
BY DEF ConvergenceTypeOK, TreeOK, TablesOK, RunOK, TalliesOK

LEMMA RecordsAreNotNone ==
  /\ None \notin Files /\ Dir \notin Files
  /\ None # Dir
BY EntryAssumption, PlanAssumption

LEMMA FreshNodeType == Nodes \ InUse # {} => FreshNode \in Nodes
BY DEF FreshNode

LEMMA IdleType ==
  /\ Idle \in Runs
  /\ IsInjective(Idle.done)
  /\ Range(Idle.done) = {}
<1>1. Cardinality(Items) \in Nat
  BY PlanAssumption, FS_CardinalityType
<1>2. <<>> \in Seq(Items) /\ DOMAIN <<>> = {}
  OBVIOUS
<1>3. Blank \in [Items -> Memo \cup {None}]
  BY DEF Blank
<1> QED BY <1>1, <1>2, <1>3 DEF Idle, Runs, Steps, IsInjective, Range

LEMMA TypeInit == Init => ConvergenceTypeOK
<1> SUFFICES ASSUME Init PROVE ConvergenceTypeOK
  OBVIOUS
<1>1. InitialNode \in [Items -> Nodes]
  BY RunAssumption DEF InitialNode
<1>2. \A i \in Present : /\ remote[i] \in Object
                         /\ remote[i].path \in Paths
                         /\ i \notin Folders => remote[i].blob \in Blobs
  BY RunAssumption DEF Init, Present, Object
<1>3. catalog \in [Items -> Catalogued \cup {None}]
  BY <1>2, PlanAssumption DEF Init, Present, Record, Catalogued
<1>4. receipts \in [Items -> Receipts \cup {None}]
  BY <1>2 DEF Init, Present, Receipts, Object
<1>5. disk \in [Paths -> Files \cup {None, Dir}]
  <2>1. SUFFICES ASSUME NEW p \in Paths PROVE disk[p] \in Files \cup {None, Dir}
    BY DEF Init
  <2>2. CASE \A i \in Present : remote[i].path # p
    BY <2>2 DEF Init
  <2>3. CASE \E i \in Present : remote[i].path = p
    <3> DEFINE i == CHOOSE i \in Present : remote[i].path = p
    <3>1. i \in Present /\ remote[i].path = p
      BY <2>3
    <3>2. disk[p] = IF i \in Folders THEN Dir
                    ELSE [node |-> InitialNode[i], blob |-> remote[i].blob, stamp |-> 0]
      BY <2>3 DEF Init
    <3>3. i \notin Folders => [node |-> InitialNode[i], blob |-> remote[i].blob, stamp |-> 0] \in Files
      BY <3>1, <1>1, <1>2, PlanAssumption DEF Files, Present
    <3> QED BY <3>2, <3>3
  <2> QED BY <2>2, <2>3
<1>6. TreeOK
  BY <1>5 DEF Init, TreeOK
<1>7. TablesOK
  BY <1>3, <1>4 DEF Init, TablesOK, Outcomes
<1>8. RunOK
  BY IdleType DEF Init, RunOK, Idle, Done
<1>9. TalliesOK
  BY PlanAssumption, RunAssumption DEF Init, TalliesOK
<1> QED BY <1>6, <1>7, <1>8, <1>9, TypeParts

-----------------------------------------------------------------------------
(* What a run's own steps make of it.                                      *)

LEMMA PlanSteady ==
  ASSUME UNCHANGED <<catalog, receipts>>
  PROVE  /\ Collision' = Collision /\ Undisputed' = Undisputed
         /\ Owned' = Owned /\ Expected' = Expected
         /\ \A i \in Items : Home(i)' = Home(i)
BY DEF Collision, Undisputed, Owned, Expected, Home, ReceiptConflict

(* The paths a run works on are paths.                                     *)
LEMMA HomeType ==
  ASSUME TablesOK, NEW i \in Expected \cup Owned
  PROVE  Home(i) \in Paths
BY DEF TablesOK, Home, Expected, Owned, Catalogued, Receipts

LEMMA BatchHomes ==
  ASSUME RunsInv, Live
  PROVE  /\ run.todo \cup Turned \subseteq Expected \cup Owned
         /\ \A i \in run.todo \cup Turned : i \in Items /\ Home(i) \in Paths
         /\ ~In("create") /\ ~In("delete") /\ ~In("rmdir") =>
              \A i \in run.todo \cup Turned : i \notin Folders
<1>1. RunOK /\ TablesOK
  BY TypeParts DEF RunsInv
<1>2. run.phase \in Phases \ {"idle"}
  BY <1>1 DEF RunOK, Runs, Live
<1>3. Expected \subseteq Items /\ Owned \subseteq Items
  BY DEF Expected, Owned
<1>4. run.todo \cup Turned \subseteq Expected \cup Owned
  BY <1>2, <1>3, PhaseNames DEF RunsInv, BatchInv, Recording, In
<1>5. ~In("create") /\ ~In("delete") /\ ~In("rmdir") =>
        \A i \in run.todo \cup Turned : i \notin Folders
  BY <1>2, PhaseNames DEF RunsInv, BatchInv, Recording, In
<1> QED BY <1>1, <1>3, <1>4, <1>5, HomeType

LEMMA BusyFacts ==
  ASSUME RunsInv, run.step \in Busy
  PROVE  /\ Live /\ run.phase # "idle"
         /\ run.item \in Items /\ run.item \notin run.todo \cup Done
         /\ run.item \in Turned
         /\ run.memo[run.item] \in Memo
         /\ Here \in Paths /\ Here = Home(run.item)
         /\ run.memo[run.item].path = Here
<1>1. RunOK /\ TablesOK
  BY TypeParts DEF RunsInv
<1>2. run.phase # "idle"
  BY DEF RunsInv, RunInv, In, Idle, Busy
<1>3. Live
  BY <1>2 DEF Live
<1>4. run.item \in Items /\ run.item \notin run.todo \cup Done /\ run.item \in Turned
  BY DEF RunsInv, RunInv, Turned
<1>5. run.memo[run.item] # None /\ run.memo[run.item].path = Home(run.item)
  BY <1>3, <1>4 DEF RunsInv, BatchInv
<1>6. run.memo[run.item] \in Memo
  BY <1>1, <1>4, <1>5 DEF RunOK, Runs
<1>7. Here = Home(run.item) /\ Here \in Paths
  BY <1>5, <1>6 DEF Here, Memo
<1> QED BY <1>2, <1>3, <1>4, <1>5, <1>6, <1>7 DEF Here

LEMMA StartedFacts ==
  ASSUME run \in Runs, NEW i \in Items, NEW step \in Steps,
         NEW blob \in Blobs \cup {None}, NEW was \in Files \cup {None},
         Home(i) \in Paths
  PROVE  LET r == Started(i, step, blob, was) IN
         /\ r \in Runs /\ r.phase = run.phase /\ r.step = step /\ r.item = i
         /\ r.todo = run.todo \ {i} /\ r.done = run.done
         /\ r.memo[i] # None /\ r.memo[i].path = Home(i) /\ r.memo[i].blob = blob
         /\ \A j \in Items \ {i} : r.memo[j] = run.memo[j]
<1> DEFINE m == [path |-> Home(i), blob |-> blob, was |-> was, now |-> None]
           r == Started(i, step, blob, was)
<1>1. m \in Memo
  BY DEF Memo
<1>2. m # None
  BY <1>1, MemoAssumption
<1>3. run.memo \in [Items -> Memo \cup {None}]
  BY DEF Runs
<1>4. [run.memo EXCEPT ![i] = m] \in [Items -> Memo \cup {None}]
  BY <1>1, <1>3
<1>5. r = [run EXCEPT !.step = step, !.item = i, !.todo = run.todo \ {i},
                      !.memo = [run.memo EXCEPT ![i] = m]]
  BY DEF Started, Runs
<1> HIDE DEF m
<1>6. r \in Runs /\ r.phase = run.phase /\ r.step = step /\ r.item = i
      /\ r.todo = run.todo \ {i} /\ r.done = run.done
      /\ r.memo = [run.memo EXCEPT ![i] = m]
  BY <1>4, <1>5 DEF Runs
<1>7. r.memo[i] = m /\ \A j \in Items \ {i} : r.memo[j] = run.memo[j]
  BY <1>3, <1>6
<1>8. m.path = Home(i) /\ m.blob = blob
  BY DEF m
<1> QED BY <1>2, <1>6, <1>7, <1>8

LEMMA CompletedFacts ==
  ASSUME NEW r \in Runs, NEW i \in Items
  PROVE  LET c == Completed(r, i) IN
         /\ c \in Runs /\ c.phase = r.phase /\ c.step = "next" /\ c.item = None
         /\ c.todo = r.todo /\ c.memo = r.memo
         /\ Range(c.done) = Range(r.done) \cup {i}
         /\ IsInjective(r.done) /\ i \notin Range(r.done) => IsInjective(c.done)
<1> DEFINE c == Completed(r, i)
<1>1. r.done \in Seq(Items)
  BY DEF Runs
<1>2. c.done = Append(r.done, i) /\ c.phase = r.phase /\ c.step = "next"
      /\ c.item = None /\ c.todo = r.todo /\ c.memo = r.memo /\ c.goal = r.goal
  BY DEF Completed, Runs
<1>3. Append(r.done, i) \in Seq(Items)
  BY <1>1
<1>4. c = [r EXCEPT !.step = "next", !.item = None, !.done = Append(r.done, i)]
  BY DEF Completed, Runs
<1>5. c \in Runs
  BY <1>3, <1>4 DEF Runs, Steps
<1> QED BY <1>1, <1>2, <1>5, AppendFacts

-----------------------------------------------------------------------------
(* A batch in work stays one: whatever a step of it does to the run, it    *)
(* takes no item into the batch and forgets none it turned to.             *)

BatchParts == RunOK /\ RunInv /\ BatchInv

Shrinks == Live' => Live /\ (run.todo \cup Turned)' \subseteq run.todo \cup Turned

LEMMA Moving ==
  ASSUME RunsInv, Live, UNCHANGED <<catalog, receipts>>,
         run' \in Runs, run'.phase = run.phase,
         StepFits(run.phase, run'.step),
         run'.todo \subseteq run.todo,
         IsInjective(run'.done), Range(run'.done) \cap run'.todo = {},
         run'.step \in Busy => run'.item \in Items \ (run'.todo \cup Range(run'.done)),
         Range(run'.done) \cup {i \in Items : run'.step \in Busy /\ run'.item = i}
           \subseteq run.todo \cup Turned,
         \A i \in Range(run'.done) \cup {i \in Items : run'.step \in Busy /\ run'.item = i} :
           run'.memo[i] # None /\ run'.memo[i].path = Home(i)
  PROVE  BatchParts' /\ Shrinks
<1>1. RunOK'
  BY DEF RunOK, Done
<1>2. RunInv'
  BY DEF RunInv, Done, In, Live
<1>3. Turned' = Range(run'.done) \cup {i \in Items : run'.step \in Busy /\ run'.item = i}
  BY DEF Turned, Done
<1>4. /\ Recording' = Recording /\ (\A phase : In(phase)' = In(phase))
      /\ (run.todo \cup Turned)' \subseteq run.todo \cup Turned
  BY <1>3 DEF Recording, In
<1>5. BatchInv
  BY DEF RunsInv
<1>6. \A i \in Turned' : i \in Items
  <2>1. run'.done \in Seq(Items)
    BY DEF Runs
  <2> QED BY <2>1, <1>3 DEF Range
<1>7. \A i \in Turned' : (run.memo[i])' # None /\ (run.memo[i].path)' = Home(i)'
  BY <1>3, <1>6, PlanSteady
<1>7a. Shrinks
  BY <1>4 DEF Shrinks
<1> HIDE DEF Turned
<1>8. BatchInv'
  <2>1. \A i \in run.todo \cup Turned : i \in Items
    BY BatchHomes
  <2> QED BY <2>1, <1>4, <1>5, <1>7, PlanSteady DEF BatchInv
<1> QED BY <1>1, <1>2, <1>7a, <1>8 DEF BatchParts

(* The run turns to an item.                                               *)
LEMMA Starting ==
  ASSUME RunsInv, run.phase # "idle", Now("next"), NEW i \in run.todo,
         NEW step \in Busy, StepFits(run.phase, step),
         NEW blob \in Blobs \cup {None}, NEW was \in Files \cup {None},
         run' = Started(i, step, blob, was), UNCHANGED <<catalog, receipts>>
  PROVE  BatchParts' /\ Shrinks
<1> DEFINE r == Started(i, step, blob, was)
<1>1. RunOK /\ TablesOK
  BY TypeParts DEF RunsInv
<1>2. Live
  BY DEF Live, Now
<1>3. i \in Items /\ Home(i) \in Paths
  BY <1>2, BatchHomes
<1>4. step \in Steps
  BY DEF Busy, Steps
<1>5. /\ r \in Runs /\ r.phase = run.phase /\ r.step = step /\ r.item = i
      /\ r.todo = run.todo \ {i} /\ r.done = run.done
      /\ r.memo[i] # None /\ r.memo[i].path = Home(i)
      /\ \A j \in Items \ {i} : r.memo[j] = run.memo[j]
  BY <1>1, <1>3, <1>4, StartedFacts DEF RunOK
<1> HIDE DEF r
<1>6. run' = r
  BY DEF r
<1>7. IsInjective(run.done) /\ Done \cap run.todo = {}
  BY <1>1 DEF RunOK, Now
<1>8. Turned = Done
  BY DEF Turned, Now, Busy
<1>9. i \notin Range(r.done)
  BY <1>5, <1>7 DEF Done
<1>10. \A j \in Range(r.done) : j \in Items /\ run.memo[j] # None /\ run.memo[j].path = Home(j)
  BY <1>2, <1>5, <1>8, BatchHomes DEF RunsInv, BatchInv, Done
<1> QED BY <1>2, <1>3, <1>5, <1>6, <1>7, <1>8, <1>9, <1>10, Moving DEF Done

(* The run goes on with the item in progress.                              *)
Onward(step) ==
  /\ run' \in Runs /\ run'.phase = run.phase /\ run'.step = step
  /\ run'.item = run.item /\ run'.todo = run.todo /\ run'.done = run.done
  /\ \A i \in Turned : /\ run'.memo[i] # None
                       /\ run'.memo[i].path = run.memo[i].path
                       /\ run'.memo[i].blob = run.memo[i].blob

LEMMA Advancing ==
  ASSUME RunsInv, run.step \in Busy, NEW step \in Busy,
         StepFits(run.phase, step), Onward(step),
         UNCHANGED <<catalog, receipts>>
  PROVE  BatchParts' /\ Shrinks
<1>1. RunOK
  BY TypeParts DEF RunsInv
<1>2. Live /\ run.item \in Items /\ run.item \notin run.todo \cup Done /\ run.item \in Turned
  BY BusyFacts
<1>3. IsInjective(run.done) /\ Done \cap run.todo = {}
  BY <1>1 DEF RunOK, Now, Busy
<1>4. Done \cup {i \in Items : run.item = i} = Turned
  BY DEF Turned
<1>5. \A i \in Turned : run'.memo[i] # None /\ run'.memo[i].path = Home(i)
  BY <1>2 DEF RunsInv, BatchInv, Onward
<1> QED BY <1>1, <1>2, <1>3, <1>4, <1>5, Moving DEF Onward, Done

(* The run is through with the item in progress.                           *)
Through(r) ==
  /\ r \in Runs /\ r.phase = run.phase /\ r.todo = run.todo /\ r.done = run.done
  /\ \A i \in Turned : /\ r.memo[i] # None
                       /\ r.memo[i].path = run.memo[i].path
                       /\ r.memo[i].blob = run.memo[i].blob

LEMMA Completing ==
  ASSUME RunsInv, run.step \in Busy, NEW r, Through(r),
         run' = Completed(r, run.item), UNCHANGED <<catalog, receipts>>
  PROVE  BatchParts' /\ Shrinks
<1>1. RunOK
  BY TypeParts DEF RunsInv
<1>2. Live /\ run.item \in Items /\ run.item \notin run.todo \cup Done /\ run.item \in Turned
  BY BusyFacts
<1>3. IsInjective(run.done) /\ Done \cap run.todo = {}
  BY <1>1 DEF RunOK, Now, Busy
<1>4. Done \cup {run.item} = Turned
  BY <1>2 DEF Turned
<1>5. \A i \in Turned : r.memo[i] # None /\ r.memo[i].path = Home(i)
  BY <1>2 DEF RunsInv, BatchInv, Through
<1>6. /\ run' \in Runs /\ run'.phase = run.phase /\ run'.step = "next"
      /\ run'.todo = run.todo /\ run'.memo = r.memo
      /\ Range(run'.done) = Done \cup {run.item}
      /\ IsInjective(run'.done)
  BY <1>2, <1>3, CompletedFacts DEF Through, Done
<1>7. StepFits(run.phase, "next") /\ "next" \notin Busy
  BY DEF StepFits, Busy
<1> HIDE DEF Turned, Done
<1> QED BY <1>2, <1>3, <1>4, <1>5, <1>6, <1>7, Moving

(* A step that leaves the batch, for a rollback or for the end.            *)
LEMMA Leaving ==
  ASSUME run' \in Runs, run'.phase # "idle",
         run'.step \in {"rollback", "clean", "finish"},
         StepFits(run'.phase, run'.step),
         IsInjective(run'.done),
         run'.step # "clean" => Range(run'.done) \cap run'.todo = {}
  PROVE  BatchParts' /\ Shrinks
<1>1. RunOK'
  BY DEF RunOK, Done, Now
<1>2. RunInv'
  BY DEF RunInv, In, StepFits, Busy
<1>3. BatchInv' /\ Shrinks
  BY DEF BatchInv, Shrinks, Live, Busy
<1> QED BY <1>1, <1>2, <1>3 DEF BatchParts

LEMMA Ending ==
  ASSUME run' = Idle
  PROVE  BatchParts'
<1>1. RunOK'
  BY IdleType DEF RunOK, Done
<1>2. RunInv'
  BY DEF RunInv, In, StepFits, Busy, Idle
<1>3. BatchInv'
  BY DEF BatchInv, Live, Idle
<1> QED BY <1>1, <1>2, <1>3 DEF BatchParts

LEMMA Beginning ==
  ASSUME RunsInv, run = Idle, Decision \in Phases,
         run' = [Idle EXCEPT !.phase = Decision, !.todo = Plan[Decision],
                             !.goal = Cardinality(Plan[Decision])],
         UNCHANGED <<catalog, receipts>>
  PROVE  BatchParts' /\ run'.phase = Decision /\ run'.done = <<>> /\ run'.step = "next"
<1>1. Plan[Decision] \subseteq Items /\ Undisputed \subseteq Items /\ Owned \subseteq Items
  BY PlannedItems, PhaseNames DEF Undisputed, Owned, Expected
<1>2. Cardinality(Plan[Decision]) \in 0..Cardinality(Items)
  BY <1>1, PlanAssumption, FS_Subset, FS_CardinalityType
<1>3. Idle \in Runs /\ Idle.done = <<>> /\ Idle.step = "next" /\ Idle.item = None
  BY IdleType DEF Idle
<1>4. /\ run' \in Runs /\ run'.phase = Decision /\ run'.todo = Plan[Decision]
      /\ run'.step = "next" /\ run'.done = <<>> /\ run'.item = None
  BY <1>1, <1>2, <1>3 DEF Runs
<1>5. Range(<<>>) = {} /\ IsInjective(<<>>)
  BY DEF Range, IsInjective
<1>6. RunOK'
  BY <1>4, <1>5 DEF RunOK, Done
<1>7. RunInv'
  BY <1>4, PhaseNames DEF RunInv, In, StepFits, Busy
<1>8. Turned' = {}
  BY <1>4, <1>5 DEF Turned, Done, Busy
<1>9. Recording' => ~Collision /\ Plan[Decision] \subseteq Undisputed
  BY <1>4, DecisionFacts, PlannedItems DEF Recording
<1>10. BatchInv'
  <2>1. In("replace")' => \A i \in Plan[Decision] : i \in Items /\ i \in Owned /\ receipts[i].path = Home(i)
    BY <1>1, <1>4, PlannedItems DEF In, Undisputed, ReceiptConflict, Home
  <2> QED BY <1>4, <1>8, <1>9, <2>1, PlannedItems, PlanSteady DEF BatchInv, Recording, In, Undisputed
<1> QED BY <1>4, <1>6, <1>7, <1>10 DEF BatchParts

-----------------------------------------------------------------------------
(* The steps of a run one by one.                                          *)

LEMMA Passed ==
  ASSUME RunsInv, run.phase # "idle", Now("next"), NEW i \in run.todo,
         \/ run' = Completed(Started(i, "next", None, None), i)
         \/ run' = [Started(i, "next", None, None) EXCEPT !.item = None],
         UNCHANGED <<catalog, receipts>>
  PROVE  BatchParts' /\ Shrinks /\ run'.phase = run.phase
<1> DEFINE r == Started(i, "next", None, None)
<1>1. RunOK
  BY TypeParts DEF RunsInv
<1>2. Live
  BY DEF Live, Now
<1>3. i \in Items /\ Home(i) \in Paths
  BY <1>2, BatchHomes
<1>4. /\ r \in Runs /\ r.phase = run.phase /\ r.step = "next" /\ r.item = i
      /\ r.todo = run.todo \ {i} /\ r.done = run.done
      /\ r.memo[i] # None /\ r.memo[i].path = Home(i)
      /\ \A j \in Items \ {i} : r.memo[j] = run.memo[j]
  BY <1>1, <1>3, StartedFacts DEF RunOK, Steps
<1>5. run' = Completed(r, i) \/ run' = [r EXCEPT !.item = None]
  BY DEF r
<1> HIDE DEF r
<1>6. IsInjective(run.done) /\ Done \cap run.todo = {}
  BY <1>1 DEF RunOK, Now
<1>7. Turned = Done
  BY DEF Turned, Now, Busy
<1>8. \A j \in Done : j \in Items /\ run.memo[j] # None /\ run.memo[j].path = Home(j)
  BY <1>2, <1>7, BatchHomes DEF RunsInv, BatchInv
<1>9. i \notin Done /\ \A j \in Done \cup {i} : r.memo[j] # None /\ r.memo[j].path = Home(j)
  BY <1>4, <1>6, <1>8
<1>10. /\ run' \in Runs /\ run'.phase = run.phase /\ run'.step = "next"
       /\ run'.todo = run.todo \ {i} /\ run'.memo = r.memo
       /\ Range(run'.done) \subseteq Done \cup {i} /\ IsInjective(run'.done)
  <2>1. CASE run' = Completed(r, i)
    BY <2>1, <1>3, <1>4, <1>6, <1>9, CompletedFacts DEF Done
  <2>2. CASE run' = [r EXCEPT !.item = None]
    BY <2>2, <1>4, <1>6 DEF Done, Runs
  <2> QED BY <1>5, <2>1, <2>2
<1>11. StepFits(run.phase, "next") /\ "next" \notin Busy
  BY DEF StepFits, Busy
<1> HIDE DEF Turned, Done
<1> QED BY <1>2, <1>3, <1>6, <1>7, <1>9, <1>10, <1>11, Moving

Keeping(r, step) ==
  /\ r \in Runs /\ r.phase = run.phase /\ r.step = step
  /\ r.item = run.item /\ r.todo = run.todo /\ r.done = run.done
  /\ \A i \in Turned : /\ r.memo[i] # None
                       /\ r.memo[i].path = run.memo[i].path
                       /\ r.memo[i].blob = run.memo[i].blob

LEMMA Noted ==
  ASSUME RunsInv, run.step \in Busy, NEW step \in Steps,
         NEW x \in Files \cup {None}, NEW r,
         \/ r = [run EXCEPT !.step = step]
         \/ r = [run EXCEPT !.step = step, !.memo[run.item].now = x]
         \/ r = [run EXCEPT !.step = step, !.memo[run.item].was = x]
  PROVE  Keeping(r, step)
<1>1. RunOK
  BY TypeParts DEF RunsInv
<1>2. run.item \in Items /\ run.memo[run.item] \in Memo /\ Live
  BY BusyFacts
<1> DEFINE now == [run.memo[run.item] EXCEPT !.now = x]
           was == [run.memo[run.item] EXCEPT !.was = x]
<1>3. now \in Memo /\ was \in Memo /\ now # None /\ was # None
      /\ now.path = run.memo[run.item].path /\ was.path = run.memo[run.item].path
      /\ now.blob = run.memo[run.item].blob /\ was.blob = run.memo[run.item].blob
  <2>1. now \in Memo /\ was \in Memo
        /\ now.path = run.memo[run.item].path /\ was.path = run.memo[run.item].path
        /\ now.blob = run.memo[run.item].blob /\ was.blob = run.memo[run.item].blob
    BY <1>2 DEF Memo
  <2> QED BY <2>1, MemoAssumption
<1>4. \/ r = [run EXCEPT !.step = step]
      \/ r = [run EXCEPT !.step = step, !.memo = [run.memo EXCEPT ![run.item] = now]]
      \/ r = [run EXCEPT !.step = step, !.memo = [run.memo EXCEPT ![run.item] = was]]
  BY <1>1, <1>2 DEF RunOK, Runs
<1> HIDE DEF now, was
<1>5. run.memo \in [Items -> Memo \cup {None}] /\ \A i \in Turned : i \in Items /\ run.memo[i] # None
  BY <1>1, <1>2, BatchHomes DEF RunOK, Runs, RunsInv, BatchInv
<1>6. /\ [run.memo EXCEPT ![run.item] = now] \in [Items -> Memo \cup {None}]
      /\ [run.memo EXCEPT ![run.item] = was] \in [Items -> Memo \cup {None}]
  BY <1>3, <1>5
<1>7. r \in Runs /\ r.phase = run.phase /\ r.step = step
      /\ r.item = run.item /\ r.todo = run.todo /\ r.done = run.done
      /\ \/ r.memo = run.memo
         \/ r.memo = [run.memo EXCEPT ![run.item] = now]
         \/ r.memo = [run.memo EXCEPT ![run.item] = was]
  BY <1>1, <1>4, <1>6 DEF RunOK, Runs
<1>8. ASSUME NEW i \in Turned
      PROVE  r.memo[i] # None /\ r.memo[i].path = run.memo[i].path
             /\ r.memo[i].blob = run.memo[i].blob
  <2>1. CASE i = run.item
    <3>1. r.memo[i] \in {run.memo[i], now, was}
      BY <1>2, <1>5, <1>7, <2>1
    <3> QED BY <3>1, <2>1, <1>3, <1>5
  <2>2. CASE i # run.item
    <3>1. r.memo[i] = run.memo[i]
      BY <1>2, <1>5, <1>7, <2>2
    <3> QED BY <3>1, <1>5
  <2> QED BY <2>1, <2>2
<1> QED BY <1>7, <1>8 DEF Keeping

LEMMA StepNoted ==
  ASSUME RunsInv, run.step \in Busy, NEW step \in Steps
  PROVE  Keeping([run EXCEPT !.step = step], step)
<1> DEFINE r == [run EXCEPT !.step = step]
<1>1. r = [run EXCEPT !.step = step]
  OBVIOUS
<1> HIDE DEF r
<1>2. Keeping(r, step)
  BY <1>1, Noted
<1> QED BY <1>1, <1>2

LEMMA NowNoted ==
  ASSUME RunsInv, run.step \in Busy, NEW step \in Steps, NEW x \in Files \cup {None}
  PROVE  Keeping([run EXCEPT !.step = step, !.memo[run.item].now = x], step)
<1> DEFINE r == [run EXCEPT !.step = step, !.memo[run.item].now = x]
<1>1. r = [run EXCEPT !.step = step, !.memo[run.item].now = x]
  OBVIOUS
<1> HIDE DEF r
<1>2. Keeping(r, step)
  BY <1>1, Noted
<1> QED BY <1>1, <1>2

LEMMA WasNoted ==
  ASSUME RunsInv, run.step \in Busy, NEW step \in Steps, NEW x \in Files \cup {None}
  PROVE  Keeping([run EXCEPT !.step = step, !.memo[run.item].was = x], step)
<1> DEFINE r == [run EXCEPT !.step = step, !.memo[run.item].was = x]
<1>1. r = [run EXCEPT !.step = step, !.memo[run.item].was = x]
  OBVIOUS
<1> HIDE DEF r
<1>2. Keeping(r, step)
  BY <1>1, Noted
<1> QED BY <1>1, <1>2

(* What a step of a run keeps.                                             *)
Worked ==
  /\ TreeOK' /\ BatchParts' /\ Shrinks
  /\ receipts' \in [Items -> Receipts \cup {None}]
  /\ In("verify") => temp' = temp
  /\ run'.phase = run.phase

LEMMA MakeFolderWorks ==
  ASSUME RunsInv, NEW i \in Items, MakeFolder(i), UNCHANGED catalog
  PROVE  Worked
<1>1. TreeOK /\ TablesOK
  BY TypeParts DEF RunsInv
<1>2. In("create") /\ run.phase # "idle" /\ Now("next") /\ i \in run.todo /\ UNCHANGED <<catalog, receipts>>
  BY DEF MakeFolder, Turn, In
<1>3. BatchParts' /\ Shrinks /\ run'.phase = run.phase
  BY <1>2, Passed DEF MakeFolder
<1>4. TreeOK'
  BY <1>1 DEF TreeOK, MakeFolder
<1> QED BY <1>1, <1>2, <1>3, <1>4 DEF Worked, MakeFolder, TablesOK

LEMMA QuarantineFolderWorks ==
  ASSUME RunsInv, NEW i \in Items, QuarantineFolder(i), UNCHANGED catalog
  PROVE  Worked
<1>1. TreeOK /\ TablesOK
  BY TypeParts DEF RunsInv
<1>2. In("rmdir") /\ run.phase # "idle" /\ Now("next") /\ i \in run.todo /\ UNCHANGED <<catalog, receipts>>
  BY DEF QuarantineFolder, Turn, In, Aside
<1>3. BatchParts' /\ Shrinks /\ run'.phase = run.phase
  BY <1>2, Passed DEF QuarantineFolder
<1>4. Home(i) \in Paths
  BY <1>2, BatchHomes DEF Live, Now
<1>5. TreeOK'
  BY <1>1, <1>4 DEF TreeOK, QuarantineFolder, Aside
<1> QED BY <1>1, <1>2, <1>3, <1>5 DEF Worked, QuarantineFolder, Aside, TablesOK

LEMMA TurnWorks ==
  ASSUME RunsInv, NEW i \in Items, Fingerprint(i) \/ HashLocal(i) \/ InspectStale(i),
         UNCHANGED catalog
  PROVE  Worked
<1>1. TreeOK /\ TablesOK
  BY TypeParts DEF RunsInv
<1>2. run.phase # "idle" /\ Now("next") /\ i \in run.todo /\ UNCHANGED <<catalog, receipts, tree>>
  BY DEF Fingerprint, HashLocal, InspectStale, Turn, In
<1>3. Home(i) \in Paths /\ Live
  BY <1>2, BatchHomes DEF Live, Now
<1>4. BatchParts' /\ Shrinks /\ run'.phase = run.phase
  <2>1. CASE Fingerprint(i)
    <3>1. remote[i].blob \in Blobs \cup {None}
      <4>1. Announced(i)
        BY <2>1 DEF Fingerprint, Turn, FirstCheck, In
      <4> QED BY <4>1, <1>1 DEF Announced, TablesOK, Object
    <3>2. StepFits(run.phase, "fetch") /\ "fetch" \in Busy
      BY <2>1 DEF Fingerprint, StepFits, Busy, In
    <3>3. run' = Started(i, "fetch", remote[i].blob, None)
      BY <2>1 DEF Fingerprint
    <3>4. BatchParts' /\ Shrinks
      BY <1>2, <3>1, <3>2, <3>3, Starting
    <3> QED BY <3>3, <3>4 DEF Started
  <2>2. CASE HashLocal(i)
    <3>1. disk[Home(i)] \in Files /\ disk[Home(i)].blob \in Blobs
      <4>1. IsFile(disk[Home(i)])
        BY <2>2 DEF HashLocal, Turn, FirstCheck, In
      <4> QED BY <4>1 DEF IsFile, Files
    <3>2. StepFits(run.phase, "compare") /\ "compare" \in Busy
      BY <2>2 DEF HashLocal, StepFits, Busy, In
    <3>3. run' = Started(i, "compare", disk[Home(i)].blob, disk[Home(i)])
      BY <2>2 DEF HashLocal
    <3>4. BatchParts' /\ Shrinks
      BY <1>2, <3>1, <3>2, <3>3, Starting
    <3> QED BY <3>3, <3>4 DEF Started
  <2>3. CASE InspectStale(i)
    <3>1. i \in Owned /\ i \notin Expected
      BY <2>3, <1>2, <1>3 DEF InspectStale, In, RunsInv, BatchInv
    <3>2. disk[Home(i)] \in Files /\ receipts[i].blob \in Blobs \cup {None}
      <4>1. Unchanged(i) /\ Home(i) = receipts[i].path
        BY <2>3, <3>1 DEF InspectStale, Turn, FirstCheck, In, Home
      <4>2. receipts[i] \in Receipts
        BY <1>1, <3>1 DEF TablesOK, Owned
      <4> QED BY <4>1, <4>2 DEF Unchanged, IsFile, Receipts
    <3>3. StepFits(run.phase, "quarantine") /\ "quarantine" \in Busy
      BY <2>3 DEF InspectStale, StepFits, Busy, In
    <3>4. run' = Started(i, "quarantine", receipts[i].blob, disk[Home(i)])
      BY <2>3 DEF InspectStale
    <3>5. BatchParts' /\ Shrinks
      BY <1>2, <3>2, <3>3, <3>4, Starting
    <3> QED BY <3>4, <3>5 DEF Started
  <2> QED BY <2>1, <2>2, <2>3
<1>5. TreeOK'
  BY <1>1, <1>2 DEF TreeOK, tree
<1> QED BY <1>1, <1>2, <1>4, <1>5 DEF Worked, TablesOK, tree

(* The steps on the item in progress.                                      *)
LEMMA ItemWorks ==
  ASSUME RunsInv,
         Fetch \/ Promote \/ Unlink \/ Confirm \/ CompareProvider
           \/ CompareBaseline \/ LinkBackup \/ Swap \/ QuarantineFile,
         UNCHANGED catalog
  PROVE  Worked
<1>1. TreeOK /\ TablesOK /\ RunOK
  BY TypeParts DEF RunsInv
<1>2. run.step \in Busy
  BY DEF Fetch, Promote, Unlink, Confirm, CompareProvider, CompareBaseline,
         LinkBackup, Swap, QuarantineFile, Now, Busy
<1>3. UNCHANGED <<catalog, receipts>>
  BY DEF Fetch, Promote, Unlink, Confirm, CompareProvider, CompareBaseline,
         LinkBackup, Swap, QuarantineFile, Aside
<1>4. /\ run.item \in Items /\ run.item \in Turned /\ Here \in Paths /\ Live
      /\ run.phase \in Phases
  BY <1>1, <1>2, BusyFacts DEF RunOK, Runs
<1>5. StepFits(run.phase, run.step)
  BY DEF RunsInv, RunInv
<1>6. temp[Here] \in Files \cup {None}
  BY <1>1, <1>4 DEF TreeOK
<1>7. Busy \subseteq Steps /\ "next" \in Steps
  BY DEF Busy, Steps
<1>8. CASE Fetch
  <2>1. In("materialize") \/ In("replace")
    BY <1>5, <1>8 DEF Fetch, Now, StepFits, In
  <2> DEFINE step == IF In("materialize") THEN "promote" ELSE "compare"
  <2>2. StepFits(run.phase, step) /\ step \in Busy
    BY <2>1 DEF StepFits, Busy, In
  <2>3. run' = [run EXCEPT !.step = step]
    BY <1>8 DEF Fetch
  <2> HIDE DEF step
  <2>4. Onward(step)
    BY <1>2, <1>7, <2>2, <2>3, StepNoted DEF Onward, Keeping
  <2>5. remote[run.item].blob \in Blobs /\ run.item \in Present
    <3>1. run.item \in Present
      BY <1>4, <1>8 DEF Fetch, Passes, Announced, Present, Now
    <3>2. run.item \notin Folders
      BY <1>4, <2>1, BatchHomes DEF In
    <3> QED BY <3>1, <3>2, RunAssumption DEF RunsInv, RemoteInv
  <2>6. FreshNode \in Nodes
    BY <1>8, FreshNodeType DEF Fetch
  <2>7. [node |-> FreshNode, blob |-> remote[run.item].blob, stamp |-> 0] \in Files
    BY <2>5, <2>6, PlanAssumption DEF Files
  <2>8. TreeOK'
    BY <1>1, <1>8, <2>7 DEF Fetch, TreeOK
  <2>9. BatchParts' /\ Shrinks
    BY <1>2, <1>3, <2>2, <2>4, Advancing
  <2> QED BY <1>1, <1>3, <2>1, <2>4, <2>8, <2>9 DEF Worked, Onward, In, TablesOK
<1>9. CASE Promote
  <2>1. In("materialize") /\ StepFits(run.phase, "unlink") /\ "unlink" \in Busy
    BY <1>5, <1>9 DEF Promote, Now, StepFits, In, Busy
  <2>2. run' = [run EXCEPT !.step = "unlink", !.memo[run.item].now = temp[Here]]
    BY <1>9 DEF Promote
  <2>3. Onward("unlink")
    <3>1. "unlink" \in Steps
      BY DEF Steps
    <3>2. Keeping(run', "unlink")
      BY <1>2, <1>6, <2>2, <3>1, NowNoted, Zenon
    <3> QED BY <3>2 DEF Onward, Keeping
  <2>4. TreeOK'
    BY <1>1, <1>6, <1>9 DEF Promote, TreeOK
  <2>5. BatchParts' /\ Shrinks
    BY <1>2, <1>3, <2>1, <2>3, Advancing
  <2> QED BY <1>1, <1>3, <1>9, <2>3, <2>4, <2>5 DEF Worked, Onward, TablesOK, Promote
<1>10. CASE Unlink
  <2>1. In("materialize") /\ StepFits(run.phase, "confirm") /\ "confirm" \in Busy
    BY <1>5, <1>10 DEF Unlink, Now, StepFits, In, Busy
  <2>2. run' = [run EXCEPT !.step = "confirm"]
    BY <1>10 DEF Unlink
  <2>3. Onward("confirm")
    BY <1>2, <1>7, <2>1, <2>2, StepNoted DEF Onward, Keeping
  <2>4. TreeOK'
    BY <1>1, <1>10 DEF Unlink, TreeOK
  <2>5. BatchParts' /\ Shrinks
    BY <1>2, <1>3, <2>1, <2>3, Advancing
  <2> QED BY <1>1, <1>3, <2>1, <2>3, <2>4, <2>5 DEF Worked, Onward, TablesOK, In
<1>11. CASE Confirm \/ CompareProvider
  <2>1. run' = Completed(run, run.item) /\ UNCHANGED tree
    BY <1>11 DEF Confirm, CompareProvider
  <2>2. Through(run)
    BY <1>1, <1>4 DEF Through, RunOK, RunsInv, BatchInv
  <2>3. BatchParts' /\ Shrinks /\ run'.phase = run.phase
    BY <1>2, <1>1, <1>3, <1>4, <2>1, <2>2, Completing, CompletedFacts DEF RunOK
  <2>4. TreeOK'
    BY <1>1, <2>1 DEF TreeOK, tree
  <2> QED BY <1>1, <1>3, <2>1, <2>3, <2>4 DEF Worked, TablesOK, tree
<1>12. CASE CompareBaseline
  <2>1. In("replace") /\ StepFits(run.phase, "backup") /\ "backup" \in Busy
    BY <1>12 DEF CompareBaseline, StepFits, In, Busy
  <2>2. disk[Here] \in Files
    <3>1. Unchanged(run.item) /\ run.item \in Owned
      BY <1>4, <1>12 DEF CompareBaseline, Passes, Now, In, RunsInv, BatchInv
    <3>2. receipts[run.item].path = Home(run.item)
      BY <1>4, <2>1 DEF RunsInv, BatchInv
    <3> QED BY <1>2, <3>1, <3>2, BusyFacts DEF Unchanged, IsFile
  <2>3. run' = [run EXCEPT !.step = "backup", !.memo[run.item].was = disk[Here]]
        /\ UNCHANGED tree
    BY <1>12 DEF CompareBaseline
  <2>4. Onward("backup")
    <3>1. "backup" \in Steps /\ disk[Here] \in Files \cup {None}
      BY <2>2 DEF Steps
    <3>2. Keeping(run', "backup")
      BY <1>2, <2>3, <3>1, WasNoted, Zenon
    <3> QED BY <3>2 DEF Onward, Keeping
  <2>5. TreeOK'
    BY <1>1, <2>3 DEF TreeOK, tree
  <2>6. BatchParts' /\ Shrinks
    BY <1>2, <1>3, <2>1, <2>4, Advancing
  <2> QED BY <1>1, <1>3, <2>3, <2>4, <2>5, <2>6 DEF Worked, Onward, TablesOK, tree
<1>13. CASE LinkBackup
  <2>1. In("replace") /\ StepFits(run.phase, "swap") /\ "swap" \in Busy
    BY <1>5, <1>13 DEF LinkBackup, Now, StepFits, In, Busy
  <2>2. run' = [run EXCEPT !.step = "swap"]
    BY <1>13 DEF LinkBackup
  <2>3. Onward("swap")
    BY <1>2, <1>7, <2>1, <2>2, StepNoted DEF Onward, Keeping
  <2>4. disk[Here] \in Files
    BY <1>13 DEF LinkBackup, Passes, Now, SameFile, IsFile, Here
  <2>5. TreeOK'
    BY <1>1, <1>13, <2>4 DEF LinkBackup, TreeOK
  <2>6. BatchParts' /\ Shrinks
    BY <1>2, <1>3, <2>1, <2>3, Advancing
  <2> QED BY <1>1, <1>3, <1>13, <2>3, <2>5, <2>6 DEF Worked, Onward, TablesOK, LinkBackup
<1>14. CASE Swap
  <2> DEFINE r == [run EXCEPT !.memo[run.item].now = temp[Here]]
  <2>1. In("replace")
    BY <1>5, <1>14 DEF Swap, Now, StepFits, In
  <2>2. r = [run EXCEPT !.step = run.step, !.memo[run.item].now = temp[Here]]
    BY <1>1, <1>4 DEF RunOK, Runs
  <2>3. run' = Completed(r, run.item)
    BY <1>14 DEF Swap
  <2> HIDE DEF r
  <2>4. Through(r)
    <3>1. run.step \in Steps
      BY <1>2, <1>7
    <3>2. Keeping(r, run.step)
      BY <1>2, <1>6, <2>2, <3>1, NowNoted, Zenon
    <3> QED BY <3>2 DEF Through, Keeping
  <2>5. BatchParts' /\ Shrinks /\ run'.phase = run.phase
    BY <1>2, <1>3, <1>4, <2>3, <2>4, Completing, CompletedFacts DEF Through
  <2>6. TreeOK'
    BY <1>1, <1>6, <1>14 DEF Swap, TreeOK
  <2> QED BY <1>1, <1>3, <2>1, <2>5, <2>6 DEF Worked, TablesOK, In
<1>15. CASE QuarantineFile
  <2>1. run' = Completed(run, run.item) /\ Aside(Here)
    BY <1>15 DEF QuarantineFile
  <2>2. Through(run)
    BY <1>1, <1>4 DEF Through, RunOK, RunsInv, BatchInv
  <2>3. BatchParts' /\ Shrinks /\ run'.phase = run.phase
    BY <1>2, <1>1, <1>3, <1>4, <2>1, <2>2, Completing, CompletedFacts DEF RunOK
  <2>4. TreeOK'
    BY <1>1, <1>4, <2>1 DEF TreeOK, Aside
  <2> QED BY <1>1, <1>3, <2>1, <2>3, <2>4 DEF Worked, TablesOK, Aside
<1> QED BY <1>8, <1>9, <1>10, <1>11, <1>12, <1>13, <1>14, <1>15

(* The end of a batch.                                                     *)
LEMMA BatchEnds ==
  ASSUME RunsInv, RecordReceipts \/ DropReceipts \/ \E i \in Items : Clean(i)
  PROVE  Worked
<1>1. TreeOK /\ TablesOK /\ RunOK
  BY TypeParts DEF RunsInv
<1>2. Done \subseteq Items /\ run \in Runs
  BY <1>1 DEF RunOK, Runs, Done, Range
<1>3. ASSUME AllDone, run.phase # "idle"
      PROVE  \A i \in Done : run.memo[i] \in Memo
  BY <1>2, <1>3 DEF AllDone, Now, Live, Turned, RunsInv, BatchInv, Runs
<1>4. CASE RecordReceipts
  <2>1. run.phase # "idle" /\ AllDone
    BY <1>4 DEF RecordReceipts, In
  <2>2. receipts' \in [Items -> Receipts \cup {None}]
    BY <1>1, <1>3, <1>4, <2>1 DEF RecordReceipts, TablesOK, Receipts, Memo
  <2>3. \/ run' = [run EXCEPT !.step = "clean", !.todo = Done]
        \/ run' = [run EXCEPT !.step = "finish"]
    BY <1>4 DEF RecordReceipts
  <2>4. /\ run' \in Runs /\ run'.phase = run.phase /\ run'.done = run.done
        /\ run'.step = "clean" \/ (run'.step = "finish" /\ run'.todo = run.todo)
    BY <1>2, <2>3 DEF Runs, Steps
  <2>4a. StepFits(run'.phase, run'.step)
    BY <1>4, <2>3, <2>4, <1>2 DEF StepFits, RecordReceipts, In, Runs
  <2>5. BatchParts' /\ Shrinks
    BY <1>1, <2>1, <2>4, <2>4a, Leaving DEF RunOK, Done, AllDone
  <2>6. TreeOK' /\ UNCHANGED temp
    BY <1>1, <1>4 DEF RecordReceipts, TreeOK, tree
  <2> QED BY <2>2, <2>4, <2>5, <2>6 DEF Worked
<1>5. CASE DropReceipts
  <2>1. run.phase # "idle"
    BY <1>5 DEF DropReceipts, In
  <2>2. receipts' \in [Items -> Receipts \cup {None}]
    BY <1>1, <1>5 DEF DropReceipts, TablesOK
  <2>3. run' = [run EXCEPT !.step = "clean", !.todo = Done]
    BY <1>5 DEF DropReceipts
  <2>4. /\ run' \in Runs /\ run'.phase = run.phase /\ run'.done = run.done
        /\ run'.step = "clean"
    BY <1>2, <2>3 DEF Runs, Steps
  <2>4a. StepFits(run'.phase, run'.step)
    BY <1>5, <2>4 DEF StepFits, DropReceipts, In
  <2>5. BatchParts' /\ Shrinks
    BY <1>1, <2>1, <2>4, <2>4a, Leaving DEF RunOK
  <2>6. TreeOK' /\ UNCHANGED temp
    BY <1>1, <1>5 DEF DropReceipts, TreeOK, tree
  <2> QED BY <2>2, <2>4, <2>5, <2>6 DEF Worked
<1>6. CASE \E i \in Items : Clean(i)
  <2>1. PICK i \in Items : Clean(i)
    BY <1>6
  <2>2. run.phase # "idle"
    BY <2>1 DEF Clean, Now, RunsInv, RunInv, In, Idle
  <2>3. run' = [run EXCEPT !.todo = run.todo \ {i}]
    BY <1>2, <2>1 DEF Clean
  <2>4. /\ run' \in Runs /\ run'.phase = run.phase /\ run'.done = run.done
        /\ run'.step = "clean"
    BY <1>2, <2>1, <2>3 DEF Runs, Clean, Now
  <2>4a. StepFits(run'.phase, run'.step)
    BY <2>1, <2>4 DEF StepFits, Clean, Now, RunsInv, RunInv
  <2>5. BatchParts' /\ Shrinks
    BY <1>1, <2>2, <2>4, <2>4a, Leaving DEF RunOK
  <2>6. TreeOK' /\ UNCHANGED <<temp, receipts>>
    BY <1>1, <2>1 DEF Clean, TreeOK
  <2> QED BY <1>1, <2>4, <2>5, <2>6 DEF Worked, TablesOK
<1> QED BY <1>4, <1>5, <1>6

(* Failures and the way back.                                              *)
LEMMA GiveUpWorks ==
  ASSUME RunsInv, Mutating, GiveUp
  PROVE  Worked
<1>1. TreeOK /\ TablesOK /\ RunOK
  BY TypeParts DEF RunsInv
<1>2. run.phase # "idle" /\ ~Now("clean") /\ run \in Runs
  BY <1>1 DEF Mutating, RunOK
<1> DEFINE done == IF run.step \in {"unlink", "confirm"}
                   THEN Append(run.done, run.item) ELSE run.done
<1>3. done \in Seq(Items) /\ IsInjective(done) /\ Range(done) \cap run.todo = {}
  <2>1. CASE run.step \in {"unlink", "confirm"}
    <3>1. run.item \in Items /\ run.item \notin run.todo \cup Done
      BY <2>1 DEF RunsInv, RunInv, Busy
    <3> QED BY <1>1, <1>2, <2>1, <3>1, AppendFacts DEF RunOK, Runs, Done
  <2>2. CASE run.step \notin {"unlink", "confirm"}
    BY <1>1, <1>2, <2>2 DEF RunOK, Runs, Done
  <2> QED BY <2>1, <2>2
<1>4. run' = [run EXCEPT !.step = "rollback", !.item = None, !.done = done]
  BY <1>2 DEF GiveUp, Runs
<1> HIDE DEF done
<1>5. /\ run' \in Runs /\ run'.phase = run.phase /\ run'.done = done
      /\ run'.step = "rollback" /\ run'.todo = run.todo
  BY <1>2, <1>3, <1>4 DEF Runs, Steps
<1>6. BatchParts' /\ Shrinks
  BY <1>2, <1>3, <1>5, Leaving DEF StepFits
<1>7. TreeOK'
  BY <1>1 DEF TreeOK, GiveUp
<1>8. ASSUME In("verify") PROVE temp' = temp
  <2>1. temp = [p \in Paths |-> None]
    BY <1>8 DEF RunsInv, FenceInv
  <2>2. temp' \in {temp, [temp EXCEPT ![Here] = None]}
    BY DEF GiveUp
  <2> QED BY <2>1, <2>2
<1> QED BY <1>1, <1>5, <1>6, <1>7, <1>8 DEF Worked, GiveUp, TablesOK

LEMMA TakeBackWorks ==
  ASSUME RunsInv, TakeBack
  PROVE  Worked
<1>1. TreeOK /\ TablesOK /\ RunOK
  BY TypeParts DEF RunsInv
<1>2. run.phase # "idle"
  BY DEF TakeBack, Now, RunsInv, RunInv, In, Idle
<1>3. run \in Runs /\ run.done \in Seq(Items) /\ run.done # <<>> /\ Now("rollback")
  BY <1>1 DEF TakeBack, RunOK, Runs
<1>4. run' = [run EXCEPT !.done = Front(run.done)]
  BY <1>3 DEF TakeBack, Runs
<1>5. /\ Front(run.done) \in Seq(Items)
      /\ Range(Front(run.done)) \subseteq Range(run.done)
      /\ IsInjective(Front(run.done))
  BY <1>1, <1>3, FrontFacts DEF RunOK
<1>6. /\ run' \in Runs /\ run'.phase = run.phase /\ run'.step = "rollback"
      /\ run'.done = Front(run.done) /\ run'.todo = run.todo
  BY <1>3, <1>4, <1>5 DEF Runs, Now
<1>7. BatchParts' /\ Shrinks
  BY <1>1, <1>2, <1>3, <1>5, <1>6, Leaving DEF RunOK, Done, Now, StepFits
<1>8. TreeOK'
  <2> DEFINE p == run.memo[Last(run.done)].path
             back == IF In("create") \/ In("materialize") THEN None ELSE Before(p)
  <2>1. /\ disk' = [disk EXCEPT ![p] = back]
        /\ backup' = [backup EXCEPT ![p] = None]
        /\ quarantine' = [quarantine EXCEPT ![p] = None]
        /\ temp' = temp
    BY DEF TakeBack
  <2>2. p \in Paths => back \in Files \cup {None, Dir}
    BY <1>1 DEF TreeOK, Before
  <2> HIDE DEF p, back
  <2> QED BY <1>1, <2>1, <2>2 DEF TreeOK
<1> QED BY <1>1, <1>6, <1>7, <1>8 DEF Worked, TakeBack, TablesOK

LEMMA WorkingWorks ==
  ASSUME RunsInv, Working, UNCHANGED catalog
  PROVE  Worked
BY MakeFolderWorks, QuarantineFolderWorks, TurnWorks, ItemWorks, BatchEnds,
   GiveUpWorks, TakeBackWorks DEF Working, Abandon

-----------------------------------------------------------------------------
(* Every step keeps the invariant of a run.                                *)

LEMMA RunSteady ==
  ASSUME BatchParts, UNCHANGED <<run, catalog, receipts>>
  PROVE  BatchParts'
<1>1. RunOK'
  BY DEF BatchParts, RunOK, Done, Now
<1>2. RunInv'
  BY DEF BatchParts, RunInv, Done, In
<1>3. Live' = Live /\ Turned' = Turned /\ Recording' = Recording
      /\ \A phase : In(phase)' = In(phase)
  BY DEF Live, Turned, Done, Recording, In
<1>4. \A i \in Turned : i \in Items
  BY DEF BatchParts, RunOK, Runs, Turned, Done, Range
<1>4a. run.todo \subseteq Items
  BY DEF BatchParts, RunOK, Runs
<1> HIDE DEF Turned
<1>5. BatchInv'
  BY <1>3, <1>4, <1>4a, PlanSteady DEF BatchParts, BatchInv
<1> QED BY <1>1, <1>2, <1>5 DEF BatchParts

LEMMA PartsOfInv == RunsInv <=> TreeOK /\ TablesOK /\ TalliesOK /\ BatchParts
                                 /\ FenceInv /\ RemoteInv
BY TypeParts DEF RunsInv, BatchParts

LEMMA InvNext ==
  ASSUME TreeOK', TablesOK', TalliesOK', BatchParts', FenceInv', RemoteInv'
  PROVE  RunsInv'
<1>1. ConvergenceTypeOK'
  BY DEF ConvergenceTypeOK, TreeOK, TablesOK, TalliesOK, BatchParts, RunOK
<1> QED BY <1>1 DEF RunsInv, BatchParts

LEMMA StillTallies ==
  ASSUME TalliesOK, UNCHANGED tallies
  PROVE  TalliesOK'
BY DEF TalliesOK, tallies

LEMMA StillRemote ==
  ASSUME RemoteInv, UNCHANGED remote
  PROVE  RemoteInv'
BY DEF RemoteInv, Present

LEMMA StillFence ==
  ASSUME FenceInv, run'.phase \in {run.phase, "idle"},
         In("verify") => temp' = temp, UNCHANGED observation
  PROVE  FenceInv'
BY DEF FenceInv, In

LEMMA IdleFence ==
  ASSUME run' = Idle
  PROVE  FenceInv'
BY DEF FenceInv, In, Idle

LEMMA RunStepKeeps ==
  ASSUME RunsInv, RunStep
  PROVE  RunsInv'
<1>1. CASE Working /\ UNCHANGED <<catalog, service, observation, outcome, tallies>>
  <2>1. Worked
    BY <1>1, WorkingWorks
  <2>2. TablesOK'
    BY <1>1, <2>1, PartsOfInv DEF Worked, TablesOK, service
  <2>3. FenceInv' /\ RemoteInv' /\ TalliesOK'
    BY <1>1, <2>1, PartsOfInv, StillFence, StillRemote, StillTallies
       DEF Worked, service
  <2> QED BY <2>1, <2>2, <2>3, PartsOfInv, InvNext DEF Worked
<1>2. CASE (Finish \/ Stop) /\ UNCHANGED <<catalog, service, observation, tallies>>
  <2>1. run' = Idle /\ UNCHANGED <<tree, receipts>> /\ outcome' \in Outcomes
    BY <1>2 DEF Finish, Stop, Report, Outcomes
  <2>2. TreeOK' /\ TablesOK'
    BY <1>2, <2>1, PartsOfInv DEF TreeOK, TablesOK, tree, service
  <2>3. FenceInv' /\ RemoteInv' /\ TalliesOK'
    BY <1>2, <2>1, PartsOfInv, IdleFence, StillRemote, StillTallies DEF service
  <2> QED BY <2>1, <2>2, <2>3, PartsOfInv, InvNext, Ending
<1> QED BY <1>1, <1>2 DEF RunStep

LEMMA BeginKeeps ==
  ASSUME RunsInv, Begin
  PROVE  RunsInv'
<1>1. TreeOK' /\ RemoteInv' /\ TalliesOK'
  BY PartsOfInv, StillRemote, StillTallies DEF Begin, TreeOK, tree, service
<1>2. UNCHANGED <<catalog, receipts, temp>>
  BY DEF Begin, tree
<1>3. CASE Decision \in Phases /\ Ready(Decision)
  <2>1. /\ run' = [Idle EXCEPT !.phase = Decision, !.todo = Plan[Decision],
                               !.goal = Cardinality(Plan[Decision])]
        /\ observation' = (observation /\ ~Fenced(Decision))
        /\ outcome' = "none" /\ run = Idle
    BY <1>3 DEF Begin
  <2>2. BatchParts' /\ run'.phase = Decision
    BY <1>2, <1>3, <2>1, Beginning
  <2>3. TablesOK'
    BY <2>1, PartsOfInv DEF Begin, TablesOK, service, Outcomes
  <2>4. FenceInv'
    <3>1. run'.phase \notin {"idle", "verify"} => ~observation'
      BY <2>1, <2>2 DEF Fenced
    <3>2. temp = [p \in Paths |-> None]
      <4>1. temp \in [Paths -> Files \cup {None}]
        BY PartsOfInv DEF TreeOK
      <4>2. \A p \in Paths : temp[p] = None
        BY <1>3, DecisionFacts DEF Leftovers
      <4> QED BY <4>1, <4>2
    <3> QED BY <1>2, <3>1, <3>2 DEF FenceInv, In
  <2> QED BY <1>1, <2>2, <2>3, <2>4, PartsOfInv, InvNext
<1>4. CASE ~(Decision \in Phases /\ Ready(Decision))
  <2>1. run = Idle /\ UNCHANGED <<run, observation>>
        /\ outcome' = IF Decision \in Phases THEN "refused" ELSE Decision
    BY <1>4 DEF Begin
  <2>2. BatchParts'
    BY <2>1, <1>2, PartsOfInv, RunSteady
  <2>3. TablesOK'
    BY <2>1, PartsOfInv, DecisionFacts DEF Begin, TablesOK, service, Outcomes
  <2>4. FenceInv'
    BY <2>1, <2>2, PartsOfInv, IdleFence
  <2> QED BY <1>1, <2>2, <2>3, <2>4, PartsOfInv, InvNext
<1> QED BY <1>3, <1>4

LEMMA RecordType ==
  ASSUME RemoteInv, TablesOK, NEW i \in Present
  PROVE  Record(i, remote[i]) \in Catalogued
<1>1. remote[i] \in Object
  BY DEF TablesOK, Present
<1>2. i \notin Folders => remote[i].blob \in Blobs
  BY RunAssumption DEF RemoteInv
<1> QED BY <1>1, <1>2, PlanAssumption DEF Record, Catalogued, Object

LEMMA WindowKeeps ==
  ASSUME RunsInv, ApplyWindow
  PROVE  RunsInv'
<1>1. run = Idle /\ UNCHANGED <<tree, remote, observation, run, outcome, tallies>>
      /\ touched' = {}
  BY DEF ApplyWindow, Apply
<1>2. TreeOK' /\ RemoteInv' /\ TalliesOK' /\ FenceInv'
  BY <1>1, PartsOfInv, StillRemote, StillTallies, IdleFence DEF TreeOK, tree
<1>3. Upserted(Pages) \subseteq Present /\ \A i \in Upserted(Pages) : Pages[i] = remote[i]
  BY PartsOfInv DEF Upserted, Pages, Present, TablesOK
<1>4. catalog' \in [Items -> Catalogued \cup {None}]
  BY <1>3, PartsOfInv, RecordType DEF ApplyWindow, Apply, TablesOK
<1>5. receipts' \in [Items -> Receipts \cup {None}]
  BY PartsOfInv DEF ApplyWindow, Apply, TablesOK, Owned, Receipts
<1>6. TablesOK'
  BY <1>1, <1>4, <1>5, PartsOfInv DEF TablesOK
<1>7. BatchParts'
  BY <1>1, Ending
<1> QED BY <1>2, <1>6, <1>7, PartsOfInv, InvNext

LEMMA ProviderKeeps ==
  ASSUME RunsInv,
         \/ \E i \in Items, p \in Paths, b \in Blobs \cup {None} : RemoteWrite(i, p, b)
         \/ \E i \in Items : RemoteRemove(i)
  PROVE  RunsInv'
<1>1. UNCHANGED <<catalog, receipts, tree, observation, run, outcome, edited,
                  edits, failures, crashes>>
      /\ changes' = changes + 1 /\ changes < MaxChanges
  BY DEF RemoteWrite, RemoteRemove
<1>2. TreeOK' /\ TalliesOK'
  BY <1>1, PartsOfInv, RunAssumption DEF TreeOK, tree, TalliesOK
<1>3. BatchParts'
  BY <1>1, PartsOfInv, RunSteady
<1>4. FenceInv'
  BY <1>1, PartsOfInv, StillFence DEF tree
<1>5. RemoteInv' /\ remote' \in [Items -> Object \cup {None}] /\ touched' \subseteq Items
  <2>1. CASE \E i \in Items, p \in Paths, b \in Blobs \cup {None} : RemoteWrite(i, p, b)
    <3>1. PICK i \in Items, p \in Paths, b \in Blobs \cup {None} : RemoteWrite(i, p, b)
      BY <2>1
    <3>2. [path |-> p, blob |-> b] \in Object
      BY DEF Object
    <3>3. remote' \in [Items -> Object \cup {None}] /\ touched' \subseteq Items
      BY <3>1, <3>2, PartsOfInv DEF RemoteWrite, TablesOK
    <3>4. RemoteInv'
      BY <3>1, PartsOfInv DEF RemoteWrite, RemoteInv, Present, TablesOK
    <3> QED BY <3>3, <3>4
  <2>2. CASE \E i \in Items : RemoteRemove(i)
    <3>1. PICK i \in Items : RemoteRemove(i)
      BY <2>2
    <3>2. remote' \in [Items -> Object \cup {None}] /\ touched' \subseteq Items
      BY <3>1, PartsOfInv DEF RemoteRemove, TablesOK, Present
    <3>3. \A j \in Items : remote'[j] \in {None, remote[j]}
      BY <3>1 DEF RemoteRemove
    <3> QED BY <3>2, <3>3, PartsOfInv DEF RemoteInv, Present
  <2> QED BY <2>1, <2>2
<1>6. TablesOK'
  BY <1>1, <1>5, PartsOfInv DEF TablesOK
<1> QED BY <1>2, <1>3, <1>4, <1>5, <1>6, PartsOfInv, InvNext

LEMMA UserKeeps ==
  ASSUME RunsInv, UserStep
  PROVE  RunsInv'
<1>1. PICK p \in Paths : \/ \E b \in UserBlobs : SaveInPlace(p, b) \/ SaveByRename(p, b)
                         \/ RemoveEntry(p)
                         \/ MakeDir(p)
  BY DEF UserStep
<1>2. Edit(p)
  BY <1>1 DEF SaveInPlace, SaveByRename, RemoveEntry, MakeDir
<1>3. TablesOK' /\ TalliesOK' /\ RemoteInv' /\ BatchParts'
  BY <1>2, PartsOfInv, PlanAssumption, RunSteady, StillRemote
     DEF Edit, TablesOK, TalliesOK, service
<1>4. edits + 1 \in 0..MaxEdits /\ UserBlobs \subseteq Blobs
  BY <1>2, PartsOfInv, PlanAssumption, RunAssumption DEF Edit, TalliesOK
<1>5. TreeOK' /\ (FenceInv => FenceInv')
  <2>1. ASSUME NEW b \in UserBlobs, SaveInPlace(p, b)
        PROVE  TreeOK' /\ (FenceInv => FenceInv')
    <3> DEFINE Rewritten(x) == IF IsFile(x) /\ x.node = disk[p].node
                               THEN [x EXCEPT !.blob = b, !.stamp = edits + 1] ELSE x
    <3>1. /\ disk' = [q \in Paths |-> Rewritten(disk[q])]
          /\ temp' = [q \in Paths |-> Rewritten(temp[q])]
          /\ backup' = [q \in Paths |-> Rewritten(backup[q])]
          /\ quarantine' = quarantine /\ run' = run /\ observation' = observation
      BY <2>1 DEF SaveInPlace, Edit
    <3>2. \A x \in Files : Rewritten(x) \in Files
      BY <1>4 DEF Files
    <3>3. \A x : x \notin Files => Rewritten(x) = x
      BY DEF IsFile
    <3> HIDE DEF Rewritten
    <3>4. TreeOK'
      BY <3>1, <3>2, <3>3, PartsOfInv DEF TreeOK
    <3>5. ASSUME FenceInv, In("verify")
          PROVE  temp' = temp
      BY <3>1, <3>3, <3>5, EntryAssumption DEF FenceInv
    <3> QED BY <3>1, <3>4, <3>5, StillFence
  <2>2. ASSUME NEW b \in UserBlobs, SaveByRename(p, b)
        PROVE  TreeOK' /\ (FenceInv => FenceInv')
    <3>1. [node |-> FreshNode, blob |-> b, stamp |-> edits + 1] \in Files
      BY <1>4, <2>2, FreshNodeType DEF SaveByRename, Files
    <3>2. TreeOK'
      BY <2>2, <3>1, PartsOfInv DEF SaveByRename, Edit, TreeOK
    <3>3. UNCHANGED <<temp, run, observation>>
      BY <2>2 DEF SaveByRename, Edit
    <3> QED BY <3>2, <3>3, StillFence
  <2>3. CASE RemoveEntry(p) \/ MakeDir(p)
    <3>1. TreeOK'
      BY <2>3, PartsOfInv DEF RemoveEntry, MakeDir, Edit, TreeOK
    <3>2. UNCHANGED <<temp, run, observation>>
      BY <2>3 DEF RemoveEntry, MakeDir, Edit
    <3> QED BY <3>1, <3>2, StillFence
  <2> QED BY <1>1, <2>1, <2>2, <2>3
<1> QED BY <1>3, <1>5, PartsOfInv, InvNext

LEMMA FailureKeeps ==
  ASSUME RunsInv, CallFails \/ Crash
  PROVE  RunsInv'
<1>1. CASE CallFails
  <2>1. Worked
    BY <1>1, GiveUpWorks DEF CallFails
  <2>2. UNCHANGED <<catalog, service, observation, outcome, edited, edits,
                    changes, crashes>>
        /\ failures' = failures + 1 /\ failures < MaxFailures
    BY <1>1 DEF CallFails
  <2>3. TablesOK' /\ RemoteInv' /\ FenceInv' /\ TalliesOK'
    BY <2>1, <2>2, PartsOfInv, RunAssumption, StillRemote, StillFence
       DEF Worked, TablesOK, TalliesOK, service
  <2> QED BY <2>1, <2>3, PartsOfInv, InvNext DEF Worked
<1>2. CASE Crash
  <2>1. run' = Idle /\ outcome' = "none"
        /\ UNCHANGED <<catalog, receipts, tree, service, observation, edited,
                       edits, changes, failures>>
        /\ crashes' = crashes + 1 /\ crashes < MaxCrashes
    BY <1>2 DEF Crash, Killed
  <2>2. TreeOK' /\ TablesOK' /\ TalliesOK' /\ RemoteInv'
    BY <2>1, PartsOfInv, RunAssumption, StillRemote
       DEF TreeOK, tree, TablesOK, TalliesOK, service, Outcomes
  <2> QED BY <2>1, <2>2, PartsOfInv, InvNext, IdleFence, Ending
<1> QED BY <1>1, <1>2

LEMMA BaselineKeeps ==
  ASSUME RunsInv, CaptureBaseline
  PROVE  RunsInv'
<1>1. /\ run = Idle /\ observation' = TRUE
      /\ UNCHANGED <<catalog, receipts, tree, service, run, outcome, tallies>>
  BY DEF CaptureBaseline
<1>2. TreeOK' /\ TablesOK' /\ TalliesOK' /\ RemoteInv' /\ BatchParts'
  BY <1>1, PartsOfInv, StillRemote, StillTallies, Ending
     DEF TreeOK, tree, TablesOK, service
<1> QED BY <1>1, <1>2, PartsOfInv, InvNext, IdleFence

LEMMA StutterKeeps ==
  ASSUME RunsInv, UNCHANGED vars
  PROVE  RunsInv'
<1>1. UNCHANGED <<catalog, receipts, tree, service, observation, run, outcome, tallies>>
  BY DEF vars
<1>2. TreeOK' /\ TablesOK' /\ TalliesOK' /\ RemoteInv' /\ BatchParts' /\ FenceInv'
  BY <1>1, PartsOfInv, StillRemote, StillTallies, StillFence, RunSteady
     DEF TreeOK, tree, TablesOK, service
<1> QED BY <1>2, PartsOfInv, InvNext

LEMMA RunsInit == Init => RunsInv
<1> SUFFICES ASSUME Init PROVE RunsInv
  OBVIOUS
<1>1. ConvergenceTypeOK
  BY TypeInit
<1>2. run = Idle
  BY DEF Init
<1>3. RunInv
  BY <1>2 DEF RunInv, In, StepFits, Busy, Idle
<1>4. BatchInv
  BY <1>2 DEF BatchInv, Live, Idle
<1>5. FenceInv
  BY <1>2 DEF FenceInv, In, Idle
<1>6. RemoteInv
  BY DEF Init, RemoteInv
<1> QED BY <1>1, <1>3, <1>4, <1>5, <1>6 DEF RunsInv

LEMMA RunsStep == RunsInv /\ [Next]_vars => RunsInv'
<1> SUFFICES ASSUME RunsInv, [Next]_vars PROVE RunsInv'
  OBVIOUS
<1> USE DEF Surroundings
<1>1. CASE Begin
  BY <1>1, BeginKeeps
<1>2. CASE RunStep
  BY <1>2, RunStepKeeps
<1>3. CASE ApplyWindow
  BY <1>3, WindowKeeps
<1>4. CASE CaptureBaseline
  BY <1>4, BaselineKeeps
<1>5. CASE Surroundings
  BY <1>5, ProviderKeeps, UserKeeps, FailureKeeps
<1>6. CASE UNCHANGED vars
  BY <1>6, StutterKeeps
<1> QED BY <1>1, <1>2, <1>3, <1>4, <1>5, <1>6 DEF Next

(* A run turns to each item of its batch once, works only on what its plan *)
(* said, and writes only without a baseline.                               *)
THEOREM RunsInvariant == Spec => []RunsInv
BY RunsInit, RunsStep, PTL DEF Spec

(* Types, and a batch never returns to an item.                            *)
THEOREM ConvergenceTypeCorrect == Spec => []ConvergenceTypeOK
<1>1. RunsInv => ConvergenceTypeOK
  BY DEF RunsInv
<1> QED BY <1>1, RunsInvariant, PTL


(* Only the four phases that write change the directory.                   *)
LEMMA VerifyWritesNothing ==
  ASSUME RunsInv, Working \/ CallFails, run.phase \in {"idle", "verify"}
  PROVE  UNCHANGED tree
<1>1. TreeOK /\ RunOK /\ StepFits(run.phase, run.step) /\ (In("idle") => run = Idle)
  BY PartsOfInv DEF RunsInv, RunInv, BatchParts
<1>2. ~Now("rollback") \/ ~In("idle")
  BY <1>1 DEF In, Now, Idle
<1>3. CASE \E i \in Items : MakeFolder(i) \/ Fingerprint(i) \/ HashLocal(i)
                            \/ InspectStale(i) \/ QuarantineFolder(i) \/ Clean(i)
  BY <1>1, <1>3 DEF MakeFolder, Fingerprint, HashLocal, InspectStale,
                    QuarantineFolder, Clean, In, Now, StepFits
<1>4. CASE Fetch \/ Promote \/ Unlink \/ Confirm \/ CompareProvider \/ CompareBaseline
             \/ LinkBackup \/ Swap \/ QuarantineFile
  BY <1>1, <1>4 DEF Fetch, Promote, Unlink, Confirm, CompareProvider,
                    CompareBaseline, LinkBackup, Swap, QuarantineFile, Now, In, StepFits
<1>5. CASE RecordReceipts \/ DropReceipts
  BY <1>5 DEF RecordReceipts, DropReceipts
<1>6. CASE (Abandon \/ CallFails)
  <2>1. Mutating /\ GiveUp
    BY <1>6 DEF Abandon, CallFails
  <2>2. In("verify")
    BY <2>1 DEF Mutating, In
  <2>3. temp' = temp
    BY <2>1, <2>2, GiveUpWorks DEF Worked
  <2>4. backup' = backup
    BY <1>1, <2>1, <2>2 DEF GiveUp, In, Now, StepFits
  <2> QED BY <2>1, <2>3, <2>4 DEF GiveUp, tree
<1>7. CASE TakeBack
  BY <1>1, <1>7 DEF TakeBack, In, Now, Idle
<1> QED BY <1>3, <1>4, <1>5, <1>6, <1>7 DEF Working

(* What an executor writes is never journaled as the user's work: the      *)
(* baseline was taken out of force before.                                 *)
THEOREM ExecutorsWriteUnobserved == Spec => NoWriteUnderBaseline
<1>1. ASSUME RunsInv, [Next]_vars
      PROVE  [tree' # tree /\ edits' = edits => ~observation /\ ~observation']_vars
  <2>1. SUFFICES ASSUME Next, tree' # tree, edits' = edits
                 PROVE  ~observation /\ ~observation'
    BY <1>1 DEF vars
  <2>2. ~UserStep
    <3>1. UserStep => edits' = edits + 1
      BY DEF UserStep, SaveInPlace, SaveByRename, RemoveEntry, MakeDir, Edit
    <3> QED BY <1>1, <2>1, <3>1, PartsOfInv DEF TalliesOK
  <2>3. (Working /\ UNCHANGED observation) \/ CallFails
    BY <2>1, <2>2 DEF Next, Begin, ApplyWindow, Apply, CaptureBaseline, RunStep,
       Finish, Stop, Surroundings, RemoteWrite, RemoteRemove, Crash, Killed
  <2>4. UNCHANGED observation
    BY <2>3 DEF CallFails
  <2>5. run.phase \notin {"idle", "verify"}
    BY <1>1, <2>1, <2>3, VerifyWritesNothing
  <2> QED BY <1>1, <2>4, <2>5 DEF RunsInv, FenceInv
<1> QED BY <1>1, RunsInvariant, PTL DEF Spec, NoWriteUnderBaseline

-----------------------------------------------------------------------------
(* What the run compared stays what it compared.                           *)

BlobsKept == \A i \in Turned : run'.memo[i].blob = run.memo[i].blob

LEMMA ComparedFacts ==
  /\ Compared \subseteq Turned
  /\ run.step \in {"backup", "swap"} => Compared = Turned
  /\ run.step \notin {"backup", "swap"} => Compared = Done
BY DEF Compared, Turned, Busy

LEMMA ItemCompares ==
  ASSUME RunsInv,
         Fetch \/ Promote \/ Unlink \/ Confirm \/ CompareProvider
           \/ CompareBaseline \/ LinkBackup \/ Swap \/ QuarantineFile
  PROVE  /\ BlobsKept /\ run'.phase = run.phase
         /\ ~(Confirm \/ CompareProvider \/ CompareBaseline \/ QuarantineFile) =>
              Compared' \subseteq Compared
         /\ Compared' \subseteq Done \cup {run.item}
<1>1. TreeOK /\ TablesOK /\ RunOK
  BY PartsOfInv DEF BatchParts
<1>2. run.step \in Busy
  BY DEF Fetch, Promote, Unlink, Confirm, CompareProvider, CompareBaseline,
         LinkBackup, Swap, QuarantineFile, Now, Busy
<1>3. run \in Runs /\ run.item \in Items /\ run.item \in Turned /\ Here \in Paths
  BY <1>1, <1>2, BusyFacts DEF RunOK
<1>4. temp[Here] \in Files \cup {None}
  BY <1>1, <1>3 DEF TreeOK
<1>5. "promote" \in Steps /\ "compare" \in Steps /\ "unlink" \in Steps /\ "confirm" \in Steps
      /\ "backup" \in Steps /\ "swap" \in Steps /\ run.step \in Steps
  BY <1>2 DEF Steps, Busy
<1>6. ASSUME NEW step \in Steps, Keeping(run', step)
      PROVE  /\ BlobsKept /\ run'.phase = run.phase
             /\ Compared' \subseteq Done \cup {run.item}
             /\ step \notin {"backup", "swap"} => Compared' \subseteq Compared
             /\ run.step \in {"backup", "swap"} => Compared' \subseteq Compared
  <2>1. BlobsKept /\ run'.phase = run.phase
    BY <1>6 DEF Keeping, BlobsKept
  <2>2. Done' = Done /\ run'.item = run.item /\ run'.step = step
    BY <1>6 DEF Keeping, Done
  <2> QED BY <2>1, <2>2, <1>3 DEF Compared
<1>7. ASSUME NEW r, Keeping(r, run.step), run' = Completed(r, run.item)
      PROVE  /\ BlobsKept /\ run'.phase = run.phase
             /\ Compared' = Done \cup {run.item}
  <2>1. /\ run'.phase = r.phase /\ run'.step = "next" /\ run'.memo = r.memo
        /\ Range(run'.done) = Range(r.done) \cup {run.item}
    BY <1>3, <1>7, CompletedFacts DEF Keeping
  <2>2. Done' = Done \cup {run.item}
    BY <1>7, <2>1 DEF Keeping, Done
  <2> QED BY <1>7, <2>1, <2>2 DEF Keeping, BlobsKept, Compared
<1>8. CASE Fetch
  <2> DEFINE step == IF In("materialize") THEN "promote" ELSE "compare"
  <2>1. step \in Steps /\ step \notin {"backup", "swap"}
    BY <1>5
  <2>2. run' = [run EXCEPT !.step = step]
    BY <1>8 DEF Fetch
  <2> HIDE DEF step
  <2>3. Keeping(run', step)
    BY <1>2, <2>1, <2>2, StepNoted
  <2> QED BY <1>6, <2>1, <2>3
<1>9. CASE Promote
  <2>1. run' = [run EXCEPT !.step = "unlink", !.memo[run.item].now = temp[Here]]
    BY <1>9 DEF Promote
  <2>2. Keeping(run', "unlink")
    BY <1>2, <1>4, <1>5, <2>1, NowNoted, Zenon
  <2> QED BY <1>5, <1>6, <2>2
<1>10. CASE Unlink
  <2>1. run' = [run EXCEPT !.step = "confirm"]
    BY <1>10 DEF Unlink
  <2>2. Keeping(run', "confirm")
    BY <1>2, <1>5, <2>1, StepNoted
  <2> QED BY <1>5, <1>6, <2>2
<1>11. CASE Confirm \/ CompareProvider \/ QuarantineFile
  <2>1. run' = Completed(run, run.item)
    BY <1>11 DEF Confirm, CompareProvider, QuarantineFile
  <2>2. Keeping(run, run.step)
    BY <1>2, <1>3, BusyFacts DEF Keeping, RunsInv, BatchInv
  <2> QED BY <1>7, <1>11, <2>1, <2>2
<1>12. CASE CompareBaseline
  <2>1. disk[Here] \in Files
    <3>1. Unchanged(run.item)
      BY <1>12 DEF CompareBaseline, Passes, Now, In
    <3>2. run.item \in Owned /\ receipts[run.item].path = Home(run.item)
      BY <1>2, <1>3, <1>12, BusyFacts DEF CompareBaseline, RunsInv, BatchInv
    <3> QED BY <1>2, <3>1, <3>2, BusyFacts DEF Unchanged, IsFile
  <2>2. run' = [run EXCEPT !.step = "backup", !.memo[run.item].was = disk[Here]]
    BY <1>12 DEF CompareBaseline
  <2>3. disk[Here] \in Files \cup {None}
    BY <2>1
  <2>4. Keeping(run', "backup")
    BY <1>2, <1>5, <2>2, <2>3, WasNoted, Zenon
  <2> QED BY <1>5, <1>6, <1>12, <2>4
<1>13. CASE LinkBackup
  <2>1. run' = [run EXCEPT !.step = "swap"] /\ run.step = "backup"
    BY <1>13 DEF LinkBackup, Now
  <2>2. Keeping(run', "swap")
    BY <1>2, <1>5, <2>1, StepNoted
  <2> QED BY <1>5, <1>6, <2>1, <2>2
<1>14. CASE Swap
  <2> DEFINE r == [run EXCEPT !.memo[run.item].now = temp[Here]]
  <2>1. r = [run EXCEPT !.step = run.step, !.memo[run.item].now = temp[Here]]
    BY <1>3 DEF Runs
  <2>2. run' = Completed(r, run.item) /\ run.step = "swap"
    BY <1>14 DEF Swap, Now
  <2> HIDE DEF r
  <2>3. Keeping(r, run.step)
    BY <1>2, <1>4, <1>5, <2>1, NowNoted, Zenon
  <2>4. Compared = Done \cup {run.item}
    BY <1>3, <2>2 DEF Compared
  <2> QED BY <1>7, <2>2, <2>3, <2>4
<1> QED BY <1>8, <1>9, <1>10, <1>11, <1>12, <1>13, <1>14

(* Contents are attested only after the provider confirmed them.           *)
LEMMA WitnessWorks ==
  ASSUME RunsInv, CatalogInv, WitnessInv, Working,
         UNCHANGED <<catalog, remote, touched>>
  PROVE  WitnessInv'
<1>1. RunOK /\ TablesOK /\ run \in Runs
  BY PartsOfInv DEF BatchParts, RunOK
<1>2. run'.phase = run.phase
  BY WorkingWorks DEF Worked
<1>3. Recording' = Recording
  BY <1>2 DEF Recording
<1>4. SUFFICES ASSUME Live', Recording, NEW i \in Compared' PROVE Witness(i)'
  BY <1>3 DEF WitnessInv
<1>5. ASSUME i \in Compared, run'.memo[i].blob = run.memo[i].blob, Live
      PROVE  Witness(i)'
  BY <1>4, <1>5 DEF WitnessInv, Witness
<1>6. CASE \E j \in Items : MakeFolder(j) \/ QuarantineFolder(j)
  <2>1. PICK j \in Items : MakeFolder(j) \/ QuarantineFolder(j)
    BY <1>6
  <2>2. MakeFolder(j) /\ In("create")
    BY <1>4, <2>1 DEF QuarantineFolder, MakeFolder, In, Recording
  <2>3. Now("next") /\ j \in run.todo /\ Live
    BY <2>2 DEF MakeFolder, Turn, Live, Now, In
  <2>4. j \in Expected \cap Folders /\ Home(j) \in Paths /\ run.todo \cap Done = {}
    BY <1>1, <2>2, <2>3, BatchHomes
       DEF RunsInv, BatchInv, Recording, In, RunOK, Now
  <2> DEFINE r == Started(j, "next", None, None)
  <2>5. /\ r \in Runs /\ r.phase = run.phase /\ r.step = "next"
        /\ r.done = run.done /\ r.memo[j].blob = None
        /\ \A k \in Items \ {j} : r.memo[k] = run.memo[k]
    BY <1>1, <2>4, StartedFacts DEF Steps
  <2>6. run' = Completed(r, j) \/ run' = [r EXCEPT !.item = None]
    BY <2>2 DEF MakeFolder
  <2> HIDE DEF r
  <2>7. run'.memo = r.memo /\ run'.step = "next" /\ Range(run'.done) \subseteq Done \cup {j}
    <3>1. CASE run' = Completed(r, j)
      BY <2>5, <3>1, CompletedFacts DEF Done
    <3>2. CASE run' = [r EXCEPT !.item = None]
      BY <2>5, <3>2 DEF Runs, Done
    <3> QED BY <2>6, <3>1, <3>2
  <2>8. i \in Done \cup {j}
    BY <1>4, <2>7 DEF Compared, Done
  <2>9. CASE i = j
    <3>1. run'.memo[i].blob = None
      BY <2>5, <2>7, <2>9
    <3>2. i \notin touched => remote[i] # None
      BY <2>4, <2>9 DEF CatalogInv, Expected
    <3>3. remote[i] # None => remote[i].blob = None
      BY <2>4, <2>9 DEF RunsInv, RemoteInv, Present
    <3> QED BY <3>1, <3>2, <3>3 DEF Witness
  <2>10. CASE i # j
    <3>1. i \in Done /\ i \in Items
      BY <2>8, <2>10, <1>1 DEF Done, Range, Runs
    <3>2. run'.memo[i] = run.memo[i]
      BY <3>1, <2>5, <2>7, <2>10
    <3> QED BY <1>5, <2>3, <3>1, <3>2 DEF Compared
  <2> QED BY <2>9, <2>10
<1>7. CASE \E j \in Items : Fingerprint(j) \/ HashLocal(j) \/ InspectStale(j)
  <2>1. PICK j \in Items : Fingerprint(j) \/ HashLocal(j) \/ InspectStale(j)
    BY <1>7
  <2>2. PICK step, blob, was :
          /\ step \in {"fetch", "compare", "quarantine"}
          /\ run' = Started(j, step, blob, was)
    BY <2>1 DEF Fingerprint, HashLocal, InspectStale
  <2>3. Now("next") /\ j \in run.todo /\ Live
    BY <2>1 DEF Fingerprint, HashLocal, InspectStale, Turn, Live, Now, In
  <2>4. run'.step \notin {"backup", "swap"} /\ run'.done = run.done
        /\ \A k \in Items \ {j} : run'.memo[k] = run.memo[k]
    BY <1>1, <2>2 DEF Started, Runs
  <2>5. i \in Done /\ i \in Items /\ i # j
    BY <1>1, <1>4, <2>3, <2>4 DEF Compared, Done, RunOK, Now, Range, Runs
  <2> QED BY <1>5, <2>3, <2>4, <2>5 DEF Compared
<1>8. CASE Fetch \/ Promote \/ Unlink \/ Confirm \/ CompareProvider
             \/ CompareBaseline \/ LinkBackup \/ Swap \/ QuarantineFile
  <2>1. run.step \in Busy
    BY <1>8 DEF Fetch, Promote, Unlink, Confirm, CompareProvider, CompareBaseline,
                LinkBackup, Swap, QuarantineFile, Now, Busy
  <2>2. Live /\ run.item \in Turned
    BY <2>1, BusyFacts
  <2>3. CASE i \in Compared
    BY <1>5, <1>8, <2>2, <2>3, ItemCompares, ComparedFacts DEF BlobsKept
  <2>4. CASE i \notin Compared
    <3>1. i = run.item /\ (Confirm \/ CompareProvider \/ CompareBaseline \/ QuarantineFile)
      BY <1>4, <1>8, <2>4, ItemCompares DEF Compared
    <3>2. ~QuarantineFile
      BY <1>4 DEF RunsInv, RunInv, StepFits, QuarantineFile, Now, Recording
    <3>3. remote[i] # None /\ remote[i].blob = run.memo[i].blob
      BY <3>1, <3>2 DEF Confirm, CompareProvider, CompareBaseline, Passes,
                        Announced, Now, In
    <3>4. run'.memo[i].blob = run.memo[i].blob
      BY <1>8, <2>2, <3>1, ItemCompares DEF BlobsKept
    <3>5. i \notin Folders
      BY <1>4, <2>1, <2>2, <3>1, <3>2, BatchHomes
         DEF RunsInv, RunInv, StepFits, Confirm, CompareProvider, CompareBaseline, Now, In
    <3> QED BY <3>3, <3>4, <3>5 DEF Witness
  <2> QED BY <2>3, <2>4
<1>9. CASE RecordReceipts \/ DropReceipts \/ \E j \in Items : Clean(j)
  <2>1. ~Live'
    BY <1>1, <1>9 DEF RecordReceipts, DropReceipts, Clean, Live, Busy, Now, Runs
  <2> QED BY <1>4, <2>1
<1>10. CASE Abandon \/ TakeBack
  <2>1. ~Live'
    BY <1>1, <1>10 DEF Abandon, GiveUp, TakeBack, Live, Busy, Now, Runs
  <2> QED BY <1>4, <2>1
<1> QED BY <1>6, <1>7, <1>8, <1>9, <1>10 DEF Working

-----------------------------------------------------------------------------
(* Catalog, receipts and provider.                                         *)

LEMMA HomeOfFolder ==
  ASSUME NEW i \in Folders, NEW p \in Homes[i], NEW q \in Homes[i]
  PROVE  p = q
BY RunAssumption

LEMMA RecordPath ==
  ASSUME NEW i, NEW object
  PROVE  Record(i, object).path = object.path
BY DEF Record

(* A step of the provider puts what it changes among the touched.          *)
LEMMA ProviderTouches ==
  ASSUME RunsInv, NEW S \in SUBSET Items,
         touched' = touched \cup S,
         \A i \in Items \ S : remote'[i] = remote[i],
         UNCHANGED <<catalog, receipts, run>>
  PROVE  /\ OneOwnerPerPath => OneOwnerPerPath'
         /\ CurrentReceiptsAgree => CurrentReceiptsAgree'
         /\ ReceiptInv => ReceiptInv'
         /\ WitnessInv => WitnessInv'
<1>1. Expected' = Expected /\ Owned' = Owned /\ Expected \subseteq Items /\ Owned \subseteq Items
  BY DEF Expected, Owned
<1>2. OneOwnerPerPath => OneOwnerPerPath'
  BY <1>1 DEF OneOwnerPerPath
<1>3. CurrentReceiptsAgree => CurrentReceiptsAgree'
  BY <1>1 DEF CurrentReceiptsAgree
<1>4. ReceiptInv => ReceiptInv'
  BY <1>1 DEF ReceiptInv
<1>5. ASSUME WitnessInv PROVE WitnessInv'
  <2>1. Live' = Live /\ Recording' = Recording /\ Compared' = Compared
    BY DEF Live, Recording, Compared, Done
  <2>2. Compared \subseteq Items
    BY PartsOfInv DEF Compared, Done, Range, BatchParts, RunOK, Runs
  <2>3. ASSUME NEW i \in Items, Witness(i) PROVE Witness(i)'
    BY <2>3 DEF Witness
  <2> HIDE DEF Compared
  <2> QED BY <1>5, <2>1, <2>2, <2>3 DEF WitnessInv
<1> QED BY <1>2, <1>3, <1>4, <1>5

LEMMA WriteAgrees ==
  ASSUME RunsInv, CatalogInv,
         \E i \in Items, p \in Paths, b \in Blobs \cup {None} : RemoteWrite(i, p, b)
  PROVE  CatalogInv' /\ UNCHANGED <<catalog, receipts, run>>
         /\ \E S \in SUBSET Items : touched' = touched \cup S
                /\ \A j \in Items \ S : remote'[j] = remote[j]
<1>1. PICK i \in Items, p \in Paths, b \in Blobs \cup {None} : RemoteWrite(i, p, b)
  OBVIOUS
<1>2. /\ touched' = touched \cup {i} /\ UNCHANGED <<catalog, receipts, run>>
      /\ \A j \in Items \ {i} : remote'[j] = remote[j]
      /\ remote'[i] # None
  BY <1>1, PartsOfInv, MemoAssumption DEF RemoteWrite, TablesOK, Object
<1>3. Expected' = Expected /\ Expected \subseteq Items
  BY <1>2 DEF Expected
<1>4. \A j \in Items \ {i} : Record(j, remote[j])' = Record(j, remote[j])
  BY <1>2 DEF Record
<1>5. CatalogInv'
  BY <1>2, <1>3, <1>4 DEF CatalogInv
<1>6. {i} \in SUBSET Items
  OBVIOUS
<1> QED BY <1>2, <1>5, <1>6

LEMMA RemoveAgrees ==
  ASSUME RunsInv, CatalogInv, NEW k \in Items, RemoteRemove(k)
  PROVE  CatalogInv' /\ UNCHANGED <<catalog, receipts, run>>
         /\ \E S \in SUBSET Items : touched' = touched \cup S
                /\ \A j \in Items \ S : remote'[j] = remote[j]
<1> DEFINE gone == {k} \cup {j \in Present : /\ k \in Folders
                                             /\ remote[k].path \in Above[remote[j].path]}
<1>1. /\ touched' = touched \cup gone /\ UNCHANGED <<catalog, receipts, run>>
      /\ remote' = [j \in Items |-> IF j \in gone THEN None ELSE remote[j]]
      /\ k \in Present
  BY DEF RemoteRemove, Present
<1>2. gone \subseteq Items
  BY DEF Present
<1>3. Expected' = Expected /\ Expected \subseteq Items
  BY <1>1 DEF Expected
<1>4. \A j \in Items \ gone : Record(j, remote[j])' = Record(j, remote[j]) /\ remote'[j] = remote[j]
  BY <1>1 DEF Record
<1>5. ASSUME NEW i \in Expected \cap Folders, NEW j \in Expected,
             remote'[i] = None, catalog[i].path \in Above[catalog[j].path],
             j \notin touched
      PROVE  j \in gone
  <2>1. j \in Present /\ remote[j].path = catalog[j].path
    <3>1. j \in Items /\ catalog[j] # None
      BY <1>3 DEF Expected
    <3>2. catalog[j] = IF remote[j] = None THEN None ELSE Record(j, remote[j])
      BY <1>5, <3>1 DEF CatalogInv
    <3> QED BY <3>1, <3>2, RecordPath DEF Present
  <2>2. i \in Items /\ remote[i] # None
    BY <1>3, <1>5 DEF CatalogInv
  <2>3. i \in gone /\ k \in Folders
    BY <1>1, <1>5, <2>2 DEF gone
  <2>4. remote[i].path = catalog[i].path
    BY <1>5, <2>2, HomeOfFolder DEF CatalogInv, RunsInv, RemoteInv, Present
  <2>5. CASE i = k
    BY <1>5, <2>1, <2>3, <2>4, <2>5
  <2>6. CASE i # k
    <3>1. remote[k].path \in Above[catalog[i].path]
      BY <2>3, <2>4, <2>6
    <3>2. catalog[i].path \in Paths /\ catalog[j].path \in Paths
      BY <1>3, PartsOfInv DEF TablesOK, Expected, Catalogued
    <3>3. Above[catalog[i].path] \subseteq Above[catalog[j].path]
      BY <1>5, <3>2, PlanAssumption
    <3> QED BY <2>1, <2>3, <3>1, <3>3
  <2> QED BY <2>5, <2>6
<1> HIDE DEF gone
<1>6. CatalogInv'
  BY <1>1, <1>2, <1>3, <1>4, <1>5 DEF CatalogInv
<1> QED BY <1>1, <1>2, <1>4, <1>6

(* A window brings the catalog to the provider's state, and ages every     *)
(* receipt whose entry may differ from it.                                 *)
LEMMA WindowAgrees ==
  ASSUME RunsInv, ReceiptsInv, ApplyWindow
  PROVE  ReceiptsInv'
<1>1. /\ run = Idle /\ touched' = {} /\ UNCHANGED <<remote, run>>
      /\ touched \subseteq Items
      /\ remote \in [Items -> Object \cup {None}]
      /\ catalog \in [Items -> Catalogued \cup {None}]
      /\ receipts \in [Items -> Receipts \cup {None}]
  BY PartsOfInv DEF ApplyWindow, Apply, TablesOK
<1>2. DOMAIN Pages = touched /\ \A i \in touched : Pages[i] = remote[i]
  BY DEF Pages
<1>3. Upserted(Pages) = {i \in touched : remote[i] # None}
  BY <1>2 DEF Upserted
<1>4. Expected \subseteq Items /\ Owned \subseteq Items
  BY DEF Expected, Owned
<1>5. ASSUME NEW i \in Removed(Pages) PROVE i \in touched /\ i \in Expected
  <2>1. i \in Expected
    BY DEF Removed
  <2>2. CASE i \in DOMAIN Pages
    BY <2>1, <2>2, <1>2
  <2>3. CASE \E k \in {j \in DOMAIN Pages \cap Expected : Pages[j] = None} \cap Folders :
               catalog[k].path \in Above[catalog[i].path]
    BY <2>1, <2>3, <1>2 DEF ReceiptsInv, CatalogInv
  <2> QED BY <2>1, <2>2, <2>3 DEF Removed
<1>6. ASSUME NEW i \in touched \cap Expected, remote[i] = None PROVE i \in Removed(Pages)
  BY <1>2, <1>6 DEF Removed
<1>7. \A i \in Items : catalog'[i] = IF i \in Upserted(Pages) THEN Record(i, Pages[i])
                                     ELSE IF i \in Removed(Pages) THEN None
                                     ELSE catalog[i]
  BY DEF ApplyWindow, Apply
<1>8. \A i \in Items : catalog'[i] = IF remote[i] = None THEN None ELSE Record(i, remote[i])
  <2>1. SUFFICES ASSUME NEW i \in Items
                 PROVE  catalog'[i] = IF remote[i] = None THEN None ELSE Record(i, remote[i])
    OBVIOUS
  <2>2. CASE i \in touched /\ remote[i] # None
    BY <1>2, <1>3, <1>7, <2>2
  <2>3. CASE i \in touched /\ remote[i] = None
    BY <1>3, <1>6, <1>7, <2>3 DEF Expected
  <2>4. CASE i \notin touched
    BY <1>3, <1>5, <1>7, <2>4 DEF ReceiptsInv, CatalogInv
  <2> QED BY <2>2, <2>3, <2>4
<1>9. Expected' = Present /\ \A i \in Present : catalog'[i] = Record(i, remote[i])
                                               /\ catalog'[i].path = remote[i].path
  <2>1. ASSUME NEW i \in Present PROVE Record(i, remote[i]) # None
    BY PartsOfInv, RecordType, EntryAssumption
  <2> QED BY <1>8, <2>1, RecordPath DEF Expected, Present
<1>10. CatalogInv'
  <2>1. \A i \in Expected' : catalog'[i].path \in Homes[i]
    BY <1>9 DEF RunsInv, RemoteInv
  <2>2. \A i \in Items : Record(i, remote[i])' = Record(i, remote[i])
    BY <1>1 DEF Record
  <2>3. \A i \in Expected' : remote'[i] # None
    BY <1>1, <1>9 DEF Present
  <2> QED BY <1>1, <1>8, <2>1, <2>2, <2>3 DEF CatalogInv
<1>11. /\ Owned' = Owned
       /\ \A i \in Owned : /\ receipts'[i].path = receipts[i].path
                           /\ receipts'[i].blob = receipts[i].blob
                           /\ receipts'[i].state = "current" =>
                                i \notin Revised(Pages) /\ receipts[i].state = "current"
  <2>1. \A i \in Items : receipts'[i] = IF i \in Revised(Pages) \cap Owned
          THEN [receipts[i] EXCEPT !.state = "stale"] ELSE receipts[i]
    BY DEF ApplyWindow, Apply
  <2>2. \A i \in Owned : receipts[i] \in Receipts
    BY <1>1 DEF Owned
  <2>3. \A i \in Owned : [receipts[i] EXCEPT !.state = "stale"] \in Receipts
    BY <2>2 DEF Receipts
  <2>4. Owned' = Owned
    BY <2>1, <2>3, EntryAssumption DEF Owned
  <2> QED BY <1>4, <2>1, <2>2, <2>4 DEF Receipts
<1>12. ASSUME NEW i \in Owned, receipts'[i].state = "current"
       PROVE  /\ i \in Present
              /\ remote[i].path = receipts[i].path /\ remote[i].blob = receipts[i].blob
  <2>1. receipts[i].state = "current" /\ i \notin Revised(Pages)
    BY <1>11, <1>12
  <2>2. i \in Expected /\ receipts[i].path = catalog[i].path
        /\ (i \in Folders => receipts[i].blob = None)
    BY <2>1 DEF ReceiptsInv, ReceiptInv
  <2>3. CASE i \notin touched
    <3>1. remote[i] = [path |-> receipts[i].path, blob |-> receipts[i].blob]
      BY <2>1, <2>3 DEF ReceiptsInv, CurrentReceiptsAgree
    <3>2. remote[i] # None
      BY <1>4, <2>2, <2>3 DEF ReceiptsInv, CatalogInv, Expected
    <3> QED BY <1>4, <3>1, <3>2 DEF Present
  <2>4. CASE i \in touched
    <3>1. remote[i] # None /\ i \in Present
      BY <1>4, <1>6, <2>1, <2>2, <2>4 DEF Revised, Present
    <3>2. i \in Folders
      BY <1>3, <2>1, <2>2, <2>4, <3>1 DEF Revised
    <3>3. remote[i].blob = None /\ remote[i].path \in Homes[i] /\ catalog[i].path \in Homes[i]
      BY <2>2, <3>1, <3>2 DEF RunsInv, RemoteInv, ReceiptsInv, CatalogInv
    <3>4. remote[i].path = catalog[i].path
      BY <3>2, <3>3, HomeOfFolder
    <3> QED BY <2>2, <3>1, <3>2, <3>3, <3>4
  <2> QED BY <2>3, <2>4
<1>13. ReceiptInv'
  BY <1>9, <1>11, <1>12 DEF ReceiptsInv, ReceiptInv
<1>14. CurrentReceiptsAgree'
  <2>1. \A i \in Present : remote[i] = [path |-> remote[i].path, blob |-> remote[i].blob]
    BY <1>1 DEF Present, Object
  <2> QED BY <1>1, <1>11, <1>12, <2>1 DEF CurrentReceiptsAgree
<1>15. OneOwnerPerPath'
  BY <1>11 DEF ReceiptsInv, OneOwnerPerPath
<1>16. WitnessInv'
  BY <1>1 DEF WitnessInv, Live, Idle
<1>17. PlannedInv'
  BY <1>1 DEF PlannedInv, Live, Idle
<1> QED BY <1>10, <1>13, <1>14, <1>15, <1>16, <1>17 DEF ReceiptsInv

(* Recording a batch.  Its items are undisputed: none shares its path with *)
(* another item, in the catalog or in a receipt.                           *)
LEMMA RecordAgrees ==
  ASSUME RunsInv, ReceiptsInv, RecordReceipts, UNCHANGED <<catalog, remote, touched>>
  PROVE  OneOwnerPerPath' /\ ReceiptInv' /\ CurrentReceiptsAgree'
<1>1. RunOK /\ TablesOK /\ run \in Runs
  BY PartsOfInv DEF BatchParts, RunOK
<1>2. Now("next") /\ Recording /\ Live
  BY DEF RecordReceipts, AllDone, Recording, In, Live, Now
<1>3. Turned = Done /\ Done = Compared
  BY <1>2 DEF Turned, Compared, Now, Busy
<1>4. Done \subseteq Undisputed /\ ~Collision
      /\ \A i \in Done : run.memo[i].path = Home(i) /\ Witness(i)
  BY <1>2, <1>3 DEF RunsInv, BatchInv, ReceiptsInv, PlannedInv, WitnessInv
<1>5. /\ Undisputed \subseteq Expected /\ Expected \subseteq Items /\ Owned \subseteq Items
  BY DEF Undisputed, Expected, Owned
<1>6. \A i \in Done : i \in Expected /\ run.memo[i].path = catalog[i].path
  BY <1>4, <1>5 DEF Home
<1>7. /\ \A i \in Done : receipts'[i] = [path |-> catalog[i].path, state |-> "current",
                                         blob |-> run.memo[i].blob]
      /\ \A i \in Items \ Done : receipts'[i] = receipts[i]
  BY <1>5, <1>6 DEF RecordReceipts
<1>7a. \A i \in Done : /\ receipts'[i].path = catalog[i].path
                       /\ receipts'[i].blob = run.memo[i].blob
  <2>1. SUFFICES ASSUME NEW i \in Done
                 PROVE  /\ receipts'[i].path = catalog[i].path
                        /\ receipts'[i].blob = run.memo[i].blob
    OBVIOUS
  <2> DEFINE new == [path |-> catalog[i].path, state |-> "current", blob |-> run.memo[i].blob]
  <2>2. new.path = catalog[i].path /\ new.blob = run.memo[i].blob
    OBVIOUS
  <2>3. receipts'[i] = new
    BY <1>7
  <2> HIDE DEF new
  <2> QED BY <2>2, <2>3
<1>8. Owned' \subseteq Owned \cup Done /\ \A i \in Owned' : i \in Items
  BY <1>7 DEF Owned
<1>9. Expected' = Expected
  BY DEF Expected
<1>10. OneOwnerPerPath'
  <2>1. SUFFICES ASSUME NEW i \in Owned', NEW j \in Owned',
                        receipts'[i].path = receipts'[j].path, i # j
                 PROVE  FALSE
    BY DEF OneOwnerPerPath
  <2>2. ASSUME NEW k \in Done, NEW l \in Owned', l # k,
               receipts'[k].path = receipts'[l].path
        PROVE  FALSE
    <3>1. receipts'[k].path = catalog[k].path
      BY <1>7a
    <3>2. CASE l \in Done
      BY <1>4, <1>6, <1>7a, <2>2, <3>1, <3>2 DEF Collision
    <3>3. CASE l \notin Done
      <4>1. l \in Owned /\ receipts[l].path = catalog[k].path
        BY <1>7, <1>8, <2>2, <3>1, <3>3
      <4> QED BY <1>4, <2>2, <4>1 DEF Undisputed, ReceiptConflict
    <3> QED BY <3>2, <3>3
  <2>3. CASE i \in Done
    BY <2>1, <2>2, <2>3
  <2>4. CASE j \in Done
    BY <2>1, <2>2, <2>4
  <2>5. CASE i \notin Done /\ j \notin Done
    BY <1>7, <1>8, <2>1, <2>5 DEF ReceiptsInv, OneOwnerPerPath
  <2> QED BY <2>3, <2>4, <2>5
<1>11. ReceiptInv'
  <2>1. ASSUME NEW i \in Owned'
        PROVE  /\ i \in Folders => receipts'[i].blob = None
               /\ receipts'[i].state = "current" =>
                    i \in Expected /\ receipts'[i].path = catalog[i].path
    <3>1. CASE i \in Done
      BY <1>4, <1>6, <1>7a, <3>1 DEF Witness
    <3>2. CASE i \notin Done
      BY <1>7, <1>8, <3>2 DEF ReceiptsInv, ReceiptInv
    <3> QED BY <3>1, <3>2
  <2> QED BY <1>9, <2>1 DEF ReceiptInv
<1>12. CurrentReceiptsAgree'
  <2>1. SUFFICES ASSUME NEW i \in Owned', i \notin touched, receipts'[i].state = "current"
                 PROVE  remote[i] = [path |-> receipts'[i].path, blob |-> receipts'[i].blob]
    BY DEF CurrentReceiptsAgree
  <2>2. CASE i \notin Done
    BY <1>7, <1>8, <2>1, <2>2 DEF ReceiptsInv, CurrentReceiptsAgree
  <2>3. CASE i \in Done
    <3>1. remote[i] # None /\ remote[i].blob = run.memo[i].blob
      BY <1>4, <2>1, <2>3 DEF Witness
    <3>2. i \in Items /\ catalog[i] = Record(i, remote[i])
      BY <1>5, <1>6, <2>1, <2>3, <3>1 DEF ReceiptsInv, CatalogInv
    <3>3. catalog[i].path = remote[i].path
      BY <3>2, RecordPath
    <3>4. remote[i] = [path |-> remote[i].path, blob |-> remote[i].blob]
      BY <1>1, <3>1, <3>2 DEF TablesOK, Object
    <3> QED BY <1>7a, <2>3, <3>1, <3>3, <3>4
  <2> QED BY <2>2, <2>3
<1> QED BY <1>10, <1>11, <1>12

LEMMA DropAgrees ==
  ASSUME RunsInv, ReceiptsInv, DropReceipts, UNCHANGED <<catalog, remote, touched>>
  PROVE  OneOwnerPerPath' /\ ReceiptInv' /\ CurrentReceiptsAgree'
<1>1. Owned' \subseteq Owned /\ \A i \in Owned' : receipts'[i] = receipts[i]
  BY DEF DropReceipts, Owned
<1>2. Expected' = Expected
  BY DEF Expected
<1>3. OneOwnerPerPath'
  BY <1>1 DEF ReceiptsInv, OneOwnerPerPath
<1>4. ReceiptInv'
  BY <1>1, <1>2 DEF ReceiptsInv, ReceiptInv
<1>5. CurrentReceiptsAgree'
  BY <1>1 DEF ReceiptsInv, CurrentReceiptsAgree
<1> QED BY <1>3, <1>4, <1>5

LEMMA SteadyAgrees ==
  ASSUME ReceiptsInv, UNCHANGED <<catalog, receipts, remote, touched>>
  PROVE  CatalogInv' /\ ReceiptInv' /\ OneOwnerPerPath' /\ CurrentReceiptsAgree'
<1>1. Expected' = Expected /\ Owned' = Owned
  BY DEF Expected, Owned
<1>2. \A i \in Items : Record(i, remote[i])' = Record(i, remote[i])
  BY DEF Record
<1>3. CatalogInv'
  BY <1>1, <1>2 DEF ReceiptsInv, CatalogInv
<1> QED BY <1>1, <1>3 DEF ReceiptsInv, ReceiptInv, OneOwnerPerPath, CurrentReceiptsAgree

LEMMA CatalogSteady ==
  ASSUME CatalogInv, UNCHANGED <<catalog, remote, touched>>
  PROVE  CatalogInv'
<1>1. Expected' = Expected
  BY DEF Expected
<1>2. \A i \in Items : Record(i, remote[i])' = Record(i, remote[i])
  BY DEF Record
<1> QED BY <1>1, <1>2 DEF CatalogInv

(* A run that is not live, or stands still, has nothing new to attest.     *)
LEMMA WitnessSteady ==
  ASSUME RunsInv, WitnessInv, UNCHANGED <<remote, touched>>,
         UNCHANGED run \/ ~Live' \/ (run' \in Runs /\ run'.done = <<>> /\ run'.step = "next")
  PROVE  WitnessInv'
<1>1. CASE UNCHANGED run
  BY <1>1 DEF WitnessInv, Live, Recording, Compared, Done, Witness
<1>2. CASE ~Live'
  BY <1>2 DEF WitnessInv
<1>3. CASE run'.done = <<>> /\ run'.step = "next"
  <2>1. Compared' = {}
    BY <1>3 DEF Compared, Done, Range
  <2> QED BY <2>1 DEF WitnessInv
<1> QED BY <1>1, <1>2, <1>3

(* What a run plans stays undisputed until the run records it.             *)
LEMMA PlannedStep == RunsInv /\ PlannedInv /\ [Next]_vars => PlannedInv'
<1> SUFFICES ASSUME RunsInv, PlannedInv, [Next]_vars, Live', Recording'
             PROVE  (run.todo \cup Turned)' \subseteq Undisputed'
  BY DEF PlannedInv
<1>1. ASSUME UNCHANGED <<run, catalog, receipts>>
      PROVE  (run.todo \cup Turned)' \subseteq Undisputed'
  <2>1. Live /\ Recording /\ Turned' = Turned
    BY <1>1 DEF Live, Recording, Turned, Done
  <2> QED BY <1>1, <2>1, PlanSteady DEF PlannedInv
<1>2. ASSUME Working, UNCHANGED catalog
      PROVE  (run.todo \cup Turned)' \subseteq Undisputed'
  <2>1. Worked
    BY <1>2, WorkingWorks
  <2>2. Live /\ Recording /\ (run.todo \cup Turned)' \subseteq run.todo \cup Turned
    BY <2>1 DEF Worked, Shrinks, Recording
  <2>3. UNCHANGED receipts
    <3>1. run \in Runs
      BY PartsOfInv DEF BatchParts, RunOK
    <3>2. ~RecordReceipts /\ ~DropReceipts
      BY <3>1 DEF RecordReceipts, DropReceipts, Live, Busy, Runs
    <3> QED BY <1>2, <3>2 DEF Working, MakeFolder, Fingerprint, HashLocal, InspectStale,
           QuarantineFolder, Clean, Aside, Fetch, Promote, Unlink, Confirm,
           CompareProvider, CompareBaseline, LinkBackup, Swap, QuarantineFile,
           Abandon, GiveUp, TakeBack
  <2> HIDE DEF Turned
  <2>4. Undisputed' = Undisputed
    BY <1>2, <2>3, PlanSteady
  <2> QED BY <2>2, <2>4 DEF PlannedInv
<1>3. CASE Begin
  <2>1. UNCHANGED <<catalog, receipts>>
    BY <1>3 DEF Begin
  <2>2. CASE Decision \in Phases /\ Ready(Decision)
    <3>1. run = Idle /\ run' = [Idle EXCEPT !.phase = Decision, !.todo = Plan[Decision],
                                            !.goal = Cardinality(Plan[Decision])]
      BY <1>3, <2>2 DEF Begin
    <3>2. run'.todo = Plan[Decision] /\ run'.phase = Decision /\ run'.done = <<>>
          /\ run'.step = "next"
      BY <3>1 DEF Idle
    <3>3. Turned' = {} /\ Plan[Decision] \subseteq Undisputed
      BY <3>2, PlannedItems DEF Turned, Done, Range, Busy, Recording
    <3> QED BY <2>1, <3>2, <3>3, PlanSteady
  <2>3. CASE ~(Decision \in Phases /\ Ready(Decision))
    BY <1>1, <1>3, <2>1, <2>3 DEF Begin
  <2> QED BY <2>2, <2>3
<1>4. CASE Finish \/ Stop \/ ApplyWindow \/ Crash
  BY <1>4 DEF Finish, Stop, ApplyWindow, Apply, Crash, Killed, Live, Idle
<1>5. CASE CallFails
  <2>1. run \in Runs
    BY PartsOfInv DEF BatchParts, RunOK
  <2>2. run'.step = "rollback"
    BY <1>5, <2>1 DEF CallFails, GiveUp, Runs
  <2> QED BY <2>2 DEF Live, Busy
<1>6. CASE \/ \E i \in Items : \/ \E p \in Paths, b \in Blobs \cup {None} : RemoteWrite(i, p, b)
                            \/ RemoteRemove(i)
           \/ UserStep \/ CaptureBaseline \/ UNCHANGED vars
  BY <1>1, <1>6 DEF RemoteWrite, RemoteRemove, UserStep, SaveInPlace, SaveByRename,
     RemoveEntry, MakeDir, Edit, CaptureBaseline, vars
<1> QED BY <1>2, <1>3, <1>4, <1>5, <1>6 DEF Next, RunStep, Surroundings

LEMMA ReceiptsStep == RunsInv /\ ReceiptsInv /\ [Next]_vars => ReceiptsInv'
<1> SUFFICES ASSUME RunsInv, ReceiptsInv, [Next]_vars PROVE ReceiptsInv'
  OBVIOUS
<1>0. PlannedInv'
  BY PlannedStep DEF ReceiptsInv
<1>1. CASE RunStep
  <2>1. CASE Working /\ UNCHANGED <<catalog, service, observation, outcome, tallies>>
    <3>1. UNCHANGED <<catalog, remote, touched>>
      BY <2>1 DEF service
    <3>2. WitnessInv' /\ CatalogInv'
      BY <2>1, <3>1, WitnessWorks, CatalogSteady DEF ReceiptsInv
    <3>3. CASE RecordReceipts \/ DropReceipts
      BY <1>0, <3>1, <3>2, <3>3, RecordAgrees, DropAgrees DEF ReceiptsInv
    <3>4. CASE ~(RecordReceipts \/ DropReceipts)
      <4>1. UNCHANGED receipts
        BY <2>1, <3>4 DEF Working, MakeFolder, Fingerprint, HashLocal, InspectStale,
           QuarantineFolder, Clean, Aside, Fetch, Promote, Unlink, Confirm,
           CompareProvider, CompareBaseline, LinkBackup, Swap, QuarantineFile,
           Abandon, GiveUp, TakeBack
      <4> QED BY <1>0, <3>1, <3>2, <4>1, SteadyAgrees DEF ReceiptsInv
    <3> QED BY <3>3, <3>4
  <2>2. CASE (Finish \/ Stop) /\ UNCHANGED <<catalog, service, observation, tallies>>
    <3>1. run' = Idle /\ UNCHANGED <<catalog, receipts, remote, touched>>
      BY <2>2 DEF Finish, Stop, service
    <3>2. ~Live'
      BY <3>1 DEF Live, Idle
    <3> QED BY <1>0, <3>1, <3>2, SteadyAgrees, WitnessSteady DEF ReceiptsInv
  <2> QED BY <1>1, <2>1, <2>2 DEF RunStep
<1>2. CASE ApplyWindow
  BY <1>2, WindowAgrees
<1>3. CASE \/ \E i \in Items, p \in Paths, b \in Blobs \cup {None} : RemoteWrite(i, p, b)
           \/ \E i \in Items : RemoteRemove(i)
  <2>1. CatalogInv
    BY DEF ReceiptsInv
  <2>2. CatalogInv' /\ UNCHANGED <<catalog, receipts, run>>
        /\ \E S \in SUBSET Items : touched' = touched \cup S
               /\ \A j \in Items \ S : remote'[j] = remote[j]
    BY <1>3, <2>1, WriteAgrees, RemoveAgrees
  <2> QED BY <1>0, <2>2, ProviderTouches DEF ReceiptsInv
<1>5. CASE Begin
  <2>1. UNCHANGED <<catalog, receipts, remote, touched>>
    BY <1>5 DEF Begin, service
  <2>2. UNCHANGED run \/ (run' \in Runs /\ run'.done = <<>> /\ run'.step = "next")
    <3>1. CASE Decision \in Phases /\ Ready(Decision)
      <4>1. run = Idle /\ run' = [Idle EXCEPT !.phase = Decision, !.todo = Plan[Decision],
                                              !.goal = Cardinality(Plan[Decision])]
        BY <1>5, <3>1 DEF Begin
      <4> QED BY <2>1, <3>1, <4>1, Beginning DEF BatchParts, RunOK
    <3>2. CASE ~(Decision \in Phases /\ Ready(Decision))
      BY <1>5, <3>2 DEF Begin
    <3> QED BY <3>1, <3>2
  <2> QED BY <1>0, <2>1, <2>2, SteadyAgrees, WitnessSteady DEF ReceiptsInv
<1>6. CASE CallFails \/ Crash
  <2>1. UNCHANGED <<catalog, receipts, remote, touched>>
    BY <1>6 DEF CallFails, GiveUp, Crash, Killed, service
  <2>2. ~Live'
    <3>1. CASE CallFails
      <4>1. run \in Runs
        BY PartsOfInv DEF BatchParts, RunOK
      <4>2. run'.step = "rollback"
        BY <3>1, <4>1 DEF CallFails, GiveUp, Runs
      <4> QED BY <4>2 DEF Live, Busy
    <3>2. CASE Crash
      BY <3>2 DEF Crash, Killed, Live, Idle
    <3> QED BY <1>6, <3>1, <3>2
  <2> QED BY <1>0, <2>1, <2>2, SteadyAgrees, WitnessSteady DEF ReceiptsInv
<1>7. CASE UserStep \/ CaptureBaseline \/ UNCHANGED vars
  <2>1. UNCHANGED <<catalog, receipts, remote, touched, run>>
    BY <1>7 DEF UserStep, SaveInPlace, SaveByRename, RemoveEntry, MakeDir, Edit,
                CaptureBaseline, vars, service
  <2> QED BY <1>0, <2>1, SteadyAgrees, WitnessSteady DEF ReceiptsInv
<1> QED BY <1>1, <1>2, <1>3, <1>5, <1>6, <1>7 DEF Next, Surroundings

LEMMA ReceiptsInit == Init => ReceiptsInv
<1> SUFFICES ASSUME Init PROVE ReceiptsInv
  OBVIOUS
<1>1. RunsInv
  BY RunsInit
<1>2. /\ remote \in [Items -> Object \cup {None}]
      /\ touched = {} /\ run = Idle
      /\ \A i \in Items : catalog[i] = IF remote[i] = None THEN None ELSE Record(i, remote[i])
      /\ \A i \in Items : receipts[i] = IF remote[i] = None THEN None
           ELSE [path |-> remote[i].path, state |-> "current", blob |-> remote[i].blob]
  BY DEF Init
<1>3. \A i \in Present : /\ Record(i, remote[i]) # None /\ remote[i] \in Object
                         /\ remote[i].path \in Homes[i]
                         /\ i \in Folders => remote[i].blob = None
  BY <1>1, PartsOfInv, RecordType, EntryAssumption DEF TablesOK, RemoteInv, Present
<1>4. Expected = Present /\ \A i \in Present : catalog[i].path = remote[i].path
  BY <1>2, <1>3, RecordPath DEF Expected, Present
<1>5. Owned = Present
  <2>1. \A i \in Present : receipts[i] \in Receipts
    BY <1>2, <1>1, PartsOfInv, <1>3 DEF TablesOK, Present, Receipts, Object
  <2>2. \A i \in Items \ Present : receipts[i] = None
    BY <1>2 DEF Present
  <2>3. \A i \in Present : i \in Items /\ receipts[i] # None
    BY <2>1, EntryAssumption DEF Present
  <2> QED BY <2>2, <2>3 DEF Owned
<1>6. CatalogInv
  BY <1>2, <1>3, <1>4 DEF CatalogInv, Present
<1>7. ASSUME NEW i \in Present
      PROVE  /\ receipts[i].path = remote[i].path
             /\ receipts[i].blob = remote[i].blob
  <2> DEFINE new == [path |-> remote[i].path, state |-> "current", blob |-> remote[i].blob]
  <2>1. new.path = remote[i].path /\ new.blob = remote[i].blob
    OBVIOUS
  <2>2. receipts[i] = new
    BY <1>2 DEF Present
  <2> HIDE DEF new
  <2> QED BY <2>1, <2>2
<1>8. ReceiptInv
  BY <1>3, <1>4, <1>5, <1>7 DEF ReceiptInv
<1>9. WitnessInv
  BY <1>2 DEF WitnessInv, Live, Idle
<1>10. OneOwnerPerPath
  <2>1. \A i, j \in Present : i # j => remote[i].path # remote[j].path
    BY DEF Init
  <2> QED BY <1>5, <1>7, <2>1 DEF OneOwnerPerPath
<1>11. CurrentReceiptsAgree
  <2>1. \A i \in Present : remote[i] = [path |-> remote[i].path, blob |-> remote[i].blob]
    BY <1>3 DEF Object
  <2> QED BY <1>5, <1>7, <2>1 DEF CurrentReceiptsAgree
<1>12. PlannedInv
  BY <1>2 DEF PlannedInv, Live, Idle
<1> QED BY <1>6, <1>8, <1>9, <1>10, <1>11, <1>12 DEF ReceiptsInv

THEOREM ReceiptsInvariant == Spec => []ReceiptsInv
BY ReceiptsInit, ReceiptsStep, RunsInvariant, PTL DEF Spec

(* No two items hold receipts for one path, whatever moves over what.      *)
THEOREM OwnersAreUnique == Spec => []OneOwnerPerPath
<1>1. ReceiptsInv => OneOwnerPerPath
  BY DEF ReceiptsInv
<1> QED BY <1>1, ReceiptsInvariant, PTL

(* What a run attests is what the provider holds, up to changes whose      *)
(* window is still to come.                                                *)
THEOREM ReceiptsFollowProvider == Spec => []CurrentReceiptsAgree
<1>1. ReceiptsInv => CurrentReceiptsAgree
  BY DEF ReceiptsInv
<1> QED BY <1>1, ReceiptsInvariant, PTL
=============================================================================
