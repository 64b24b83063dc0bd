----------------------- MODULE ReceiveOnlyDaemon_proofs -----------------------
(***************************************************************************)
(* Machine-checked: flights and commands, in whatever order daemon, users, *)
(* crashes and provider bring them about, keep the invariant of the runs   *)
(* they make, and report convergence only after a look at the provider.    *)
(* ReceiveOnlyDaemon cuts a change window in two rounds, so that its steps *)
(* are not steps of ReceiveOnlyConvergence; the lemmas about those are     *)
(* cited for all the others.                                               *)
(***************************************************************************)
EXTENDS ReceiveOnlyDaemon, ReceiveOnlyConvergence_proofs

-----------------------------------------------------------------------------
(* The inductive invariant, beside that of the runs.                       *)

(* What a collected window says is what the provider once held.            *)
WindowInv ==
  window # None =>
    \A i \in DOMAIN window :
      window[i] # None /\ i \notin Folders => window[i].blob \in ProviderBlobs

(* Only a flight that found no window waits for changes, and once it has   *)
(* seen the provider, or goes there, it has collected them.                *)
FreshInv ==
  /\ flight = None => due = {}
  /\ due # {} => window = None
  /\ Flying("metadata") => flight.observed
  /\ flight # None /\ flight.observed /\ due # {} => Flying("metadata")

DaemonInv == RunsInv /\ DaemonTypeOK /\ WindowInv /\ FreshInv

-----------------------------------------------------------------------------
(* Steps of a run.                                                         *)

(* Nothing but a flight's step starts a run.                               *)
LEMMA IdleStaysIdle ==
  ASSUME RunsInv, run = Idle, RunStep \/ CallFails
  PROVE  run' = Idle
<1>1. run.phase = "idle"
  BY DEF Idle
<1>2. CASE RunStep
  <2>1. CASE Working /\ UNCHANGED <<catalog, service, observation, outcome, tallies>>
    <3>1. BatchParts' /\ run'.phase = run.phase
      BY <2>1, WorkingWorks DEF Worked
    <3> QED BY <1>1, <3>1 DEF BatchParts, RunInv, In
  <2>2. CASE Finish \/ Stop
    BY <2>2 DEF Finish, Stop
  <2> QED BY <1>2, <2>1, <2>2 DEF RunStep
<1>3. ~CallFails
  BY <1>1 DEF CallFails, Mutating
<1> QED BY <1>2, <1>3

LEMMA KilledKeeps ==
  ASSUME RunsInv, Killed
  PROVE  RunsInv'
<1>1. run' = Idle /\ outcome' = "none"
      /\ UNCHANGED <<catalog, receipts, tree, service, observation, edited,
                     edits, changes, failures>>
      /\ crashes' = crashes + 1 /\ crashes < MaxCrashes
  BY DEF Killed
<1>2. TreeOK' /\ TablesOK' /\ TalliesOK' /\ RemoteInv'
  BY <1>1, PartsOfInv, RunAssumption, StillRemote
     DEF TreeOK, tree, TablesOK, TalliesOK, service, Outcomes
<1> QED BY <1>1, <1>2, PartsOfInv, InvNext, IdleFence, Ending

-----------------------------------------------------------------------------
(* The two halves of a change window.                                      *)

LEMMA PagesAreSeen ==
  ASSUME RunsInv
  PROVE  /\ Pages \in [touched -> Object \cup {None}]
         /\ \A i \in touched : Pages[i] # None /\ i \notin Folders
                                 => Pages[i].blob \in ProviderBlobs
<1>1. touched \subseteq Items /\ remote \in [Items -> Object \cup {None}]
  BY PartsOfInv DEF TablesOK
<1>2. \A i \in touched : Pages[i] = remote[i]
  BY DEF Pages
<1> QED BY <1>1, <1>2, PartsOfInv DEF Pages, RemoteInv, Present

LEMMA CollectKeeps ==
  ASSUME RunsInv, CollectPage
  PROVE  RunsInv'
<1>1. touched' = {} /\ UNCHANGED <<catalog, receipts, tree, remote, observation,
                                   run, outcome, tallies>>
  BY DEF CollectPage
<1>2. TreeOK' /\ TablesOK' /\ TalliesOK' /\ RemoteInv' /\ BatchParts' /\ FenceInv'
  BY <1>1, PartsOfInv, StillRemote, StillTallies, StillFence, RunSteady
     DEF TreeOK, tree, TablesOK
<1> QED BY <1>2, PartsOfInv, InvNext

LEMMA SeenRecord ==
  ASSUME NEW i \in Items, NEW x \in Object,
         i \notin Folders => x.blob \in ProviderBlobs
  PROVE  Record(i, x) \in Catalogued
<1>1. i \notin Folders => x.blob \in Blobs
  BY RunAssumption
<1> QED BY <1>1, PlanAssumption DEF Record, Catalogued, Object

LEMMA ExecuteKeeps ==
  ASSUME RunsInv, DaemonTypeOK, WindowInv, ExecuteWindow
  PROVE  RunsInv'
<1>1. /\ window # None /\ Apply(window) /\ run = Idle
      /\ UNCHANGED <<tree, remote, observation, run, outcome, tallies, touched>>
  BY DEF ExecuteWindow, Apply
<1>2. PICK S \in SUBSET Items : window \in [S -> Object \cup {None}]
  BY <1>1 DEF DaemonTypeOK
<1>3. TreeOK' /\ RemoteInv' /\ TalliesOK' /\ FenceInv'
  BY <1>1, PartsOfInv, StillRemote, StillTallies, IdleFence DEF TreeOK, tree
<1>4. \A i \in Upserted(window) : Record(i, window[i]) \in Catalogued
  <2>1. TAKE i \in Upserted(window)
  <2>2. i \in Items /\ window[i] \in Object
    BY <1>2 DEF Upserted
  <2>3. i \notin Folders => window[i].blob \in ProviderBlobs
    BY <1>1, <1>2 DEF Upserted, WindowInv
  <2> QED BY <2>2, <2>3, SeenRecord
<1>5. catalog' \in [Items -> Catalogued \cup {None}]
  BY <1>1, <1>4, PartsOfInv DEF Apply, TablesOK
<1>6. receipts' \in [Items -> Receipts \cup {None}]
  BY <1>1, PartsOfInv DEF Apply, TablesOK, Owned, Receipts
<1>7. TablesOK'
  BY <1>1, <1>5, <1>6, PartsOfInv DEF TablesOK
<1>8. BatchParts'
  BY <1>1, Ending
<1> QED BY <1>3, <1>7, <1>8, PartsOfInv, InvNext

-----------------------------------------------------------------------------
(* Every step keeps the invariant of the runs.                             *)

LEMMA DaemonKeepsRuns ==
  ASSUME DaemonInv, [DaemonNext]_allVars
  PROVE  RunsInv'
<1> USE DEF DaemonInv
<1>1. CASE UNCHANGED vars
  BY <1>1, StutterKeeps
<1>2. CASE CollectPage \/ ExecuteWindow
  BY <1>2, CollectKeeps, ExecuteKeeps
<1>3. CASE StartStep \/ RunStep
  BY <1>3, BeginKeeps, RunStepKeeps DEF StartStep
<1>4. CASE Elsewhere /\ ~UNCHANGED vars
  <2>1. CASE MetadataFails
    <3>1. UNCHANGED <<catalog, receipts, tree, service, observation, run, outcome,
                      edited, edits, changes, crashes>>
          /\ failures' = failures + 1 /\ failures < MaxFailures
      BY <2>1 DEF MetadataFails
    <3>2. TreeOK' /\ TablesOK' /\ TalliesOK' /\ RemoteInv' /\ BatchParts' /\ FenceInv'
      BY <3>1, PartsOfInv, RunAssumption, StillRemote, StillFence, RunSteady
         DEF TreeOK, tree, TablesOK, TalliesOK, service
    <3> QED BY <3>2, PartsOfInv, InvNext
  <2>2. CASE FlightDies
    BY <2>2, KilledKeeps DEF FlightDies
  <2>3. CASE Baseline
    BY <2>3, BaselineKeeps DEF Baseline
  <2>4. CASE Command \/ ActivateTwoWay \/ DeactivateTwoWay
    BY <1>4, <2>4 DEF Command, ActivateTwoWay, DeactivateTwoWay, SwitchMode
  <2> QED BY <1>4, <2>1, <2>2, <2>3, <2>4, ProviderKeeps, UserKeeps, FailureKeeps
      DEF Elsewhere
<1>5. Loop \/ Restart \/ Continue \/ Land => UNCHANGED vars
  BY DEF Loop, LookAtMode, Tick, Restart, Continue, Land
<1>6. [DaemonNext]_allVars => \/ UNCHANGED vars
                             \/ CollectPage \/ ExecuteWindow \/ StartStep \/ RunStep
                             \/ Elsewhere
  BY <1>5 DEF DaemonNext, Rounds, allVars
<1> QED BY <1>1, <1>2, <1>3, <1>4, <1>6

(* What leaves the daemon's variables and the run alone, or ends the run.  *)
LEMMA DaemonStands ==
  ASSUME DaemonInv, UNCHANGED daemonVars, run = Idle => run' = Idle
  PROVE  (DaemonTypeOK /\ WindowInv /\ FreshInv)'
<1>1. UNCHANGED <<mode, window, daemon, flight, due, switches>>
  BY DEF daemonVars
<1> QED BY <1>1 DEF DaemonInv, DaemonTypeOK, WindowInv, FreshInv, Flying, At

LEMMA TakeoffFacts ==
  ASSUME DaemonInv, NEW holder \in {"daemon", "command"},
         NEW stage \in {"metadata", "convergence"}, NEW budget \in 1..MaxRounds,
         Takeoff(holder, stage, budget), UNCHANGED window
  PROVE  /\ flight = None /\ flight' \in Flights /\ flight'.holder = holder
         /\ due' \subseteq Items
         /\ FreshInv'
<1>1. touched \subseteq Items
  BY PartsOfInv DEF DaemonInv, TablesOK
<1> DEFINE seen == stage = "metadata"
           airborne == [holder |-> holder, stage |-> stage, observed |-> seen,
                        budget |-> budget]
<1>2. flight' = airborne
  BY DEF Takeoff
<1>3. seen \in BOOLEAN /\ stage \in Stages /\ budget \in 0..MaxRounds
  BY DaemonAssumption DEF Stages
<1> HIDE DEF seen
<1>4. airborne \in Flights /\ airborne.holder = holder /\ airborne.stage = stage
      /\ airborne.observed = seen
  BY <1>3 DEF Flights
<1>5. flight' # None
  BY <1>2, <1>4, NoneIsNoFlight
<1>6. due' \subseteq Items /\ (due' # {} => window' = None)
  BY <1>1 DEF Takeoff
<1>7. FreshInv'
  <2> HIDE DEF airborne
  <2> QED BY <1>2, <1>4, <1>5, <1>6 DEF FreshInv, Flying, seen
<1> QED BY <1>2, <1>4, <1>6, <1>7 DEF Takeoff

LEMMA TouchDownFacts ==
  ASSUME DaemonInv, NEW place \in Places \ {"flying"}, flight # None,
         TouchDown(place), run' = Idle, UNCHANGED <<mode, window, switches>>
  PROVE  (DaemonTypeOK /\ WindowInv /\ FreshInv)'
<1>1. flight' = None /\ due' = {}
      /\ daemon' = IF flight.holder = "daemon" THEN place ELSE daemon
  BY DEF TouchDown
<1> QED BY <1>1 DEF DaemonInv, DaemonTypeOK, WindowInv, FreshInv, Flying, At

-----------------------------------------------------------------------------
(* Every step keeps the rest.                                              *)

LEMMA LoopKeeps ==
  ASSUME DaemonInv, Loop \/ Restart
  PROVE  (DaemonTypeOK /\ WindowInv /\ FreshInv)'
<1>1. run' = run /\ UNCHANGED <<mode, window, switches>>
  BY DEF Loop, LookAtMode, Tick, Restart, vars
<1>2. WindowInv'
  BY <1>1 DEF DaemonInv, WindowInv
<1>3. CASE UNCHANGED <<flight, due>> /\ daemon' \in Places \ {"flying"} /\ daemon # "flying"
  BY <1>1, <1>2, <1>3 DEF DaemonInv, DaemonTypeOK, FreshInv, Flying, At
<1>4. CASE Takeoff("daemon", FirstStage, MaxRounds) /\ daemon' = "flying"
  <2>1. FirstStage \in {"metadata", "convergence"} /\ MaxRounds \in 1..MaxRounds
    BY DaemonAssumption DEF FirstStage
  <2>2. /\ flight = None /\ flight' \in Flights /\ flight'.holder = "daemon"
        /\ due' \subseteq Items /\ FreshInv'
    BY <1>1, <1>4, <2>1, TakeoffFacts
  <2>3. run' = Idle
    BY <1>1, <2>2 DEF DaemonInv, DaemonTypeOK, Flying
  <2> QED BY <1>1, <1>2, <1>4, <2>2, <2>3, NoneIsNoFlight
          DEF DaemonInv, DaemonTypeOK, At, Places
<1>5. (LookAtMode \/ Restart) => UNCHANGED <<flight, due>>
        /\ daemon' \in Places \ {"flying"} /\ daemon # "flying"
  BY DEF LookAtMode, Restart, At, Places
<1>6. Tick => \/ /\ UNCHANGED <<flight, due>>
                 /\ daemon' = "loop" /\ daemon = "ready"
              \/ /\ Takeoff("daemon", FirstStage, MaxRounds)
                 /\ daemon' = "flying"
  BY DEF Tick, At
<1>7. "loop" \in Places \ {"flying"}
  BY DEF Places
<1> QED BY <1>3, <1>4, <1>5, <1>6, <1>7 DEF Loop

LEMMA RoundsKeep ==
  ASSUME DaemonInv, CollectPage \/ ExecuteWindow \/ StartStep \/ Continue
  PROVE  (DaemonTypeOK /\ WindowInv /\ FreshInv)'
<1> USE DEF DaemonInv
<1>1. /\ flight # None /\ flight \in Flights
      /\ UNCHANGED <<mode, daemon, switches>>
  BY DEF CollectPage, ExecuteWindow, StartStep, Continue, Flying, DaemonTypeOK
<1>2. CASE CollectPage
  <2>1. /\ window' = Pages /\ due' = {} /\ run' = run /\ Flying("metadata")
        /\ flight' = [flight EXCEPT !.budget = @ - 1] /\ flight.budget > 0
    BY <1>2 DEF CollectPage
  <2>2. flight' \in Flights /\ flight'.holder = flight.holder
        /\ flight'.stage = flight.stage /\ flight'.observed = flight.observed
    BY <1>1, <2>1, DaemonAssumption DEF Flights
  <2>3. flight' # None
    BY <2>2, NoneIsNoFlight
  <2>4. run = Idle
    BY <2>1 DEF DaemonTypeOK, Flying
  <2>5. touched \subseteq Items
    BY PartsOfInv DEF TablesOK
  <2>6. \E S \in SUBSET Items : window' \in [S -> Object \cup {None}]
    BY <2>1, <2>5, PagesAreSeen
  <2>7. WindowInv'
    BY <2>1, PagesAreSeen DEF WindowInv
  <2>8. DaemonTypeOK'
    BY <1>1, <2>1, <2>2, <2>3, <2>4, <2>6 DEF DaemonTypeOK, At
  <2> QED BY <1>1, <2>1, <2>2, <2>3, <2>7, <2>8 DEF FreshInv, Flying
<1>3. CASE ExecuteWindow
  <2>1. /\ window' = None /\ due' = due /\ run' = run /\ run = Idle /\ window # None
        /\ Flying("metadata")
        /\ flight' = [flight EXCEPT !.budget = flight.budget - 1, !.stage = "step"]
        /\ flight.budget > 0
    BY <1>3 DEF ExecuteWindow, Apply
  <2> DEFINE less == flight.budget - 1
  <2>5. less \in 0..MaxRounds /\ "step" \in Stages
    BY <1>1, <2>1, DaemonAssumption DEF Flights, Stages
  <2>6. flight' = [flight EXCEPT !.budget = less, !.stage = "step"]
    BY <2>1
  <2> HIDE DEF less
  <2>2. flight' \in Flights /\ flight'.holder = flight.holder
        /\ flight'.stage = "step"
    BY <1>1, <2>5, <2>6 DEF Flights
  <2>3. flight' # None
    BY <2>2, NoneIsNoFlight
  <2>4. due' = {}
    BY <2>1 DEF FreshInv
  <2> QED BY <1>1, <2>1, <2>2, <2>3, <2>4 DEF DaemonTypeOK, FreshInv, WindowInv, Flying, At
<1>4. CASE StartStep
  <2>1. /\ UNCHANGED <<window, due>>
        /\ Flying("step") \/ (Flying("convergence") /\ flight.budget > 0)
    BY <1>4 DEF StartStep
  <2> DEFINE left == IF Flying("convergence") THEN flight.budget - 1
                     ELSE flight.budget
  <2>5. flight' = [flight EXCEPT !.stage = "stepping", !.budget = left]
    BY <1>4 DEF StartStep
  <2>6. left \in 0..MaxRounds /\ "stepping" \in Stages
    BY <1>1, <2>1, DaemonAssumption DEF Flights, Stages, Flying
  <2> HIDE DEF left
  <2>2. flight' \in Flights /\ flight'.holder = flight.holder
        /\ flight'.stage = "stepping" /\ flight'.observed = flight.observed
    BY <1>1, <2>5, <2>6 DEF Flights
  <2>3. flight' # None
    BY <2>2, NoneIsNoFlight
  <2> QED BY <1>1, <2>1, <2>2, <2>3 DEF DaemonTypeOK, FreshInv, WindowInv, Flying, At
<1>5. CASE Continue
  <2> DEFINE further == IF outcome = "another" THEN "convergence" ELSE "metadata"
             seen == flight.observed \/ outcome = "converged"
  <2>1. /\ UNCHANGED <<window, due>> /\ run = Idle /\ run' = run /\ Flying("stepping")
        /\ outcome = "another" \/ (outcome = "converged" /\ ~flight.observed)
        /\ flight' = [flight EXCEPT !.stage = further, !.observed = seen]
    BY <1>5 DEF Continue, vars
  <2>2. further \in Stages /\ seen \in BOOLEAN /\ (further = "metadata" => seen)
        /\ (seen => flight.observed \/ further = "metadata")
    BY <2>1 DEF Stages
  <2> HIDE DEF further, seen
  <2>3. flight' \in Flights /\ flight'.holder = flight.holder
        /\ flight'.stage = further /\ flight'.observed = seen
    BY <1>1, <2>1, <2>2 DEF Flights
  <2>4. flight' # None
    BY <2>3, NoneIsNoFlight
  <2> QED BY <1>1, <2>1, <2>2, <2>3, <2>4 DEF DaemonTypeOK, FreshInv, WindowInv, Flying, At
<1> QED BY <1>2, <1>3, <1>4, <1>5

LEMMA FlightsEnd ==
  ASSUME DaemonInv, Land \/ MetadataFails \/ FlightDies
  PROVE  (DaemonTypeOK /\ WindowInv /\ FreshInv)'
<1>1. {"loop", "paused", "crashed"} \subseteq Places \ {"flying"}
  BY DEF Places
<1>2. CASE Land
  <2>1. flight # None /\ run' = Idle /\ UNCHANGED <<mode, window, switches>>
    BY <1>2 DEF Land, vars
  <2>2. \E place \in {"loop", "paused"} : TouchDown(place)
    BY <1>2 DEF Land
  <2> QED BY <1>1, <2>1, <2>2, TouchDownFacts
<1>3. CASE MetadataFails
  <2>1. flight # None /\ TouchDown("loop") /\ UNCHANGED <<mode, window, switches>>
        /\ run' = run /\ Flying("metadata")
    BY <1>3 DEF MetadataFails, Flying
  <2>2. run = Idle
    BY <2>1 DEF DaemonInv, DaemonTypeOK, Flying
  <2> QED BY <1>1, <2>1, <2>2, TouchDownFacts
<1>4. CASE FlightDies
  <2>1. flight # None /\ TouchDown("crashed") /\ UNCHANGED <<mode, window, switches>>
        /\ run' = Idle
    BY <1>4 DEF FlightDies, Killed
  <2> QED BY <1>1, <2>1, TouchDownFacts
<1> QED BY <1>2, <1>3, <1>4

LEMMA CommandsKeep ==
  ASSUME DaemonInv, Command \/ ActivateTwoWay \/ DeactivateTwoWay
  PROVE  (DaemonTypeOK /\ WindowInv /\ FreshInv)'
<1>1. flight = None /\ run' = run /\ UNCHANGED <<window, daemon>>
  BY DEF Command, Takeoff, ActivateTwoWay, DeactivateTwoWay, SwitchMode, vars
<1>2. run = Idle
  BY <1>1 DEF DaemonInv, DaemonTypeOK, Flying
<1>3. CASE Command
  <2>1. \/ Takeoff("command", FirstStage, MaxRounds)
        \/ Takeoff("command", "metadata", 1)
    BY <1>3 DEF Command
  <2>2. FirstStage \in {"metadata", "convergence"}
        /\ MaxRounds \in 1..MaxRounds /\ 1 \in 1..MaxRounds
    BY DaemonAssumption DEF FirstStage
  <2>3. /\ flight' \in Flights /\ flight'.holder = "command"
        /\ due' \subseteq Items /\ FreshInv'
    BY <1>1, <2>1, <2>2, TakeoffFacts
  <2>4. UNCHANGED <<mode, switches>>
    BY <1>3 DEF Command
  <2>5. WindowInv'
    BY <1>1 DEF DaemonInv, WindowInv
  <2> QED BY <1>1, <1>2, <2>3, <2>4, <2>5 DEF DaemonInv, DaemonTypeOK, At
<1>4. CASE ActivateTwoWay \/ DeactivateTwoWay
  <2>1. UNCHANGED <<flight, due>> /\ mode' \in Modes
        /\ switches' = switches + 1 /\ switches < MaxSwitches
    BY <1>4 DEF ActivateTwoWay, DeactivateTwoWay, SwitchMode, Modes
  <2>2. switches' \in 0..MaxSwitches
    BY <2>1, DaemonAssumption DEF DaemonInv, DaemonTypeOK
  <2> QED BY <1>1, <1>2, <2>1, <2>2 DEF DaemonInv, DaemonTypeOK, WindowInv,
                                        FreshInv, Flying, At
<1> QED BY <1>3, <1>4

LEMMA ElsewhereKeeps ==
  ASSUME DaemonInv, Elsewhere \/ (RunStep /\ UNCHANGED daemonVars)
  PROVE  (DaemonTypeOK /\ WindowInv /\ FreshInv)'
<1> DEFINE Beside == \/ \E i \in Items :
                          \/ \E p \in Paths, b \in Blobs \cup {None} : RemoteWrite(i, p, b)
                          \/ RemoteRemove(i)
                     \/ UserStep
<1>1. CASE (Beside /\ UNCHANGED daemonVars) \/ Baseline
  <2>1. run' = run
    BY <1>1 DEF RemoteWrite, RemoteRemove, UserStep, SaveInPlace, SaveByRename,
                RemoveEntry, MakeDir, Edit, Baseline, CaptureBaseline
  <2>2. CASE UNCHANGED daemonVars
    BY <2>1, <2>2, DaemonStands
  <2>3. CASE Baseline
    BY <2>1, <2>3, DaemonStands DEF Baseline
  <2>4. UNCHANGED daemonVars \/ Baseline
    BY <1>1 DEF Baseline, Elsewhere
  <2> QED BY <2>2, <2>3, <2>4
<1>2. CASE (RunStep \/ CallFails) /\ UNCHANGED daemonVars
  BY <1>2, IdleStaysIdle, DaemonStands DEF DaemonInv
<1>3. CASE MetadataFails \/ FlightDies \/ Command \/ ActivateTwoWay \/ DeactivateTwoWay
  BY <1>3, FlightsEnd, CommandsKeep
<1> QED BY <1>1, <1>2, <1>3 DEF Elsewhere

LEMMA DaemonStarts == DaemonInit => DaemonInv
<1> SUFFICES ASSUME DaemonInit PROVE DaemonInv
  OBVIOUS
<1>1. RunsInv
  BY RunsInit DEF DaemonInit
<1>2. run = Idle
  BY DEF DaemonInit, Init
<1>3. DaemonTypeOK
  BY <1>2, DaemonAssumption DEF DaemonInit, DaemonTypeOK, Modes, Places, At
<1> QED BY <1>1, <1>3 DEF DaemonInit, DaemonInv, WindowInv, FreshInv, Flying

LEMMA DaemonStep == DaemonInv /\ [DaemonNext]_allVars => DaemonInv'
<1> SUFFICES ASSUME DaemonInv, [DaemonNext]_allVars
             PROVE  (DaemonTypeOK /\ WindowInv /\ FreshInv)'
  BY DaemonKeepsRuns DEF DaemonInv
<1>1. CASE UNCHANGED allVars
  BY <1>1, DaemonStands DEF allVars, vars
<1>2. CASE Loop \/ Restart
  BY <1>2, LoopKeeps
<1>3. CASE CollectPage \/ ExecuteWindow \/ StartStep \/ Continue
  BY <1>3, RoundsKeep
<1>4. CASE Land
  BY <1>4, FlightsEnd
<1>5. CASE Elsewhere \/ (RunStep /\ UNCHANGED daemonVars)
  BY <1>5, ElsewhereKeeps
<1> QED BY <1>1, <1>2, <1>3, <1>4, <1>5 DEF DaemonNext, Rounds

-----------------------------------------------------------------------------
(* What follows.                                                           *)

(* Whoever holds the lock, and whatever else goes on, a run turns to each  *)
(* item of its batch once, works only on what its plan said, and writes    *)
(* only without a baseline.                                                *)
THEOREM DaemonInvariant == DaemonSpec => []DaemonInv
BY DaemonStarts, DaemonStep, PTL DEF DaemonSpec

(* A run belongs to a flight, and the daemon flies exactly when it holds   *)
(* the lock (run_periodic_daemon, the lock of the commands).               *)
THEOREM DaemonTypeCorrect == DaemonSpec => []DaemonTypeOK
<1>1. DaemonInv => DaemonTypeOK
  BY DEF DaemonInv
<1> QED BY <1>1, DaemonInvariant, PTL

(* A run-to-idle that reports convergence has brought in every change made *)
(* before it began, for every number of rounds.                            *)
THEOREM ConvergenceIsFresh == DaemonSpec => ConvergedIsFresh
<1>1. DaemonInv /\ [DaemonNext]_allVars
        => [Land /\ Flying("stepping") /\ Converged => due = {}]_allVars
  BY DEF DaemonInv, FreshInv, Flying, Converged
<1> QED BY <1>1, DaemonInvariant, PTL DEF DaemonSpec, ConvergedIsFresh

(* Flights of the daemon and of commands never write under a valid         *)
(* observation baseline, although commands capture one between them.       *)
THEOREM DaemonWritesUnobserved == DaemonSpec => NoWriteUnderBaseline
<1>1. ASSUME DaemonInv, [DaemonNext]_allVars
      PROVE  [tree' # tree /\ edits' = edits => ~observation /\ ~observation']_vars
  <2>1. SUFFICES ASSUME tree' # tree, edits' = edits
                 PROVE  ~observation /\ ~observation'
    OBVIOUS
  <2>2. RunsInv
    BY <1>1 DEF DaemonInv
  <2>3. ~UserStep
    <3>1. UserStep => edits' = edits + 1
      BY DEF UserStep, SaveInPlace, SaveByRename, RemoveEntry, MakeDir, Edit
    <3> QED BY <2>1, <2>2, <3>1, PartsOfInv DEF TalliesOK
  <2>4. DaemonNext
    BY <1>1, <2>1 DEF allVars, vars
  <2>5. Loop \/ Restart \/ Continue \/ Land => UNCHANGED tree
    BY DEF Loop, LookAtMode, Tick, Restart, Continue, Land, vars
  <2>6. CollectPage \/ ExecuteWindow \/ StartStep => UNCHANGED tree
    BY DEF CollectPage, ExecuteWindow, StartStep, Apply, Begin
  <2>7. MetadataFails \/ FlightDies \/ Command \/ Baseline \/ ActivateTwoWay
          \/ DeactivateTwoWay => UNCHANGED tree
    BY DEF MetadataFails, FlightDies, Killed, Command, Baseline, CaptureBaseline,
           ActivateTwoWay, DeactivateTwoWay, SwitchMode, vars
  <2>8. (Working /\ UNCHANGED observation) \/ CallFails
    BY <2>1, <2>3, <2>4, <2>5, <2>6, <2>7 DEF DaemonNext, Rounds, Elsewhere,
       RunStep, Finish, Stop, RemoteWrite, RemoteRemove
  <2>9. UNCHANGED observation
    BY <2>8 DEF CallFails
  <2>10. run.phase \notin {"idle", "verify"}
    BY <2>1, <2>2, <2>8, VerifyWritesNothing
  <2> QED BY <2>2, <2>9, <2>10 DEF RunsInv, FenceInv
<1> QED BY <1>1, DaemonInvariant, PTL DEF DaemonSpec, NoWriteUnderBaseline

=============================================================================
