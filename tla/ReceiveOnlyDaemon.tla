-------------------------- MODULE ReceiveOnlyDaemon --------------------------
(***************************************************************************)
(* nubisyncd and the receive-only commands over ReceiveOnlyConvergence:    *)
(* who may run, and when a run looks at the provider and when it works on  *)
(* the plan it already has.                                                *)
(*                                                                         *)
(* A flight is one run-to-idle (a tick of the daemon, or the command) or   *)
(* one cycle command; it holds the execution lock for its whole length.    *)
(* Time is left out: a tick may come at any moment its back-off allows.    *)
(***************************************************************************)
EXTENDS ReceiveOnlyConvergence

CONSTANTS
  MaxRounds,     \* SUPERVISED_RECEIVE_ONLY_RUN_MAX_ROUNDS
  MaxSwitches    \* bound on changes of the root's mode

ASSUME DaemonAssumption == MaxRounds \in Nat \ {0} /\ MaxSwitches \in Nat

VARIABLES
  mode,      \* sync_roots.mode
  window,    \* change pages collected and not executed: what they say
  daemon,    \* where the loop of nubisyncd is
  flight,    \* the flight that holds the execution lock
  due,       \* items changed before the flight and collected by no window
  switches

daemonVars == <<mode, window, daemon, flight, due, switches>>
allVars    == <<vars, daemonVars>>

Modes  == {"receive_only", "two_way"}
Places == {"loop", "ready", "flying", "standby", "paused", "stopped", "crashed"}
Stages == {"metadata", "convergence", "step", "stepping"}
Flights == [holder : {"daemon", "command"}, stage : Stages,
            observed : BOOLEAN, budget : 0..MaxRounds]

ASSUME NoneIsNoFlight == None \notin Flights

At(place)     == daemon = place
Flying(stage) == flight # None /\ flight.stage = stage

DaemonInit ==
  /\ Init
  /\ mode = "receive_only" /\ window = None
  /\ daemon = "loop" /\ flight = None
  /\ due = {} /\ switches = 0

-----------------------------------------------------------------------------
(* Begin and end of a flight.                                              *)
Takeoff(holder, stage, budget) ==
  /\ flight = None
  /\ flight' = [holder |-> holder, stage |-> stage,
                observed |-> stage = "metadata", budget |-> budget]
  /\ due' = IF window = None THEN touched ELSE {}

(* classify_selected_root_receive_only_run_start: a plan with actions, the *)
(* blocked ones included, goes before new metadata.                        *)
HasActions == Blocked \/ Active # {}

FirstStage == IF window = None /\ HasActions THEN "convergence" ELSE "metadata"

Plannable == window = None => ~Collision

TouchDown(place) ==
  /\ flight' = None /\ due' = {}
  /\ daemon' = IF flight.holder = "daemon" THEN place ELSE daemon

(* The loop reads the mode, then refreshes its session, then ticks with    *)
(* the root it loaded when it started.                                     *)
LookAtMode ==
  /\ At("loop") \/ At("standby")
  /\ daemon' = IF mode = "two_way" THEN "standby"
               ELSE IF At("standby") THEN "stopped" ELSE "ready"
  /\ UNCHANGED <<vars, mode, window, flight, due, switches>>

Tick ==
  /\ At("ready")
  /\ IF flight = None /\ Plannable
     THEN Takeoff("daemon", FirstStage, MaxRounds) /\ daemon' = "flying"
     ELSE daemon' = "loop" /\ UNCHANGED <<flight, due>>
  /\ UNCHANGED <<vars, mode, window, switches>>

(* A process started again, by its unit after a crash or by the owner.     *)
Restart ==
  /\ At("crashed") \/ At("stopped") \/ At("paused")
  /\ daemon' = "loop"
  /\ UNCHANGED <<vars, mode, window, flight, due, switches>>

(* run-to-idle and cycle: the mode is read under the lock.                 *)
Command ==
  /\ mode = "receive_only"
  /\ \/ Plannable /\ Takeoff("command", FirstStage, MaxRounds)
     \/ Takeoff("command", "metadata", 1)
  /\ UNCHANGED <<vars, mode, window, daemon, switches>>

-----------------------------------------------------------------------------
(* The rounds of a flight.                                                 *)
CollectPage ==
  /\ Flying("metadata") /\ flight.budget > 0 /\ window = None
  /\ window' = Pages
  /\ touched' = {} /\ due' = {}
  /\ flight' = [flight EXCEPT !.budget = @ - 1]
  /\ UNCHANGED <<catalog, receipts, tree, remote, observation, run, outcome,
                 tallies, mode, daemon, switches>>

(* Mutant: one round collects and executes.                                *)
ExecuteWindowAtOnce ==
  /\ Flying("metadata") /\ window # None
  /\ Apply(window)
  /\ window' = None
  /\ flight' = [flight EXCEPT !.budget = @ - 1, !.stage = "step"]
  /\ UNCHANGED <<touched, mode, daemon, due, switches>>

ExecuteWindow ==
  /\ Flying("metadata") /\ flight.budget > 0 /\ window # None
  /\ Apply(window)
  /\ window' = None
  /\ flight' = [flight EXCEPT !.budget = @ - 1, !.stage = "step"]
  /\ UNCHANGED <<touched, mode, daemon, due, switches>>

StartStep ==
  /\ Flying("step") \/ (Flying("convergence") /\ flight.budget > 0)
  /\ Begin
  /\ flight' = [flight EXCEPT !.stage = "stepping",
       !.budget = IF Flying("convergence") THEN @ - 1 ELSE @]
  /\ UNCHANGED <<mode, window, daemon, due, switches>>

(* After a step: on with the next one, or to the provider once if this     *)
(* flight has not been there, or down.                                     *)
Continue ==
  /\ Flying("stepping") /\ run = Idle
  /\ \/ outcome = "another"
     \/ outcome = "converged" /\ ~flight.observed
  /\ flight' = [flight EXCEPT
       !.stage = IF outcome = "another" THEN "convergence" ELSE "metadata",
       !.observed = flight.observed \/ outcome = "converged"]
  /\ UNCHANGED <<vars, mode, window, daemon, due, switches>>

(* Mutant: any step that reports convergence ends the flight.              *)
ConvergedAnyway == outcome = "converged"

Converged == outcome = "converged" /\ flight.observed

Land ==
  /\ flight # None /\ run = Idle
  /\ \/ Flying("stepping") /\ (Converged \/ outcome \in {"refused", "failed", "manual"})
     \/ (Flying("metadata") \/ Flying("convergence")) /\ flight.budget = 0
  /\ TouchDown(IF Flying("stepping") /\ outcome = "manual" THEN "paused" ELSE "loop")
  /\ UNCHANGED <<vars, mode, window, switches>>

MetadataFails ==
  /\ Flying("metadata") /\ flight.budget > 0
  /\ failures < MaxFailures
  /\ failures' = failures + 1
  /\ TouchDown("loop")
  /\ UNCHANGED <<catalog, receipts, tree, service, observation, run, outcome,
                 edited, edits, changes, crashes, mode, window, switches>>

FlightDies ==
  /\ flight # None
  /\ Killed
  /\ TouchDown("crashed")
  /\ UNCHANGED <<mode, window, switches>>

-----------------------------------------------------------------------------
(* Other commands under the same lock: local-baseline, activate-two-way    *)
(* and deactivate-two-way.                                                 *)
Baseline ==
  /\ flight = None /\ window = None
  /\ CaptureBaseline
  /\ UNCHANGED daemonVars

SwitchMode(from, to) ==
  /\ flight = None /\ mode = from
  /\ switches < MaxSwitches
  /\ switches' = switches + 1
  /\ mode' = to
  /\ UNCHANGED <<vars, window, daemon, flight, due>>

ActivateTwoWay ==
  /\ window = None /\ observation /\ Decision = "converged"
  /\ SwitchMode("receive_only", "two_way")

DeactivateTwoWay == SwitchMode("two_way", "receive_only")

-----------------------------------------------------------------------------
Loop == LookAtMode \/ Tick

Rounds == \/ CollectPage \/ ExecuteWindow \/ StartStep \/ Continue \/ Land
          \/ RunStep /\ UNCHANGED daemonVars

Elsewhere ==
  \/ /\ \/ \E i \in Items :
             \/ \E p \in Paths, b \in Blobs \cup {None} : RemoteWrite(i, p, b)
             \/ RemoteRemove(i)
        \/ UserStep \/ CallFails
     /\ UNCHANGED daemonVars
  \/ MetadataFails \/ FlightDies
  \/ Command \/ Baseline \/ ActivateTwoWay \/ DeactivateTwoWay

DaemonNext == Loop \/ Restart \/ Rounds \/ Elsewhere

DaemonSpec == DaemonInit /\ [][DaemonNext]_allVars

(* nubisyncd polls for ever, its unit starts it again after a crash, and a *)
(* flight waits for nothing but its own calls.  That anybody issues a      *)
(* command, or starts a daemon that stopped itself, is not assumed.        *)
DaemonFairSpec ==
  /\ DaemonSpec
  /\ WF_allVars(Loop) /\ WF_allVars(Rounds)
  /\ WF_allVars(At("crashed") /\ Restart)

-----------------------------------------------------------------------------
(* Types of the daemon's variables.                                        *)
DaemonTypeOK ==
  /\ mode \in Modes /\ daemon \in Places
  /\ flight \in Flights \cup {None}
  /\ window = None \/ \E S \in SUBSET Items : window \in [S -> Object \cup {None}]
  /\ due \subseteq Items
  /\ switches \in 0..MaxSwitches
  /\ run # Idle => Flying("stepping")
  /\ At("flying") <=> flight # None /\ flight.holder = "daemon"

(* execute_selected_root_receive_only_run_to_idle may begin with the plan  *)
(* it has, and it reports convergence only after it has brought in every   *)
(* change made before it began, unless it found a window waiting.          *)
ConvergedIsFresh ==
  [][Land /\ Flying("stepping") /\ Converged => due = {}]_allVars

(* The directory is the provider's tree, but for paths the user changed.   *)
InStep ==
  /\ \A i \in Items : remote[i] # None /\ remote[i].path \notin edited =>
       LET x == disk[remote[i].path] IN
       IF i \in Folders THEN x = Dir ELSE IsFile(x) /\ x.blob = remote[i].blob
  /\ \A p \in Paths \ edited : disk[p] # None =>
       \E i \in Items : remote[i] # None /\ remote[i].path = p

(* What holds the daemon up: a plan it refuses or leaves to its owner; a   *)
(* file without a receipt (its run died before it recorded one) that is    *)
(* not what the provider holds now, so that it can never be verified; a    *)
(* plan it keeps resuming although a change it would have to collect first *)
(* has overtaken it; or a root that is in two-way mode or was there, since *)
(* the daemon stops itself when it comes back.                             *)
Declined ==
  \/ Decision \in {"refused", "manual"}
  \/ Decision \in Phases /\ ~Ready(Decision)
Unverifiable ==
  \E i \in Plan.verify :
    \/ remote[i] = None
    \/ disk[catalog[i].path].blob # remote[i].blob
Overtaken == HasActions /\ touched # {}
OffDuty   == mode = "two_way" \/ At("stopped")
HeldUp    == Declined \/ Unverifiable \/ Overtaken \/ OffDuty

(* However edits, failures, crashes and commands fall, once the provider   *)
(* is quiet the periodic daemon (run_periodic_daemon) brings the directory *)
(* in step, unless it is held up in one of these ways.                     *)
InStepUnlessHeldUp == <>[](InStep \/ HeldUp)

(* The same without exception: ARCHITECTURE.md, "Interrupted               *)
(* synchronization must resume safely".                                    *)
EventuallyInStep == <>[]InStep

=============================================================================
