------------------------------ MODULE Lifecycle ------------------------------
(***************************************************************************)
(* The client process from start to exit: bin/client/src/main.rs and        *)
(* lib.rs, crates/common/src/shutdown.rs, and the tasks that bridge.rs      *)
(* runs.  main starts a task for signals and, through run, three tasks      *)
(* that it joins: the swarm task, the coordinator and the supervisor of     *)
(* the bridge, which itself joins the HTTP server and the message loop.     *)
(* What ties them together is the shutdown token, the channels that close   *)
(* when their last sender or receiver is gone, and the joins.               *)
(***************************************************************************)
EXTENDS Naturals, FiniteSets

CONSTANTS
  MaxRequests,  (* bound on the HTTP requests in flight, none in the code      *)
  MaxCtrlC      (* bound on the ctrl-c typed                                   *)

VARIABLES
  main,       (* "starting", "joining", or how the process ended               *)
  task,       (* task -> "absent", "running", "ended" or "panicked"            *)
  cancelled,  (* the shutdown token                                            *)
  requests,   (* HTTP requests in flight                                       *)
  typed       (* how many ctrl-c were typed                                    *)

vars == <<main, task, cancelled, requests, typed>>

Joined == {"swarm", "coordinator", "bridge"}
Inner == {"server", "messages"}
Tasks == Joined \cup Inner \cup {"signals"}
Exits == {"Ok", "Err", "killed"}

ASSUME BoundAssumption == MaxRequests \in Nat /\ MaxCtrlC \in Nat

-----------------------------------------------------------------------------
Up == main \notin Exits
Runs(t) == Up /\ task[t] = "running"
Gone(t) == task[t] \in {"ended", "panicked"}
Becomes(ts, status) == task' = [t \in Tasks |-> IF t \in ts THEN status ELSE task[t]]

(* main spawns the signal task first; it installs its handlers when it is
   polled, whenever that is. *)
InstallSignals ==
  /\ Up
  /\ task["signals"] = "absent"
  /\ Becomes({"signals"}, "running")
  /\ UNCHANGED <<main, cancelled, requests, typed>>

(* try_join!: the swarm task and the coordinator are spawned in any case. *)
SpawnFirst ==
  /\ main = "starting"
  /\ task["swarm"] = "absent"
  /\ Becomes({"swarm", "coordinator"}, "running")
  /\ UNCHANGED <<main, cancelled, requests, typed>>

BridgeTasksDeaf == {"bridge", "server"}  (* mutant: no message loop is spawned *)
BridgeTasks == {"bridge"} \cup Inner

(* The bridge binds its port and spawns its tasks. *)
SpawnBridge ==
  /\ main = "starting"
  /\ task["swarm"] # "absent"
  /\ Becomes(BridgeTasks, "running")
  /\ main' = "joining"
  /\ UNCHANGED <<cancelled, requests, typed>>

(* The configuration is bad, or the port is taken: ? ends run, then main. *)
StartFails ==
  /\ main = "starting"
  /\ main' = "Err"
  /\ UNCHANGED <<task, cancelled, requests, typed>>

BothGone == \A t \in Inner : Gone(t)  (* mutant of OneGone: join! for select! *)
OneGone == \E t \in Inner : Gone(t)

WatchersNone == {}  (* mutant: the token is not handed to the loops *)
Watchers == {"swarm", "coordinator", "messages"}

(* What ends a task of its own accord: the token, or a channel whose other end
   is gone.  The server ends when it has answered every request; the channel
   of the coordinator to the bridge is held by the server and its requests. *)
MayEnd(t) ==
  \/ cancelled /\ t \in Watchers
  \/ cancelled /\ t = "server" /\ requests = 0
  \/ Gone("coordinator") /\ t \in {"swarm", "messages"}
  \/ Gone("swarm") /\ t = "coordinator"
  \/ Gone("server") /\ requests = 0 /\ t = "coordinator"

Ends(t) ==
  /\ Runs(t)
  /\ MayEnd(t)
  /\ Becomes({t}, "ended")
  /\ UNCHANGED <<main, cancelled, requests, typed>>

Panics(t) ==
  /\ Runs(t)
  /\ Becomes({t}, "panicked")
  /\ UNCHANGED <<main, cancelled, requests, typed>>

(* The supervisor of the bridge ends with either of its tasks; a panic of
   theirs is logged, and it ends as if there had been none. *)
SuperviseBridge ==
  /\ Runs("bridge")
  /\ OneGone
  /\ cancelled' = TRUE
  /\ Becomes({"bridge"}, "ended")
  /\ UNCHANGED <<main, requests, typed>>

(* run returns with one of the joined tasks, and the process with run: the
   runtime drops every task that is left, wherever it stands. *)
Join(t) ==
  /\ main = "joining"
  /\ Gone(t)
  /\ cancelled' = TRUE
  /\ main' = IF task[t] = "ended" THEN "Ok" ELSE "Err"
  /\ UNCHANGED <<task, requests, typed>>

(* wait_for_shutdown_signal: a signal cancels the token and ends the task.
   One that arrives before its handler is installed kills the process; one after
   the task has ended is swallowed, since a handler is never uninstalled. *)
SignalArrives ==
  IF task["signals"] = "absent"
  THEN main' = "killed" /\ UNCHANGED <<task, cancelled>>
  ELSE IF task["signals"] = "running"
  THEN Becomes({"signals"}, "ended") /\ cancelled' = TRUE /\ UNCHANGED main
  ELSE UNCHANGED <<main, task, cancelled>>

CtrlC ==
  /\ Up
  /\ typed < MaxCtrlC
  /\ typed' = typed + 1
  /\ SignalArrives
  /\ UNCHANGED requests

(* SIGTERM and SIGHUP do the same; how many come is not counted. *)
Terminate ==
  /\ Up
  /\ SignalArrives
  /\ UNCHANGED <<requests, typed>>

SignalsEnd ==
  /\ Runs("signals")
  /\ cancelled
  /\ Becomes({"signals"}, "ended")
  /\ UNCHANGED <<main, cancelled, requests, typed>>

(* Requests come until the token is cancelled, and are answered or not. *)
Request ==
  /\ Runs("server")
  /\ ~cancelled
  /\ requests < MaxRequests
  /\ requests' = requests + 1
  /\ UNCHANGED <<main, task, cancelled, typed>>

Answer ==
  /\ Up
  /\ requests > 0
  /\ requests' = requests - 1
  /\ UNCHANGED <<main, task, cancelled, typed>>

Exited == ~Up /\ UNCHANGED vars

-----------------------------------------------------------------------------
Init ==
  /\ main = "starting"
  /\ task = [t \in Tasks |-> "absent"]
  /\ cancelled = FALSE
  /\ requests = 0
  /\ typed = 0

Start == InstallSignals \/ SpawnFirst \/ SpawnBridge

Next ==
  \/ Start \/ StartFails
  \/ \E t \in Joined \cup Inner : Ends(t) \/ Panics(t)
  \/ SuperviseBridge
  \/ \E t \in Joined : Join(t)
  \/ CtrlC \/ Terminate \/ SignalsEnd
  \/ Request \/ Answer
  \/ Exited

Spec == Init /\ [][Next]_vars

(* Fairness: a task that can end or join is polled.  Nothing is assumed of
   requests: the one that is never answered may hold the server for ever. *)
Fairness ==
  /\ WF_vars(SpawnFirst \/ SpawnBridge)
  /\ \A t \in Joined \cup Inner : WF_vars(Ends(t))
  /\ WF_vars(SuperviseBridge)
  /\ \A t \in Joined : WF_vars(Join(t))

FairSpec == Spec /\ Fairness

-----------------------------------------------------------------------------
(* Properties. *)

(* Every variable keeps its type, and the process joins only when every one of
   its parts was started. *)
TypeOK ==
  /\ main = "joining" => \A t \in Joined \cup Inner : task[t] # "absent"
  /\ main \in {"starting", "joining"} \cup Exits
  /\ task \in [Tasks -> {"absent", "running", "ended", "panicked"}]
  /\ cancelled \in BOOLEAN
  /\ requests \in 0..MaxRequests
  /\ typed \in 0..MaxCtrlC

(* The process does not run on without one of its parts: whichever task ends
   or panics, the HTTP server and the message loop of the bridge included,
   and whatever requests are in flight, the process exits. *)
NoTaskIsMissed ==
  \A t \in Joined \cup Inner : Gone(t) ~> main \in Exits

(* A request to shut down, at whatever point of the start or of the life of
   the process, is followed by its exit; no request in flight prevents it. *)
ShutdownExits == cancelled ~> main \in Exits
=============================================================================
