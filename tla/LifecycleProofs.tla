--------------------------- MODULE LifecycleProofs ---------------------------
(***************************************************************************)
(* Proofs about Lifecycle, for any number of requests and ctrl-c.           *)
(***************************************************************************)
EXTENDS Lifecycle, TLAPS

-----------------------------------------------------------------------------
(* try_join! spawns the coordinator with the swarm task: what TypeOK needs to
   be inductive when the bridge is spawned last. *)
StartedInOrder ==
  /\ TypeOK
  /\ task["swarm"] # "absent" => task["coordinator"] # "absent"

(* A task that another status is written to. *)
LEMMA BecomesStatus ==
  ASSUME NEW ts \in SUBSET Tasks, NEW status, Becomes(ts, status)
  PROVE  /\ \A t \in ts : task'[t] = status
         /\ \A t \in Tasks \ ts : task'[t] = task[t]
BY DEF Becomes

(* A step that starts or ends tasks, and neither joins nor counts. *)
LEMMA BecomesKeepsOrder ==
  ASSUME StartedInOrder, NEW ts \in SUBSET Tasks,
         NEW status \in {"running", "ended", "panicked"}, Becomes(ts, status),
         cancelled' \in BOOLEAN, UNCHANGED <<main, requests, typed>>,
         "swarm" \in ts => "coordinator" \in ts \/ task["swarm"] # "absent"
  PROVE  StartedInOrder'
<1> USE DEF StartedInOrder, TypeOK
<1>1. {"swarm", "coordinator"} \subseteq Tasks /\ Joined \cup Inner \subseteq Tasks
  BY DEF Tasks, Joined, Inner
<1>2. \A t \in Tasks : task'[t] = status \/ (task'[t] = task[t] /\ t \notin ts)
  <2>1. \A t \in ts : task'[t] = status
    BY BecomesStatus
  <2>2. \A t \in Tasks \ ts : task'[t] = task[t]
    BY BecomesStatus
  <2>3. QED
    BY <2>1, <2>2
<1>3. task' \in [Tasks -> {"absent", "running", "ended", "panicked"}]
  BY <1>2 DEF Becomes
<1>4. main' = "joining" => \A t \in Joined \cup Inner : task'[t] # "absent"
  BY <1>1, <1>2
<1>5. task'["swarm"] # "absent" => task'["coordinator"] # "absent"
  BY <1>1, <1>2, BecomesStatus
<1>6. QED
  BY <1>3, <1>4, <1>5

LEMMA NextKeepsOrder == StartedInOrder /\ [Next]_vars => StartedInOrder'
<1> SUFFICES ASSUME StartedInOrder, [Next]_vars
             PROVE  StartedInOrder'
  OBVIOUS
<1> USE DEF StartedInOrder
<1>0. Tasks = {"swarm", "coordinator", "bridge", "server", "messages", "signals"}
  BY DEF Tasks, Joined, Inner
<1>1. CASE InstallSignals \/ SpawnFirst
  <2>1. \E ts \in SUBSET Tasks :
          /\ Becomes(ts, "running")
          /\ "swarm" \in ts => "coordinator" \in ts
    BY <1>0, <1>1 DEF InstallSignals, SpawnFirst
  <2>2. cancelled' \in BOOLEAN /\ UNCHANGED <<main, requests, typed>>
    BY <1>1 DEF InstallSignals, SpawnFirst, TypeOK
  <2>3. QED
    BY <2>1, <2>2, BecomesKeepsOrder
<1>2. CASE SpawnBridge
  <2>1. /\ Becomes({"bridge", "server", "messages"}, "running")
        /\ task["swarm"] # "absent" /\ task["coordinator"] # "absent"
        /\ UNCHANGED <<cancelled, requests, typed>> /\ main' = "joining"
    BY <1>2 DEF SpawnBridge, BridgeTasks, Inner
  <2>2. /\ task'["bridge"] = "running" /\ task'["server"] = "running"
        /\ task'["messages"] = "running"
        /\ task'["swarm"] = task["swarm"] /\ task'["coordinator"] = task["coordinator"]
        /\ task' \in [Tasks -> {"absent", "running", "ended", "panicked"}]
    BY <1>0, <2>1 DEF Becomes, TypeOK
  <2>3. \A t \in Joined \cup Inner : task'[t] # "absent"
    BY <2>1, <2>2 DEF Joined, Inner
  <2>4. QED
    BY <2>1, <2>2, <2>3 DEF TypeOK
<1>3. CASE StartFails
  BY <1>3 DEF StartFails, TypeOK, Exits
<1>4. CASE \/ \E t \in Joined \cup Inner : Ends(t) \/ Panics(t)
           \/ SuperviseBridge \/ SignalsEnd
  <2>1. \E t \in Tasks, status \in {"ended", "panicked"} :
          Runs(t) /\ Becomes({t}, status)
    BY <1>4 DEF Ends, Panics, SuperviseBridge, SignalsEnd, Tasks, Joined
  <2>2. cancelled' \in BOOLEAN /\ UNCHANGED <<main, requests, typed>>
    BY <1>4 DEF Ends, Panics, SuperviseBridge, SignalsEnd, TypeOK
  <2>3. \A t \in Tasks : Runs(t) => task[t] # "absent"
    BY DEF Runs
  <2>4. QED
    BY <2>1, <2>2, <2>3, BecomesKeepsOrder
<1>5. CASE \E t \in Joined : Join(t)
  BY <1>5 DEF Join, TypeOK, Exits
<1>6. CASE CtrlC \/ Terminate
  <2>1. typed' \in 0..MaxCtrlC
    BY <1>6, BoundAssumption DEF CtrlC, Terminate, TypeOK
  <2>2. CASE task["signals"] = "running"
    <3>1. /\ Becomes({"signals"}, "ended") /\ cancelled' = TRUE
          /\ UNCHANGED <<main, requests>>
      BY <1>6, <2>2 DEF CtrlC, Terminate, SignalArrives
    <3>2. /\ \A t \in Tasks \ {"signals"} : task'[t] = task[t]
          /\ task' \in [Tasks -> {"absent", "running", "ended", "panicked"}]
      BY <3>1 DEF Becomes, TypeOK
    <3>3. "signals" \notin Joined \cup Inner /\ Joined \cup Inner \subseteq Tasks
      BY DEF Joined, Inner, Tasks
    <3>4. QED
      BY <1>0, <2>1, <3>1, <3>2, <3>3 DEF TypeOK
  <2>3. CASE task["signals"] # "running"
    <3>1. /\ UNCHANGED <<task, cancelled, requests>>
          /\ main' = main \/ main' = "killed"
      BY <1>6, <2>3 DEF CtrlC, Terminate, SignalArrives
    <3>2. QED
      BY <2>1, <3>1 DEF TypeOK, Exits
  <2>4. QED
    BY <2>2, <2>3
<1>7. CASE Request \/ Answer
  <2>1. requests' \in 0..MaxRequests /\ UNCHANGED <<main, task, cancelled, typed>>
    BY <1>7, BoundAssumption DEF Request, Answer, TypeOK
  <2>2. QED
    BY <2>1 DEF TypeOK
<1>8. CASE Exited \/ UNCHANGED vars
  BY <1>8 DEF Exited, vars, TypeOK
<1>9. QED
  BY <1>1, <1>2, <1>3, <1>4, <1>5, <1>6, <1>7, <1>8 DEF Next, Start

(* The types, and with them: run waits for its tasks only when every one of
   them was spawned, in whatever order signals come. *)
THEOREM LifecycleTypeCorrectness == Spec => []TypeOK
<1>1. Init => StartedInOrder
  <2>1. Joined \cup Inner \subseteq Tasks /\ "swarm" \in Tasks
    BY DEF Tasks, Joined
  <2>2. Init => task["swarm"] = "absent" /\ main # "joining"
    BY <2>1 DEF Init
  <2>3. Init => requests \in 0..MaxRequests /\ typed \in 0..MaxCtrlC
    BY BoundAssumption DEF Init
  <2>4. Init => task \in [Tasks -> {"absent", "running", "ended", "panicked"}]
    BY DEF Init
  <2>5. QED
    BY <2>2, <2>3, <2>4 DEF Init, StartedInOrder, TypeOK
<1>2. StartedInOrder => TypeOK
  BY DEF StartedInOrder
<1>3. QED
  BY <1>1, <1>2, NextKeepsOrder, PTL DEF Spec
=============================================================================
