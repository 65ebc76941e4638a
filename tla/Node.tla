-------------------------------- MODULE Node ---------------------------------
(***************************************************************************)
(* The coordinator and the swarm task of one client, which talk over two    *)
(* bounded channels in opposite directions: tx_swarm, on which the          *)
(* coordinator waits for room, and tx_handler, on which the swarm task      *)
(* never does.  Here the coordinator hears of gossip and of requests only   *)
(* through tx_handler, and of answers to its requests not at all.           *)
(***************************************************************************)
EXTENDS Coordinator

CONSTANTS NoPeer, HandlerCap
VARIABLES swarm, tx_handler

ASSUME HandlerAssumption == HandlerCap \in Nat \ {0} /\ NoPeer \notin Peers

S == INSTANCE Swarm

nodeVars == <<vars, swarm, tx_handler>>
coordinatorOnly ==
  <<pc, closing, backlog, work, leases, rx_internal, tx_bridge, record>>

-----------------------------------------------------------------------------
(* The arms of the coordinator that do not touch the swarm. *)
CoordinatorAlone ==
  /\ \/ TimerStale
     \/ TimerAssign
     \/ \E id \in RemoteIds : RecvGetBlob(id)
     \/ \E id \in Blobs : RecvNewBlob(id)
     \/ \E msg \in UpdateChunkStatus : HandleUpdate(msg)
     \/ SendFinalized
     \/ Stop
     \/ UploadStep
     \/ BridgeUpdates
     \/ RequestShutdown
     \/ Tick
     \/ Halted
  /\ UNCHANGED <<swarm, tx_handler>>

(* rx_handler.recv: a WouldStore becomes a hint, a Request is dropped, which
   closes its response channel. *)
TakeWouldStore ==
  /\ tx_handler # <<>>
  /\ Head(tx_handler).tag = "WouldStore"
  /\ RecvWouldStore(Head(tx_handler).peer)
  /\ tx_handler' = Tail(tx_handler)
  /\ UNCHANGED swarm

TakeRequest ==
  /\ Selecting
  /\ tx_handler # <<>>
  /\ Head(tx_handler).tag = "Request"
  /\ tx_handler' = Tail(tx_handler)
  /\ UNCHANGED <<vars, swarm>>

(* tx_swarm.send waits for room; it fails only when the swarm task is gone. *)
TellSwarm ==
  /\ SendPermitRequest
  /\ swarm = "stopped" \/ tx_swarm' # tx_swarm
  /\ UNCHANGED <<swarm, tx_handler>>

(* The swarm task goes on for as long as the process does, a little longer
   than the coordinator, which takes its end of tx_swarm along. *)
SwarmRuns == S!SwarmStep(closing, pc = "stopped") /\ UNCHANGED coordinatorOnly

NodeInit == Init /\ S!SwarmInit

NodeNext == CoordinatorAlone \/ TakeWouldStore \/ TakeRequest \/ TellSwarm \/ SwarmRuns

NodeSpec == NodeInit /\ [][NodeNext]_nodeVars

(***************************************************************************)
(* Fairness of the two loops: an arm that is ready again and again is       *)
(* taken, a task at a send is polled.  Nothing is assumed of the world: not *)
(* that anybody gossips, nor that a gossip meets a channel with room, nor   *)
(* that a provider answers.                                                 *)
(***************************************************************************)
Answers(p) == S!InboundResponse(p) /\ UNCHANGED coordinatorOnly
Requests == S!RequestStoragePermits /\ UNCHANGED coordinatorOnly
SwarmStops == S!StopSwarm(closing) /\ UNCHANGED coordinatorOnly

NodeFairness ==
  /\ SF_nodeVars(TakeWouldStore)
  /\ SF_nodeVars(TakeRequest)
  /\ SF_nodeVars(Stop /\ UNCHANGED <<swarm, tx_handler>>)
  /\ WF_nodeVars(TellSwarm)
  /\ WF_nodeVars(Requests)
  /\ WF_nodeVars(SwarmStops)

NodeFairSpec == NodeSpec /\ NodeFairness

-----------------------------------------------------------------------------
(* Properties. *)

(* Seen by the coordinator, the swarm task is the environment that module
   Coordinator assumes, so every safety property shown there holds here. *)
ImplementsCoordinator == Spec

(* The two tasks never wait for each other: a coordinator at the send of a
   permit request, with the queue to the swarm full and the queue to itself
   full, gets on. *)
PermitRequestsGetThrough == pc = "request" ~> pc # "request"

(* Nor do they when the process goes down, and the coordinator is at that
   send: the task that would make room may be the first to stop. *)
NodeStops == closing ~> pc = "stopped"

(* A gossip that found room becomes a hint in the end, and a full channel has
   room again, although the coordinator may stand at its send to the swarm
   while others fill the channel: what is lost is only what meets it full. *)
QueuedGossipIsHeard ==
  /\ \A p \in Peers :
       (\E i \in DOMAIN tx_handler : tx_handler[i] = [tag |-> "WouldStore", peer |-> p])
         ~> (p \in DOMAIN storage_provider_hints \/ closing)
  /\ Len(tx_handler) = HandlerCap ~> (Len(tx_handler) < HandlerCap \/ closing)

(* "consumers handle inbound messages" (peyk lib.rs, above HandlerMessage,
   whose Response carries a provider's permit): if providers answer again and
   again, a blob that is being distributed gets a permit.  Does not hold: the
   response is never sent to the coordinator. *)
BlobsGetPermits ==
  (\A p \in Peers : []<><<Answers(p)>>_nodeVars)
    => (current_blob # NoBlob ~> closing \/ \E p \in Peers : storage_permits[p] > 0)
=============================================================================
