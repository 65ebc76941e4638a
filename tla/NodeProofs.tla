----------------------------- MODULE NodeProofs ------------------------------
(***************************************************************************)
(* Proofs about Node, for any queue capacities and providers: the swarm     *)
(* task is an environment that Coordinator allows, so the safety of the     *)
(* pipeline, proved there, holds of the two tasks together; and with this   *)
(* swarm task no blob is ever distributed.                                  *)
(***************************************************************************)
EXTENDS Node, DistributionProofs

USE DEF backlog, work, leases, links, record

-----------------------------------------------------------------------------
(* What is in the queue to the coordinator. *)

HandlerMessage == [tag : {"WouldStore", "Request"}, peer : Peers]

(* Only gossip that names its source makes a WouldStore. *)
HandlerTypeOK == tx_handler \in Seq(HandlerMessage)

(* The first message, and what is left of the queue. *)
LEMMA QueueTaken ==
  ASSUME NEW T, NEW q \in Seq(T), q # <<>>
  PROVE  Head(q) \in T /\ Tail(q) \in Seq(T)
OBVIOUS

(* try_send appends or drops. *)
LEMMA QueueTried ==
  ASSUME HandlerTypeOK, NEW p \in Peers, NEW tag \in {"WouldStore", "Request"},
         S!TrySend(tag, p)
  PROVE  HandlerTypeOK'
<1>1. [tag |-> tag, peer |-> p] \in HandlerMessage
  BY DEF HandlerMessage
<1>2. tx_handler' = tx_handler \/ tx_handler' = Append(tx_handler, [tag |-> tag, peer |-> p])
  BY DEF S!TrySend
<1>3. QED
  BY <1>1, <1>2 DEF HandlerTypeOK

LEMMA NextHandlerTypeOK ==
  HandlerTypeOK /\ [NodeNext]_nodeVars => HandlerTypeOK'
<1> SUFFICES ASSUME HandlerTypeOK, [NodeNext]_nodeVars
             PROVE  HandlerTypeOK'
  OBVIOUS
<1>1. CASE UNCHANGED tx_handler
  BY <1>1 DEF HandlerTypeOK
<1>2. CASE CoordinatorAlone \/ TellSwarm \/ UNCHANGED nodeVars
  BY <1>1, <1>2 DEF CoordinatorAlone, TellSwarm, nodeVars
<1>3. CASE TakeWouldStore \/ TakeRequest
  BY <1>3, QueueTaken DEF TakeWouldStore, TakeRequest, HandlerTypeOK
<1>4. CASE SwarmRuns
  <2>1. CASE \E p \in Peers \cup {NoPeer}, decodes \in BOOLEAN : S!Gossip(p, decodes)
    <3>1. PICK p \in Peers \cup {NoPeer}, decodes \in BOOLEAN : S!Gossip(p, decodes)
      BY <2>1
    <3>2. UNCHANGED tx_handler \/ (p \in Peers /\ S!TrySend("WouldStore", p))
      BY <3>1 DEF S!Gossip
    <3>3. QED
      BY <1>1, <3>2, QueueTried
  <2>2. CASE \E p \in Peers : S!InboundRequest(p)
    BY <2>2, QueueTried DEF S!InboundRequest
  <2>3. CASE \/ S!RequestStoragePermits
             \/ \E p \in Peers : S!InboundResponse(p) \/ S!OutboundFailure(p)
             \/ S!StopSwarm(closing) \/ S!RxCloses(pc = "stopped")
    BY <1>1, <2>3 DEF S!RequestStoragePermits, S!InboundResponse, S!OutboundFailure,
       S!StopSwarm, S!RxCloses
  <2>4. QED
    BY <1>4, <2>1, <2>2, <2>3 DEF SwarmRuns, S!SwarmStep
<1>5. QED
  BY <1>2, <1>3, <1>4 DEF NodeNext

THEOREM HandlerTypeCorrectness == NodeSpec => []HandlerTypeOK
<1>1. NodeInit => HandlerTypeOK
  BY DEF NodeInit, S!SwarmInit, HandlerTypeOK
<1>2. QED
  BY <1>1, NextHandlerTypeOK, PTL DEF NodeSpec

-----------------------------------------------------------------------------
(* The refinement. *)

(* What the swarm task does to the channels it shares with the coordinator. *)
LEMMA SwarmSimulates ==
  ASSUME SwarmRuns
  PROVE  [Next]_vars
<1>1. UNCHANGED coordinatorOnly
  BY DEF SwarmRuns
<1>2. CASE S!RequestStoragePermits
  <2>1. SwarmRequests
    BY <1>1, <1>2 DEF S!RequestStoragePermits, S!RequestEveryProvider, SwarmRequests,
       coordinatorOnly
  <2>2. QED
    BY <2>1 DEF Next, EnvironmentStep
<1>3. CASE \E p \in Peers : S!InboundResponse(p) \/ S!OutboundFailure(p)
  <2>1. \E p \in Peers : RequestFails(p)
    BY <1>1, <1>3 DEF S!InboundResponse, S!OutboundFailure, RequestFails, coordinatorOnly
  <2>2. QED
    BY <2>1 DEF Next, EnvironmentStep
<1>4. CASE \/ \E p \in Peers \cup {NoPeer}, decodes \in BOOLEAN : S!Gossip(p, decodes)
           \/ \E p \in Peers : S!InboundRequest(p)
           \/ S!StopSwarm(closing) \/ S!RxCloses(pc = "stopped")
  <2>1. UNCHANGED <<tx_swarm, asked>>
    BY <1>4 DEF S!Gossip, S!InboundRequest, S!StopSwarm, S!RxCloses
  <2>2. UNCHANGED vars
    BY <1>1, <2>1 DEF coordinatorOnly, vars
  <2>3. QED
    BY <2>2
<1>5. QED
  BY <1>2, <1>3, <1>4 DEF SwarmRuns, S!SwarmStep

LEMMA NodeNextSimulates ==
  HandlerTypeOK /\ [NodeNext]_nodeVars => [Next]_vars
<1> SUFFICES ASSUME HandlerTypeOK, [NodeNext]_nodeVars
             PROVE  [Next]_vars
  OBVIOUS
<1>1. CASE CoordinatorAlone
  BY <1>1 DEF CoordinatorAlone, Next, CoordinatorStep, EnvironmentStep
<1>2. CASE TakeWouldStore
  <2>1. Head(tx_handler).peer \in Peers
    <3>1. Head(tx_handler) \in HandlerMessage
      BY <1>2, QueueTaken DEF TakeWouldStore, HandlerTypeOK
    <3>2. QED
      BY <3>1 DEF HandlerMessage
  <2>2. QED
    BY <1>2, <2>1 DEF TakeWouldStore, Next, CoordinatorStep
<1>3. CASE TellSwarm
  BY <1>3 DEF TellSwarm, Next, CoordinatorStep
<1>4. CASE TakeRequest \/ UNCHANGED nodeVars
  BY <1>4 DEF TakeRequest, nodeVars
<1>5. CASE SwarmRuns
  BY <1>5, SwarmSimulates
<1>6. QED
  BY <1>1, <1>2, <1>3, <1>4, <1>5 DEF NodeNext

(* Seen by the coordinator, process_swarm is the environment that module
   Coordinator assumes. *)
THEOREM NodeImplementsCoordinator == NodeSpec => ImplementsCoordinator
<1>1. NodeInit => Init
  BY DEF NodeInit
<1>2. QED
  BY <1>1, NodeNextSimulates, HandlerTypeCorrectness, PTL
  DEF NodeSpec, Spec, ImplementsCoordinator

(* So whatever module Coordinator promises of every behaviour holds of the two
   tasks: blobs reported Finalized are stored, recorded owners hold their
   chunks, no blob is lost, no backlog stalls, Inflight chunks are backed, and
   together they are the distribution service.  None of it rests on the fault
   that the next section is about. *)
THEOREM NodeIsSafe ==
  NodeSpec => /\ ImplementsDistribution
              /\ []ReportedBlobsAreStored
              /\ []OwnersHoldTheirChunks
              /\ []NoBlobLost
              /\ []NoStalledBacklog
              /\ []InflightIsBacked
BY NodeImplementsCoordinator, CoordinatorImplementsDistribution,
   FinalizedMeansStored, OwnersAreRight, BlobsAreNeverLost,
   BacklogIsServed, InflightChunksAreBacked, PTL DEF ImplementsCoordinator

-----------------------------------------------------------------------------
(* What the dropped response of InboundResponse costs. *)

(* No permit is ever valid, so no chunk is pushed, no push is acknowledged and
   no result comes back. *)
NothingIsPushed ==
  /\ \A p \in Peers : storage_permits[p] = 0
  /\ \A u \in UploadPermits : uploads[u] = Idle
  /\ \A msg \in UpdateChunkStatus : rx_internal[msg] = 0
  /\ acked = {}

(* No blob is ever Finalized. *)
NothingIsReported == pc # "notify" /\ tx_bridge = <<>> /\ reported = <<>>

(* A coordinator without permits assigns nothing. *)
LEMMA AssignsNothing ==
  ASSUME NEW blob, \A p \in Peers : storage_permits[p] = 0,
         AssignChunks(blob, storage_permits)
  PROVE  UNCHANGED uploads
<1>1. {p \in Peers : storage_permits[p] > 0} = {}
  OBVIOUS
<1>2. QED
  BY <1>1 DEF AssignChunks

LEMMA NothingIsEverPushed ==
  TypeOK /\ NothingIsPushed /\ NothingIsReported /\ [NodeNext]_nodeVars
    => NothingIsPushed' /\ NothingIsReported'
<1> SUFFICES ASSUME TypeOK, NothingIsPushed, NothingIsReported, [NodeNext]_nodeVars
             PROVE  NothingIsPushed' /\ NothingIsReported'
  OBVIOUS
<1>0. /\ \A p \in Peers : storage_permits[p] = 0
      /\ \A u \in UploadPermits : uploads[u] = Idle
      /\ \A msg \in UpdateChunkStatus : rx_internal[msg] = 0
      /\ acked = {} /\ pc # "notify" /\ tx_bridge = <<>> /\ reported = <<>>
  BY DEF NothingIsPushed, NothingIsReported
<1>1. ASSUME UNCHANGED <<storage_permits, uploads, rx_internal, acked, tx_bridge, reported>>,
             pc' # "notify"
      PROVE  NothingIsPushed' /\ NothingIsReported'
  BY <1>0, <1>1 DEF NothingIsPushed, NothingIsReported
<1>2. CASE \/ TimerStale \/ Stop \/ RequestShutdown \/ Halted
           \/ \E id \in RemoteIds : RecvGetBlob(id)
           \/ \E id \in Blobs : RecvNewBlob(id)
           \/ \E p : RecvWouldStore(p)
  BY <1>0, <1>1, <1>2 DEF TimerStale, Stop, RequestShutdown, Halted, RecvGetBlob,
     RecvNewBlob, RecvWouldStore, vars, Selecting
<1>3. CASE TimerAssign \/ SendPermitRequest
  <2>1. /\ UNCHANGED <<storage_permits, rx_internal, acked, tx_bridge, reported>>
        /\ pc' # "notify"
        /\ UNCHANGED uploads \/ AssignChunks(current_blob, storage_permits)
    BY <1>3 DEF TimerAssign, SendPermitRequest, Selecting
  <2>2. QED
    BY <1>0, <1>1, <2>1, AssignsNothing
<1>4. CASE Tick
  <2>1. \A p \in Peers : storage_permits'[p] = 0
    BY <1>0, <1>4 DEF Tick
  <2>2. \A u \in UploadPermits : uploads'[u] = Idle
    BY <1>0, <1>4 DEF Tick
  <2>3. UNCHANGED <<pc, rx_internal, acked, tx_bridge, reported>>
    BY <1>4 DEF Tick
  <2>4. QED
    BY <1>0, <2>1, <2>2, <2>3 DEF NothingIsPushed, NothingIsReported
<1>5. CASE \/ UploadStep \/ SendFinalized \/ BridgeUpdates
           \/ \E msg \in UpdateChunkStatus : HandleUpdate(msg)
  <2>1. ~UploadStep
    BY <1>0 DEF UploadStep, UploadEnds, UploadSucceeds, UploadFails, UploadTimesOut, Holds
  <2>2. ~SendFinalized /\ ~BridgeUpdates
    BY <1>0 DEF SendFinalized, BridgeUpdates
  <2>3. \A msg \in UpdateChunkStatus : ~HandleUpdate(msg)
    BY <1>0 DEF HandleUpdate
  <2>4. QED
    BY <1>5, <2>1, <2>2, <2>3
<1>6. CASE CoordinatorAlone
  BY <1>2, <1>3, <1>4, <1>5, <1>6 DEF CoordinatorAlone
<1>7. CASE TakeWouldStore
  BY <1>2, <1>7 DEF TakeWouldStore
<1>8. CASE TakeRequest \/ UNCHANGED nodeVars
  BY <1>0, <1>1, <1>8 DEF TakeRequest, nodeVars, vars
<1>9. CASE TellSwarm
  BY <1>3, <1>9 DEF TellSwarm
<1>10. CASE SwarmRuns
  <2>1. UNCHANGED <<pc, storage_permits, uploads, rx_internal, acked, tx_bridge, reported>>
    <3>1. UNCHANGED coordinatorOnly
      BY <1>10 DEF SwarmRuns
    <3>2. QED
      BY <3>1 DEF coordinatorOnly
  <2>2. QED
    BY <1>0, <1>1, <2>1
<1>11. QED
  BY <1>6, <1>7, <1>8, <1>9, <1>10 DEF NodeNext

(* With the swarm task as it is, on no behaviour is a chunk ever pushed to a
   provider or a blob reported Finalized: what run node_permits shows on one
   behaviour is what every behaviour does. *)
THEOREM NothingIsDistributed == NodeSpec => [](NothingIsPushed /\ NothingIsReported)
<1>1. NodeInit => NothingIsPushed /\ NothingIsReported
  BY DEF NodeInit, Init, NothingIsPushed, NothingIsReported
<1>2. NodeSpec => []TypeOK
  BY NodeImplementsCoordinator, TypeCorrectness DEF ImplementsCoordinator
<1>3. QED
  BY <1>1, <1>2, NothingIsEverPushed, PTL DEF NodeSpec
=============================================================================
