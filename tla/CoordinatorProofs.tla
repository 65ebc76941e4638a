-------------------------- MODULE CoordinatorProofs -------------------------
(***************************************************************************)
(* Proofs about Coordinator, for any number of blobs, chunks, providers,   *)
(* permits, messages and ticks: PipelineInvariant is inductive.            *)
(***************************************************************************)
EXTENDS Coordinator, TLAPS, SequenceTheorems, FiniteSetTheorems

USE DEF backlog, work, leases, links, record

-----------------------------------------------------------------------------
(* Chunk maps and blobs. *)

(* A blob's chunks are the hashes of its content, each with a status. *)
LEMMA LocalBlobShape ==
  ASSUME NEW blob \in LocalBlob
  PROVE  /\ blob.id \in Blobs
         /\ blob = [id |-> blob.id, chunks |-> blob.chunks]
         /\ DOMAIN blob.chunks = Range(Content[blob.id])
         /\ blob.chunks \in [Range(Content[blob.id]) -> ChunkUploadStatus]
         /\ blob # NoBlob
BY MarkerAssumption DEF LocalBlob

(* A record with an id and a status for each hash of its content is a blob. *)
LEMMA MakeLocalBlob ==
  ASSUME NEW id \in Blobs,
         NEW chunks \in [Range(Content[id]) -> ChunkUploadStatus]
  PROVE  [id |-> id, chunks |-> chunks] \in LocalBlob
BY DEF LocalBlob

(* The hashes of a blob's content are hashes. *)
LEMMA ContentHashes ==
  ASSUME NEW id \in Blobs
  PROVE  Range(Content[id]) \subseteq Hashes
BY ContentAssumption, RangeOfSeq

(* A blob admitted to the pipeline has all its chunks Pending. *)
LEMMA NewLocalBlobIsLocalBlob ==
  ASSUME NEW id \in Blobs
  PROVE  /\ NewLocalBlob(id) \in LocalBlob
         /\ NewLocalBlob(id).id = id
         /\ \A h \in DOMAIN NewLocalBlob(id).chunks :
              NewLocalBlob(id).chunks[h] = Pending
<1>1. [h \in Range(Content[id]) |-> Pending]
        \in [Range(Content[id]) -> ChunkUploadStatus]
  BY DEF Pending, ChunkUploadStatus
<1>2. QED
  BY <1>1, MakeLocalBlob DEF NewLocalBlob

(* What assign_chunks may do to a blob: some chunks that were eligible become
   Inflight to a provider, each backed by an upload that just began; running
   uploads are not disturbed. *)
AssignmentOf(blob) ==
  /\ current_blob' \in LocalBlob
  /\ current_blob'.id = blob.id
  /\ DOMAIN current_blob'.chunks = DOMAIN blob.chunks
  /\ uploads' \in [UploadPermits -> Upload \cup {Idle}]
  /\ \A u \in UploadPermits : uploads[u] # Idle => uploads'[u] = uploads[u]
  /\ \A h \in DOMAIN blob.chunks :
       \/ current_blob'.chunks[h] = blob.chunks[h]
       \/ \E p \in Peers :
            /\ current_blob'.chunks[h] = Inflight(p)
            /\ \E u \in UploadPermits : uploads'[u] = [hash |-> h, to |-> p, age |-> 0]

LEMMA AssignChunksAssigns ==
  ASSUME NEW blob \in LocalBlob, NEW permits,
         uploads \in [UploadPermits -> Upload \cup {Idle}],
         AssignChunks(blob, permits)
  PROVE  AssignmentOf(blob)
<1> DEFINE free == {u \in UploadPermits : uploads[u] = Idle}
           peers == {p \in Peers : permits[p] > 0}
           eligible == {h \in DOMAIN blob.chunks : IsEligible(blob.chunks[h])}
<1>0. /\ blob.id \in Blobs
      /\ blob = [id |-> blob.id, chunks |-> blob.chunks]
      /\ DOMAIN blob.chunks = Range(Content[blob.id])
      /\ blob.chunks \in [Range(Content[blob.id]) -> ChunkUploadStatus]
      /\ blob # NoBlob
  BY LocalBlobShape
<1>1. CASE peers = {}
  <2>1. current_blob' = blob /\ uploads' = uploads
    BY <1>1 DEF AssignChunks
  <2>2. QED
    BY <2>1 DEF AssignmentOf
<1>2. CASE peers # {}
  <2>0. PICK taken \in SUBSET free :
          \E job \in Injection(taken, eligible), to \in [taken -> peers] :
            BeginUploads(blob, job, to)
    BY <1>0, <1>2 DEF AssignChunks
  <2>1. PICK job \in Injection(taken, eligible), to \in [taken -> peers] :
          BeginUploads(blob, job, to)
    BY <2>0
  <2>2. job \in [taken -> eligible]
    BY DEF Injection
  <2> DEFINE begun(h) == CHOOSE u \in taken : job[u] = h
             chunks == [h \in DOMAIN blob.chunks |->
                          IF \E u \in taken : job[u] = h
                          THEN Inflight(to[begun(h)]) ELSE blob.chunks[h]]
  <2>3. \A h \in DOMAIN blob.chunks : (\E u \in taken : job[u] = h) =>
          /\ begun(h) \in taken /\ job[begun(h)] = h
          /\ to[begun(h)] \in Peers
    OBVIOUS
  <2>4. /\ current_blob' = [id |-> blob.id, chunks |-> chunks]
        /\ uploads' = [u \in UploadPermits |->
             IF u \in taken THEN [hash |-> job[u], to |-> to[u], age |-> 0]
             ELSE uploads[u]]
    <3>1. DOMAIN job = taken
      BY <2>2
    <3>2. QED
      BY <2>1, <3>1 DEF BeginUploads
  <2>5. chunks \in [Range(Content[blob.id]) -> ChunkUploadStatus]
    <3>1. \A p \in Peers : Inflight(p) \in ChunkUploadStatus
      BY TimeAssumption DEF Inflight, ChunkUploadStatus
    <3>2. QED
      BY <1>0, <2>3, <3>1
  <2>6. current_blob' \in LocalBlob
    BY <1>0, <2>4, <2>5, MakeLocalBlob
  <2>7. \A u \in taken : [hash |-> job[u], to |-> to[u], age |-> 0] \in Upload
    BY <1>0, <2>2, ContentHashes, TimeAssumption DEF Upload
  <2>8. uploads' \in [UploadPermits -> Upload \cup {Idle}]
    BY <2>4, <2>7
  <2>9. \A u \in UploadPermits : uploads[u] # Idle => uploads'[u] = uploads[u]
    BY <2>4
  <2>10. \A h \in DOMAIN blob.chunks :
           \/ chunks[h] = blob.chunks[h]
           \/ \E p \in Peers :
                /\ chunks[h] = Inflight(p)
                /\ \E u \in UploadPermits :
                     uploads'[u] = [hash |-> h, to |-> p, age |-> 0]
    <3> TAKE h \in DOMAIN blob.chunks
    <3>1. CASE \E u \in taken : job[u] = h
      <4>1. chunks[h] = Inflight(to[begun(h)])
        BY <3>1
      <4>2. uploads'[begun(h)] = [hash |-> h, to |-> to[begun(h)], age |-> 0]
        BY <2>4, <2>3, <3>1
      <4>3. QED
        BY <2>3, <3>1, <4>1, <4>2
    <3>2. CASE ~ \E u \in taken : job[u] = h
      BY <3>2
    <3>3. QED
      BY <3>1, <3>2
  <2>11. QED
    BY <2>4, <2>6, <2>8, <2>9, <2>10 DEF AssignmentOf
<1>3. QED
  BY <1>1, <1>2

(* assign_chunks with or without a current blob. *)
LEMMA AssignChunksKeepsTypes ==
  ASSUME NEW blob \in LocalBlob \cup {NoBlob}, NEW permits,
         uploads \in [UploadPermits -> Upload \cup {Idle}],
         AssignChunks(blob, permits)
  PROVE  /\ current_blob' \in LocalBlob \cup {NoBlob}
         /\ uploads' \in [UploadPermits -> Upload \cup {Idle}]
         /\ current_blob' = NoBlob <=> blob = NoBlob
         /\ blob = NoBlob => uploads' = uploads
         /\ blob # NoBlob => AssignmentOf(blob)
<1>1. CASE blob = NoBlob
  BY <1>1 DEF AssignChunks
<1>2. CASE blob # NoBlob
  BY <1>2, AssignChunksAssigns, MarkerAssumption DEF AssignmentOf
<1>3. QED
  BY <1>1, <1>2

(* A result applied to a blob leaves a blob that differs in one status. *)
LEMMA UpdatedBlob ==
  ASSUME NEW blob \in LocalBlob, NEW h \in DOMAIN blob.chunks,
         NEW status \in ChunkUploadStatus
  PROVE  LET updated == [blob EXCEPT !.chunks[h] = status]
         IN /\ updated \in LocalBlob
            /\ updated.id = blob.id
            /\ updated.chunks = [blob.chunks EXCEPT ![h] = status]
<1> DEFINE updated == [blob EXCEPT !.chunks[h] = status]
           chunks == [blob.chunks EXCEPT ![h] = status]
<1>1. /\ blob.id \in Blobs
      /\ blob = [id |-> blob.id, chunks |-> blob.chunks]
      /\ blob.chunks \in [Range(Content[blob.id]) -> ChunkUploadStatus]
  BY LocalBlobShape
<1>2. updated = [id |-> blob.id, chunks |-> chunks]
  BY <1>1
<1>3. chunks \in [Range(Content[blob.id]) -> ChunkUploadStatus]
  BY <1>1
<1>4. QED
  BY <1>1, <1>2, <1>3, MakeLocalBlob

(* Time passing over a blob keeps it a blob and changes ages only. *)
AgedBlob(blob) ==
  [blob EXCEPT !.chunks = [h \in DOMAIN blob.chunks |-> Older(blob.chunks[h])]]

LEMMA AgedBlobIsBlob ==
  ASSUME NEW blob \in LocalBlob
  PROVE  /\ AgedBlob(blob) \in LocalBlob
         /\ AgedBlob(blob).id = blob.id
         /\ AgedBlob(blob).chunks =
              [h \in DOMAIN blob.chunks |-> Older(blob.chunks[h])]
<1> DEFINE chunks == [h \in DOMAIN blob.chunks |-> Older(blob.chunks[h])]
<1>1. /\ blob.id \in Blobs
      /\ blob = [id |-> blob.id, chunks |-> blob.chunks]
      /\ blob.chunks \in [Range(Content[blob.id]) -> ChunkUploadStatus]
      /\ DOMAIN blob.chunks = Range(Content[blob.id])
  BY LocalBlobShape
<1>2. \A c \in ChunkUploadStatus : Older(c) \in ChunkUploadStatus
  <2> TAKE c \in ChunkUploadStatus
  <2>1. CASE c.tag = "Inflight"
    <3>1. /\ c \in [tag : {"Inflight"}, to : Peers, age : 0..(WINDOW + 1)]
          /\ c = [tag |-> "Inflight", to |-> c.to, age |-> c.age]
      BY <2>1 DEF ChunkUploadStatus
    <3>2. AtMost(c.age + 1, WINDOW + 1) \in 0..(WINDOW + 1)
      BY <3>1, TimeAssumption DEF AtMost
    <3>3. Older(c) = [tag |-> "Inflight", to |-> c.to, age |-> AtMost(c.age + 1, WINDOW + 1)]
      BY <2>1, <3>1 DEF Older
    <3>4. QED
      BY <3>1, <3>2, <3>3 DEF ChunkUploadStatus
  <2>2. CASE c.tag # "Inflight"
    BY <2>2 DEF Older
  <2>3. QED
    BY <2>1, <2>2
<1>3. AgedBlob(blob) = [id |-> blob.id, chunks |-> chunks]
  BY <1>1 DEF AgedBlob
<1>4. chunks \in [Range(Content[blob.id]) -> ChunkUploadStatus]
  BY <1>1, <1>2
<1>5. QED
  BY <1>1, <1>3, <1>4, MakeLocalBlob

-----------------------------------------------------------------------------
(* Type correctness. *)

LEMMA InitTypeOK == Init => TypeOK
<1> SUFFICES ASSUME Init PROVE TypeOK
  OBVIOUS
<1>1. /\ pending_local_blobs \in Seq(LocalBlob)
      /\ tx_swarm \in Seq(SUBSET Peers)
      /\ tx_bridge \in Seq(Blobs)
      /\ submitted \in Seq(Blobs)
      /\ reported \in Seq(Blobs)
  BY EmptySeq DEF Init
<1>2. storage_provider_hints \in [{} -> 0..DECAY] /\ DOMAIN storage_provider_hints = {}
  BY DEF Init
<1>3. QED
  BY <1>1, <1>2 DEF Init, TypeOK

(* The uploads that are not Idle are typed tasks. *)
LEMMA UploadShape ==
  ASSUME TypeOK, NEW u \in UploadPermits, uploads[u] # Idle
  PROVE  /\ uploads[u] \in Upload
         /\ uploads[u].hash \in Hashes
         /\ uploads[u].to \in Peers
         /\ uploads[u].age \in 0..WINDOW
         /\ uploads[u] = [hash |-> uploads[u].hash, to |-> uploads[u].to,
                          age |-> uploads[u].age]
BY DEF TypeOK, Upload

(* The messages of upload tasks are UpdateChunkStatus messages. *)
LEMMA ReportsMessages ==
  ASSUME NEW h \in Hashes
  PROVE  /\ [hash |-> h, status |-> Pending] \in UpdateChunkStatus
         /\ \A p \in Peers :
              [hash |-> h, status |-> Finalized(p)] \in UpdateChunkStatus
BY DEF UpdateChunkStatus, ChunkUploadStatus, Pending, Finalized

LEMMA NextTypeOK ==
  ASSUME TypeOK, NotifiesOfStoredBlob, Next
  PROVE  TypeOK'
<1>1. CASE TimerStale
  BY <1>1 DEF TimerStale, TypeOK, Restrict
<1>2. CASE TimerAssign
  BY <1>2, AssignChunksKeepsTypes DEF TimerAssign, TypeOK
<1>3. ASSUME NEW p \in Peers, RecvWouldStore(p)
      PROVE  TypeOK'
  BY <1>3, TimeAssumption DEF RecvWouldStore, TypeOK
<1>4. ASSUME NEW p \in Peers, NEW v \in ValidFor, RecvStoragePermit(p, v)
      PROVE  TypeOK'
  <2>1. ExpiresIn(v) \in Nat
    BY TimeAssumption DEF ExpiresIn
  <2>2. QED
    BY <1>4, <2>1, AssignChunksKeepsTypes DEF RecvStoragePermit, TypeOK
<1>5. ASSUME NEW id \in RemoteIds, RecvGetBlob(id)
      PROVE  TypeOK'
  BY <1>5 DEF RecvGetBlob, TypeOK
<1>6. ASSUME NEW id \in Blobs, RecvNewBlob(id)
      PROVE  TypeOK'
  <2> DEFINE blobs == Append(pending_local_blobs, NewLocalBlob(id))
  <2>1. blobs \in Seq(LocalBlob) /\ blobs # <<>> /\ Append(submitted, id) \in Seq(Blobs)
    BY NewLocalBlobIsLocalBlob, AppendProperties DEF TypeOK
  <2>2. Head(blobs) \in LocalBlob /\ Tail(blobs) \in Seq(LocalBlob)
    BY <2>1, HeadTailProperties
  <2>3. QED
    BY <1>6, <2>1, <2>2 DEF RecvNewBlob, TypeOK
<1>7. ASSUME NEW msg \in UpdateChunkStatus, HandleUpdate(msg)
      PROVE  TypeOK'
  <2>1. rx_internal' \in [UpdateChunkStatus -> Nat]
    BY <1>7 DEF HandleUpdate, TypeOK
  <2>2. CASE current_blob = NoBlob \/ msg.hash \notin DOMAIN current_blob.chunks
    BY <1>7, <2>1, <2>2 DEF HandleUpdate, TypeOK
  <2>3. CASE ~(current_blob = NoBlob \/ msg.hash \notin DOMAIN current_blob.chunks)
    <3> DEFINE blob == [current_blob EXCEPT !.chunks[msg.hash] = msg.status]
    <3>1. blob \in LocalBlob
      BY <2>3, UpdatedBlob DEF TypeOK, UpdateChunkStatus
    <3>2. /\ current_blob' \in LocalBlob \cup {NoBlob}
          /\ uploads' \in [UploadPermits -> Upload \cup {Idle}]
          /\ pc' \in {pc, "notify"}
      BY <1>7, <2>3, <3>1, AssignChunksKeepsTypes DEF HandleUpdate, WithResult, TypeOK
    <3>3. QED
      BY <1>7, <2>1, <3>2 DEF HandleUpdate, TypeOK
  <2>4. QED
    BY <2>2, <2>3
<1>8. CASE SendFinalized
  <2>1. current_blob.id \in Blobs
    BY <1>8, LocalBlobShape DEF SendFinalized, SendToBridge, NotifiesOfStoredBlob, TypeOK
  <2>2. tx_bridge' \in Seq(Blobs)
    <3>1. tx_bridge \in Seq(Blobs)
      BY DEF TypeOK
    <3>2. Append(tx_bridge, current_blob.id) \in Seq(Blobs)
      BY <2>1, <3>1, AppendProperties
    <3>3. QED
      BY <1>8, <3>1, <3>2 DEF SendFinalized, SendToBridge
  <2>3. /\ FirstOf(pending_local_blobs) \in LocalBlob \cup {NoBlob}
        /\ RestOf(pending_local_blobs) \in Seq(LocalBlob)
    BY EmptySeq, HeadTailProperties DEF FirstOf, RestOf, TypeOK
  <2>4. /\ current_blob' \in LocalBlob \cup {NoBlob}
        /\ uploads' \in [UploadPermits -> Upload \cup {Idle}]
        /\ pc' \in {"request_then_assign", "select"}
    BY <1>8, <2>3, AssignChunksKeepsTypes DEF SendFinalized, SendToBridge, TypeOK
  <2>5. QED
    BY <1>8, <2>2, <2>3, <2>4 DEF SendFinalized, SendToBridge, TypeOK
<1>9. CASE SendPermitRequest
  <2>1. tx_swarm' \in Seq(SUBSET Peers)
    <3>1. tx_swarm \in Seq(SUBSET Peers) /\ DOMAIN storage_provider_hints \in SUBSET Peers
      BY DEF TypeOK
    <3>2. Append(tx_swarm, DOMAIN storage_provider_hints) \in Seq(SUBSET Peers)
      BY <3>1, AppendProperties
    <3>3. QED
      BY <1>9, <3>1, <3>2 DEF SendPermitRequest, SendToSwarm
  <2>2. /\ current_blob' \in LocalBlob \cup {NoBlob}
        /\ uploads' \in [UploadPermits -> Upload \cup {Idle}]
    BY <1>9, AssignChunksKeepsTypes DEF SendPermitRequest, SendToSwarm, TypeOK
  <2>3. QED
    BY <1>9, <2>1, <2>2 DEF SendPermitRequest, SendToSwarm, TypeOK
<1>10. CASE Stop
  BY <1>10 DEF Stop, TypeOK
<1>11. ASSUME NEW u \in UploadPermits, UploadEnds(u)
       PROVE  TypeOK'
  <2>1. CASE UploadSucceeds(u)
    <3>1. /\ uploads[u].hash \in Hashes
          /\ uploads[u].to \in Peers
      BY <2>1, UploadShape DEF UploadSucceeds, Holds
    <3>2. rx_internal' \in [UpdateChunkStatus -> Nat]
      <4> DEFINE msg == [hash |-> uploads[u].hash, status |-> Finalized(uploads[u].to)]
      <4>1. rx_internal' = [rx_internal EXCEPT ![msg] = @ + 1]
        BY <2>1 DEF UploadSucceeds, Reports
      <4>2. rx_internal \in [UpdateChunkStatus -> Nat] /\ msg \in UpdateChunkStatus
        BY <3>1, ReportsMessages DEF TypeOK
      <4> HIDE DEF msg
      <4>3. QED
        BY <4>1, <4>2
    <3>3. uploads' \in [UploadPermits -> Upload \cup {Idle}]
      BY <2>1 DEF UploadSucceeds, Reports, TypeOK
    <3>4. acked' \subseteq Peers \X Hashes
      BY <2>1, <3>1 DEF UploadSucceeds, TypeOK
    <3>5. QED
      BY <2>1, <3>2, <3>3, <3>4 DEF UploadSucceeds, Reports, TypeOK
  <2>2. CASE UploadFails(u)
    <3>1. rx_internal' \in [UpdateChunkStatus -> Nat]
      BY <2>2, UploadShape, ReportsMessages DEF UploadFails, Reports, Holds, TypeOK
    <3>2. uploads' \in [UploadPermits -> Upload \cup {Idle}]
      BY <2>2 DEF UploadFails, Reports, TypeOK
    <3>3. QED
      BY <2>2, <3>1, <3>2 DEF UploadFails, Reports, TypeOK
  <2>3. CASE UploadTimesOut(u)
    BY <2>3 DEF UploadTimesOut, TypeOK
  <2>4. QED
    BY <1>11, <2>1, <2>2, <2>3 DEF UploadEnds
<1>12. CASE SwarmRequests
  BY <1>12, HeadTailProperties DEF SwarmRequests, TypeOK
<1>13. ASSUME NEW p \in Peers, RequestFails(p)
       PROVE  TypeOK'
  BY <1>13 DEF RequestFails, TypeOK
<1>14. CASE BridgeUpdates
  BY <1>14, HeadTailProperties, AppendProperties DEF BridgeUpdates, TypeOK
<1>15. CASE RequestShutdown
  BY <1>15 DEF RequestShutdown, TypeOK
<1>16. CASE Halted
  BY <1>16 DEF Halted, vars, TypeOK
<1>17. CASE Tick
  <2>1. current_blob' \in LocalBlob \cup {NoBlob}
    BY <1>17, AgedBlobIsBlob DEF Tick, TypeOK, AgedBlob
  <2>2. \A u \in UploadPermits : uploads[u] # Idle =>
          [uploads[u] EXCEPT !.age = AtMost(@ + 1, WINDOW)] \in Upload
    <3> TAKE u \in UploadPermits
    <3> HAVE uploads[u] # Idle
    <3>0. /\ uploads[u].hash \in Hashes
          /\ uploads[u].to \in Peers
          /\ uploads[u].age \in 0..WINDOW
          /\ uploads[u] = [hash |-> uploads[u].hash, to |-> uploads[u].to,
                           age |-> uploads[u].age]
      BY UploadShape
    <3>1. [uploads[u] EXCEPT !.age = AtMost(@ + 1, WINDOW)]
            = [hash |-> uploads[u].hash, to |-> uploads[u].to,
               age |-> AtMost(uploads[u].age + 1, WINDOW)]
      BY <3>0
    <3>2. AtMost(uploads[u].age + 1, WINDOW) \in 0..WINDOW
      BY <3>0, TimeAssumption DEF AtMost
    <3>3. QED
      BY <3>0, <3>1, <3>2 DEF Upload
  <2>3. uploads' \in [UploadPermits -> Upload \cup {Idle}]
    BY <1>17, <2>2 DEF Tick
  <2>4. /\ DOMAIN storage_provider_hints' \subseteq Peers
        /\ storage_provider_hints' \in [DOMAIN storage_provider_hints' -> 0..DECAY]
    BY <1>17, TimeAssumption DEF Tick, TypeOK, AtMost
  <2>5. storage_permits' \in [Peers -> Nat]
    BY <1>17 DEF Tick, TypeOK
  <2>6. QED
    BY <1>17, <2>1, <2>3, <2>4, <2>5 DEF Tick, TypeOK
<1>18. QED
  BY <1>1, <1>2, <1>3, <1>4, <1>5, <1>6, <1>7, <1>8, <1>9, <1>10, <1>11, <1>12,
     <1>13, <1>14, <1>15, <1>16, <1>17
     DEF Next, CoordinatorStep, UploadStep, EnvironmentStep

-----------------------------------------------------------------------------
(* The inductive invariant. *)

LEMMA InitPipelineInvariant == Init => PipelineInvariant
<1> SUFFICES ASSUME Init PROVE PipelineInvariant
  OBVIOUS
<1>1. TypeOK
  BY InitTypeOK
<1>2. /\ Range(reported) \cup Range(tx_bridge) = {}
      /\ DOMAIN pending_local_blobs = {}
  BY DEF Init, Range
<1>3. QED
  BY <1>1, <1>2 DEF Init, PipelineInvariant, NotifiesOfStoredBlob,
     WaitingBlobsAreUntouched, ResultsAreAcked, OwnersHoldTheirChunks,
     InflightIsBacked, NoStalledBacklog, ReportedBlobsAreStored

(* The two properties of the current blob, of any blob. *)
OwnedBy(blob, acks) ==
  \A h \in DOMAIN blob.chunks :
    blob.chunks[h].tag = "Finalized" => <<blob.chunks[h].owner, h>> \in acks

BackedBy(blob, tasks, results) ==
  \A h \in DOMAIN blob.chunks :
    blob.chunks[h].tag = "Inflight" /\ blob.chunks[h].age < WINDOW =>
      \/ \E u \in UploadPermits :
           tasks[u] = [hash |-> h, to |-> blob.chunks[h].to, age |-> blob.chunks[h].age]
      \/ \E msg \in UpdateChunkStatus : msg.hash = h /\ results[msg] > 0

(* A blob that has no chunk assigned has nothing to own or to back. *)
LEMMA UntouchedBlob ==
  ASSUME NEW blob, \A h \in DOMAIN blob.chunks : blob.chunks[h] = Pending,
         NEW acks, NEW tasks, NEW results
  PROVE  OwnedBy(blob, acks) /\ BackedBy(blob, tasks, results)
BY DEF OwnedBy, BackedBy, Pending

(* assign_chunks keeps both: what it marks Inflight has an upload. *)
LEMMA AssignChunksKeepsBacking ==
  ASSUME NEW blob \in LocalBlob \cup {NoBlob}, NEW permits, NEW acks, NEW results,
         uploads \in [UploadPermits -> Upload \cup {Idle}],
         AssignChunks(blob, permits),
         blob # NoBlob => OwnedBy(blob, acks) /\ BackedBy(blob, uploads, results)
  PROVE  current_blob' # NoBlob =>
           /\ OwnedBy(current_blob', acks)
           /\ BackedBy(current_blob', uploads', results)
<1> SUFFICES ASSUME current_blob' # NoBlob
             PROVE  /\ OwnedBy(current_blob', acks)
                    /\ BackedBy(current_blob', uploads', results)
  OBVIOUS
<1>1. /\ AssignmentOf(blob)
      /\ OwnedBy(blob, acks) /\ BackedBy(blob, uploads, results)
  BY AssignChunksKeepsTypes
<1>2. OwnedBy(current_blob', acks)
  <2> SUFFICES ASSUME NEW h \in DOMAIN blob.chunks,
                      current_blob'.chunks[h].tag = "Finalized"
               PROVE  <<current_blob'.chunks[h].owner, h>> \in acks
    BY <1>1 DEF AssignmentOf, OwnedBy
  <2>1. current_blob'.chunks[h] = blob.chunks[h]
    <3>1. \A p \in Peers : Inflight(p).tag = "Inflight"
      BY DEF Inflight
    <3>2. \/ current_blob'.chunks[h] = blob.chunks[h]
          \/ \E p \in Peers : current_blob'.chunks[h] = Inflight(p)
      BY <1>1 DEF AssignmentOf
    <3>3. QED
      BY <3>1, <3>2
  <2>2. QED
    BY <1>1, <2>1 DEF OwnedBy
<1>3. BackedBy(current_blob', uploads', results)
  <2> SUFFICES ASSUME NEW h \in DOMAIN blob.chunks,
                      current_blob'.chunks[h].tag = "Inflight",
                      current_blob'.chunks[h].age < WINDOW
               PROVE  \/ \E u \in UploadPermits :
                           uploads'[u] = [hash |-> h, to |-> current_blob'.chunks[h].to,
                                          age |-> current_blob'.chunks[h].age]
                      \/ \E msg \in UpdateChunkStatus : msg.hash = h /\ results[msg] > 0
    BY <1>1 DEF AssignmentOf, BackedBy
  <2>1. CASE current_blob'.chunks[h] = blob.chunks[h]
    <3>1. CASE \E msg \in UpdateChunkStatus : msg.hash = h /\ results[msg] > 0
      BY <3>1
    <3>2. CASE \E u \in UploadPermits :
                 uploads[u] = [hash |-> h, to |-> blob.chunks[h].to, age |-> blob.chunks[h].age]
      <4>1. PICK u \in UploadPermits :
              uploads[u] = [hash |-> h, to |-> blob.chunks[h].to, age |-> blob.chunks[h].age]
        BY <3>2
      <4>2. CASE uploads[u] # Idle
        BY <1>1, <2>1, <4>1, <4>2 DEF AssignmentOf
      <4>3. uploads[u] # Idle
        <5>1. /\ blob.id \in Blobs
              /\ h \in Range(Content[blob.id])
              /\ blob.chunks[h] \in ChunkUploadStatus
          BY <1>1, LocalBlobShape, AssignChunksKeepsTypes
        <5>2. /\ h \in Hashes
              /\ blob.chunks[h].to \in Peers
              /\ blob.chunks[h].age \in 0..WINDOW
          BY <2>1, <5>1, ContentHashes, TimeAssumption DEF ChunkUploadStatus
        <5>3. uploads[u] \in Upload
          BY <4>1, <5>2 DEF Upload
        <5>4. QED
          BY <5>3, MarkerAssumption
      <4>4. QED
        BY <4>2, <4>3
    <3>3. QED
      BY <1>1, <2>1, <3>1, <3>2 DEF BackedBy
  <2>2. CASE \E p \in Peers :
               /\ current_blob'.chunks[h] = Inflight(p)
               /\ \E u \in UploadPermits :
                    uploads'[u] = [hash |-> h, to |-> p, age |-> 0]
    BY <2>2 DEF Inflight
  <2>3. QED
    BY <1>1, <2>1, <2>2 DEF AssignmentOf
<1>4. QED
  BY <1>2, <1>3

(* The finalizing arm keeps its finalized blob until it has sent the update. *)
LEMMA NextNotifies ==
  ASSUME PipelineInvariant, Next
  PROVE  NotifiesOfStoredBlob'
<1> USE DEF NotifiesOfStoredBlob
<1>0. TypeOK /\ NotifiesOfStoredBlob
  BY DEF PipelineInvariant
<1>1. CASE pc' # "notify"
  BY <1>1
<1>2. CASE UNCHANGED <<pc, current_blob>>
  BY <1>0, <1>2
<1>3. ASSUME NEW msg \in UpdateChunkStatus, HandleUpdate(msg), pc' = "notify"
      PROVE  NotifiesOfStoredBlob'
  <2> DEFINE blob == [current_blob EXCEPT !.chunks[msg.hash] = msg.status]
  <2>1. /\ current_blob # NoBlob
        /\ msg.hash \in DOMAIN current_blob.chunks
        /\ current_blob' = blob
        /\ AllFinalized(blob.chunks)
    BY <1>3 DEF HandleUpdate, WithResult, Selecting
  <2>2. blob \in LocalBlob
    BY <1>0, <2>1, UpdatedBlob DEF TypeOK, UpdateChunkStatus
  <2>3. QED
    BY <2>1, <2>2, MarkerAssumption
<1>4. CASE Tick /\ pc' = "notify"
  <2>1. /\ current_blob \in LocalBlob
        /\ AllFinalized(current_blob.chunks)
        /\ current_blob' = AgedBlob(current_blob)
    BY <1>0, <1>4 DEF Tick, TypeOK, AgedBlob
  <2>2. \A c : c.tag = "Finalized" => Older(c) = c
    BY DEF Older
  <2>3. QED
    BY <2>1, <2>2, AgedBlobIsBlob, MarkerAssumption DEF AllFinalized
<1>5. QED
  BY <1>1, <1>2, <1>3, <1>4
     DEF Next, CoordinatorStep, UploadStep, UploadEnds, EnvironmentStep, Selecting,
     TimerStale, TimerAssign, RecvWouldStore, RecvStoragePermit, RecvGetBlob,
     RecvNewBlob, SendFinalized, SendToBridge, SendPermitRequest, SendToSwarm, Stop, UploadSucceeds,
     UploadFails, Reports, UploadTimesOut, SwarmRequests, RequestFails,
     BridgeUpdates, RequestShutdown, Halted, vars

(* The queue of waiting blobs at its head. *)
LEMMA WaitingHead ==
  ASSUME TypeOK, WaitingBlobsAreUntouched, pending_local_blobs # <<>>
  PROVE  /\ Head(pending_local_blobs) \in LocalBlob
         /\ \A h \in DOMAIN Head(pending_local_blobs).chunks :
              Head(pending_local_blobs).chunks[h] = Pending
         /\ \A i \in DOMAIN Tail(pending_local_blobs) :
              \A h \in DOMAIN Tail(pending_local_blobs)[i].chunks :
                Tail(pending_local_blobs)[i].chunks[h] = Pending
<1>1. pending_local_blobs \in Seq(LocalBlob)
  BY DEF TypeOK
<1>2. /\ 1 \in DOMAIN pending_local_blobs
      /\ Head(pending_local_blobs) = pending_local_blobs[1]
      /\ Head(pending_local_blobs) \in LocalBlob
  BY <1>1, HeadTailProperties, LenProperties, EmptySeq
<1>3. \A i \in DOMAIN Tail(pending_local_blobs) :
        /\ i + 1 \in DOMAIN pending_local_blobs
        /\ Tail(pending_local_blobs)[i] = pending_local_blobs[i + 1]
  <2>1. /\ Tail(pending_local_blobs) \in Seq(LocalBlob)
        /\ Len(Tail(pending_local_blobs)) = Len(pending_local_blobs) - 1
        /\ Len(pending_local_blobs) \in Nat
    BY <1>1, HeadTailProperties
  <2>2. /\ DOMAIN Tail(pending_local_blobs) = 1..(Len(pending_local_blobs) - 1)
        /\ DOMAIN pending_local_blobs = 1..Len(pending_local_blobs)
    BY <1>1, <2>1, LenProperties
  <2>3. QED
    BY <1>1, <2>1, <2>2, HeadTailProperties
<1>4. QED
  BY <1>2, <1>3 DEF WaitingBlobsAreUntouched

(* Nothing is assigned in a blob before it is the current one. *)
LEMMA NextWaiting ==
  ASSUME PipelineInvariant, Next
  PROVE  WaitingBlobsAreUntouched'
<1>0. TypeOK /\ WaitingBlobsAreUntouched
  BY DEF PipelineInvariant
<1>1. CASE UNCHANGED pending_local_blobs
  BY <1>0, <1>1 DEF WaitingBlobsAreUntouched
<1>2. ASSUME NEW id \in Blobs, RecvNewBlob(id)
      PROVE  WaitingBlobsAreUntouched'
  <2> DEFINE blobs == Append(pending_local_blobs, NewLocalBlob(id))
  <2>1. /\ blobs \in Seq(LocalBlob) /\ blobs # <<>>
        /\ \A i \in 1..Len(blobs) : \A h \in DOMAIN blobs[i].chunks :
             blobs[i].chunks[h] = Pending
    <3>1. /\ pending_local_blobs \in Seq(LocalBlob)
          /\ NewLocalBlob(id) \in LocalBlob
      BY <1>0, NewLocalBlobIsLocalBlob DEF TypeOK
    <3>2. /\ blobs \in Seq(LocalBlob) /\ blobs # <<>>
          /\ Len(blobs) = Len(pending_local_blobs) + 1
          /\ Len(pending_local_blobs) \in Nat
          /\ DOMAIN pending_local_blobs = 1..Len(pending_local_blobs)
      BY <3>1, AppendProperties, LenProperties
    <3>3. \A i \in 1..Len(blobs) :
            \/ i \in DOMAIN pending_local_blobs /\ blobs[i] = pending_local_blobs[i]
            \/ blobs[i] = NewLocalBlob(id)
      BY <3>1, <3>2, AppendProperties
    <3>4. QED
      BY <1>0, <3>2, <3>3, NewLocalBlobIsLocalBlob DEF WaitingBlobsAreUntouched
  <2> HIDE DEF blobs
  <2>2. CASE pending_local_blobs' = blobs
    BY <2>1, <2>2, LenProperties DEF WaitingBlobsAreUntouched
  <2>3. CASE pending_local_blobs' = Tail(blobs)
    <3>1. /\ Tail(blobs) \in Seq(LocalBlob)
          /\ Len(Tail(blobs)) = Len(blobs) - 1
          /\ Len(blobs) \in Nat
          /\ \A i \in 1..Len(Tail(blobs)) : Tail(blobs)[i] = blobs[i + 1]
      BY <2>1, HeadTailProperties, LenProperties
    <3>2. DOMAIN Tail(blobs) = 1..(Len(blobs) - 1)
      BY <3>1, LenProperties
    <3>3. QED
      BY <2>1, <2>3, <3>1, <3>2 DEF WaitingBlobsAreUntouched
  <2>4. QED
    BY <1>2, <2>2, <2>3 DEF RecvNewBlob, blobs
<1>3. CASE SendFinalized
  <2>1. pending_local_blobs' = RestOf(pending_local_blobs)
    BY <1>3 DEF SendFinalized, SendToBridge
  <2>2. CASE pending_local_blobs = <<>>
    BY <1>0, <2>1, <2>2 DEF RestOf, WaitingBlobsAreUntouched
  <2>3. CASE pending_local_blobs # <<>>
    BY <1>0, <2>1, <2>3, WaitingHead DEF RestOf, WaitingBlobsAreUntouched
  <2>4. QED
    BY <2>2, <2>3
<1>4. QED
  BY <1>1, <1>2, <1>3
     DEF Next, CoordinatorStep, UploadStep, UploadEnds, EnvironmentStep,
     TimerStale, TimerAssign, RecvWouldStore, RecvStoragePermit, RecvGetBlob,
     HandleUpdate, SendPermitRequest, SendToSwarm, Stop, UploadSucceeds, UploadFails, Reports,
     UploadTimesOut, SwarmRequests, RequestFails, BridgeUpdates, RequestShutdown,
     Halted, Tick, vars

(* Acknowledgements are never forgotten. *)
LEMMA AckedGrows ==
  ASSUME Next
  PROVE  acked \subseteq acked'
BY DEF Next, CoordinatorStep, UploadStep, UploadEnds, EnvironmentStep,
   TimerStale, TimerAssign, RecvWouldStore, RecvStoragePermit, RecvGetBlob,
   RecvNewBlob, HandleUpdate, SendFinalized, SendToBridge, SendPermitRequest, SendToSwarm, Stop,
   UploadSucceeds, UploadFails, Reports, UploadTimesOut, SwarmRequests,
   RequestFails, BridgeUpdates, RequestShutdown, Halted, Tick, vars

(* A Finalized result follows the acknowledgement it tells of. *)
LEMMA NextResultsAcked ==
  ASSUME PipelineInvariant, Next
  PROVE  ResultsAreAcked'
<1>0. TypeOK /\ ResultsAreAcked /\ acked \subseteq acked'
  BY AckedGrows DEF PipelineInvariant
<1>1. CASE UNCHANGED rx_internal
  BY <1>0, <1>1 DEF ResultsAreAcked
<1>2. ASSUME NEW msg \in UpdateChunkStatus, HandleUpdate(msg)
      PROVE  ResultsAreAcked'
  BY <1>0, <1>2 DEF HandleUpdate, ResultsAreAcked, TypeOK
<1>3. ASSUME NEW u \in UploadPermits, NEW status, Reports(u, status),
             status.tag = "Finalized" => <<status.owner, uploads[u].hash>> \in acked'
      PROVE  ResultsAreAcked'
  <2> DEFINE m == [hash |-> uploads[u].hash, status |-> status]
  <2>1. rx_internal' = [rx_internal EXCEPT ![m] = @ + 1]
    BY <1>3 DEF Reports
  <2>2. \A msg \in UpdateChunkStatus : msg = m \/ rx_internal'[msg] = rx_internal[msg]
    BY <1>0, <2>1 DEF TypeOK
  <2>3. QED
    BY <1>0, <1>3, <2>2 DEF ResultsAreAcked
<1>4. ASSUME NEW u \in UploadPermits, UploadEnds(u)
      PROVE  ResultsAreAcked'
  <2>1. CASE UploadSucceeds(u)
    BY <1>3, <2>1 DEF UploadSucceeds, Finalized
  <2>2. CASE UploadFails(u)
    BY <1>3, <2>2 DEF UploadFails, Pending
  <2>3. CASE UploadTimesOut(u)
    BY <1>1, <2>3 DEF UploadTimesOut
  <2>4. QED
    BY <1>4, <2>1, <2>2, <2>3 DEF UploadEnds
<1>5. QED
  BY <1>1, <1>2, <1>4
     DEF Next, CoordinatorStep, UploadStep, EnvironmentStep,
     TimerStale, TimerAssign, RecvWouldStore, RecvStoragePermit, RecvGetBlob,
     RecvNewBlob, SendFinalized, SendToBridge, SendPermitRequest, SendToSwarm, Stop, SwarmRequests,
     RequestFails, BridgeUpdates, RequestShutdown, Halted, Tick, vars

(* Whenever there is no current blob the queue is empty. *)
LEMMA NextNoStalledBacklog ==
  ASSUME PipelineInvariant, Next
  PROVE  NoStalledBacklog'
<1> USE DEF NoStalledBacklog
<1>0. /\ TypeOK /\ TypeOK'
      /\ NotifiesOfStoredBlob /\ NoStalledBacklog
  BY NextTypeOK DEF PipelineInvariant
<1>1. CASE UNCHANGED <<current_blob, pending_local_blobs>>
  BY <1>0, <1>1
<1>2. ASSUME NEW blob \in LocalBlob \cup {NoBlob}, NEW permits,
             AssignChunks(blob, permits)
      PROVE  current_blob' = NoBlob <=> blob = NoBlob
  BY <1>0, <1>2, AssignChunksKeepsTypes DEF TypeOK
<1>3. CASE TimerAssign
  BY <1>0, <1>2, <1>3 DEF TimerAssign, TypeOK
<1>4. ASSUME NEW p \in Peers, NEW v \in ValidFor, RecvStoragePermit(p, v)
      PROVE  NoStalledBacklog'
  BY <1>0, <1>2, <1>4 DEF RecvStoragePermit, TypeOK
<1>5. ASSUME NEW id \in Blobs, RecvNewBlob(id)
      PROVE  NoStalledBacklog'
  <2> DEFINE blobs == Append(pending_local_blobs, NewLocalBlob(id))
  <2>1. blobs \in Seq(LocalBlob) /\ blobs # <<>>
    <3>1. pending_local_blobs \in Seq(LocalBlob) /\ NewLocalBlob(id) \in LocalBlob
      BY <1>0, NewLocalBlobIsLocalBlob DEF TypeOK
    <3>2. QED
      BY <3>1, AppendProperties
  <2>2. Head(blobs) # NoBlob
    BY <2>1, HeadTailProperties, MarkerAssumption
  <2>3. QED
    BY <1>5, <2>2 DEF RecvNewBlob
<1>6. ASSUME NEW msg \in UpdateChunkStatus, HandleUpdate(msg)
      PROVE  NoStalledBacklog'
  <2>1. CASE current_blob = NoBlob \/ msg.hash \notin DOMAIN current_blob.chunks
    BY <1>0, <1>6, <2>1 DEF HandleUpdate
  <2>2. CASE ~(current_blob = NoBlob \/ msg.hash \notin DOMAIN current_blob.chunks)
    <3>1. [current_blob EXCEPT !.chunks[msg.hash] = msg.status] \in LocalBlob
      BY <1>0, <2>2, UpdatedBlob DEF TypeOK, UpdateChunkStatus
    <3>2. current_blob' # NoBlob
      BY <1>2, <1>6, <2>2, <3>1, MarkerAssumption DEF HandleUpdate, WithResult
    <3>3. QED
      BY <3>2
  <2>3. QED
    BY <2>1, <2>2
<1>7. CASE SendFinalized
  <2>1. CASE pending_local_blobs = <<>>
    BY <1>7, <2>1 DEF SendFinalized, SendToBridge, RestOf
  <2>2. CASE pending_local_blobs # <<>>
    <3>1. FirstOf(pending_local_blobs) \in LocalBlob
      BY <1>0, <2>2, HeadTailProperties DEF FirstOf, TypeOK
    <3>2. current_blob' # NoBlob
      BY <1>2, <1>7, <3>1, MarkerAssumption DEF SendFinalized, SendToBridge
    <3>3. QED
      BY <3>2
  <2>3. QED
    BY <2>1, <2>2
<1>8. CASE SendPermitRequest
  BY <1>0, <1>2, <1>8 DEF SendPermitRequest, SendToSwarm, TypeOK
<1>9. CASE Tick
  <2>1. current_blob # NoBlob => current_blob' # NoBlob
    BY <1>0, <1>9, AgedBlobIsBlob, MarkerAssumption DEF Tick, TypeOK, AgedBlob
  <2>2. QED
    BY <1>0, <1>9, <2>1 DEF Tick
<1>10. QED
  BY <1>1, <1>3, <1>4, <1>5, <1>6, <1>7, <1>8, <1>9
     DEF Next, CoordinatorStep, UploadStep, UploadEnds, EnvironmentStep,
     TimerStale, RecvWouldStore, RecvGetBlob, Stop, UploadSucceeds, UploadFails,
     Reports, UploadTimesOut, SwarmRequests, RequestFails, BridgeUpdates,
     RequestShutdown, Halted, vars

(* Owners hold their chunks, and chunks Inflight have an upload or a result. *)
LEMMA NextBacking ==
  ASSUME PipelineInvariant, Next
  PROVE  OwnersHoldTheirChunks' /\ InflightIsBacked'
<1> DEFINE OK == current_blob' # NoBlob =>
                   /\ OwnedBy(current_blob', acked')
                   /\ BackedBy(current_blob', uploads', rx_internal')
<1>0. /\ TypeOK /\ WaitingBlobsAreUntouched /\ ResultsAreAcked /\ NoStalledBacklog
      /\ uploads \in [UploadPermits -> Upload \cup {Idle}]
      /\ current_blob \in LocalBlob \cup {NoBlob}
      /\ current_blob # NoBlob =>
           /\ OwnedBy(current_blob, acked)
           /\ BackedBy(current_blob, uploads, rx_internal)
  BY DEF PipelineInvariant, OwnersHoldTheirChunks, InflightIsBacked, OwnedBy, BackedBy,
     TypeOK
<1> SUFFICES OK
  BY DEF OwnersHoldTheirChunks, InflightIsBacked, OwnedBy, BackedBy
<1>1. CASE UNCHANGED <<current_blob, acked, uploads, rx_internal>>
  BY <1>0, <1>1
<1>2. CASE AssignChunks(current_blob, storage_permits) /\ UNCHANGED <<acked, rx_internal>>
  BY <1>0, <1>2, AssignChunksKeepsBacking
<1>3. ASSUME NEW p \in Peers, NEW v \in ValidFor, RecvStoragePermit(p, v)
      PROVE  OK
  BY <1>0, <1>3, AssignChunksKeepsBacking DEF RecvStoragePermit
<1>4. ASSUME NEW id \in Blobs, RecvNewBlob(id)
      PROVE  OK
  <2>1. CASE current_blob # NoBlob
    BY <1>0, <1>4, <2>1 DEF RecvNewBlob
  <2>2. CASE current_blob = NoBlob
    <3>1. current_blob' = NewLocalBlob(id)
      BY <1>0, <1>4, <2>2, HeadTailAppend DEF RecvNewBlob, NoStalledBacklog, TypeOK
    <3>2. QED
      BY <3>1, UntouchedBlob, NewLocalBlobIsLocalBlob
  <2>3. QED
    BY <2>1, <2>2
<1>5. ASSUME NEW msg \in UpdateChunkStatus, HandleUpdate(msg)
      PROVE  OK
  <2>0. /\ acked' = acked
        /\ rx_internal[msg] > 0
        /\ \A m \in UpdateChunkStatus : m # msg => rx_internal'[m] = rx_internal[m]
    BY <1>0, <1>5 DEF HandleUpdate, TypeOK
  <2>1. CASE current_blob = NoBlob \/ msg.hash \notin DOMAIN current_blob.chunks
    <3>1. current_blob' = current_blob /\ uploads' = uploads
      BY <1>5, <2>1 DEF HandleUpdate
    <3>2. QED
      BY <1>0, <2>0, <2>1, <3>1 DEF BackedBy
  <2>2. CASE ~(current_blob = NoBlob \/ msg.hash \notin DOMAIN current_blob.chunks)
    <3> DEFINE blob == [current_blob EXCEPT !.chunks[msg.hash] = msg.status]
    <3>1. /\ blob \in LocalBlob
          /\ blob.chunks = [current_blob.chunks EXCEPT ![msg.hash] = msg.status]
          /\ msg.status.tag \in {"Pending", "Finalized"}
      BY <1>0, <2>2, UpdatedBlob DEF UpdateChunkStatus
    <3>2. \/ current_blob' = blob /\ uploads' = uploads
          \/ AssignChunks(blob, storage_permits)
      BY <1>5, <2>2 DEF HandleUpdate, WithResult
    <3> HIDE DEF blob
    <3>3. OwnedBy(blob, acked)
      <4> SUFFICES ASSUME NEW h \in DOMAIN blob.chunks, blob.chunks[h].tag = "Finalized"
                   PROVE  <<blob.chunks[h].owner, h>> \in acked
        BY DEF OwnedBy
      <4>1. CASE h = msg.hash
        BY <1>0, <2>0, <3>1, <4>1 DEF ResultsAreAcked
      <4>2. CASE h # msg.hash
        BY <1>0, <2>2, <3>1, <4>2 DEF OwnedBy
      <4>3. QED
        BY <4>1, <4>2
    <3>4. BackedBy(blob, uploads, rx_internal')
      <4> SUFFICES ASSUME NEW h \in DOMAIN blob.chunks,
                          blob.chunks[h].tag = "Inflight", blob.chunks[h].age < WINDOW
                   PROVE  \/ \E u \in UploadPermits :
                               uploads[u] = [hash |-> h, to |-> blob.chunks[h].to,
                                             age |-> blob.chunks[h].age]
                          \/ \E m \in UpdateChunkStatus : m.hash = h /\ rx_internal'[m] > 0
        BY DEF BackedBy
      <4>1. h # msg.hash /\ h \in DOMAIN current_blob.chunks
            /\ blob.chunks[h] = current_blob.chunks[h]
        BY <3>1
      <4>2. QED
        BY <1>0, <2>0, <2>2, <4>1 DEF BackedBy
    <3>5. QED
      BY <1>0, <2>0, <3>1, <3>2, <3>3, <3>4, AssignChunksKeepsBacking
  <2>3. QED
    BY <2>1, <2>2
<1>6. CASE SendFinalized
  <2> DEFINE next == FirstOf(pending_local_blobs)
  <2>1. /\ next \in LocalBlob \cup {NoBlob}
        /\ next # NoBlob => /\ OwnedBy(next, acked)
                            /\ BackedBy(next, uploads, rx_internal)
    BY <1>0, WaitingHead, UntouchedBlob DEF FirstOf
  <2>2. /\ UNCHANGED <<acked, rx_internal>>
        /\ \/ current_blob' = next /\ uploads' = uploads
           \/ AssignChunks(next, storage_permits)
    BY <1>6 DEF SendFinalized, SendToBridge
  <2> HIDE DEF next
  <2>3. QED
    BY <1>0, <2>1, <2>2, AssignChunksKeepsBacking
<1>7. ASSUME NEW u \in UploadPermits, NEW status, Reports(u, status),
             uploads[u] # Idle,
             [hash |-> uploads[u].hash, status |-> status] \in UpdateChunkStatus,
             acked \subseteq acked'
      PROVE  OK
  <2> DEFINE m == [hash |-> uploads[u].hash, status |-> status]
  <2>1. /\ rx_internal' = [rx_internal EXCEPT ![m] = @ + 1]
        /\ uploads' = [uploads EXCEPT ![u] = Idle]
        /\ current_blob' = current_blob
    BY <1>7 DEF Reports
  <2>2. m \in UpdateChunkStatus /\ m.hash = uploads[u].hash
    BY <1>7
  <2> HIDE DEF m
  <2>3. /\ \A msg \in UpdateChunkStatus : rx_internal[msg] > 0 => rx_internal'[msg] > 0
        /\ rx_internal'[m] > 0
    BY <1>0, <2>1, <2>2 DEF TypeOK
  <2>4. \A v \in UploadPermits : v = u \/ uploads'[v] = uploads[v]
    BY <1>0, <2>1
  <2> SUFFICES ASSUME current_blob # NoBlob
               PROVE  /\ OwnedBy(current_blob, acked')
                      /\ BackedBy(current_blob, uploads', rx_internal')
    BY <2>1
  <2>5. OwnedBy(current_blob, acked')
    BY <1>0, <1>7 DEF OwnedBy
  <2>6. BackedBy(current_blob, uploads', rx_internal')
    BY <1>0, <2>2, <2>3, <2>4 DEF BackedBy
  <2>7. QED
    BY <2>5, <2>6
<1>8. ASSUME NEW u \in UploadPermits, UploadEnds(u)
      PROVE  OK
  <2>1. CASE UploadSucceeds(u)
    BY <1>0, <1>7, <2>1, UploadShape, ReportsMessages DEF UploadSucceeds, Holds
  <2>2. CASE UploadFails(u)
    BY <1>0, <1>7, <2>2, UploadShape, ReportsMessages DEF UploadFails, Holds
  <2>3. CASE UploadTimesOut(u)
    <3>1. /\ uploads[u].age >= WINDOW
          /\ uploads' = [uploads EXCEPT ![u] = Idle]
          /\ UNCHANGED <<current_blob, acked, rx_internal>>
      BY <2>3 DEF UploadTimesOut, Expired
    <3>2. \A v \in UploadPermits : v = u \/ uploads'[v] = uploads[v]
      BY <1>0, <3>1
    <3> SUFFICES ASSUME current_blob # NoBlob
                 PROVE  BackedBy(current_blob, uploads', rx_internal)
      BY <1>0, <3>1
    <3>3. \A h \in DOMAIN current_blob.chunks :
            current_blob.chunks[h].tag = "Inflight" => current_blob.chunks[h].age \in Nat
      BY <1>0, LocalBlobShape, TimeAssumption DEF ChunkUploadStatus
    <3>4. QED
      BY <1>0, <3>1, <3>2, <3>3, TimeAssumption DEF BackedBy
  <2>4. QED
    BY <1>8, <2>1, <2>2, <2>3 DEF UploadEnds
<1>9. CASE Tick
  <2> SUFFICES ASSUME current_blob # NoBlob
               PROVE  /\ OwnedBy(current_blob', acked)
                      /\ BackedBy(current_blob', uploads', rx_internal)
    BY <1>9 DEF Tick
  <2>1. /\ current_blob \in LocalBlob
        /\ current_blob'.chunks =
             [h \in DOMAIN current_blob.chunks |-> Older(current_blob.chunks[h])]
    BY <1>0, <1>9, AgedBlobIsBlob DEF Tick, AgedBlob
  <2>2. OwnedBy(current_blob', acked)
    BY <1>0, <2>1 DEF OwnedBy, Older
  <2>3. BackedBy(current_blob', uploads', rx_internal)
    <3> SUFFICES ASSUME NEW h \in DOMAIN current_blob.chunks,
                        Older(current_blob.chunks[h]).tag = "Inflight",
                        Older(current_blob.chunks[h]).age < WINDOW
                 PROVE  \/ \E u \in UploadPermits :
                             uploads'[u] = [hash |-> h,
                               to |-> Older(current_blob.chunks[h]).to,
                               age |-> Older(current_blob.chunks[h]).age]
                        \/ \E m \in UpdateChunkStatus : m.hash = h /\ rx_internal[m] > 0
      BY <2>1 DEF BackedBy
    <3> DEFINE c == current_blob.chunks[h]
    <3>1. c \in ChunkUploadStatus
      BY <2>1, LocalBlobShape
    <3>2. /\ c.tag = "Inflight" /\ c.age \in Nat
          /\ c = [tag |-> "Inflight", to |-> c.to, age |-> c.age]
      BY <3>1, TimeAssumption DEF ChunkUploadStatus, Older
    <3>3. Older(c) = [tag |-> "Inflight", to |-> c.to, age |-> AtMost(c.age + 1, WINDOW + 1)]
      BY <3>2 DEF Older
    <3>4. c.age + 1 < WINDOW /\ Older(c).age = c.age + 1 /\ Older(c).to = c.to
      BY <3>2, <3>3, TimeAssumption DEF AtMost
    <3>5. CASE \E u \in UploadPermits : uploads[u] = [hash |-> h, to |-> c.to, age |-> c.age]
      <4>1. PICK u \in UploadPermits : uploads[u] = [hash |-> h, to |-> c.to, age |-> c.age]
        BY <3>5
      <4>2. uploads[u] # Idle
        <5>1. /\ current_blob.id \in Blobs
              /\ h \in Range(Content[current_blob.id])
          BY <2>1, LocalBlobShape
        <5>2. h \in Hashes /\ c.to \in Peers /\ c.age \in 0..WINDOW
          BY <3>1, <3>2, <3>4, <5>1, ContentHashes, TimeAssumption DEF ChunkUploadStatus
        <5>3. uploads[u] \in Upload
          BY <4>1, <5>2 DEF Upload
        <5>4. QED
          BY <5>3, MarkerAssumption
      <4>3. uploads'[u] = [uploads[u] EXCEPT !.age = AtMost(@ + 1, WINDOW)]
        BY <1>9, <4>2 DEF Tick
      <4>4. AtMost(c.age + 1, WINDOW) = c.age + 1
        BY <3>4 DEF AtMost
      <4>5. uploads'[u] = [hash |-> h, to |-> c.to, age |-> c.age + 1]
        BY <4>1, <4>3, <4>4
      <4>6. QED
        BY <3>4, <4>5
    <3>6. QED
      BY <1>0, <3>2, <3>4, <3>5, TimeAssumption DEF BackedBy
  <2>4. QED
    BY <2>2, <2>3
<1>10. QED
  BY <1>1, <1>2, <1>3, <1>4, <1>5, <1>6, <1>8, <1>9
     DEF Next, CoordinatorStep, UploadStep, EnvironmentStep, TimerStale, TimerAssign,
     RecvWouldStore, RecvGetBlob, SendPermitRequest, SendToSwarm, Stop, SwarmRequests,
     RequestFails, BridgeUpdates, RequestShutdown, Halted, vars

(* Appending adds one element to the range. *)
LEMMA RangeAppend ==
  ASSUME NEW S, NEW seq \in Seq(S), NEW e \in S
  PROVE  Range(Append(seq, e)) = Range(seq) \cup {e}
<1>1. /\ DOMAIN seq = 1..Len(seq) /\ Len(seq) \in Nat
      /\ DOMAIN Append(seq, e) = 1..(Len(seq) + 1)
      /\ \A i \in 1..Len(seq) : Append(seq, e)[i] = seq[i]
      /\ Append(seq, e)[Len(seq) + 1] = e
  BY AppendProperties, LenProperties
<1>2. \A i \in DOMAIN Append(seq, e) : i \in DOMAIN seq \/ i = Len(seq) + 1
  BY <1>1
<1>3. /\ \A i \in DOMAIN seq : i \in DOMAIN Append(seq, e)
      /\ Len(seq) + 1 \in DOMAIN Append(seq, e)
  BY <1>1
<1>4. QED
  BY <1>1, <1>2, <1>3 DEF Range

(* A blob is reported only when every chunk of it is stored. *)
LEMMA NextReported ==
  ASSUME PipelineInvariant, Next
  PROVE  ReportedBlobsAreStored'
<1> DEFINE told == Range(reported) \cup Range(tx_bridge)
<1>0. /\ TypeOK /\ NotifiesOfStoredBlob /\ OwnersHoldTheirChunks
      /\ ReportedBlobsAreStored
  BY DEF PipelineInvariant
<1>1. \A h : IsStored(h) => IsStored(h)'
  BY AckedGrows DEF IsStored
<1>2. ASSUME told' \subseteq told
      PROVE  ReportedBlobsAreStored'
  BY <1>0, <1>1, <1>2 DEF ReportedBlobsAreStored
<1>3. CASE UNCHANGED <<reported, tx_bridge>>
  BY <1>2, <1>3
<1>4. CASE SendFinalized
  <2>1. /\ current_blob \in LocalBlob
        /\ AllFinalized(current_blob.chunks)
    BY <1>0, <1>4 DEF SendFinalized, SendToBridge, NotifiesOfStoredBlob, TypeOK
  <2>2. \A h \in Range(Content[current_blob.id]) : IsStored(h)
    <3> TAKE h \in Range(Content[current_blob.id])
    <3>1. /\ h \in DOMAIN current_blob.chunks
          /\ current_blob.chunks[h] \in ChunkUploadStatus
      BY <2>1, LocalBlobShape
    <3>2. /\ current_blob.chunks[h].tag = "Finalized"
          /\ current_blob.chunks[h].owner \in Peers
      BY <2>1, <3>1 DEF AllFinalized, ChunkUploadStatus
    <3>3. <<current_blob.chunks[h].owner, h>> \in acked
      BY <1>0, <2>1, <3>1, <3>2, MarkerAssumption DEF OwnersHoldTheirChunks
    <3>4. QED
      BY <3>2, <3>3 DEF IsStored
  <2>3. told' \subseteq told \cup {current_blob.id}
    <3>1. tx_bridge \in Seq(Blobs) /\ current_blob.id \in Blobs
      BY <1>0, <2>1, LocalBlobShape DEF TypeOK
    <3>2. Range(Append(tx_bridge, current_blob.id)) = Range(tx_bridge) \cup {current_blob.id}
      BY <3>1, RangeAppend
    <3>3. QED
      BY <1>4, <3>2 DEF SendFinalized, SendToBridge
  <2>4. QED
    BY <1>0, <1>1, <2>2, <2>3 DEF ReportedBlobsAreStored
<1>5. CASE BridgeUpdates
  <2>1. /\ tx_bridge \in Seq(Blobs) /\ tx_bridge # <<>>
        /\ reported \in Seq(Blobs)
        /\ reported' = Append(reported, Head(tx_bridge))
        /\ tx_bridge' = Tail(tx_bridge)
    BY <1>0, <1>5 DEF BridgeUpdates, TypeOK
  <2>2. Head(tx_bridge) \in Range(tx_bridge) /\ Head(tx_bridge) \in Blobs
    <3>1. 1 \in DOMAIN tx_bridge /\ Head(tx_bridge) = tx_bridge[1]
      BY <2>1, HeadTailProperties, LenProperties, EmptySeq
    <3>2. QED
      BY <2>1, <3>1, HeadTailProperties DEF Range
  <2>3. Range(Tail(tx_bridge)) \subseteq Range(tx_bridge)
    <3>1. /\ Tail(tx_bridge) \in Seq(Blobs)
          /\ Len(Tail(tx_bridge)) = Len(tx_bridge) - 1
          /\ Len(tx_bridge) \in Nat
          /\ \A i \in 1..Len(Tail(tx_bridge)) : Tail(tx_bridge)[i] = tx_bridge[i + 1]
      BY <2>1, HeadTailProperties
    <3>2. \A i \in DOMAIN Tail(tx_bridge) :
            i + 1 \in DOMAIN tx_bridge /\ Tail(tx_bridge)[i] = tx_bridge[i + 1]
      BY <2>1, <3>1, LenProperties
    <3>3. QED
      BY <3>2 DEF Range
  <2>4. Range(Append(reported, Head(tx_bridge))) = Range(reported) \cup {Head(tx_bridge)}
    BY <2>1, <2>2, RangeAppend
  <2>5. QED
    BY <1>2, <2>1, <2>2, <2>3, <2>4
<1>6. QED
  BY <1>3, <1>4, <1>5
     DEF Next, CoordinatorStep, UploadStep, UploadEnds, EnvironmentStep,
     TimerStale, TimerAssign, RecvWouldStore, RecvStoragePermit, RecvGetBlob,
     RecvNewBlob, HandleUpdate, SendPermitRequest, SendToSwarm, Stop, UploadSucceeds, UploadFails,
     Reports, UploadTimesOut, SwarmRequests, RequestFails, RequestShutdown, Halted,
     Tick, vars

LEMMA NextPipelineInvariant ==
  PipelineInvariant /\ [Next]_vars => PipelineInvariant'
<1> SUFFICES ASSUME PipelineInvariant, [Next]_vars
             PROVE  PipelineInvariant'
  OBVIOUS
<1>1. CASE Next
  BY <1>1, NextTypeOK, NextNotifies, NextWaiting, NextResultsAcked,
     NextNoStalledBacklog, NextBacking, NextReported DEF PipelineInvariant
<1>2. CASE UNCHANGED vars
  <2>1. TypeOK'
    BY <1>2 DEF PipelineInvariant, vars, TypeOK
  <2>2. NotifiesOfStoredBlob' /\ WaitingBlobsAreUntouched' /\ NoStalledBacklog'
    BY <1>2 DEF PipelineInvariant, vars, NotifiesOfStoredBlob,
       WaitingBlobsAreUntouched, NoStalledBacklog
  <2>3. ResultsAreAcked' /\ OwnersHoldTheirChunks' /\ ReportedBlobsAreStored'
    BY <1>2 DEF PipelineInvariant, vars, ResultsAreAcked, OwnersHoldTheirChunks,
       ReportedBlobsAreStored, IsStored
  <2>4. InflightIsBacked'
    BY <1>2 DEF PipelineInvariant, vars, InflightIsBacked
  <2>5. QED
    BY <2>1, <2>2, <2>3, <2>4 DEF PipelineInvariant
<1>3. QED
  BY <1>1, <1>2

-----------------------------------------------------------------------------
(* The theorems. *)

(* The inductive invariant of the pipeline holds in every reachable state. *)
THEOREM PipelineIsInvariant == Spec => []PipelineInvariant
BY InitPipelineInvariant, NextPipelineInvariant, PTL DEF Spec

(* Every variable keeps its type. *)
THEOREM TypeCorrectness == Spec => []TypeOK
<1>1. PipelineInvariant => TypeOK
  BY DEF PipelineInvariant
<1>2. QED
  BY <1>1, PipelineIsInvariant, PTL

(* The bridge is told Finalized only of blobs whose chunks were all
   acknowledged by providers. *)
THEOREM FinalizedMeansStored == Spec => []ReportedBlobsAreStored
<1>1. PipelineInvariant => ReportedBlobsAreStored
  BY DEF PipelineInvariant
<1>2. QED
  BY <1>1, PipelineIsInvariant, PTL

(* The recorded owner of a finalized chunk acknowledged that chunk. *)
THEOREM OwnersAreRight == Spec => []OwnersHoldTheirChunks
<1>1. PipelineInvariant => OwnersHoldTheirChunks
  BY DEF PipelineInvariant
<1>2. QED
  BY <1>1, PipelineIsInvariant, PTL

(* A chunk is never left Inflight with nobody uploading it within the window
   in which nothing would assign it again. *)
THEOREM InflightChunksAreBacked == Spec => []InflightIsBacked
<1>1. PipelineInvariant => InflightIsBacked
  BY DEF PipelineInvariant
<1>2. QED
  BY <1>1, PipelineIsInvariant, PTL

(* Blobs never wait behind an empty current_blob. *)
THEOREM BacklogIsServed == Spec => []NoStalledBacklog
<1>1. PipelineInvariant => NoStalledBacklog
  BY DEF PipelineInvariant
<1>2. QED
  BY <1>1, PipelineIsInvariant, PTL
=============================================================================
