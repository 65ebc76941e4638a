---------------------------- MODULE PromptProofs ----------------------------
(***************************************************************************)
(* Proofs about Coordinator on a prompt runtime, where no tick passes while *)
(* a result waits or an expired upload runs: no chunk is pushed twice at    *)
(* once, no result is stale and no Finalized chunk is reset, for any number *)
(* of blobs, chunks, providers, permits and ticks.                          *)
(***************************************************************************)
EXTENDS DistributionProofs

USE DEF backlog, work, leases, links, record

-----------------------------------------------------------------------------
(* assign_chunks in detail: attempts that begin are about different eligible
   chunks, and these become Inflight; nothing else changes. *)
DealsOf(blob) ==
  /\ \A u \in UploadPermits :
       \/ uploads'[u] = uploads[u]
       \/ /\ uploads[u] = Idle /\ uploads'[u] # Idle
          /\ uploads'[u].hash \in DOMAIN blob.chunks
          /\ IsEligible(blob.chunks[uploads'[u].hash])
          /\ current_blob'.chunks[uploads'[u].hash].tag = "Inflight"
          /\ current_blob'.chunks[uploads'[u].hash].age = 0
          /\ uploads'[u].age = 0
  /\ \A u, v \in UploadPermits :
       /\ uploads[u] = Idle /\ uploads'[u] # Idle
       /\ uploads[v] = Idle /\ uploads'[v] # Idle
       /\ uploads'[u].hash = uploads'[v].hash
       => u = v
  /\ \A h \in DOMAIN blob.chunks :
       current_blob'.chunks[h] # blob.chunks[h] =>
         /\ IsEligible(blob.chunks[h])
         /\ current_blob'.chunks[h].tag = "Inflight"

LEMMA AssignChunksDeals ==
  ASSUME NEW blob \in LocalBlob, NEW permits,
         uploads \in [UploadPermits -> Upload \cup {Idle}],
         AssignChunks(blob, permits)
  PROVE  DealsOf(blob)
<1> DEFINE free == {u \in UploadPermits : uploads[u] = Idle}
           peers == {p \in Peers : permits[p] > 0}
           eligible == {h \in DOMAIN blob.chunks : IsEligible(blob.chunks[h])}
<1>0. /\ blob.id \in Blobs /\ blob # NoBlob
      /\ DOMAIN blob.chunks = Range(Content[blob.id])
  BY LocalBlobShape
<1>1. CASE peers = {}
  <2>1. current_blob' = blob /\ uploads' = uploads
    BY <1>1 DEF AssignChunks
  <2>2. \A u \in UploadPermits : uploads'[u] = uploads[u]
    BY <2>1
  <2>3. \A u \in UploadPermits : ~(uploads[u] = Idle /\ uploads'[u] # Idle)
    BY <2>2
  <2>4. \A h \in DOMAIN blob.chunks : current_blob'.chunks[h] = blob.chunks[h]
    BY <2>1
  <2> HIDE DEF free, peers, eligible
  <2>5. QED
    BY <2>2, <2>3, <2>4, Zenon DEF DealsOf
<1>2. CASE peers # {}
  <2>0. PICK taken \in SUBSET free :
          \E job \in Injection(taken, eligible), to \in [taken -> peers] :
            BeginUploads(blob, job, to)
    BY <1>0, <1>2 DEF AssignChunks
  <2>1. PICK job \in Injection(taken, eligible), to \in [taken -> peers] :
          BeginUploads(blob, job, to)
    BY <2>0
  <2>2. /\ job \in [taken -> eligible] /\ DOMAIN job = taken
        /\ \A u, v \in taken : job[u] = job[v] => u = v
    BY DEF Injection, IsInjective
  <2> DEFINE begun(h) == CHOOSE u \in taken : job[u] = h
             chunks == [h \in DOMAIN blob.chunks |->
                          IF \E u \in taken : job[u] = h
                          THEN Inflight(to[begun(h)]) ELSE blob.chunks[h]]
  <2>3. /\ current_blob' = [id |-> blob.id, chunks |-> chunks]
        /\ uploads' = [u \in UploadPermits |->
             IF u \in taken THEN [hash |-> job[u], to |-> to[u], age |-> 0]
             ELSE uploads[u]]
    BY <2>1, <2>2 DEF BeginUploads
  <2>4. \A h \in DOMAIN blob.chunks : (\E u \in taken : job[u] = h) =>
          /\ IsEligible(blob.chunks[h])
          /\ chunks[h].tag = "Inflight" /\ chunks[h].age = 0
    BY <2>2 DEF Inflight
  <2>5. \A u \in taken :
          /\ uploads[u] = Idle /\ uploads'[u] # Idle
          /\ uploads'[u].hash = job[u] /\ uploads'[u].age = 0
          /\ job[u] \in DOMAIN blob.chunks
    <3> TAKE u \in taken
    <3>1. uploads'[u] = [hash |-> job[u], to |-> to[u], age |-> 0]
      BY <2>3
    <3>2. job[u] \in DOMAIN blob.chunks /\ job[u] \in Hashes /\ to[u] \in Peers
      BY <1>0, <2>2, ContentHashes
    <3>3. uploads'[u] \in Upload
      BY <3>1, <3>2, TimeAssumption DEF Upload
    <3>4. QED
      BY <3>1, <3>2, <3>3, MarkerAssumption
  <2>6. \A u \in UploadPermits \ taken : uploads'[u] = uploads[u]
    BY <2>3
  <2>7. current_blob'.chunks = chunks
    BY <2>3
  <2>8. \A h \in DOMAIN blob.chunks :
          chunks[h] # blob.chunks[h] => \E u \in taken : job[u] = h
    OBVIOUS
  <2> HIDE DEF chunks
  <2>9. ASSUME NEW u \in UploadPermits
        PROVE  \/ uploads'[u] = uploads[u]
               \/ /\ uploads[u] = Idle /\ uploads'[u] # Idle
                  /\ uploads'[u].hash \in DOMAIN blob.chunks
                  /\ IsEligible(blob.chunks[uploads'[u].hash])
                  /\ current_blob'.chunks[uploads'[u].hash].tag = "Inflight"
                  /\ current_blob'.chunks[uploads'[u].hash].age = 0
                  /\ uploads'[u].age = 0
    <3>1. CASE u \in taken
      BY <2>4, <2>5, <2>7, <3>1
    <3>2. CASE u \notin taken
      BY <2>6, <3>2
    <3>3. QED
      BY <3>1, <3>2
  <2>10. ASSUME NEW u \in UploadPermits, NEW v \in UploadPermits,
                uploads[u] = Idle /\ uploads'[u] # Idle,
                uploads[v] = Idle /\ uploads'[v] # Idle,
                uploads'[u].hash = uploads'[v].hash
         PROVE  u = v
    <3>1. u \in taken /\ v \in taken
      BY <2>6, <2>10
    <3>2. QED
      BY <2>2, <2>5, <2>10, <3>1
  <2>11. ASSUME NEW h \in DOMAIN blob.chunks, current_blob'.chunks[h] # blob.chunks[h]
         PROVE  IsEligible(blob.chunks[h]) /\ current_blob'.chunks[h].tag = "Inflight"
    BY <2>4, <2>7, <2>8, <2>11
  <2>12. QED
    BY <2>9, <2>10, <2>11 DEF DealsOf
<1>3. QED
  BY <1>1, <1>2

-----------------------------------------------------------------------------
(* What assign_chunks needs of the blob it deals, and what it keeps. *)

(* Attempts and results are about chunks of blob that wait for them. *)
CurrentFor(blob) ==
  /\ NoDuplicateUpload
  /\ \A u \in UploadPermits : uploads[u] # Idle =>
       /\ uploads[u].hash \in DOMAIN blob.chunks
       /\ blob.chunks[uploads[u].hash].tag = "Inflight"
       /\ blob.chunks[uploads[u].hash].age = uploads[u].age
  /\ \A msg \in UpdateChunkStatus : rx_internal'[msg] > 0 =>
       /\ rx_internal'[msg] = 1
       /\ msg.hash \in DOMAIN blob.chunks
       /\ blob.chunks[msg.hash].tag = "Inflight"
       /\ blob.chunks[msg.hash].age <= WINDOW
       /\ \A u \in UploadPermits : uploads[u] # Idle => uploads[u].hash # msg.hash
       /\ \A other \in UpdateChunkStatus :
            rx_internal'[other] > 0 /\ other.hash = msg.hash => other = msg

Current == NoDuplicateUpload /\ AttemptsAreCurrent /\ ResultsAreCurrent

LEMMA AssignChunksStaysCurrent ==
  ASSUME TypeOK, NEW blob \in LocalBlob, NEW permits,
         AssignChunks(blob, permits), CurrentFor(blob)
  PROVE  Current'
<1>1. AssignmentOf(blob) /\ DealsOf(blob)
  BY AssignChunksAssigns, AssignChunksDeals DEF TypeOK
<1>2. /\ current_blob' \in LocalBlob /\ current_blob' # NoBlob
      /\ DOMAIN current_blob'.chunks = DOMAIN blob.chunks
      /\ \A u \in UploadPermits : uploads[u] # Idle => uploads'[u] = uploads[u]
  BY <1>1, MarkerAssumption DEF AssignmentOf
<1>3. \A u \in UploadPermits : uploads[u] # Idle =>
        uploads[u].age \in 0 .. WINDOW
  BY UploadShape
(* A chunk that is waited for within the window is not dealt again. *)
<1>4. ASSUME NEW h \in DOMAIN blob.chunks, blob.chunks[h].tag = "Inflight",
             blob.chunks[h].age <= WINDOW, blob.chunks[h].age \in Int
      PROVE  ~IsEligible(blob.chunks[h]) /\ current_blob'.chunks[h] = blob.chunks[h]
  <2>1. ~IsEligible(blob.chunks[h])
    BY <1>4, TimeAssumption DEF IsEligible
  <2>2. QED
    BY <1>1, <2>1 DEF DealsOf
<1>5. \A u \in UploadPermits : uploads[u] # Idle =>
        /\ ~IsEligible(blob.chunks[uploads[u].hash])
        /\ current_blob'.chunks[uploads[u].hash] = blob.chunks[uploads[u].hash]
  <2> TAKE u \in UploadPermits
  <2> HAVE uploads[u] # Idle
  <2> DEFINE h == uploads[u].hash
  <2>1. /\ h \in DOMAIN blob.chunks /\ blob.chunks[h].tag = "Inflight"
        /\ blob.chunks[h].age = uploads[u].age
    BY DEF CurrentFor
  <2>2. blob.chunks[h].age <= WINDOW /\ blob.chunks[h].age \in Int
    BY <1>3, <2>1, TimeAssumption
  <2> HIDE DEF h
  <2>3. QED
    BY <1>4, <2>1, <2>2 DEF h
<1>6. \A msg \in UpdateChunkStatus : rx_internal'[msg] > 0 =>
        /\ ~IsEligible(blob.chunks[msg.hash])
        /\ current_blob'.chunks[msg.hash] = blob.chunks[msg.hash]
  <2> TAKE msg \in UpdateChunkStatus
  <2> HAVE rx_internal'[msg] > 0
  <2> DEFINE h == msg.hash
  <2>1. /\ h \in DOMAIN blob.chunks /\ blob.chunks[h].tag = "Inflight"
        /\ blob.chunks[h].age <= WINDOW
    BY DEF CurrentFor
  <2>2. blob.chunks[h] \in ChunkUploadStatus
    BY <2>1, LocalBlobShape
  <2>3. blob.chunks[h].age \in Int
    BY <2>1, <2>2, TimeAssumption DEF ChunkUploadStatus
  <2> HIDE DEF h
  <2>4. QED
    BY <1>4, <2>1, <2>3 DEF h
<1>7. NoDuplicateUpload'
  <2> SUFFICES ASSUME NEW u \in UploadPermits, NEW v \in UploadPermits, u # v,
                      uploads'[u] # Idle, uploads'[v] # Idle,
                      uploads'[u].hash = uploads'[v].hash
               PROVE  FALSE
    BY DEF NoDuplicateUpload
  <2>1. CASE uploads[u] # Idle /\ uploads[v] # Idle
    BY <1>2, <2>1 DEF CurrentFor, NoDuplicateUpload
  <2>2. ASSUME NEW x \in UploadPermits, NEW y \in UploadPermits,
               uploads[x] = Idle, uploads'[x] # Idle, uploads[y] # Idle
        PROVE  uploads'[x].hash # uploads'[y].hash
    <3>1. IsEligible(blob.chunks[uploads'[x].hash])
      BY <1>1, <2>2 DEF DealsOf
    <3>2. ~IsEligible(blob.chunks[uploads[y].hash]) /\ uploads'[y] = uploads[y]
      BY <1>2, <1>5, <2>2
    <3>3. QED
      BY <3>1, <3>2
  <2>3. CASE uploads[u] = Idle /\ uploads[v] = Idle
    BY <1>1, <2>3 DEF DealsOf
  <2>4. QED
    BY <2>1, <2>2, <2>3
<1>8. AttemptsAreCurrent'
  <2> SUFFICES ASSUME NEW u \in UploadPermits, uploads'[u] # Idle
               PROVE  /\ current_blob' # NoBlob
                      /\ uploads'[u].hash \in DOMAIN current_blob'.chunks
                      /\ current_blob'.chunks[uploads'[u].hash].tag = "Inflight"
                      /\ current_blob'.chunks[uploads'[u].hash].age = uploads'[u].age
    BY DEF AttemptsAreCurrent
  <2>1. CASE uploads[u] # Idle
    <3>1. uploads'[u] = uploads[u]
      BY <1>2, <2>1
    <3>2. /\ uploads[u].hash \in DOMAIN blob.chunks
          /\ blob.chunks[uploads[u].hash].tag = "Inflight"
          /\ blob.chunks[uploads[u].hash].age = uploads[u].age
      BY <2>1 DEF CurrentFor
    <3>3. QED
      BY <1>2, <1>5, <2>1, <3>1, <3>2
  <2>2. CASE uploads[u] = Idle
    BY <1>1, <1>2, <2>2 DEF DealsOf
  <2>3. QED
    BY <2>1, <2>2
<1>9. ResultsAreCurrent'
  <2> SUFFICES ASSUME NEW msg \in UpdateChunkStatus, rx_internal'[msg] > 0
               PROVE  /\ rx_internal'[msg] = 1
                      /\ current_blob' # NoBlob
                      /\ msg.hash \in DOMAIN current_blob'.chunks
                      /\ current_blob'.chunks[msg.hash].tag = "Inflight"
                      /\ current_blob'.chunks[msg.hash].age <= WINDOW
                      /\ \A u \in UploadPermits :
                           uploads'[u] # Idle => uploads'[u].hash # msg.hash
                      /\ \A other \in UpdateChunkStatus :
                           rx_internal'[other] > 0 /\ other.hash = msg.hash => other = msg
    BY DEF ResultsAreCurrent
  <2>1. /\ rx_internal'[msg] = 1
        /\ msg.hash \in DOMAIN blob.chunks
        /\ blob.chunks[msg.hash].tag = "Inflight" /\ blob.chunks[msg.hash].age <= WINDOW
        /\ \A u \in UploadPermits : uploads[u] # Idle => uploads[u].hash # msg.hash
        /\ \A other \in UpdateChunkStatus :
             rx_internal'[other] > 0 /\ other.hash = msg.hash => other = msg
    BY DEF CurrentFor
  <2>2. ~IsEligible(blob.chunks[msg.hash])
        /\ current_blob'.chunks[msg.hash] = blob.chunks[msg.hash]
    BY <1>6
  <2>3. ASSUME NEW u \in UploadPermits, uploads'[u] # Idle
        PROVE  uploads'[u].hash # msg.hash
    <3>1. CASE uploads[u] # Idle
      BY <1>2, <2>1, <3>1
    <3>2. CASE uploads[u] = Idle
      <4>1. IsEligible(blob.chunks[uploads'[u].hash])
        BY <1>1, <2>3, <3>2 DEF DealsOf
      <4>2. QED
        BY <2>2, <4>1
    <3>3. QED
      BY <3>1, <3>2
  <2>4. QED
    BY <1>2, <2>1, <2>2, <2>3
<1>10. QED
  BY <1>7, <1>8, <1>9 DEF Current

(* A step that leaves attempts, results and the blob alone keeps them current. *)
LEMMA QuietStepStaysCurrent ==
  ASSUME Current, UNCHANGED <<uploads, current_blob, rx_internal>>
  PROVE  Current'
BY DEF Current, NoDuplicateUpload, AttemptsAreCurrent, ResultsAreCurrent

(* A blob that is put back as it was dealt with stays current. *)
LEMMA UndealtStaysCurrent ==
  ASSUME NEW blob \in LocalBlob, CurrentFor(blob),
         current_blob' = blob, UNCHANGED uploads
  PROVE  Current'
<1>1. NoDuplicateUpload'
  BY DEF CurrentFor, NoDuplicateUpload
<1>2. current_blob' # NoBlob
  BY MarkerAssumption
<1>3. AttemptsAreCurrent'
  BY <1>2 DEF CurrentFor, AttemptsAreCurrent
<1>4. ResultsAreCurrent'
  BY <1>2 DEF CurrentFor, ResultsAreCurrent
<1>5. QED
  BY <1>1, <1>3, <1>4 DEF Current

(* While attempts and results are current for the current blob, so they are
   before it is dealt again. *)
LEMMA CurrentBlobIsCurrent ==
  ASSUME Current, current_blob # NoBlob, UNCHANGED rx_internal
  PROVE  CurrentFor(current_blob)
BY DEF Current, CurrentFor, AttemptsAreCurrent, ResultsAreCurrent

(* Nobody works, and no result waits, for a blob that is stored or absent. *)
AtRest ==
  /\ \A u \in UploadPermits : uploads[u] = Idle
  /\ \A msg \in UpdateChunkStatus : ~(rx_internal[msg] > 0)

LEMMA NothingIsDueAtRest ==
  ASSUME Current,
         current_blob = NoBlob \/ AllFinalized(current_blob.chunks)
  PROVE  AtRest
<1>1. ASSUME NEW u \in UploadPermits, uploads[u] # Idle PROVE FALSE
  <2>1. /\ current_blob # NoBlob /\ uploads[u].hash \in DOMAIN current_blob.chunks
        /\ current_blob.chunks[uploads[u].hash].tag = "Inflight"
    BY <1>1 DEF Current, AttemptsAreCurrent
  <2>2. QED
    BY <2>1 DEF AllFinalized
<1>2. ASSUME NEW msg \in UpdateChunkStatus, rx_internal[msg] > 0 PROVE FALSE
  <2>1. /\ current_blob # NoBlob /\ msg.hash \in DOMAIN current_blob.chunks
        /\ current_blob.chunks[msg.hash].tag = "Inflight"
    BY <1>2 DEF Current, ResultsAreCurrent
  <2>2. QED
    BY <2>1 DEF AllFinalized
<1>3. QED
  BY <1>1, <1>2 DEF AtRest

(* At rest any blob may become the current one. *)
LEMMA AtRestIsCurrent ==
  ASSUME AtRest, UNCHANGED rx_internal
  PROVE  /\ \A blob : CurrentFor(blob)
         /\ UNCHANGED uploads => Current'
BY DEF AtRest, CurrentFor, Current, NoDuplicateUpload, AttemptsAreCurrent,
       ResultsAreCurrent

-----------------------------------------------------------------------------
(* The steps. *)

LEMMA DealingStaysCurrent ==
  ASSUME TypeOK, Current, NEW permits, AssignChunks(current_blob, permits),
         UNCHANGED rx_internal
  PROVE  Current'
<1>1. CASE current_blob = NoBlob
  BY <1>1, QuietStepStaysCurrent DEF AssignChunks
<1>2. CASE current_blob # NoBlob
  <2>1. CurrentFor(current_blob) /\ current_blob \in LocalBlob
    BY <1>2, CurrentBlobIsCurrent DEF TypeOK
  <2>2. QED
    BY <2>1, AssignChunksStaysCurrent
<1>3. QED
  BY <1>1, <1>2

LEMMA HandleUpdateStaysCurrent ==
  ASSUME TypeOK, Current, NEW msg \in UpdateChunkStatus, HandleUpdate(msg)
  PROVE  Current'
<1> DEFINE h == msg.hash
           blob == [current_blob EXCEPT !.chunks[msg.hash] = msg.status]
<1>1. /\ rx_internal[msg] = 1 /\ current_blob # NoBlob /\ h \in DOMAIN current_blob.chunks
      /\ \A u \in UploadPermits : uploads[u] # Idle => uploads[u].hash # h
      /\ \A other \in UpdateChunkStatus :
           rx_internal[other] > 0 /\ other.hash = h => other = msg
  BY DEF HandleUpdate, Current, ResultsAreCurrent
<1>2. /\ current_blob \in LocalBlob /\ msg.status \in ChunkUploadStatus
      /\ rx_internal \in [UpdateChunkStatus -> Nat]
  BY <1>1 DEF TypeOK, UpdateChunkStatus
<1>3. /\ blob \in LocalBlob
      /\ blob.chunks = [current_blob.chunks EXCEPT ![h] = msg.status]
  BY <1>1, <1>2, UpdatedBlob
<1>4. /\ DOMAIN blob.chunks = DOMAIN current_blob.chunks
      /\ \A g \in DOMAIN current_blob.chunks : g # h => blob.chunks[g] = current_blob.chunks[g]
  BY <1>3
<1>5. rx_internal' = [rx_internal EXCEPT ![msg] = @ - 1]
  BY DEF HandleUpdate
<1>6. ASSUME NEW other \in UpdateChunkStatus, rx_internal'[other] > 0
      PROVE  rx_internal'[other] = rx_internal[other] /\ other.hash # h
  <2>1. other # msg
    <3>1. rx_internal'[msg] = 0
      BY <1>1, <1>2, <1>5
    <3>2. QED
      BY <1>6, <3>1
  <2>2. rx_internal'[other] = rx_internal[other]
    BY <1>2, <1>5, <2>1
  <2>3. QED
    BY <1>1, <1>6, <2>1, <2>2
<1> HIDE DEF blob
<1>7. CurrentFor(blob)
  <2>1. NoDuplicateUpload
    BY DEF Current
  <2>2. \A u \in UploadPermits : uploads[u] # Idle =>
          /\ uploads[u].hash \in DOMAIN blob.chunks
          /\ blob.chunks[uploads[u].hash].tag = "Inflight"
          /\ blob.chunks[uploads[u].hash].age = uploads[u].age
    BY <1>1, <1>4 DEF Current, AttemptsAreCurrent
  <2>3. ASSUME NEW other \in UpdateChunkStatus, rx_internal'[other] > 0
        PROVE  /\ rx_internal'[other] = 1
               /\ other.hash \in DOMAIN blob.chunks
               /\ blob.chunks[other.hash].tag = "Inflight"
               /\ blob.chunks[other.hash].age <= WINDOW
               /\ \A u \in UploadPermits : uploads[u] # Idle => uploads[u].hash # other.hash
               /\ \A third \in UpdateChunkStatus :
                    rx_internal'[third] > 0 /\ third.hash = other.hash => third = other
    <3>1. rx_internal'[other] = rx_internal[other] /\ other.hash # h
      BY <1>6, <2>3
    <3>2. /\ rx_internal[other] = 1
          /\ other.hash \in DOMAIN current_blob.chunks
          /\ current_blob.chunks[other.hash].tag = "Inflight"
          /\ current_blob.chunks[other.hash].age <= WINDOW
          /\ \A u \in UploadPermits : uploads[u] # Idle => uploads[u].hash # other.hash
          /\ \A third \in UpdateChunkStatus :
               rx_internal[third] > 0 /\ third.hash = other.hash => third = other
      BY <2>3, <3>1 DEF Current, ResultsAreCurrent
    <3>3. QED
      BY <1>4, <1>6, <3>1, <3>2
  <2>4. QED
    BY <2>1, <2>2, <2>3 DEF CurrentFor
<1>8. \/ current_blob' = blob /\ UNCHANGED uploads
      \/ AssignChunks(blob, storage_permits)
  BY <1>1 DEF HandleUpdate, WithResult, blob
<1>9. QED
  BY <1>3, <1>7, <1>8, UndealtStaysCurrent, AssignChunksStaysCurrent

LEMMA SendFinalizedStaysCurrent ==
  ASSUME TypeOK, NotifiesOfStoredBlob, Current, SendFinalized
  PROVE  Current'
<1> DEFINE next == FirstOf(pending_local_blobs)
<1>1. AtRest
  BY NothingIsDueAtRest DEF NotifiesOfStoredBlob, SendFinalized
<1>2. UNCHANGED rx_internal
  BY DEF SendFinalized
<1>3. next \in LocalBlob \cup {NoBlob}
  BY HeadTailProperties DEF FirstOf, TypeOK
<1>4. UNCHANGED uploads \/ (next # NoBlob /\ AssignChunks(next, storage_permits))
  BY DEF SendFinalized, AssignChunks
<1> HIDE DEF next
<1>5. QED
  BY <1>1, <1>2, <1>3, <1>4, AtRestIsCurrent, AssignChunksStaysCurrent

LEMMA RecvNewBlobStaysCurrent ==
  ASSUME Current, NEW id \in Blobs, RecvNewBlob(id)
  PROVE  Current'
<1>1. UNCHANGED <<uploads, rx_internal>>
  BY DEF RecvNewBlob
<1>2. CASE current_blob # NoBlob
  BY <1>1, <1>2, QuietStepStaysCurrent DEF RecvNewBlob
<1>3. CASE current_blob = NoBlob
  BY <1>1, <1>3, NothingIsDueAtRest, AtRestIsCurrent
<1>4. QED
  BY <1>2, <1>3

(* The one result of an attempt is the first about its chunk. *)
LEMMA ReportStaysCurrent ==
  ASSUME TypeOK, Current, NEW u \in UploadPermits, uploads[u] # Idle,
         NEW status, [hash |-> uploads[u].hash, status |-> status] \in UpdateChunkStatus,
         Reports(u, status)
  PROVE  Current'
<1> DEFINE h == uploads[u].hash
           msg == [hash |-> h, status |-> status]
<1>1. /\ rx_internal' = [rx_internal EXCEPT ![msg] = @ + 1]
      /\ uploads' = [uploads EXCEPT ![u] = Idle]
      /\ UNCHANGED current_blob
  BY DEF Reports
<1>2. /\ msg \in UpdateChunkStatus /\ msg.hash = h
      /\ rx_internal \in [UpdateChunkStatus -> Nat]
      /\ uploads \in [UploadPermits -> Upload \cup {Idle}]
      /\ uploads[u].age \in 0 .. WINDOW
  BY UploadShape DEF TypeOK
<1>3. /\ current_blob # NoBlob /\ h \in DOMAIN current_blob.chunks
      /\ current_blob.chunks[h].tag = "Inflight"
      /\ current_blob.chunks[h].age = uploads[u].age
  BY DEF Current, AttemptsAreCurrent
<1>4. \A v \in UploadPermits :
        IF v = u THEN uploads'[v] = Idle ELSE uploads'[v] = uploads[v]
  BY <1>1, <1>2
<1>5. \A other \in UpdateChunkStatus : other.hash = h => rx_internal[other] = 0
  <2>1. \A other \in UpdateChunkStatus : other.hash = h => ~(rx_internal[other] > 0)
    BY DEF Current, ResultsAreCurrent
  <2>2. QED
    BY <1>2, <2>1
<1>6. \A other \in UpdateChunkStatus :
        rx_internal'[other] = IF other = msg THEN 1 ELSE rx_internal[other]
  <2>1. rx_internal[msg] = 0
    BY <1>2, <1>5
  <2>2. QED
    <3> HIDE DEF msg
    <3>1. QED
      BY <1>1, <1>2, <2>1
<1>7. NoDuplicateUpload'
  BY <1>4 DEF Current, NoDuplicateUpload
<1>8. AttemptsAreCurrent'
  <2>1. \A v \in UploadPermits : uploads'[v] # Idle =>
          uploads'[v] = uploads[v] /\ uploads[v] # Idle
    BY <1>4
  <2>2. QED
    BY <1>1, <2>1 DEF Current, AttemptsAreCurrent
<1>9. \A v \in UploadPermits : uploads'[v] # Idle => uploads'[v].hash # h
  BY <1>4 DEF Current, NoDuplicateUpload
<1> HIDE DEF msg, h
<1>10. ASSUME NEW other \in UpdateChunkStatus, rx_internal'[other] > 0
       PROVE  /\ rx_internal'[other] = 1
              /\ current_blob' # NoBlob
              /\ other.hash \in DOMAIN current_blob'.chunks
              /\ current_blob'.chunks[other.hash].tag = "Inflight"
              /\ current_blob'.chunks[other.hash].age <= WINDOW
              /\ \A v \in UploadPermits : uploads'[v] # Idle => uploads'[v].hash # other.hash
              /\ \A third \in UpdateChunkStatus :
                   rx_internal'[third] > 0 /\ third.hash = other.hash => third = other
  <2>1. CASE other = msg
    <3>1. rx_internal'[other] = 1 /\ other.hash = h
      BY <1>2, <1>6, <2>1
    <3>2. \A third \in UpdateChunkStatus :
            rx_internal'[third] > 0 /\ third.hash = h => third = msg
      BY <1>5, <1>6
    <3>3. current_blob.chunks[h].age <= WINDOW
      BY <1>2, <1>3, TimeAssumption DEF h
    <3>4. QED
      BY <1>1, <1>3, <1>9, <2>1, <3>1, <3>2, <3>3
  <2>2. CASE other # msg
    <3>1. rx_internal'[other] = rx_internal[other] /\ other.hash # h
      BY <1>5, <1>6, <1>10, <2>2
    <3>2. /\ rx_internal[other] = 1
          /\ other.hash \in DOMAIN current_blob.chunks
          /\ current_blob.chunks[other.hash].tag = "Inflight"
          /\ current_blob.chunks[other.hash].age <= WINDOW
          /\ \A v \in UploadPermits : uploads[v] # Idle => uploads[v].hash # other.hash
          /\ \A third \in UpdateChunkStatus :
               rx_internal[third] > 0 /\ third.hash = other.hash => third = other
      BY <1>10, <3>1 DEF Current, ResultsAreCurrent
    <3>3. \A third \in UpdateChunkStatus :
            rx_internal'[third] > 0 /\ third.hash = other.hash => third = other
      BY <1>2, <1>6, <3>1, <3>2
    <3>4. \A v \in UploadPermits : uploads'[v] # Idle => uploads'[v].hash # other.hash
      BY <1>4, <3>2
    <3>5. QED
      BY <1>1, <1>3, <3>1, <3>2, <3>3, <3>4
  <2>3. QED
    BY <2>1, <2>2
<1>11. ResultsAreCurrent'
  BY <1>10 DEF ResultsAreCurrent
<1>12. QED
  BY <1>7, <1>8, <1>11 DEF Current

LEMMA UploadEndsStaysCurrent ==
  ASSUME TypeOK, Current, NEW u \in UploadPermits, UploadEnds(u)
  PROVE  Current'
<1>1. CASE UploadSucceeds(u)
  <2>1. uploads[u] # Idle /\ Reports(u, Finalized(uploads[u].to))
    BY <1>1 DEF UploadSucceeds, Holds
  <2>2. [hash |-> uploads[u].hash, status |-> Finalized(uploads[u].to)] \in UpdateChunkStatus
    BY <2>1, UploadShape, ReportsMessages
  <2>3. QED
    BY <2>1, <2>2, ReportStaysCurrent
<1>2. CASE UploadFails(u)
  <2>1. uploads[u] # Idle /\ Reports(u, Pending)
    BY <1>2 DEF UploadFails, Holds
  <2>2. [hash |-> uploads[u].hash, status |-> Pending] \in UpdateChunkStatus
    BY <2>1, UploadShape, ReportsMessages
  <2>3. QED
    BY <2>1, <2>2, ReportStaysCurrent
<1>3. CASE UploadTimesOut(u)
  <2>1. UNCHANGED <<current_blob, rx_internal>>
        /\ \A v \in UploadPermits : uploads'[v] # Idle =>
             uploads'[v] = uploads[v] /\ uploads[v] # Idle
    BY <1>3 DEF UploadTimesOut, TypeOK
  <2>2. NoDuplicateUpload'
    BY <2>1 DEF Current, NoDuplicateUpload
  <2>3. AttemptsAreCurrent'
    BY <2>1 DEF Current, AttemptsAreCurrent
  <2>4. ResultsAreCurrent'
    BY <2>1 DEF Current, ResultsAreCurrent
  <2>5. QED
    BY <2>2, <2>3, <2>4 DEF Current
<1>4. QED
  BY <1>1, <1>2, <1>3 DEF UploadEnds

(* A chunk and its attempt grow old together, and a tick finds no result. *)
LEMMA PromptTickStaysCurrent ==
  ASSUME TypeOK, Current, PromptTick
  PROVE  Current'
<1>1. /\ \A msg \in UpdateChunkStatus : rx_internal'[msg] = 0
      /\ \A u \in UploadPermits : uploads[u] # Idle => uploads[u].age < WINDOW
  BY DEF PromptTick, UpToDate, Tick
<1>2. ResultsAreCurrent'
  BY <1>1 DEF ResultsAreCurrent
<1>3. ASSUME NEW u \in UploadPermits, uploads'[u] # Idle
      PROVE  /\ uploads[u] # Idle
             /\ uploads'[u].hash = uploads[u].hash
             /\ uploads'[u].age = uploads[u].age + 1
  <2>1. uploads'[u] = IF uploads[u] = Idle THEN Idle
                      ELSE [uploads[u] EXCEPT !.age = AtMost(@ + 1, WINDOW)]
    BY DEF PromptTick, Tick
  <2>2. uploads[u] # Idle
    BY <1>3, <2>1
  <2>3. /\ uploads[u].age \in 0 .. WINDOW /\ uploads[u].age < WINDOW
        /\ uploads[u] = [hash |-> uploads[u].hash, to |-> uploads[u].to,
                         age |-> uploads[u].age]
    BY <1>1, <2>2, UploadShape
  <2>4. AtMost(uploads[u].age + 1, WINDOW) = uploads[u].age + 1
    BY <2>3, TimeAssumption DEF AtMost
  <2>5. uploads'[u] = [hash |-> uploads[u].hash, to |-> uploads[u].to,
                       age |-> AtMost(uploads[u].age + 1, WINDOW)]
    BY <2>1, <2>2, <2>3
  <2>6. QED
    BY <2>2, <2>4, <2>5
<1>4. NoDuplicateUpload'
  BY <1>3 DEF Current, NoDuplicateUpload
<1>5. AttemptsAreCurrent'
  <2> SUFFICES ASSUME NEW u \in UploadPermits, uploads'[u] # Idle
               PROVE  /\ current_blob' # NoBlob
                      /\ uploads'[u].hash \in DOMAIN current_blob'.chunks
                      /\ current_blob'.chunks[uploads'[u].hash].tag = "Inflight"
                      /\ current_blob'.chunks[uploads'[u].hash].age = uploads'[u].age
    BY DEF AttemptsAreCurrent
  <2> DEFINE h == uploads[u].hash
             c == current_blob.chunks[h]
  <2>1. /\ uploads[u] # Idle /\ uploads'[u].hash = h
        /\ uploads'[u].age = uploads[u].age + 1
        /\ uploads[u].age \in 0 .. WINDOW /\ uploads[u].age < WINDOW
    BY <1>1, <1>3, UploadShape
  <2>2. /\ current_blob # NoBlob /\ h \in DOMAIN current_blob.chunks
        /\ c.tag = "Inflight" /\ c.age = uploads[u].age
    BY <2>1 DEF Current, AttemptsAreCurrent
  <2>3. current_blob \in LocalBlob
    BY <2>2 DEF TypeOK
  <2>4. current_blob' = AgedBlob(current_blob)
    BY <2>2 DEF PromptTick, Tick, AgedBlob
  <2>5. /\ current_blob' \in LocalBlob
        /\ current_blob'.chunks = [g \in DOMAIN current_blob.chunks |->
                                     Older(current_blob.chunks[g])]
    BY <2>3, <2>4, AgedBlobIsBlob
  <2>6. current_blob' # NoBlob
    BY <2>5, MarkerAssumption
  <2>7. Older(c).tag = "Inflight" /\ Older(c).age = c.age + 1
    <3>1. c \in ChunkUploadStatus
      BY <2>2, <2>3, LocalBlobShape
    <3>2. c = [tag |-> "Inflight", to |-> c.to, age |-> c.age]
      BY <2>2, <3>1 DEF ChunkUploadStatus
    <3>3. AtMost(c.age + 1, WINDOW + 1) = c.age + 1
      BY <2>1, <2>2, TimeAssumption DEF AtMost
    <3>4. Older(c) = [tag |-> "Inflight", to |-> c.to, age |-> AtMost(c.age + 1, WINDOW + 1)]
      <4> HIDE DEF c
      <4>1. QED
        BY <2>2, <3>2 DEF Older
    <3>5. QED
      BY <3>3, <3>4
  <2>8. current_blob'.chunks[h] = Older(c) /\ h \in DOMAIN current_blob'.chunks
    BY <2>2, <2>5
  <2> HIDE DEF c, h
  <2>9. QED
    BY <2>1, <2>2, <2>6, <2>7, <2>8
<1>6. QED
  BY <1>2, <1>4, <1>5 DEF Current

(* Nothing is under way at the start. *)
LEMMA InitCurrent == Init => Current
BY DEF Init, Current, NoDuplicateUpload, AttemptsAreCurrent, ResultsAreCurrent

(* Every prompt step is a step. *)
LEMMA PromptStepsAreSteps == [PromptNext]_vars => [Next]_vars
BY DEF PromptNext, PromptTick, Next

LEMMA NextCurrent ==
  ASSUME PipelineInvariant, Current, [PromptNext]_vars
  PROVE  Current'
<1>0. TypeOK /\ NotifiesOfStoredBlob
  BY DEF PipelineInvariant
<1>1. CASE TimerAssign
  BY <1>0, <1>1, DealingStaysCurrent DEF TimerAssign
<1>2. ASSUME NEW p \in Peers, NEW v \in ValidFor, RecvStoragePermit(p, v) PROVE Current'
  <2>1. AssignChunks(current_blob, storage_permits') /\ UNCHANGED rx_internal
    BY <1>2 DEF RecvStoragePermit
  <2>2. QED
    BY <1>0, <2>1, DealingStaysCurrent
<1>3. ASSUME NEW id \in Blobs, RecvNewBlob(id) PROVE Current'
  BY <1>3, RecvNewBlobStaysCurrent
<1>4. ASSUME NEW msg \in UpdateChunkStatus, HandleUpdate(msg) PROVE Current'
  BY <1>0, <1>4, HandleUpdateStaysCurrent
<1>5. CASE SendFinalized
  BY <1>0, <1>5, SendFinalizedStaysCurrent
<1>6. CASE SendPermitRequest
  <2>1. CASE pc = "request_then_assign"
    BY <1>0, <1>6, <2>1, DealingStaysCurrent DEF SendPermitRequest
  <2>2. CASE pc # "request_then_assign"
    BY <1>6, <2>2, QuietStepStaysCurrent DEF SendPermitRequest
  <2>3. QED
    BY <2>1, <2>2
<1>7. ASSUME NEW u \in UploadPermits, UploadEnds(u) PROVE Current'
  BY <1>0, <1>7, UploadEndsStaysCurrent
<1>8. CASE PromptTick
  BY <1>0, <1>8, PromptTickStaysCurrent
<1>9. CASE UNCHANGED <<uploads, current_blob, rx_internal>>
  BY <1>9, QuietStepStaysCurrent
<1>10. CASE UNCHANGED vars
  BY <1>9, <1>10 DEF vars
<1>11. CASE TimerStale \/ Stop \/ SwarmRequests \/ BridgeUpdates \/ RequestShutdown
  BY <1>9, <1>11 DEF TimerStale, Stop, SwarmRequests, BridgeUpdates, RequestShutdown
<1>12. ASSUME NEW p \in Peers, RecvWouldStore(p) \/ RequestFails(p) PROVE Current'
  BY <1>9, <1>12 DEF RecvWouldStore, RequestFails
<1>13. ASSUME NEW id \in RemoteIds, RecvGetBlob(id) PROVE Current'
  BY <1>9, <1>13 DEF RecvGetBlob
<1>14. QED
  BY <1>1, <1>2, <1>3, <1>4, <1>5, <1>6, <1>7, <1>8, <1>10, <1>11, <1>12, <1>13
     DEF PromptNext, CoordinatorStep, UploadStep, EnvironmentStep, Halted

-----------------------------------------------------------------------------
(* No blob comes twice, so the next blob is another one. *)

DistinctIds == \A i, j \in 1 .. Len(Queue) : Queue[i] = Queue[j] => i = j

LEMMA DistinctIdsStay ==
  ASSUME DistributionInvariant, DistinctIds, Stays \/ Accepts \/ Finishes \/ GivesUp
  PROVE  DistinctIds'
<1>0. /\ Queue \in Seq(Blobs) /\ Len(Queue) \in Nat /\ DOMAIN Queue = 1 .. Len(Queue)
      /\ \A id \in Range(Queue) : id \in Range(submitted)
  BY QueueTypes, LenProperties DEF DistributionInvariant, PipelineInvariant, KnownIds
<1>1. CASE Stays
  BY <1>1 DEF Stays, DistinctIds
<1>2. CASE Accepts
  <2>1. PICK id \in Blobs : id \notin Range(submitted) /\ Queue' = Append(Queue, id)
    BY <1>2 DEF Accepts
  <2>2. \A i \in 1 .. Len(Queue) : Queue[i] # id
    BY <1>0, <2>1 DEF Range
  <2>3. /\ Len(Queue') = Len(Queue) + 1 /\ Queue'[Len(Queue) + 1] = id
        /\ \A i \in 1 .. Len(Queue) : Queue'[i] = Queue[i]
    BY <1>0, <2>1, AppendProperties
  <2>4. \A i \in 1 .. Len(Queue) + 1 : i \in 1 .. Len(Queue) \/ i = Len(Queue) + 1
    BY <1>0
  <2>5. QED
    BY <2>2, <2>3, <2>4 DEF DistinctIds
<1>3. CASE Queue # <<>> /\ Queue' = Tail(Queue)
  <2>1. /\ Len(Queue') = Len(Queue) - 1
        /\ \A i \in 1 .. Len(Queue) - 1 : Queue'[i] = Queue[i + 1]
    BY <1>0, <1>3, HeadTailProperties
  <2>2. \A i \in 1 .. Len(Queue) - 1 : i + 1 \in 1 .. Len(Queue) /\ i \in Int
    BY <1>0
  <2> SUFFICES ASSUME NEW i \in 1 .. Len(Queue'), NEW j \in 1 .. Len(Queue'),
                      Queue'[i] = Queue'[j]
               PROVE  i = j
    BY DEF DistinctIds
  <2>3. Queue[i + 1] = Queue[j + 1]
    BY <2>1
  <2>4. i + 1 = j + 1
    BY <2>1, <2>2, <2>3 DEF DistinctIds
  <2>5. QED
    BY <2>1, <2>2, <2>4
<1>4. QED
  BY <1>1, <1>2, <1>3 DEF Finishes, GivesUp

(* The blob that is distributed is the first of the queue. *)
LEMMA FirstOfQueue ==
  ASSUME NEW blob \in LocalBlob, NEW waiting \in Seq(LocalBlob),
         NEW queue, queue = <<blob.id>> \o IdsOf(waiting)
  PROVE  queue[1] = blob.id /\ Len(queue) \in Nat \ {0}
<1>1. <<blob.id>> \in Seq(Blobs) /\ Len(<<blob.id>>) = 1 /\ <<blob.id>>[1] = blob.id
  BY LocalBlobShape
<1>2. IdsOf(waiting) \in Seq(Blobs) /\ Len(IdsOf(waiting)) \in Nat
  BY IdsOfBlobs, LenProperties
<1> DEFINE first == <<blob.id>>
           rest == IdsOf(waiting)
<1> HIDE DEF first, rest
<1>3. /\ Len(first \o rest) = Len(first) + Len(rest)
      /\ \A i \in 1 .. Len(first) + Len(rest) :
           (first \o rest)[i] = IF i <= Len(first) THEN first[i] ELSE rest[i - Len(first)]
  BY <1>1, <1>2, ConcatProperties DEF first, rest
<1>4. Len(first) = 1 /\ first[1] = blob.id /\ Len(rest) \in Nat
  BY <1>1, <1>2 DEF first, rest
<1>5. Len(first) + Len(rest) \in Nat \ {0} /\ 1 \in 1 .. Len(first) + Len(rest) /\ 1 <= 1
  BY <1>4
<1>6. (first \o rest)[1] = blob.id
  BY <1>3, <1>4, <1>5
<1>7. queue = first \o rest
  BY DEF first, rest
<1>8. QED
  BY <1>3, <1>5, <1>6, <1>7

LEMMA SendFinalizedMovesOn ==
  ASSUME PipelineInvariant, TypeOK', DistinctIds, SendFinalized, current_blob' # NoBlob
  PROVE  current_blob'.id # current_blob.id
<1>1. Queue # <<>> /\ Queue' = Tail(Queue)
  BY SendFinalizedFinishes DEF Finishes, GivesUp
<1>2. /\ current_blob \in LocalBlob /\ pending_local_blobs \in Seq(LocalBlob)
      /\ current_blob # NoBlob
  BY DEF PipelineInvariant, TypeOK, NotifiesOfStoredBlob, SendFinalized
<1>3. Queue[1] = current_blob.id /\ Queue \in Seq(Blobs)
  <2>1. Queue = <<current_blob.id>> \o IdsOf(pending_local_blobs)
    BY <1>2 DEF Queue, InPipeline
  <2>2. QED
    BY <1>2, <2>1, FirstOfQueue, QueueTypes DEF PipelineInvariant
<1>4. Queue'[1] = current_blob'.id /\ Len(Queue') \in Nat \ {0}
  <2> DEFINE blob == current_blob'
             waiting == pending_local_blobs'
             queue == Queue'
  <2>1. blob \in LocalBlob /\ waiting \in Seq(LocalBlob)
    BY DEF TypeOK
  <2>2. queue = <<blob.id>> \o IdsOf(waiting)
    BY DEF Queue, InPipeline, IdsOf
  <2> HIDE DEF blob, waiting, queue
  <2>3. queue[1] = blob.id /\ Len(queue) \in Nat \ {0}
    BY <2>1, <2>2, FirstOfQueue
  <2>4. QED
    BY <2>3 DEF blob, queue
<1>5. /\ Len(Queue) \in Nat /\ Len(Queue') = Len(Queue) - 1
      /\ \A i \in 1 .. Len(Queue) - 1 : Queue'[i] = Queue[i + 1]
  BY <1>1, <1>3, HeadTailProperties, LenProperties
<1>6. 1 \in 1 .. Len(Queue) - 1 /\ 1 \in 1 .. Len(Queue) /\ 2 \in 1 .. Len(Queue)
  BY <1>4, <1>5
<1>7. Queue'[1] = Queue[2]
  BY <1>5, <1>6
<1>8. QED
  BY <1>3, <1>4, <1>6, <1>7 DEF DistinctIds

-----------------------------------------------------------------------------
(* What is finalized stays finalized. *)

PromptInvariant == DistributionInvariant /\ Current /\ DistinctIds

FinalizedStays ==
  \A h \in Hashes :
    /\ current_blob # NoBlob /\ current_blob' # NoBlob
    /\ current_blob'.id = current_blob.id
    /\ h \in DOMAIN current_blob.chunks
    /\ current_blob.chunks[h].tag = "Finalized"
    => current_blob'.chunks[h].tag = "Finalized"

LEMMA DealingKeepsFinalized ==
  ASSUME TypeOK, NEW blob \in LocalBlob, NEW permits, AssignChunks(blob, permits),
         NEW h \in DOMAIN blob.chunks, blob.chunks[h].tag = "Finalized"
  PROVE  current_blob'.chunks[h].tag = "Finalized"
<1>1. DealsOf(blob)
  BY AssignChunksDeals DEF TypeOK
<1>2. ~IsEligible(blob.chunks[h])
  BY DEF IsEligible
<1>3. QED
  BY <1>1, <1>2 DEF DealsOf

LEMMA DealingCurrentKeepsFinalized ==
  ASSUME TypeOK, NEW permits, AssignChunks(current_blob, permits)
  PROVE  FinalizedStays
<1> SUFFICES ASSUME NEW h \in Hashes, current_blob # NoBlob,
                    h \in DOMAIN current_blob.chunks,
                    current_blob.chunks[h].tag = "Finalized"
             PROVE  current_blob'.chunks[h].tag = "Finalized"
  BY DEF FinalizedStays
<1>1. current_blob \in LocalBlob
  BY DEF TypeOK
<1>2. QED
  BY <1>1, DealingKeepsFinalized

LEMMA HandleUpdateKeepsFinalized ==
  ASSUME TypeOK, Current, NEW msg \in UpdateChunkStatus, HandleUpdate(msg)
  PROVE  FinalizedStays
<1> SUFFICES ASSUME NEW h \in Hashes, h \in DOMAIN current_blob.chunks,
                    current_blob.chunks[h].tag = "Finalized"
             PROVE  current_blob'.chunks[h].tag = "Finalized"
  BY DEF FinalizedStays
<1> DEFINE blob == [current_blob EXCEPT !.chunks[msg.hash] = msg.status]
<1>1. /\ current_blob # NoBlob /\ msg.hash \in DOMAIN current_blob.chunks
      /\ current_blob.chunks[msg.hash].tag = "Inflight"
  BY DEF HandleUpdate, Current, ResultsAreCurrent
<1>2. current_blob \in LocalBlob /\ msg.status \in ChunkUploadStatus
  BY <1>1 DEF TypeOK, UpdateChunkStatus
<1>3. /\ blob \in LocalBlob
      /\ blob.chunks = [current_blob.chunks EXCEPT ![msg.hash] = msg.status]
  BY <1>1, <1>2, UpdatedBlob
<1>4. h \in DOMAIN blob.chunks /\ blob.chunks[h].tag = "Finalized"
  BY <1>1, <1>3
<1>5. current_blob' = blob \/ AssignChunks(blob, storage_permits)
  BY <1>1 DEF HandleUpdate, WithResult
<1> HIDE DEF blob
<1>6. QED
  BY <1>3, <1>4, <1>5, DealingKeepsFinalized

LEMMA TickKeepsFinalized ==
  ASSUME TypeOK, Tick
  PROVE  FinalizedStays
<1> SUFFICES ASSUME NEW h \in Hashes, current_blob # NoBlob,
                    h \in DOMAIN current_blob.chunks,
                    current_blob.chunks[h].tag = "Finalized"
             PROVE  current_blob'.chunks[h].tag = "Finalized"
  BY DEF FinalizedStays
<1>1. current_blob \in LocalBlob /\ current_blob' = AgedBlob(current_blob)
  BY DEF TypeOK, Tick, AgedBlob
<1>2. current_blob'.chunks[h] = Older(current_blob.chunks[h])
  BY <1>1, AgedBlobIsBlob
<1>3. QED
  BY <1>2 DEF Older

LEMMA NextKeepsFinalized ==
  ASSUME PromptInvariant, TypeOK', [PromptNext]_vars
  PROVE  FinalizedStays
<1>0. PipelineInvariant /\ TypeOK /\ Current /\ DistinctIds
  BY DEF PromptInvariant, DistributionInvariant, PipelineInvariant
<1>1. CASE UNCHANGED current_blob
  BY <1>1 DEF FinalizedStays
<1>2. CASE TimerAssign
  BY <1>0, <1>2, DealingCurrentKeepsFinalized DEF TimerAssign
<1>3. ASSUME NEW p \in Peers, NEW v \in ValidFor, RecvStoragePermit(p, v)
      PROVE  FinalizedStays
  <2>1. AssignChunks(current_blob, storage_permits')
    BY <1>3 DEF RecvStoragePermit
  <2>2. QED
    BY <1>0, <2>1, DealingCurrentKeepsFinalized
<1>4. ASSUME NEW id \in Blobs, RecvNewBlob(id) PROVE FinalizedStays
  BY <1>1, <1>4 DEF RecvNewBlob, FinalizedStays
<1>5. ASSUME NEW msg \in UpdateChunkStatus, HandleUpdate(msg) PROVE FinalizedStays
  BY <1>0, <1>5, HandleUpdateKeepsFinalized
<1>6. CASE SendFinalized
  BY <1>0, <1>6, SendFinalizedMovesOn DEF FinalizedStays
<1>7. CASE SendPermitRequest
  BY <1>0, <1>1, <1>7, DealingCurrentKeepsFinalized DEF SendPermitRequest
<1>8. CASE PromptTick
  BY <1>0, <1>8, TickKeepsFinalized DEF PromptTick
<1>9. ASSUME NEW u \in UploadPermits, UploadEnds(u) PROVE FinalizedStays
  BY <1>1, <1>9 DEF UploadEnds, UploadSucceeds, UploadFails, UploadTimesOut, Reports
<1>10. CASE UNCHANGED vars
  BY <1>1, <1>10 DEF vars
<1>11. CASE TimerStale \/ Stop \/ SwarmRequests \/ BridgeUpdates \/ RequestShutdown
  BY <1>1, <1>11 DEF TimerStale, Stop, SwarmRequests, BridgeUpdates, RequestShutdown
<1>12. ASSUME NEW p \in Peers, RecvWouldStore(p) \/ RequestFails(p) PROVE FinalizedStays
  BY <1>1, <1>12 DEF RecvWouldStore, RequestFails
<1>13. ASSUME NEW id \in RemoteIds, RecvGetBlob(id) PROVE FinalizedStays
  BY <1>1, <1>13 DEF RecvGetBlob
<1>14. QED
  BY <1>2, <1>3, <1>4, <1>5, <1>6, <1>7, <1>8, <1>9, <1>10, <1>11, <1>12, <1>13
     DEF PromptNext, CoordinatorStep, UploadStep, EnvironmentStep, Halted

LEMMA NextPromptInvariant ==
  ASSUME PromptInvariant, [PromptNext]_vars
  PROVE  PromptInvariant' /\ FinalizedStays
<1>1. DistributionInvariant /\ PipelineInvariant /\ [Next]_vars
  BY PromptStepsAreSteps DEF PromptInvariant, DistributionInvariant
<1>2. DistributionInvariant'
  BY <1>1, NextDistributionInvariant
<1>3. Current'
  BY <1>1, NextCurrent DEF PromptInvariant
<1>4. DistinctIds'
  BY <1>1, EveryStep, DistinctIdsStay DEF PromptInvariant
<1>5. FinalizedStays
  BY <1>2, NextKeepsFinalized DEF DistributionInvariant, PipelineInvariant
<1>6. QED
  BY <1>2, <1>3, <1>4, <1>5 DEF PromptInvariant

-----------------------------------------------------------------------------
(* The theorems. *)

THEOREM PromptInvariantHolds == PromptSpec => []PromptInvariant
<1>1. ASSUME Init PROVE PromptInvariant
  <2>1. Queue = <<>>
    <3>1. <<>> \o <<>> = <<>> /\ IdsOf(<<>>) = <<>>
      BY EmptySeq, ConcatEmptySeq DEF IdsOf
    <3>2. QED
      BY <1>1, <3>1 DEF Init, Queue, InPipeline
  <2>2. DistinctIds
    BY <2>1 DEF DistinctIds
  <2>3. QED
    BY <1>1, <2>2, InitDistributes, InitCurrent DEF PromptInvariant
<1>2. QED
  BY <1>1, NextPromptInvariant, PTL DEF PromptSpec

(* On a prompt runtime no chunk is pushed twice at the same time. *)
THEOREM NoChunkIsPushedTwice == PromptSpec => []NoDuplicateUpload
<1>1. PromptInvariant => NoDuplicateUpload
  BY DEF PromptInvariant, Current
<1>2. QED
  BY <1>1, PromptInvariantHolds, PTL

(* On a prompt runtime every result is the only one for a chunk that waits. *)
THEOREM NoResultIsStale == PromptSpec => []ResultsAreCurrent
<1>1. PromptInvariant => ResultsAreCurrent
  BY DEF PromptInvariant, Current
<1>2. QED
  BY <1>1, PromptInvariantHolds, PTL

(* On a prompt runtime a finalized chunk stays finalized. *)
THEOREM FinalizedChunksStay == PromptSpec => FinalizedIsFinal
BY PromptInvariantHolds, NextPromptInvariant, PTL
DEF PromptSpec, FinalizedIsFinal, FinalizedStays
=============================================================================
