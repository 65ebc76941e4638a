---------------------------- MODULE Coordinator ----------------------------
(***************************************************************************)
(* The distribution pipeline of a Gozara client, bin/client/src/           *)
(* coordinator.rs: the task that takes admitted blobs one at a time, pushes *)
(* their chunks to storage providers that issued a permit, and reports a    *)
(* blob as Finalized to the HTTP bridge when every chunk is stored.         *)
(*                                                                         *)
(* Actors.  The coordinator task runs one arm of its select! loop at a     *)
(* time; an arm that awaits a bounded channel leaves the loop until the    *)
(* channel accepts (pc).  Every upload is a spawned task that races with   *)
(* the coordinator: it shares no state with it but its upload permit and   *)
(* the unbounded channel rx_internal.  The swarm task and the bridge task  *)
(* drain the bounded channels; the providers gossip, answer and acknowledge.*)
(*                                                                         *)
(* Time.  An Instant is kept as the number of ticks since it (age) or left *)
(* until it (ttl), saturating where the code no longer tells values apart. *)
(* A tick stands for CHUNK_UPLOAD_WINDOW / WINDOW seconds.                 *)
(***************************************************************************)
EXTENDS Integers, Sequences, FiniteSets, Functions

CONSTANTS
  Blobs,          (* ids of the blobs the bridge may admit                     *)
  RemoteIds,      (* ids the bridge may ask to gather, known locally or not    *)
  Hashes,         (* blake3 hashes of chunks                                   *)
  Content,        (* Content[id] is the sequence of chunk hashes of blob id    *)
  Peers,          (* storage providers                                         *)
  UploadPermits,  (* the permits of the upload_allowance semaphore             *)
  WINDOW,         (* CHUNK_UPLOAD_WINDOW in ticks                              *)
  DECAY,          (* STORAGE_PROVIDER_DECAY in ticks                           *)
  ValidFor,       (* the validities a provider may put in a permit, in ticks   *)
  InstantRoom,    (* now + d overflows an Instant for every d above this       *)
  SwarmCap,       (* capacity of the tx_swarm channel                          *)
  BridgeCap,      (* capacity of the tx_bridge channel                         *)
  MaxInternal,    (* bound on equal messages in rx_internal, none in the code  *)
  NoBlob, Idle    (* None of current_blob, and a permit no task holds          *)

VARIABLES
  pc,                      (* where the coordinator task stands                *)
  closing,                 (* shutdown is requested or a neighbour task ended  *)
  remote_blobs,            (* ids of the remote blobs to gather                *)
  pending_local_blobs,     (* local blobs waiting for their turn               *)
  current_blob,            (* the local blob being distributed, or NoBlob      *)
  storage_provider_hints,  (* provider -> age of its last WouldStore           *)
  storage_permits,         (* provider -> ttl of its permit, 0 if none valid   *)
  uploads,                 (* permit -> the upload task that holds it, or Idle *)
  rx_internal,             (* UpdateChunkStatus message -> how many wait       *)
  tx_swarm,                (* RequestStoragePermits messages to the swarm      *)
  tx_bridge,               (* ids of UpdateStatus(Finalized) to the bridge     *)
  asked,                   (* providers with an unanswered permit request      *)
  acked,                   (* <<provider, hash>> pushes acknowledged by peers  *)
  submitted,               (* ids handed over by the bridge, in order          *)
  reported                 (* ids the bridge was told are Finalized, in order  *)

backlog == <<remote_blobs, pending_local_blobs>>
work == <<current_blob, uploads>>
leases == <<storage_provider_hints, storage_permits>>
links == <<rx_internal, tx_swarm, tx_bridge, asked>>
record == <<acked, submitted, reported>>
vars == <<pc, closing, backlog, work, leases, links, record>>

-----------------------------------------------------------------------------
(* Types. *)

ChunkUploadStatus ==
  [tag : {"Pending"}]
    \cup [tag : {"Inflight"}, to : Peers, age : 0..(WINDOW + 1)]
    \cup [tag : {"Finalized"}, owner : Peers]

LocalBlob ==
  UNION {[id : {i}, chunks : [Range(Content[i]) -> ChunkUploadStatus]] : i \in Blobs}

Upload == [hash : Hashes, to : Peers, age : 0..WINDOW]

UpdateChunkStatus ==
  [hash : Hashes,
   status : {s \in ChunkUploadStatus : s.tag \in {"Pending", "Finalized"}}]

ASSUME ContentAssumption ==
  Content \in [Blobs -> {s \in Seq(Hashes) : s # <<>>}]
ASSUME TimeAssumption ==
  /\ WINDOW \in Nat
  /\ DECAY \in Nat
  /\ ValidFor \subseteq Nat
  /\ InstantRoom \in Nat
ASSUME CapacityAssumption ==
  /\ SwarmCap \in Nat \ {0}
  /\ BridgeCap \in Nat \ {0}
  /\ MaxInternal \in Nat \ {0}
ASSUME PermitAssumption == IsFiniteSet(UploadPermits)
ASSUME MarkerAssumption ==
  /\ NoBlob \notin LocalBlob
  /\ Idle \notin Upload

-----------------------------------------------------------------------------
(* Chunk states and time. *)

Pending == [tag |-> "Pending"]
Inflight(p) == [tag |-> "Inflight", to |-> p, age |-> 0]
Finalized(p) == [tag |-> "Finalized", owner |-> p]

AtMost(n, cap) == IF n < cap THEN n ELSE cap

(* A chunk may be assigned when it is Pending, or Inflight for longer than
   the upload window: nobody tells the coordinator of an upload that timed
   out. *)
IsEligibleEarly(c) ==  (* mutant: at the window, not after it *)
  \/ c.tag = "Pending"
  \/ c.tag = "Inflight" /\ c.age >= WINDOW

IsEligibleOnce(c) == c.tag = "Pending"  (* mutant: never again *)

IsEligible(c) ==
  \/ c.tag = "Pending"
  \/ c.tag = "Inflight" /\ c.age > WINDOW

AnyFinalized(chunks) ==  (* mutant: any() for all() *)
  \E h \in DOMAIN chunks : chunks[h].tag = "Finalized"

AllFinalized(chunks) == \A h \in DOMAIN chunks : chunks[h].tag = "Finalized"

(* Instant::now().checked_add(valid_for).unwrap_or(now): a validity that
   overflows expires at once. *)
ExpiresIn(validFor) == IF validFor > InstantRoom THEN 0 ELSE validFor

(* The chunks of an admitted blob are collected into a map by hash, so equal
   chunks become one entry. *)
NewLocalBlobShort(id) ==  (* mutant: the first chunk is skipped *)
  [id |-> id, chunks |-> [h \in Range(Tail(Content[id])) |-> Pending]]

NewLocalBlob(id) ==
  [id |-> id, chunks |-> [h \in Range(Content[id]) |-> Pending]]

FirstOf(blobs) == IF blobs = <<>> THEN NoBlob ELSE Head(blobs)
RestOfPeeked(blobs) == blobs  (* mutant: front() for pop_front() *)
RestOf(blobs) == IF blobs = <<>> THEN <<>> ELSE Tail(blobs)

-----------------------------------------------------------------------------
(* Operations of Pipeline. *)

(* request_storage_permits asks every hinted provider, unless there is none
   or a permit is still valid.  The hints themselves are not checked. *)
MustRequestPermits(hints) ==
  /\ DOMAIN hints # {}
  /\ \A p \in Peers : storage_permits[p] = 0

(* num of the eligible chunks, chosen by the iteration order of a HashMap, go
   to the peers with a valid permit in turn, starting at the first of an
   equally arbitrary order: no two peers' shares differ by more than one.
   Each assigned chunk takes a permit and a task that owns it. *)
InTurn(to, peers) ==
  \A p, q \in peers :
    Cardinality({u \in DOMAIN to : to[u] = p})
      <= Cardinality({u \in DOMAIN to : to[u] = q}) + 1

BeginUploads(blob, job, to) ==
  /\ current_blob' = [id |-> blob.id,
       chunks |-> [h \in DOMAIN blob.chunks |->
         IF \E u \in DOMAIN job : job[u] = h
         THEN Inflight(to[CHOOSE u \in DOMAIN job : job[u] = h])
         ELSE blob.chunks[h]]]
  /\ uploads' = [u \in UploadPermits |->
       IF u \in DOMAIN job THEN [hash |-> job[u], to |-> to[u], age |-> 0]
       ELSE uploads[u]]

AssignChunks(blob, permits) ==
  LET free == {u \in UploadPermits : uploads[u] = Idle}
      peers == {p \in Peers : permits[p] > 0}
      eligible == {h \in DOMAIN blob.chunks : IsEligible(blob.chunks[h])}
      num == AtMost(Cardinality(free), Cardinality(eligible))
  IN IF blob = NoBlob \/ peers = {}
     THEN current_blob' = blob /\ UNCHANGED uploads
     ELSE \E taken \in SUBSET free :
            /\ Cardinality(taken) = num
            /\ \E job \in Injection(taken, eligible), to \in [taken -> peers] :
                 InTurn(to, peers) /\ BeginUploads(blob, job, to)

-----------------------------------------------------------------------------
(* The arms of the coordinator's select! loop. *)

Selecting == pc = "select"
Running == pc # "stopped"

(* timer_stale: purge decayed hints, ask for permits if a blob needs them. *)
TimerStale ==
  /\ Selecting
  /\ LET fresh == {p \in DOMAIN storage_provider_hints :
                     storage_provider_hints[p] < DECAY}
     IN /\ storage_provider_hints' = Restrict(storage_provider_hints, fresh)
        /\ pc' = IF current_blob # NoBlob /\ MustRequestPermits(storage_provider_hints')
                 THEN "request" ELSE "select"
  /\ UNCHANGED <<closing, backlog, work, storage_permits, links, record>>

(* timer_assign. *)
TimerAssign ==
  /\ Selecting
  /\ AssignChunks(current_blob, storage_permits)
  /\ UNCHANGED <<pc, closing, backlog, leases, links, record>>

(* HandlerMessage::WouldStore, gossiped by provider p. *)
RecvWouldStore(p) ==
  /\ Selecting
  /\ storage_provider_hints' =
       [q \in DOMAIN storage_provider_hints \cup {p} |->
          IF q = p THEN 0 ELSE storage_provider_hints[q]]
  /\ UNCHANGED <<pc, closing, backlog, work, storage_permits, links, record>>

(* HandlerMessage::Response with IssuedStoragePermit, from an asked provider. *)
RecvStoragePermit(p, validFor) ==
  /\ Selecting
  /\ p \in asked
  /\ asked' = asked \ {p}
  /\ storage_permits' = [storage_permits EXCEPT ![p] = ExpiresIn(validFor)]
  /\ AssignChunks(current_blob, storage_permits')
  /\ UNCHANGED <<pc, closing, backlog, storage_provider_hints, rx_internal,
                 tx_swarm, tx_bridge, record>>

(* ToPipeline::GetBlob: a fresh, empty RemoteBlob replaces any earlier one. *)
RecvGetBlob(id) ==
  /\ Selecting
  /\ remote_blobs' = remote_blobs \cup {id}
  /\ UNCHANGED <<pc, closing, pending_local_blobs, work, leases, links,
                 record>>

(* ToPipeline::NewBlob: add_local_blob, then begin_next_blob. *)
RecvNewBlob(id) ==
  /\ Selecting
  /\ id \notin Range(submitted)
  /\ submitted' = Append(submitted, id)
  /\ LET blobs == Append(pending_local_blobs, NewLocalBlob(id))
     IN IF current_blob # NoBlob
        THEN /\ pending_local_blobs' = blobs
             /\ UNCHANGED <<pc, current_blob>>
        ELSE /\ pending_local_blobs' = Tail(blobs)
             /\ current_blob' = Head(blobs)
             /\ pc' = IF MustRequestPermits(storage_provider_hints)
                      THEN "request" ELSE "select"
  /\ UNCHANGED <<closing, remote_blobs, leases, uploads, links, acked,
                 reported>>

(* The entry of the chunk a result names becomes the status the result
   carries. *)
WithResultInPlace(blob, msg) ==  (* mutant: owned by whom it is Inflight to now *)
  [blob EXCEPT !.chunks[msg.hash] =
     IF msg.status.tag = "Finalized" /\ @.tag = "Inflight"
     THEN Finalized(@.to) ELSE msg.status]

WithResult(blob, msg) == [blob EXCEPT !.chunks[msg.hash] = msg.status]

(* InternalMessage::UpdateChunkStatus.  The message names a chunk by its hash
   only: a result that no current chunk waits for is dropped, any other is
   applied to the current blob, whichever blob or attempt it came from.  An
   upload task frees its permit before it sends its one message, so messages
   of two tasks may come in either order, whichever ended first. *)
HandleUpdate(msg) ==
  /\ Selecting
  /\ rx_internal[msg] > 0
  /\ rx_internal' = [rx_internal EXCEPT ![msg] = @ - 1]
  /\ LET blob == WithResult(current_blob, msg)
     IN IF current_blob = NoBlob \/ msg.hash \notin DOMAIN current_blob.chunks
        THEN UNCHANGED <<pc, work>>
        ELSE IF msg.status.tag = "Pending"
        THEN current_blob' = blob /\ UNCHANGED <<pc, uploads>>
        ELSE IF AllFinalized(blob.chunks)
        THEN current_blob' = blob /\ pc' = "notify" /\ UNCHANGED uploads
        ELSE AssignChunks(blob, storage_permits) /\ UNCHANGED pc
  /\ UNCHANGED <<closing, backlog, leases, tx_swarm, tx_bridge, asked, record>>

(* A send on a bounded channel: it waits for room, and only a closed channel
   makes it fail. *)
SendToBridge(id) ==
  \/ Len(tx_bridge) < BridgeCap /\ tx_bridge' = Append(tx_bridge, id)
  \/ closing /\ UNCHANGED tx_bridge

SendToSwarmForEver(peers) ==  (* mutant: waits on a closed channel too *)
  Len(tx_swarm) < SwarmCap /\ tx_swarm' = Append(tx_swarm, peers)

SendToSwarm(peers) ==
  \/ Len(tx_swarm) < SwarmCap /\ tx_swarm' = Append(tx_swarm, peers)
  \/ closing /\ UNCHANGED tx_swarm

SendFinalizedOnly ==  (* mutant: archives without begin_next_blob *)
  /\ pc = "notify"
  /\ SendToBridge(current_blob.id)
  /\ current_blob' = NoBlob
  /\ pc' = "select"
  /\ UNCHANGED <<closing, backlog, leases, uploads, rx_internal, tx_swarm,
                 asked, record>>

(* The rest of that arm for a blob that is stored globally: the awaited
   tx_bridge.send, archive_cur_blob, begin_next_blob, and assign_chunks unless
   permits must be asked for first. *)
SendFinalized ==
  /\ pc = "notify"
  /\ SendToBridge(current_blob.id)
  /\ pending_local_blobs' = RestOf(pending_local_blobs)
  /\ LET next == FirstOf(pending_local_blobs)
     IN IF next # NoBlob /\ MustRequestPermits(storage_provider_hints)
        THEN /\ current_blob' = next
             /\ pc' = "request_then_assign"
             /\ UNCHANGED uploads
        ELSE /\ AssignChunks(next, storage_permits)
             /\ pc' = "select"
  /\ UNCHANGED <<closing, remote_blobs, leases, rx_internal, tx_swarm, asked,
                 record>>

(* The awaited tx_swarm.send of request_storage_permits, and the assign_chunks
   that follows it when a blob was just archived. *)
SendPermitRequest ==
  /\ pc \in {"request", "request_then_assign"}
  /\ SendToSwarm(DOMAIN storage_provider_hints)
  /\ pc' = "select"
  /\ IF pc = "request_then_assign"
     THEN AssignChunks(current_blob, storage_permits)
     ELSE UNCHANGED <<work>>
  /\ UNCHANGED <<closing, backlog, leases, rx_internal, tx_bridge, asked,
                 record>>

(* The loop breaks on the shutdown token or on a closed inbound channel. *)
Stop ==
  /\ Selecting
  /\ closing
  /\ pc' = "stopped"
  /\ UNCHANGED <<closing, backlog, work, leases, links, record>>

-----------------------------------------------------------------------------
(* The spawned upload tasks.  Every outcome frees the permit; success and
   failure are reported, a timeout is not. *)

Holds(u) == Running /\ uploads[u] # Idle

Reports(u, status) ==
  LET msg == [hash |-> uploads[u].hash, status |-> status]
  IN /\ rx_internal[msg] < MaxInternal
     /\ rx_internal' = [rx_internal EXCEPT ![msg] = @ + 1]
     /\ uploads' = [uploads EXCEPT ![u] = Idle]
     /\ UNCHANGED <<pc, closing, backlog, current_blob, leases, tx_swarm,
                    tx_bridge, asked, submitted, reported>>

UploadSucceeds(u) ==
  /\ Holds(u)
  /\ Reports(u, Finalized(uploads[u].to))
  /\ acked' = acked \cup {<<uploads[u].to, uploads[u].hash>>}

UploadFails(u) ==
  /\ Holds(u)
  /\ Reports(u, Pending)
  /\ UNCHANGED acked

ExpiredEarly(u) == TRUE  (* mutant: the timer starts in the past *)
Expired(u) == uploads[u].age >= WINDOW

UploadTimesOut(u) ==
  /\ Holds(u)
  /\ Expired(u)
  /\ uploads' = [uploads EXCEPT ![u] = Idle]
  /\ UNCHANGED <<pc, closing, backlog, current_blob, leases, links, record>>

-----------------------------------------------------------------------------
(* The environment: time, the swarm and bridge tasks, providers, shutdown. *)

Older(c) ==
  IF c.tag = "Inflight" THEN [c EXCEPT !.age = AtMost(@ + 1, WINDOW + 1)] ELSE c

Tick ==
  /\ Running
  /\ current_blob' =
       IF current_blob = NoBlob THEN NoBlob
       ELSE [current_blob EXCEPT !.chunks =
               [h \in DOMAIN current_blob.chunks |-> Older(current_blob.chunks[h])]]
  /\ uploads' = [u \in UploadPermits |->
       IF uploads[u] = Idle THEN Idle
       ELSE [uploads[u] EXCEPT !.age = AtMost(@ + 1, WINDOW)]]
  /\ storage_provider_hints' = [p \in DOMAIN storage_provider_hints |->
       AtMost(storage_provider_hints[p] + 1, DECAY)]
  /\ storage_permits' = [p \in Peers |->
       IF storage_permits[p] = 0 THEN 0 ELSE storage_permits[p] - 1]
  /\ UNCHANGED <<pc, closing, backlog, links, record>>

(* The swarm task sends one request to each listed provider; requests to one
   provider that are open at the same time count as one.  It may outlive the
   coordinator for a while. *)
SwarmRequests ==
  /\ tx_swarm # <<>>
  /\ asked' = asked \cup Head(tx_swarm)
  /\ tx_swarm' = Tail(tx_swarm)
  /\ UNCHANGED <<pc, closing, backlog, work, leases, rx_internal, tx_bridge,
                 record>>

(* A request fails or its provider never answers. *)
RequestFails(p) ==
  /\ p \in asked
  /\ asked' = asked \ {p}
  /\ UNCHANGED <<pc, closing, backlog, work, leases, rx_internal, tx_swarm,
                 tx_bridge, record>>

(* The bridge's message loop takes a status update. *)
BridgeUpdates ==
  /\ Running
  /\ tx_bridge # <<>>
  /\ reported' = Append(reported, Head(tx_bridge))
  /\ tx_bridge' = Tail(tx_bridge)
  /\ UNCHANGED <<pc, closing, backlog, work, leases, rx_internal, tx_swarm,
                 asked, acked, submitted>>

RequestShutdown ==
  /\ ~closing
  /\ closing' = TRUE
  /\ UNCHANGED <<pc, backlog, work, leases, links, record>>

(* The coordinator is gone, and the process ends with it. *)
Halted == pc = "stopped" /\ UNCHANGED vars

-----------------------------------------------------------------------------
Init ==
  /\ pc = "select"
  /\ closing = FALSE
  /\ remote_blobs = {}
  /\ pending_local_blobs = <<>>
  /\ current_blob = NoBlob
  /\ storage_provider_hints = [p \in {} |-> 0]
  /\ storage_permits = [p \in Peers |-> 0]
  /\ uploads = [u \in UploadPermits |-> Idle]
  /\ rx_internal = [msg \in UpdateChunkStatus |-> 0]
  /\ tx_swarm = <<>>
  /\ tx_bridge = <<>>
  /\ asked = {}
  /\ acked = {}
  /\ submitted = <<>>
  /\ reported = <<>>

CoordinatorStep ==
  \/ TimerStale
  \/ TimerAssign
  \/ \E p \in Peers : RecvWouldStore(p)
  \/ \E p \in Peers, v \in ValidFor : RecvStoragePermit(p, v)
  \/ \E id \in RemoteIds : RecvGetBlob(id)
  \/ \E id \in Blobs : RecvNewBlob(id)
  \/ \E msg \in UpdateChunkStatus : HandleUpdate(msg)
  \/ SendFinalized
  \/ SendPermitRequest
  \/ Stop

UploadEnds(u) == UploadSucceeds(u) \/ UploadFails(u) \/ UploadTimesOut(u)

UploadStep == \E u \in UploadPermits : UploadEnds(u)

EnvironmentStep ==
  \/ SwarmRequests
  \/ \E p \in Peers : RequestFails(p)
  \/ BridgeUpdates
  \/ RequestShutdown
  \/ Halted

Next == CoordinatorStep \/ UploadStep \/ EnvironmentStep \/ Tick

Spec == Init /\ [][Next]_vars

(***************************************************************************)
(* Fairness.  select! picks at random among the ready arms, so an arm that *)
(* is ready again and again is taken; the intervals fire for ever, the     *)
(* stale one (60 s) several times in the life of a hint (300 s); a task    *)
(* that is awaited on is polled.  Of the world outside the code it is      *)
(* assumed that providers keep gossiping, that one asked again and again   *)
(* grants again and again, and that pushes do not fail for ever.  While    *)
(* the process goes down nothing is assumed of the tasks that drain the    *)
(* channels.                                                               *)
(***************************************************************************)
GrantsValidPermit(p) ==
  \E v \in ValidFor : ExpiresIn(v) > 0 /\ RecvStoragePermit(p, v)

TimerStaleKeepsHint == TimerStale /\ DOMAIN storage_provider_hints' # {}

CodeFairness ==
  /\ SF_vars(TimerStaleKeepsHint)
  /\ SF_vars(TimerAssign)
  /\ \A msg \in UpdateChunkStatus : SF_vars(HandleUpdate(msg))
  /\ SF_vars(Stop)
  /\ WF_vars(SendFinalized)
  /\ WF_vars(SendPermitRequest)
  /\ WF_vars(~closing /\ SwarmRequests)
  /\ WF_vars(~closing /\ BridgeUpdates)
  /\ \A u \in UploadPermits : WF_vars(UploadEnds(u))

WorldFairness ==
  /\ \A p \in Peers : SF_vars(RecvWouldStore(p))
  /\ \A p \in Peers : []<>(p \in asked) => []<><<GrantsValidPermit(p)>>_vars
  /\ \A u \in UploadPermits : SF_vars(UploadSucceeds(u))

(***************************************************************************)
(* A prompt runtime: a tick does not pass while a message or an expired    *)
(* upload waits to be handled.  The tick that fits the code is a second    *)
(* (WINDOW = 30): an upload gives up after 30 s, and as_secs() > 30 lets   *)
(* its chunk be assigned again from 31 s on, so that about a second is all *)
(* the slack there is.  The runs use a coarser tick, the theorems any.     *)
(***************************************************************************)
UpToDate ==
  /\ Selecting
  /\ \A msg \in UpdateChunkStatus : rx_internal[msg] = 0
  /\ \A u \in UploadPermits : uploads[u] # Idle => uploads[u].age < WINDOW

PromptTick == UpToDate /\ Tick

PromptNext == CoordinatorStep \/ UploadStep \/ EnvironmentStep \/ PromptTick

PromptSpec ==
  /\ Init /\ [][PromptNext]_vars
  /\ CodeFairness /\ WorldFairness /\ SF_vars(PromptTick)

-----------------------------------------------------------------------------
(* Properties. *)

(* Every variable keeps its type: in particular current_blob is a blob whose
   chunk map has exactly the hashes of its content. *)
TypeOK ==
  /\ pc \in {"select", "notify", "request", "request_then_assign", "stopped"}
  /\ closing \in BOOLEAN
  /\ remote_blobs \subseteq RemoteIds
  /\ pending_local_blobs \in Seq(LocalBlob)
  /\ current_blob \in LocalBlob \cup {NoBlob}
  /\ DOMAIN storage_provider_hints \subseteq Peers
  /\ storage_provider_hints \in [DOMAIN storage_provider_hints -> 0..DECAY]
  /\ storage_permits \in [Peers -> Nat]
  /\ uploads \in [UploadPermits -> Upload \cup {Idle}]
  /\ rx_internal \in [UpdateChunkStatus -> Nat]
  /\ tx_swarm \in Seq(SUBSET Peers)
  /\ tx_bridge \in Seq(Blobs)
  /\ asked \subseteq Peers
  /\ acked \subseteq Peers \X Hashes
  /\ submitted \in Seq(Blobs)
  /\ reported \in Seq(Blobs)

(* A blob is reported Finalized only when every chunk of it was acknowledged
   by a provider, although results name chunks by hash alone and may come
   from an earlier attempt or from an earlier blob that shares the chunk. *)
IsStored(h) == \E p \in Peers : <<p, h>> \in acked

ReportedBlobsAreStored ==
  \A id \in Range(reported) \cup Range(tx_bridge) :
    \A h \in Range(Content[id]) : IsStored(h)

(* The owner recorded for a finalized chunk is a provider that acknowledged
   it, also when the chunk was assigned to another provider in the meantime. *)
OwnersHoldTheirChunks ==
  current_blob # NoBlob =>
    \A h \in DOMAIN current_blob.chunks :
      LET c == current_blob.chunks[h]
      IN c.tag = "Finalized" => <<c.owner, h>> \in acked

(* Until shutdown, every blob handed over is in exactly one place, and blobs
   are finalized in the order they came: none is lost, reported twice or
   overtaken across the awaits of the finalizing arm. *)
IdsOf(blobs) == [i \in DOMAIN blobs |-> blobs[i].id]
InPipeline ==
  (IF current_blob = NoBlob THEN <<>> ELSE <<current_blob.id>>)
    \o IdsOf(pending_local_blobs)

NoBlobLost == ~closing => submitted = reported \o tx_bridge \o InPipeline

(* No backlog waits while nothing is being distributed: begin_next_blob is
   called by the two arms below only, so a blob they leave behind would wait
   until another one is admitted. *)
NoStalledBacklog == current_blob = NoBlob => pending_local_blobs = <<>>

(* An upload that says nothing when it times out leaves its chunk Inflight.
   Within the window that never happens: a chunk that is Inflight and not
   about to become eligible again has a running upload to the peer it names,
   or a result on its way. *)
InflightIsBacked ==
  current_blob # NoBlob =>
    \A h \in DOMAIN current_blob.chunks :
      LET c == current_blob.chunks[h]
      IN c.tag = "Inflight" /\ c.age < WINDOW =>
           \/ \E u \in UploadPermits : uploads[u] = [hash |-> h, to |-> c.to, age |-> c.age]
           \/ \E msg \in UpdateChunkStatus : msg.hash = h /\ rx_internal[msg] > 0

(* What the code relies on without saying so, and what makes the four
   properties above inductive: the finalizing arm still has its blob after the
   await, a blob in the queue was never assigned, a Finalized result was
   acknowledged. *)
NotifiesOfStoredBlob ==
  pc = "notify" => current_blob # NoBlob /\ AllFinalized(current_blob.chunks)

WaitingBlobsAreUntouched ==
  \A i \in DOMAIN pending_local_blobs :
    \A h \in DOMAIN pending_local_blobs[i].chunks :
      pending_local_blobs[i].chunks[h] = Pending

ResultsAreAcked ==
  \A msg \in UpdateChunkStatus :
    rx_internal[msg] > 0 /\ msg.status.tag = "Finalized"
      => <<msg.status.owner, msg.hash>> \in acked

PipelineInvariant ==
  /\ TypeOK
  /\ NotifiesOfStoredBlob
  /\ WaitingBlobsAreUntouched
  /\ ResultsAreAcked
  /\ OwnersHoldTheirChunks
  /\ InflightIsBacked
  /\ NoStalledBacklog
  /\ ReportedBlobsAreStored

(* The pipeline implements the abstract distribution service. *)
Distribution == INSTANCE BlobDistribution WITH
  queue <- InPipeline,
  stored <- {h \in Hashes : IsStored(h)},
  done <- reported \o tx_bridge,
  down <- closing

ImplementsDistribution == Distribution!Spec

(* On a prompt runtime a chunk is never pushed twice at the same time: the
   upload of 30 s is over before a chunk Inflight for more than 30 s is
   assigned again. *)
NoDuplicateUpload ==
  \A u, v \in UploadPermits :
    u # v /\ uploads[u] # Idle /\ uploads[v] # Idle => uploads[u].hash # uploads[v].hash

(* On a prompt runtime no result is stale: each is the only one for a chunk of
   the current blob that waits for it, and nothing else pushes that chunk, so
   that applying results by hash does no harm there. *)
ResultsAreCurrent ==
  \A msg \in UpdateChunkStatus : rx_internal[msg] > 0 =>
    /\ rx_internal[msg] = 1
    /\ current_blob # NoBlob
    /\ msg.hash \in DOMAIN current_blob.chunks
    /\ LET c == current_blob.chunks[msg.hash]
       IN c.tag = "Inflight" /\ c.age <= WINDOW
    /\ \A u \in UploadPermits : uploads[u] # Idle => uploads[u].hash # msg.hash
    /\ \A other \in UpdateChunkStatus :
         rx_internal[other] > 0 /\ other.hash = msg.hash => other = msg

(* Nor is any attempt: it is as old as its chunk has been Inflight. *)
AttemptsAreCurrent ==
  \A u \in UploadPermits : uploads[u] # Idle =>
    /\ current_blob # NoBlob
    /\ uploads[u].hash \in DOMAIN current_blob.chunks
    /\ LET c == current_blob.chunks[uploads[u].hash]
       IN c.tag = "Inflight" /\ c.age = uploads[u].age

(* On a prompt runtime a finalized chunk of the current blob stays finalized:
   no result of an older attempt takes it back to Pending. *)
FinalizedIsFinal ==
  [][\A h \in Hashes :
       /\ current_blob # NoBlob /\ current_blob' # NoBlob
       /\ current_blob'.id = current_blob.id
       /\ h \in DOMAIN current_blob.chunks
       /\ current_blob.chunks[h].tag = "Finalized"
       => current_blob'.chunks[h].tag = "Finalized"]_vars

(* On a prompt runtime every blob handed over is eventually reported, unless
   the process is told to shut down. *)
EveryBlobIsFinalized ==
  \A id \in Blobs :
    id \in Range(submitted) ~> (id \in Range(reported) \/ closing)

(* A shutdown is never held up by a channel nobody drains any more. *)
ShutdownCompletes == closing ~> pc = "stopped"
=============================================================================
