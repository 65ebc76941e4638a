# Gozara: a TLA+ model of the client and its network

Gozara is a peer-to-peer network that stores blobs for up to a day. A client
admits blobs over HTTP, cuts them into chunks, and pushes the chunks to storage
providers that issued it a permit. This directory models the client
(`src/bin/client`), the protocols it speaks (`src/crates/peyk`) and the bootnode
(`src/bin/bootnode`). TLC checks the models on small instances; TLAPS proves their
safety, of all but `Discovery`, for every instance.

## Inventory

| Component | State | Operations | Modules |
|---|---|---|---|
| Coordinator, `coordinator.rs` | `Pipeline`: remote, pending and current blobs, provider hints, storage permits, the upload semaphore, `rx_internal` | the arms of the `select!` loop, spawned upload tasks | `Coordinator`, `BlobDistribution` |
| HTTP bridge, `bridge.rs` | `status_map`, `admission_budget` and `hashing` semaphores, one handler per request | `new_blob`, `get_blob`, `get_status`, `hash_chunk`, `Admission`, the message loop | `Bridge`, `BlobStatus`, `BodyChunking` |
| Swarm task, `process_swarm` in `peyk/lib.rs` | the libp2p swarm, the two channels to the coordinator | permit requests out; gossip, requests and responses in; peer discovery | `Swarm`, `Node`, `Discovery` |
| Blob transfer, `peyk/blob_transfer.rs` | one stream per transfer, one task at the accepting end | `push`, `pull`, `handle_incoming_push`, `handle_incoming_pull` | `BlobTransfer`, `ChunkTransfer` |
| Process, `client/lib.rs`, `main.rs`, `common/shutdown.rs`, `run` of `bridge.rs` | task handles, the cancellation token | start, join, supervision, signals | `Lifecycle` |
| Peer discovery, `bootnode`, `go_public` | routing tables, queries | bootstrap, periodic queries, addresses from identify | `Discovery` |
| Message types, `client/admission.rs`, `peyk/protocol.rs` | none | none | modelled from use; the file of `mod admission` is missing from the repository |
| libp2p behaviours (`p2p.rs`), blake3 wrapper | none of their own | construction, I/O | not modelled |

How they interact: a client POSTs a blob, `new_blob` streams and hashes it under
an allowance of the budget and sends `NewBlob` over `tx_admission` (16). The
coordinator asks hinted providers for permits over `tx_swarm` (16), hears gossip
over `rx_handler` (256), pushes chunks from spawned tasks, which answer over the
unbounded `rx_internal`, and tells the bridge over `tx_bridge` (128) that a blob
is `Finalized`. The tasks share nothing else but the shutdown token; when one
ends, its channels close.

What is hard, with the properties meant for it (`hazards` in `PROJECT.json` has
the full list, by line):

- results that name a chunk by hash alone, late and in any order:
  `ReportedBlobsAreStored`, `OwnersHoldTheirChunks`, `ResultsAreCurrent`,
  `FinalizedIsFinal`;
- two clocks and a silent timeout for one upload: `InflightIsBacked`,
  `NoDuplicateUpload`, `EveryBlobIsFinalized`;
- awaits in the middle of an arm: `NoBlobLost`, `NoStalledBacklog`,
  `ShutdownCompletes`, `ImplementsDistribution`;
- two tasks with bounded channels in opposite directions, one of which drops
  what finds its channel full: `PermitRequestsGetThrough`, `NodeStops`,
  `QueuedGossipIsHeard`, `ImplementsCoordinator`;
- handlers that race for an id, or are cancelled at an await:
  `AdmissionOwnsEntry`, `BlobsAreAdmittedOnce`, `AdmittedBlobsHaveEntries`,
  `EntriesAreAccountedFor`, `FinalizedIsNeverForgotten`, `ImplementsBlobStatus`,
  `FinalizedBlobsAreShown`;
- permits that move between owners: `BudgetIsConserved`,
  `EveryRequestIsAnswered`;
- chunk arithmetic: `ChunksAreAsDeclared`, `ChunksAreWithinAllowance`,
  `BytesAreConserved`;
- streams that break and callers that give up, also between an acknowledgement
  and what it promises, consumers that stop and peers that die:
  `OkMeansVerified`, `PulledDataIsAsked`, `OkMeansHandedOver`,
  `ImplementsChunkTransfer`, `EveryPullReturns`;
- a process that must not run on without one of its parts, and must exit:
  `NoTaskIsMissed`, `ShutdownExits`;
- nodes that start in any order and lose their tables: `ClientsFindEachOther`.

## Modules

**`BlobDistribution`** is what the pipeline promises: blobs are accepted into a
queue, chunks get stored, and the front of the queue is done only when all its
chunks are stored; once the service goes down it may give up the front.

**`Coordinator`** has one action per arm of the loop and one per outcome of an
upload task. State and code correspond name by name; the rest is:

- `pc` is where the task stands. An arm without an await is one action. An arm
  that awaits is cut at the await: `HandleUpdate` ends at `"notify"` when the blob
  is stored, `SendFinalized` completes `tx_bridge.send` and does all that follows
  up to the next await; `"request"` and `"request_then_assign"` stand at the send
  of `request_storage_permits`, the second with `assign_chunks` to follow.
- Time is relative: an `Instant` is the ticks since it (`age`) or until it
  (`ttl`), saturated where the code no longer tells values apart. Permits that
  have expired and permits that are absent are the same (ttl 0), as they are to
  every reader. The timers are not tied to ticks: they may fire at any time.
- `uploads` are the permits of `upload_allowance` with the tasks that own them.
  A task frees its permit before it sends, so `rx_internal` is a bag.
- `acked` records acknowledged pushes, `submitted` and `reported` the ids handed
  in and out; they are history and no action reads them, except that an id is
  submitted once: that is `BlobsAreAdmittedOnce` of `Bridge`.
- `asked` is the set of providers with open requests (several to one provider
  count as one). The swarm task is an environment that takes requests, gossips
  and answers; `Node` puts the task itself in its place.
- `closing` covers the shutdown token and neighbours that have ended, whose
  channels are then closed: sends fail and the loop breaks.
- A provider's permit reaches the coordinator as `coordinator.rs` expects it. In
  the code it does not (finding 3); what follows a permit is modelled and checked
  as it is written.

**`Swarm`** is `process_swarm`, one action per arm that touches the coordinator.
It never waits: `TrySend` drops what finds `tx_handler` full, and
`InboundResponse` forwards nothing. It ends with the token, or when the
coordinator has gone and its last message is taken (`RxCloses`), so it may outlive
the coordinator a little. **`Node`** composes it with `Coordinator`
over both bounded channels; `RecvWouldStore` happens only to what is at the head
of `tx_handler`, and a send to the swarm fails only when that task is gone.
`ImplementsCoordinator` says that, so composed, the coordinator still meets its
specification.

**`Bridge`** has a state per POST and GET handler. Its actions are the pieces of
a handler between the points where another task can see or change shared state:
the entry, the allowance, each chunk's hashing permit and job, the send with
the commit, the drop of the allowance and then of the admission. Cancellation
(the client disconnects) is an action at every await. A hash job outlives its
cancelled handler (`OrphanHashDone`). The pipeline is abstract: a FIFO that
finalizes and may end, which frees allowances. An id is validated by a function
`Validated` given as a constant, since the parser is a library.

**`BlobStatus`** is what the bridge promises of each id: handed over at most
once, while Pending; never forgotten after that; Finalized only after it. Under
the refinement mapping `status` is the last entry of `status_map`, and `handed`
the sequence of the ids of the blobs sent to the pipeline: it grows with every
hand-over, so a second one of an id is no stuttering step but a violation.

**`BodyChunking`** is the loop of `new_blob` over the body, in bytes.

**`BlobTransfer`** has a caller, a callee and a two-way stream per transfer, and
one action per frame read or written at either end. `Break`, `TimesOut` and
`Crash` may come between any two frames; what was written before them may or may
not be read. A payload stands for its own hash: blake3 is taken to be injective.
The consumer at the other end, in this client the coordinator, answers a pull or
drops it as it likes, until it stops (`ConsumerStops`): its receivers go with all
they hold, the tasks of the streams live on, a pull is answered with nothing, and
a chunk that is still acknowledged is lost, since the failed send of line 208 is
ignored. `OkMeansHandedOver` is therefore about a node that lives and listens.

**`ChunkTransfer`** is what push and pull promise the two nodes: a push is one
atomic acknowledgement, made only of data that has the hash, and delivered only
after that; a pull is one atomic reply; Ok and None are returned on the strength
of these alone; a node that died does neither, and one that stopped listening
delivers nothing more. Under the refinement mapping
an acknowledgement exists from the moment its tag is written (`Acks`), a reply
once its callee is done, and the data of a pull from its Ok.

**`Lifecycle`** has a state per task and how the process ended. A task ends by
the token, by a channel whose other end is gone, or by a panic; a signal
that comes before its handler is installed kills the process; `run` returns with
the first of the joined tasks, and the runtime drops the rest.

**`Discovery`** keeps who runs, who is in whose routing table with which kind of
address, and who has a query in progress. Queries, connections and identify are
libp2p's; `Meet` is all of them for one pair of peers, at one end.

**`MC*`** give the constants their values for TLC; `MCPermitWorth` adds two
history variables. **`*Proofs`** hold the theorems. Definitions commented
"mutant" are likely slips in the definition that follows them; no specification
uses them. `PROJECT.json` names, for every property of a passing run, the mutant
it notices.

## Runs

| Run | What it asks | Bounds |
|---|---|---|
| `CoordinatorRaces` | type, stored when reported, FIFO, no loss, no stall, backing of Inflight, right owners, refinement of `BlobDistribution` | 2 blobs sharing a chunk (one repeats it), 2 hashes, 2 providers, 2 upload permits, hints that go at the next stale timer, validity of 1 tick |
| `CoordinatorPrompt` | no duplicate upload, no stale result, finalized stays finalized | as Races on a prompt runtime, hints of 1 tick, a validity of 2 ticks and one that overflows |
| `CoordinatorLiveness` | every blob is finalized, shutdown completes | 2 equal blobs of 1 chunk, 1 provider, prompt runtime, a validity of 2 ticks and one that overflows |
| `CoordinatorPermitWorth` | finding 1: a permit worth 2 chunks pays for 3 | 1 blob of 3 chunks |
| `Bridge` | all safety of the bridge, refinement of `BlobStatus`, every request is answered, updates are shown | 2 POSTs, 1 GET, 2 ids and an unreadable one, budget 2, blobs of 1 or 2 chunks, 1 hashing permit, channels of 1 |
| `BridgeGather` | finding 2: a local blob is gathered | 1 POST, 1 GET |
| `BodyChunking` | chunk arithmetic | chunks of 3 bytes, bodies up to 10, frames up to 7 |
| `NodeQueues` | `Node` implements `Coordinator`; no mutual wait, running or stopping; queued gossip is heard | 2 providers, 1 blob of 1 chunk, channels of 1 to the swarm task and 2 back |
| `NodePermits` | finding 3: no permit ever arrives | same, channels of 1 |
| `BlobTransfer` | Ok means verified and handed over, a pull returns what was asked, and returns; refinement of `ChunkTransfer` | 1 push, 1 pull, 2 payloads and one too long |
| `Lifecycle` | whatever ends, the process exits | 2 requests in flight, 2 ctrl-c |
| `Discovery` | clients find each other | 3 clients, 1 bootnode, 2 crashes |

The bounds are the least at which the cases meet. Two blobs that share a chunk
give results of the first that match the second; one that repeats a chunk gives a
map smaller than its content. Two permits give two attempts at one chunk, and two
providers give a chunk that changed hands while the result of its first holder
was on its way, which only happens on a runtime that is late:
`OwnersHoldTheirChunks` is checked in `CoordinatorRaces` for that reason. `WINDOW
= 1` tick makes times before, at and after the window reachable, and so does
`DECAY = 1` for hints; `CoordinatorRaces` has `DECAY = 0` to stay small, since
its properties do not ask how old a hint is. Channels of capacity one or two
fill; two in `tx_handler` put one provider's message in the way of another's.
`MaxInternal = 1` bounds the number of *equal* waiting results, so two different
ones still race; the proofs need no bound of a particular size. A budget of 2 for
blobs of 1 and 2 makes a POST fail for want of allowance, and one hashing permit
makes it wait for the job of a cancelled one. Frames of up to 7 bytes span up to
two boundaries of a chunk. Transfers share nothing but the death of the process
and the end of its consumer, so one of each kind shows what any number would. Two
crashes let both the bootnode and a client, or one of them twice, come back with
nothing; three clients let one tell of another. Symmetry is used for upload
permits and providers, in runs of safety properties only.

`PromptSpec` is for what only holds on a runtime that keeps up: time does not
pass while a result waits or an expired upload still runs. The tick that fits the
code is a second: an upload ends at 30 s, and `as_secs() > 30` assigns its chunk
again from 31 s on, so one second is all the slack the code has. Without it a
chunk can be assigned twice at once, since the coordinator and the upload task
each measure 30 s on their own; nothing in the code rules that out, and the other
safety properties do not need it.

### Fairness

Of the code: `select!` picks a ready arm at random, so an arm that is ready
again and again is taken (strong fairness); timers fire for ever; a task at a
send is polled (weak). The stale timer fires five times in the life of a hint, so
it does not always find the hints just purged (`TimerStaleKeepsHint`).

- `Coordinator`, of the world: providers keep gossiping, one that is asked again
  and again grants again and again a permit that is valid, which reaches the
  coordinator, and pushes do not fail for ever. `EveryBlobIsFinalized` is thus
  about `coordinator.rs` alone: in the program finding 3 breaks the assumption on
  permits, and no blob is finalized until it is mended. Once `closing` holds,
  nothing is assumed of the tasks that drain the channels: that is what
  `ShutdownCompletes` is about.
- `Node` drops the assumption on the draining tasks, since it has the tasks: each
  is polled until it stops. Of the world it assumes nothing: not that anybody
  gossips or answers, nor that a gossip ever meets a channel with room, which
  `try_send` guarantees nobody. `BlobsGetPermits` carries its assumption, that
  providers answer, itself.
- `Bridge`: semaphores and channels serve waiters in order, which is strong
  fairness for a waiter; a body that goes silent ends by `BODY_IDLE_TIMEOUT`; the
  pipeline drains its channel, and the message loop its own, until they end. That
  the pipeline ever finalizes a blob is not assumed: `FinalizedBlobsAreShown`
  starts from the update it sent.
- `BlobTransfer`: a task whose stream is ready is polled, and a pull that is
  handed to the consumer is taken or dropped. Nothing is assumed of timeouts,
  streams or the process.
- `Lifecycle`: a task that can end is polled. Nothing is assumed of requests.
- `Discovery`: the timer fires, and what queries can bring to light again and
  again they do in the end. Nobody has to start, and nobody has to stay.

## Proofs

All proofs hold for any number of blobs, chunks, providers, requests, streams,
permits and ticks, under the assumptions on the constants in the module proved
about (`ASSUME`, which TLC evaluates on every run).

**`CoordinatorProofs`** proves `Spec => []PipelineInvariant`, and from it
`TypeOK`, `ReportedBlobsAreStored`, `OwnersHoldTheirChunks`, `InflightIsBacked`
and `NoStalledBacklog`. None of the last four is inductive alone. A blob is
reported from `"notify"` on the strength of a check made before an await, hence
`NotifiesOfStoredBlob`; the check trusts the tags of chunks, hence
`OwnersHoldTheirChunks`; a tag is set by a result, hence `ResultsAreAcked`; a new
current blob must bring no tags of its own, hence `WaitingBlobsAreUntouched`.
`InflightIsBacked` needs the two ages to advance together, and a result of any
other attempt to count as backing. There is a lemma per conjunct, each with a
step per action, and lemmas about `AssignChunks`, whose choice of a job for each
permit is what gives a chunk its task.

**`DistributionProofs`** proves `NoBlobLost` and the refinement of
`BlobDistribution`. `EveryStep` classifies a step as one of four kinds of step of
the queue (it stays, accepts, finishes, gives up); the rest is about queues only.
Inductive is `NoBlobLost` with `KnownIds`: what is queued or done was submitted,
so that a new id is new to the queue.

**`PromptProofs`** proves, of `PromptSpec`, `NoDuplicateUpload`,
`ResultsAreCurrent` and `FinalizedIsFinal`. The three hold each other up. An
attempt is as old as its chunk has been Inflight (`AttemptsAreCurrent`), and
`PromptTick` leaves no expired attempt and no result behind, so a chunk with
either is not eligible, so `assign_chunks` starts no second one; hence a result
is the first about its chunk, and can undo nothing. That the next blob is
another one (`FinalizedIsFinal` speaks of one id) needs `DistinctIds`, from
`KnownIds`.

**`BridgeProofs`** proves `AdmissionOwnsEntry`, `BlobsAreAdmittedOnce`,
`AdmittedBlobsHaveEntries` and `EntriesAreAccountedFor`, and from the invariant
the refinement of `BlobStatus` and `FinalizedIsNeverForgotten`. Inductive are the
four with `Shapes`, `IdsAreValid`, `UpdatesAreSolicited` and `NoRivals`: a
`Finalized` is on its way only for an admitted blob, and no upload is underway
for the id of an admitted blob, so neither a status update nor a dropped
admission touches the entry of another. It uses that an id, printed, parses to
itself (`IdAssumption`).

It also proves `BudgetIsConserved` and `TypeOK`. The budget is about a sum over
the handlers that hold an allowance, and a sum is a recursion, which the provers
cannot unfold; so `Allowances` is the number of permits in those allowances, the
cardinality of a set of pairs (handler, number), and the theorems about finite
sets apply: a handler that takes or frees its allowance adds or removes one
column of the set (`Column` and the lemmas after it). `RequestAssumption` says
that the requests are finitely many. Conservation is not inductive alone. The
invariant adds `BlobsAreInOnePlace` (a blob is in one queue, once, so that its
allowance is not freed twice on its way from the handler over `tx_admission` to
the pipeline), `JobsAreCounted` (each handler that hashes holds a hashing
permit; what more is taken belongs to jobs of cancelled handlers), and for the
types `ChunksAreOwed`, `DownloadsAreValid` and `Switches`.

**`BlobTransferProofs`** proves `TypeOK`, `OkMeansVerified`, `PulledDataIsAsked`
and `OkMeansHandedOver`. The invariant says, for each stream, what may be in it
while caller and callee stand where they stand (`PushSafe`, `PullSafe`): an
acknowledgement is in the stream only of a callee that has hash and data and
found that they match; it is handed over unless its node died or its consumer
stopped (`Acked`). For the refinement of `ChunkTransfer` it also needs what
each end was told (`Told`): a chunk is handed over only once its acknowledgement
was written, a caller that waits for a reason will read one, a pull has an answer
only from a callee that is done, and the dead do nothing. `Elsewhere` says that a
step of one transfer shows in the abstract state of that one only; then there is
a lemma per action, which names the abstract step or shows that there is none.

**`NodeProofs`** proves `ImplementsCoordinator`: the only link of the two tasks
that needs an invariant is `tx_handler`, where every `WouldStore` names a provider
(`HandlerTypeOK`); any step of the swarm task is then one that `Coordinator`
allows its environment, or none it can see. Safety proved of `Coordinator` so
holds of the two tasks together (`NodeIsSafe`). As responses are dropped,
`NothingIsDistributed` proves that no behaviour of `Node` ever pushes a chunk or
reports a blob: without a permit there is no upload, and without an upload no
result. What `NodeIsSafe` says of reported blobs holds of the code only for that
reason, and is worth something once finding 3 is mended.

**`LifecycleProofs`** proves `TypeOK`, which includes that `run` waits only when
all its tasks were spawned. Inductive is `StartedInOrder`: the coordinator is
spawned with the swarm task, whatever signals and panics come between.

**`BodyChunkingProofs`** proves the four properties of the run for any chunk size
and framing; inductive is their conjunction, and four lemmas about `\div` and
multiples of a chunk do the arithmetic.

Only model-checked: liveness and what needs `ENABLED`, since fairness is out of
the prover's reach. That is all there is to `Discovery`, and it leaves
`NoTaskIsMissed` and `ShutdownExits` of `Lifecycle`, `PermitRequestsGetThrough`,
`NodeStops` and `QueuedGossipIsHeard` of `Node`, `EveryPullReturns`,
`EveryRequestIsAnswered`, `FinalizedBlobsAreShown`, `EveryBlobIsFinalized` and
`ShutdownCompletes`. Every invariant and every action property that a passing run
checks is proved.

## Findings

1. A storage permit is "worth ~20 chunks" (`protocol.rs:15`), but its use is not
   counted (`CoordinatorPermitWorth`).
2. A GET for a blob still being distributed makes the coordinator log it as
   missing and schedule it for gathering (`BridgeGather`).
3. `process_swarm` builds the future of `tx_handler.send` for a provider's
   response and drops it unpolled (`peyk/lib.rs:226`), so no permit reaches the
   coordinator and no blob is distributed (`NodePermits`, on one behaviour;
   `NothingIsDistributed`, on all).

Seen while modelling, and too plain for a run:

- permits are asked for on hints older than the five minutes of
  `coordinator.rs:25`, since hints are purged in `timer_stale` only and
  `request_storage_permits` (line 160) does not look at their age;
- the log offers a second ctrl-c to force the exit (`shutdown.rs:9`), and nobody
  listens for it: `CtrlC` of `Lifecycle` swallows it;
- `is_public` (`peyk/lib.rs:144`) knows private and loopback addresses, so it
  takes a link-local one for public, as `IsPublic` of `Discovery` does;
- `handle_incoming_push` acknowledges a chunk before it hands it over
  (`blob_transfer.rs:204`), ignores that the hand-over fails (line 208), and the
  coordinator drops what it is handed: an acknowledged chunk is verified, and
  delivered while there is a coordinator that listens, which is all that
  `OkMeansHandedOver` says, and not yet stored anywhere.

## Not modelled

- libp2p's own state: connections, Kademlia's queries and buckets, gossip,
  identify, and the construction of behaviours in `p2p.rs`. They have no
  operation of the repository's own.
- The content of blobs, merkle trees, hashes and keys: model values. In
  `Discovery` a node keeps its identity over a restart, which in the code needs a
  key file: a bootnode started without one comes back as another peer, which
  nobody looks for.
- HTTP codes beyond accepted or refused, logging, configuration.
- Messages nobody sends or answers (`BlobMeta`, `Failed`), and gathering of
  remote blobs, of which only the schedule exists (`remote_blobs`).

Hazards that no property covers are those where the repository promises nothing
that could be violated: a provider that stalls for ever (todo at
`coordinator.rs:254`), a POST after a GET of the same id, the status that a GET
leaves behind when the upload it met is cancelled, silent callers of a stream, an
acknowledgement that is lost or that precedes the end of its receiver, the exit
status after a panic in the bridge, and requests that are cut by the exit. Each
is in the models as the code has it, and `PROJECT.json` says so at its line.
