------------------------------- MODULE Bridge -------------------------------
(***************************************************************************)
(* The HTTP bridge of a Gozara client, bin/client/src/bridge.rs: it admits *)
(* blobs that clients POST, hands them to the coordinator's pipeline, asks *)
(* the pipeline to gather blobs that clients GET, and keeps the status of  *)
(* every blob in status_map, updated by the pipeline's messages.           *)
(*                                                                         *)
(* Actors.  Each request has a handler task; handlers share status_map (a  *)
(* concurrent map, one entry locked at a time), the admission_budget and   *)
(* hashing semaphores and the bounded channel tx_admission, and interleave *)
(* with each other between any two of these operations.  A client that     *)
(* goes away cancels its handler at an await.  The pipeline is abstract:   *)
(* it takes messages, holds blobs, finalizes them one by one, and may end. *)
(*                                                                         *)
(* A body is abstracted to its number of chunks: BodyChunking shows that   *)
(* new_blob cuts a body of the declared length into that many.             *)
(***************************************************************************)
EXTENDS Integers, Sequences, SequencesExt, FiniteSets, Functions

CONSTANTS
  Posts, Gets,         (* requests, each made at most once                     *)
  RawIds,              (* ids as clients write them                            *)
  Ids, BadId,          (* validated ids, and the outcome of a failed parse     *)
  Validated,           (* Validated[raw] is what MagicTypeId::from_str makes   *)
  BlobSizes,           (* the lengths clients declare, in chunks               *)
  MAX_BLOB_CHUNKS,     (* MAX_BLOB_SIZE in chunks                              *)
  TOTAL_CHUNK_BUDGET,  (* permits of the admission budget                      *)
  HASHERS,             (* permits of the hashing semaphore                     *)
  AdmissionCap,        (* capacity of the tx_admission channel                 *)
  BridgeCap            (* capacity of the tx_bridge channel                    *)

VARIABLES
  status_map,        (* id -> its statuses, oldest first; <<>> if vacant       *)
  admission_budget,  (* free permits of the admission budget                   *)
  hashing,           (* running blocking hash jobs, each with a permit         *)
  post,              (* the handler of each POST                               *)
  get,               (* the handler of each GET /blob                          *)
  tx_admission,      (* messages to the pipeline                               *)
  pipeline,          (* posts whose blob the pipeline holds, oldest first      *)
  tx_bridge,         (* ids of UpdateStatus(Finalized) to the bridge           *)
  admitted,          (* posts whose blob was handed over, in order             *)
  closing,           (* shutdown was requested                                 *)
  stopped            (* tasks that ended: "pipeline", "messages"               *)

semaphores == <<admission_budget, hashing>>
handlers == <<post, get>>
downstream == <<pipeline, tx_bridge, admitted>>
ends == <<closing, stopped>>
vars == <<status_map, semaphores, handlers, tx_admission, downstream, ends>>

-----------------------------------------------------------------------------
(* Types. *)

Status == {"Pending", "Finalized"}

(* Where the handler of a POST stands.  admitted: the entry is inserted and
   nothing awaited yet; reading: at the body stream; permit, hashing: inside
   hash_chunk; sending: at tx_admission.send; dropping: an answer is decided,
   the allowance is dropped and the Admission is about to be.  unread counts
   the chunks the body still owes. *)
Underway == {"admitted", "reading", "permit", "hashing", "sending", "dropping"}
Awaiting == {"reading", "permit", "hashing", "sending"}

PostState ==
  [phase : {"new"}]
    \cup [phase : Underway, id : RawIds, size : Nat, unread : Nat]
    \cup [phase : {"done"}, id : RawIds, size : Nat, answer : {"Created", "Refused"}]
GetState == [phase : {"new"}] \cup [phase : {"sending", "done"}, id : Ids \cup {BadId}]

Message == [tag : {"NewBlob"}, post : Posts] \cup [tag : {"GetBlob"}, id : Ids]

ASSUME IdAssumption ==
  /\ BadId \notin Ids
  /\ Validated \in [RawIds -> Ids \cup {BadId}]
  /\ \A id \in RawIds \cap Ids : Validated[id] = id  (* what is printed parses *)
ASSUME LimitAssumption ==
  /\ BlobSizes \subseteq Nat
  /\ MAX_BLOB_CHUNKS \in Nat
  /\ TOTAL_CHUNK_BUDGET \in Nat
  /\ HASHERS \in Nat \ {0}
  /\ AdmissionCap \in Nat \ {0}
  /\ BridgeCap \in Nat \ {0}
ASSUME RequestAssumption == IsFiniteSet(Posts) /\ IsFiniteSet(Gets)

-----------------------------------------------------------------------------
At(r, phase) == post[r].phase = phase
EntryOf(r) == Validated[post[r].id]
Vacant(id) == status_map[id] = <<>>

Sent(r) == \E i \in DOMAIN tx_admission : tx_admission[i] = [tag |-> "NewBlob", post |-> r]
HoldsAllowance(r) == post[r].phase \in Awaiting

(* The permits in the allowances of the posts in S. *)
Allowances(S) == Cardinality(UNION {{<<r, n>> : n \in 1..post[r].size} : r \in S})

-----------------------------------------------------------------------------
(* new_blob, the handler of POST /blob/{id}. *)

Readable(raw) == Validated[raw] # BadId  (* mutant: an occupied entry is overwritten *)
Claimable(raw) == Validated[raw] # BadId /\ Vacant(Validated[raw])

(* The checks before an entry is made.  A length that is missing or unreadable
   is refused like a zero one. *)
Admissible(raw, size) ==
  /\ size > 0 /\ size <= MAX_BLOB_CHUNKS /\ size <= TOTAL_CHUNK_BUDGET
  /\ Claimable(raw)

Finish(r, id, size, answer) ==
  post' = [post EXCEPT ![r] =
    [phase |-> "done", id |-> id, size |-> size, answer |-> answer]]

(* Turned down before it has an entry. *)
RefusePost(r, raw, size) ==
  /\ ~closing
  /\ At(r, "new")
  /\ ~Admissible(raw, size)
  /\ Finish(r, raw, size, "Refused")
  /\ UNCHANGED <<status_map, semaphores, get, tx_admission, downstream, ends>>

(* Admission::new: the vacant entry becomes Pending. *)
NewAdmission(r, raw, size) ==
  /\ ~closing
  /\ At(r, "new")
  /\ Admissible(raw, size)
  /\ status_map' = [status_map EXCEPT ![Validated[raw]] = <<"Pending">>]
  /\ post' = [post EXCEPT ![r] =
       [phase |-> "admitted", id |-> raw, size |-> size, unread |-> size]]
  /\ UNCHANGED <<semaphores, get, tx_admission, downstream, ends>>

ReturnedNone(r) == 0  (* mutant: the permits are forgotten, not dropped *)
Returned(r) == IF HoldsAllowance(r) THEN post[r].size ELSE 0

(* A handler that returns early drops its allowance first, if it holds one,
   and then its uncommitted Admission, with the answer decided. *)
Unwinds(r) ==
  /\ admission_budget' = admission_budget + Returned(r)
  /\ post' = [post EXCEPT ![r].phase = "dropping"]
  /\ UNCHANGED <<status_map, hashing, get, tx_admission, downstream, ends>>

AlmostAffords(r) == admission_budget + 1 >= post[r].size  (* mutant: one too many *)
Affords(r) == admission_budget >= post[r].size

(* try_acquire_many_owned. *)
AcquireAllowance(r) ==
  /\ At(r, "admitted")
  /\ Affords(r)
  /\ admission_budget' = admission_budget - post[r].size
  /\ post' = [post EXCEPT ![r].phase = "reading"]
  /\ UNCHANGED <<status_map, hashing, get, tx_admission, downstream, ends>>

RefuseAllowance(r) ==
  /\ At(r, "admitted")
  /\ ~Affords(r)
  /\ Unwinds(r)

(* The frames of one more chunk arrive, which is then to be hashed; or the
   body has ended and the blob is merklized. *)
ReadBody(r) ==
  /\ At(r, "reading")
  /\ post' = [post EXCEPT ![r].phase =
       IF post[r].unread > 0 THEN "permit" ELSE "sending"]
  /\ UNCHANGED <<status_map, semaphores, get, tx_admission, downstream, ends>>

JobLeaks == UNCHANGED hashing  (* mutant: the permit is not dropped *)
JobEnds == hashing' = hashing - 1

(* hash_chunk: acquire a hashing permit and move it into a blocking job, which
   runs to its end also when the handler is cancelled. *)
StartHash(r) ==
  /\ At(r, "permit")
  /\ hashing < HASHERS
  /\ hashing' = hashing + 1
  /\ post' = [post EXCEPT ![r].phase = "hashing"]
  /\ UNCHANGED <<status_map, admission_budget, get, tx_admission, downstream,
                 ends>>

HashDone(r) ==
  /\ At(r, "hashing")
  /\ JobEnds
  /\ post' = [post EXCEPT ![r] =
       [phase |-> "reading", id |-> @.id, size |-> @.size, unread |-> @.unread - 1]]
  /\ UNCHANGED <<status_map, admission_budget, get, tx_admission, downstream,
                 ends>>

OrphanHashDone ==
  /\ hashing > Cardinality({r \in Posts : At(r, "hashing")})
  /\ JobEnds
  /\ UNCHANGED <<status_map, admission_budget, handlers, tx_admission,
                 downstream, ends>>

(* The handler returns early: a silent client, a broken, long or short body. *)
BodyFails(r) == At(r, "reading") /\ Unwinds(r)

Uncommitted(r) == post' = [post EXCEPT ![r].phase = "dropping"]  (* mutant: no commit *)
Committed(r) == Finish(r, post[r].id, post[r].size, "Created")

(* tx_admission.send(NewBlob), with the commit and the answer that follow it
   without an await; the blob takes the allowance along. *)
SendNewBlob(r) ==
  /\ At(r, "sending")
  /\ "pipeline" \notin stopped
  /\ Len(tx_admission) < AdmissionCap
  /\ tx_admission' = Append(tx_admission, [tag |-> "NewBlob", post |-> r])
  /\ admitted' = Append(admitted, r)
  /\ Committed(r)
  /\ UNCHANGED <<status_map, semaphores, get, pipeline, tx_bridge, ends>>

SendNewBlobFails(r) ==
  /\ At(r, "sending")
  /\ "pipeline" \in stopped
  /\ Unwinds(r)

(* The client disconnects, which drops the handler at its await. *)
CancelPost(r) == post[r].phase \in Awaiting /\ Unwinds(r)

Kept(id) == status_map  (* mutant: no Drop for Admission *)
Removed(id) == [status_map EXCEPT ![id] = <<>>]

(* Drop of the uncommitted Admission removes the entry. *)
DropAdmission(r) ==
  /\ At(r, "dropping")
  /\ status_map' = Removed(EntryOf(r))
  /\ Finish(r, post[r].id, post[r].size, "Refused")
  /\ UNCHANGED <<semaphores, get, tx_admission, downstream, ends>>

-----------------------------------------------------------------------------
(* get_blob, the handler of GET /blob/{id}.  What it does next depends on the
   status it read, whatever becomes of the entry meanwhile; the entry it
   inserts is never removed. *)
GetBlob(g, raw) ==
  /\ ~closing
  /\ get[g].phase = "new"
  /\ LET id == Validated[raw]
     IN /\ status_map' = IF id # BadId /\ Vacant(id)
                         THEN [status_map EXCEPT ![id] = <<"Pending">>] ELSE status_map
        /\ get' = [get EXCEPT ![g] =
             [phase |-> IF id # BadId /\ Last(status_map'[id]) = "Pending"
                        THEN "sending" ELSE "done",
              id |-> id]]
  /\ UNCHANGED <<semaphores, post, tx_admission, downstream, ends>>

(* tx_admission.send(GetBlob); it fails once the pipeline is gone. *)
SendGetBlob(g) ==
  /\ get[g].phase = "sending"
  /\ \/ /\ "pipeline" \notin stopped
        /\ Len(tx_admission) < AdmissionCap
        /\ tx_admission' = Append(tx_admission, [tag |-> "GetBlob", id |-> get[g].id])
     \/ "pipeline" \in stopped /\ UNCHANGED tx_admission
  /\ get' = [get EXCEPT ![g].phase = "done"]
  /\ UNCHANGED <<status_map, semaphores, post, downstream, ends>>

CancelGet(g) ==
  /\ get[g].phase = "sending"
  /\ get' = [get EXCEPT ![g].phase = "done"]
  /\ UNCHANGED <<status_map, semaphores, post, tx_admission, downstream, ends>>

-----------------------------------------------------------------------------
(* The message loop of run. *)

UpdateStatus ==
  /\ "messages" \notin stopped
  /\ tx_bridge # <<>>
  /\ tx_bridge' = Tail(tx_bridge)
  /\ LET id == Head(tx_bridge)
     IN status_map' =
          IF id \in Ids /\ ~Vacant(id)
          THEN [status_map EXCEPT ![id] = Append(@, "Finalized")]
          ELSE status_map
  /\ UNCHANGED <<semaphores, handlers, tx_admission, pipeline, admitted, ends>>

StopMessages ==
  /\ closing
  /\ "messages" \notin stopped
  /\ stopped' = stopped \cup {"messages"}
  /\ tx_bridge' = <<>>
  /\ UNCHANGED <<status_map, semaphores, handlers, tx_admission, pipeline,
                 admitted, closing>>

-----------------------------------------------------------------------------
(* The pipeline: it drains tx_admission, keeps new blobs in order, and drops
   the allowance of one when it has told the bridge that it is Finalized. *)

PipelineTakes ==
  /\ "pipeline" \notin stopped
  /\ tx_admission # <<>>
  /\ tx_admission' = Tail(tx_admission)
  /\ pipeline' = IF Head(tx_admission).tag = "NewBlob"
                 THEN Append(pipeline, Head(tx_admission).post) ELSE pipeline
  /\ UNCHANGED <<status_map, semaphores, handlers, tx_bridge, admitted, ends>>

PipelineFinalizes ==
  /\ "pipeline" \notin stopped
  /\ pipeline # <<>>
  /\ \/ /\ "messages" \notin stopped
        /\ Len(tx_bridge) < BridgeCap
        /\ tx_bridge' = Append(tx_bridge, post[Head(pipeline)].id)
     \/ "messages" \in stopped /\ UNCHANGED tx_bridge
  /\ pipeline' = Tail(pipeline)
  /\ admission_budget' = admission_budget + post[Head(pipeline)].size
  /\ UNCHANGED <<status_map, hashing, handlers, tx_admission, admitted, ends>>

(* The pipeline ends and drops its blobs and the messages it did not take. *)
StopPipeline ==
  /\ closing
  /\ "pipeline" \notin stopped
  /\ stopped' = stopped \cup {"pipeline"}
  /\ tx_admission' = <<>>
  /\ pipeline' = <<>>
  /\ admission_budget' = admission_budget
       + Allowances(Range(pipeline) \cup {r \in Posts : Sent(r)})
  /\ UNCHANGED <<status_map, hashing, handlers, tx_bridge, admitted, closing>>

RequestShutdown ==
  /\ ~closing
  /\ closing' = TRUE
  /\ UNCHANGED <<status_map, semaphores, handlers, tx_admission, downstream,
                 stopped>>

(* Everybody is done. *)
Finished ==
  /\ stopped = {"pipeline", "messages"}
  /\ hashing = 0
  /\ \A r \in Posts : post[r].phase \in {"new", "done"}
  /\ \A g \in Gets : get[g].phase \in {"new", "done"}
  /\ UNCHANGED vars

-----------------------------------------------------------------------------
Init ==
  /\ status_map = [id \in Ids |-> <<>>]
  /\ admission_budget = TOTAL_CHUNK_BUDGET
  /\ hashing = 0
  /\ post = [r \in Posts |-> [phase |-> "new"]]
  /\ get = [g \in Gets |-> [phase |-> "new"]]
  /\ tx_admission = <<>>
  /\ pipeline = <<>>
  /\ tx_bridge = <<>>
  /\ admitted = <<>>
  /\ closing = FALSE
  /\ stopped = {}

NewBlobStep(r) ==
  \/ \E raw \in RawIds, size \in BlobSizes : RefusePost(r, raw, size)
  \/ \E raw \in RawIds, size \in BlobSizes : NewAdmission(r, raw, size)
  \/ AcquireAllowance(r)
  \/ RefuseAllowance(r)
  \/ ReadBody(r)
  \/ StartHash(r)
  \/ HashDone(r)
  \/ BodyFails(r)
  \/ SendNewBlob(r)
  \/ SendNewBlobFails(r)
  \/ CancelPost(r)
  \/ DropAdmission(r)

GetBlobStep(g) ==
  \/ \E raw \in RawIds : GetBlob(g, raw)
  \/ SendGetBlob(g)
  \/ CancelGet(g)

Next ==
  \/ \E r \in Posts : NewBlobStep(r)
  \/ \E g \in Gets : GetBlobStep(g)
  \/ OrphanHashDone
  \/ UpdateStatus
  \/ StopMessages
  \/ PipelineTakes
  \/ PipelineFinalizes
  \/ StopPipeline
  \/ RequestShutdown
  \/ Finished

Spec == Init /\ [][Next]_vars

(***************************************************************************)
(* Fairness.  A handler that can step is polled; a silent body ends by     *)
(* BODY_IDLE_TIMEOUT if not by the client, so reading never lasts; the     *)
(* semaphores and channels serve waiters in order, and a blocking job      *)
(* ends.  Until they end, the pipeline drains its channel and the message  *)
(* loop takes what it is sent.  Nothing says that the pipeline ever        *)
(* finalizes a blob it holds.                                              *)
(***************************************************************************)
Fairness ==
  /\ \A r \in Posts :
       /\ WF_vars(AcquireAllowance(r) \/ RefuseAllowance(r))
       /\ WF_vars(ReadBody(r) \/ BodyFails(r))
       /\ SF_vars(StartHash(r))
       /\ WF_vars(HashDone(r))
       /\ SF_vars(SendNewBlob(r))
       /\ WF_vars(SendNewBlobFails(r))
       /\ WF_vars(DropAdmission(r))
  /\ \A g \in Gets : SF_vars(SendGetBlob(g))
  /\ WF_vars(OrphanHashDone)
  /\ WF_vars(PipelineTakes)
  /\ WF_vars(UpdateStatus)

FairSpec == Spec /\ Fairness

-----------------------------------------------------------------------------
(* Properties. *)

(* Every variable keeps its type: in particular the budget is never overdrawn
   and no more hash jobs run than there are hashing permits. *)
TypeOK ==
  /\ status_map \in [Ids -> Seq(Status)]
  /\ admission_budget \in 0..TOTAL_CHUNK_BUDGET
  /\ hashing \in 0..HASHERS
  /\ post \in [Posts -> PostState]
  /\ get \in [Gets -> GetState]
  /\ tx_admission \in Seq(Message)
  /\ pipeline \in Seq(Posts)
  /\ tx_bridge \in Seq(RawIds)
  /\ admitted \in Seq(Posts)
  /\ closing \in BOOLEAN
  /\ stopped \subseteq {"pipeline", "messages"}

(* While a POST is underway its Pending entry is its own: no other POST is
   underway for the same id, and no GET, cancelled upload or status update
   removes or changes the entry under it. *)
AdmissionOwnsEntry ==
  \A r \in Posts :
    post[r].phase \in Underway =>
      /\ status_map[EntryOf(r)] = <<"Pending">>
      /\ \A s \in Posts :
           post[s].phase \in Underway /\ EntryOf(s) = EntryOf(r) => s = r

(* The pipeline is handed no two blobs of one id, although ids become free
   again when uploads are refused or cancelled: what the Coordinator module
   assumes of the bridge. *)
BlobsAreAdmittedOnce ==
  \A i, j \in DOMAIN admitted :
    EntryOf(admitted[i]) = EntryOf(admitted[j]) => i = j

(* A blob handed over keeps its entry, so its status update finds it. *)
AdmittedBlobsHaveEntries ==
  \A r \in Range(admitted) : ~Vacant(EntryOf(r))

(* "remove the blob from the map if the upload is cancelled mid-journey": an
   entry is there for an upload underway, an admitted blob or a blob some GET
   asked for, and for nothing else. *)
EntriesAreAccountedFor ==
  \A id \in Ids :
    ~Vacant(id) =>
      \/ \E r \in Posts : post[r].phase \in Underway /\ EntryOf(r) = id
      \/ \E r \in Range(admitted) : EntryOf(r) = id
      \/ \E g \in Gets : get[g].phase # "new" /\ get[g].id = id

(* Budget permits are neither lost nor made: each is free or held by exactly
   one handler, message or blob of the pipeline, whichever way a handler is
   left and whenever the pipeline ends. *)
BudgetIsConserved ==
  admission_budget = TOTAL_CHUNK_BUDGET
    - Allowances({r \in Posts : HoldsAllowance(r) \/ Sent(r) \/ r \in Range(pipeline)})

(* A client that saw Finalized never sees anything else for that id. *)
FinalizedIsNeverForgotten ==
  [][\A id \in Ids :
       ~Vacant(id) /\ Last(status_map[id]) = "Finalized"
       => status_map'[id] # <<>> /\ Last(status_map'[id]) = "Finalized"]_vars

(* For each id the bridge does what BlobStatus says, whoever races for it.
   Every hand-over counts, so a second one of an id is a step that BlobStatus
   does not have. *)
Abstract == INSTANCE BlobStatus WITH
  status <- [id \in Ids |-> IF Vacant(id) THEN "Absent" ELSE Last(status_map[id])],
  handed <- [i \in DOMAIN admitted |-> EntryOf(admitted[i])]
ImplementsBlobStatus == Abstract!Spec

(* Every request is answered, through full channels and busy hashers, with the
   pipeline up or gone. *)
EveryRequestIsAnswered ==
  /\ \A r \in Posts : post[r].phase \in Underway ~> post[r].phase = "done"
  /\ \A g \in Gets : get[g].phase = "sending" ~> get[g].phase = "done"

(* An update of the pipeline is shown, unless the message loop ends first: it
   finds the entry of its blob, through whatever was cancelled, refused or
   asked for while the blob was with the pipeline. *)
FinalizedBlobsAreShown ==
  \A id \in Ids :
    id \in Range(tx_bridge)
      ~> \/ "messages" \in stopped
         \/ ~Vacant(id) /\ Last(status_map[id]) = "Finalized"

(* "Blob(`{}`) is missing, scheduled for gathering from remote nodes"
   (coordinator.rs, on GetBlob): the pipeline is not asked to gather a blob it
   holds.  Does not hold: get_blob asks for every blob whose status is Pending,
   which is the status of a local blob until it is distributed. *)
GatheredBlobsAreMissing ==
  tx_admission # <<>> /\ Head(tx_admission).tag = "GetBlob" =>
    \A r \in Range(pipeline) : EntryOf(r) # Head(tx_admission).id
=============================================================================
