---------------------------- MODULE BlobTransfer -----------------------------
(***************************************************************************)
(* The two protocols by which chunks travel, crates/peyk/src/               *)
(* blob_transfer.rs.  The caller of push sends a hash and the data, and     *)
(* waits for an acknowledgement; the caller of pull sends a hash and waits  *)
(* for the data.  At the other end a task per stream, the callee, reads,    *)
(* checks, answers, and talks to the node that uses it (its consumer) over  *)
(* unbounded channels.  A stream may break at any time, a caller may give   *)
(* up and so drop its stream, the consumer may stop while the callees go    *)
(* on, and the process of the callees may die.                              *)
(*                                                                         *)
(* Data is a set of payloads.  blake3 is taken to be injective, so a hash   *)
(* is written as the payload it belongs to.  A frame is read as a whole or  *)
(* not at all: read_exact fails on a stream that ends within it.            *)
(***************************************************************************)
EXTENDS Sequences, FiniteSets

CONSTANTS
  Pushes, Pulls,  (* transfers, each made at most once                         *)
  Data,           (* payloads, and the hashes that name them                   *)
  TooLong         (* payloads over max_payload_len                             *)

VARIABLES
  job,       (* transfer -> its hash, and the data pushed or pulled            *)
  caller,    (* transfer -> where push or pull stands, or its result           *)
  callee,    (* transfer -> where handle_incoming_push or _pull stands         *)
  held,      (* transfer -> the payloads its callee has, hash first            *)
  up,        (* transfer -> frames to the callee                               *)
  down,      (* transfer -> tags and frames to the caller                      *)
  broken,    (* transfers whose stream is broken                               *)
  handed,    (* pushes handed over to the consumer                             *)
  crashed,   (* the process of the callees died                                *)
  listening  (* the consumer still holds its receivers                         *)

Transfers == Pushes \cup Pulls
wire == <<up, down>>
callees == <<callee, held, handed>>
vars == <<job, caller, callees, wire, broken, crashed, listening>>

NoData == "no data"
Yes == "1"   (* the tag bytes *)
No == "0"
Reason == "reason"

Results == {"Ok", "None", "Err", "TimedOut"}
Calling == {"hash", "data", "ack", "reason", "tag", "payload"}
Serving == {"hash", "data", "ack", "handover", "refuse", "reply", "found", "missing"}

ASSUME TransferAssumption == Pushes \cap Pulls = {} /\ NoData \notin Data
ASSUME PayloadAssumption == TooLong \subseteq Data

-----------------------------------------------------------------------------
(* push and pull, the caller's end. *)

Underway(t) == caller[t] \in Calling
Open(t) == caller[t] # "idle"

Goes(t, at) == caller' = [caller EXCEPT ![t] = at]
Sends(t, frame) == up' = [up EXCEPT ![t] = Append(@, frame)]
Reads(t) == down[t] # <<>> /\ down' = [down EXCEPT ![t] = Tail(@)]

(* open_stream, for which the arguments are known. *)
Begin(t, hash, data) ==
  /\ caller[t] = "idle"
  /\ job' = [job EXCEPT ![t] = [hash |-> hash, data |-> data]]
  /\ Goes(t, "hash") \/ Goes(t, "Err")
  /\ UNCHANGED <<callees, wire, broken, crashed, listening>>

WriteHash(t) ==
  /\ caller[t] = "hash"
  /\ Sends(t, job[t].hash)
  /\ Goes(t, IF t \in Pushes THEN "data" ELSE "tag")
  /\ UNCHANGED <<job, callees, down, broken, crashed, listening>>

WriteData(t) ==
  /\ caller[t] = "data"
  /\ Sends(t, job[t].data)
  /\ Goes(t, "ack")
  /\ UNCHANGED <<job, callees, down, broken, crashed, listening>>

ReadAck(t) ==
  /\ caller[t] = "ack"
  /\ Reads(t)
  /\ Goes(t, IF Head(down[t]) = Yes THEN "Ok" ELSE "reason")
  /\ UNCHANGED <<job, callees, up, broken, crashed, listening>>

ReadReason(t) ==
  /\ caller[t] = "reason"
  /\ Reads(t)
  /\ Goes(t, "Err")
  /\ UNCHANGED <<job, callees, up, broken, crashed, listening>>

ReadTag(t) ==
  /\ caller[t] = "tag"
  /\ Reads(t)
  /\ Goes(t, IF Head(down[t]) = No THEN "None" ELSE "payload")
  /\ UNCHANGED <<job, callees, up, broken, crashed, listening>>

AnyMatches(data, hash) == TRUE  (* mutant: the hash is not compared *)
Matches(data, hash) == data = hash

(* A frame that is too long is not read. *)
ReadPayload(t) ==
  /\ caller[t] = "payload"
  /\ Reads(t)
  /\ LET data == Head(down[t])
     IN /\ job' = [job EXCEPT ![t].data = data]
        /\ Goes(t, IF data \notin TooLong /\ Matches(data, job[t].hash)
                   THEN "Ok" ELSE "Err")
  /\ UNCHANGED <<callees, up, broken, crashed, listening>>

AfterBreakNone(t) ==  (* mutant: a pull that breaks off has found nothing *)
  IF t \in Pulls THEN "None" ELSE "Err"
AfterBreak(t) == "Err"

(* A read or write fails. *)
CallerFails(t) ==
  /\ Underway(t)
  /\ t \in broken
  /\ Goes(t, AfterBreak(t))
  /\ UNCHANGED <<job, callees, wire, broken, crashed, listening>>

(* The coordinator's timeout drops the push, and its stream, at an await. *)
TimesOut(t) ==
  /\ t \in Pushes
  /\ Underway(t)
  /\ Goes(t, "TimedOut")
  /\ broken' = broken \cup {t}
  /\ UNCHANGED <<job, callees, wire, crashed, listening>>

-----------------------------------------------------------------------------
(* handle_incoming_push and handle_incoming_pull, the callee's end. *)

Steps(t, at) == callee' = [callee EXCEPT ![t] = at]
Takes(t) ==
  /\ up[t] # <<>>
  /\ up' = [up EXCEPT ![t] = Tail(@)]
  /\ held' = [held EXCEPT ![t] = Append(@, Head(up[t]))]
Answers(t, frames) == down' = [down EXCEPT ![t] = @ \o frames]

(* A pull is handed to the consumer as soon as its hash is known. *)
TakeHash(t) ==
  /\ callee[t] = "hash"
  /\ Takes(t)
  /\ Steps(t, IF t \in Pushes THEN "data" ELSE "reply")
  /\ UNCHANGED <<job, caller, handed, down, broken, crashed, listening>>

TakeData(t) ==
  /\ callee[t] = "data"
  /\ Takes(t)
  /\ LET data == Head(up[t])
     IN /\ Steps(t, IF data \in TooLong THEN "failed"
                    ELSE IF Matches(data, held[t][1]) THEN "ack" ELSE "refuse")
        /\ broken' = IF data \in TooLong THEN broken \cup {t} ELSE broken
  /\ UNCHANGED <<job, caller, handed, down, crashed, listening>>

WriteAck(t) ==
  /\ callee[t] = "ack"
  /\ Answers(t, <<Yes>>)
  /\ Steps(t, "handover")
  /\ UNCHANGED <<job, caller, held, handed, up, broken, crashed, listening>>

HandsOverIfClosed(t) ==  (* mutant: an unclean close is an error *)
  handed' = IF listening /\ t \notin broken THEN handed \cup {t} ELSE handed
(* A send to a consumer that has stopped fails, and nobody is told. *)
HandsOver(t) == handed' = IF listening THEN handed \cup {t} ELSE handed

(* Close the stream and hand the chunk over; an unclean close is logged. *)
HandOver(t) ==
  /\ callee[t] = "handover"
  /\ Steps(t, "done")
  /\ HandsOver(t)
  /\ UNCHANGED <<job, caller, held, wire, broken, crashed, listening>>

Refuse(t) ==
  /\ callee[t] = "refuse"
  /\ Answers(t, <<No, Reason>>)
  /\ Steps(t, "failed")
  /\ UNCHANGED <<job, caller, held, handed, up, broken, crashed, listening>>

(* The consumer responds to a pull. *)
Respond(t, data) ==
  /\ listening
  /\ callee[t] = "reply"
  /\ Steps(t, "found")
  /\ held' = [held EXCEPT ![t] = Append(@, data)]
  /\ UNCHANGED <<job, caller, handed, wire, broken, crashed, listening>>

AfterDropOrphaned == "orphaned"  (* mutant: waits for a sender that is gone *)
AfterDrop == "missing"

(* It responds that it has no such data, drops the reply channel, or has
   stopped and never gets the pull. *)
DropPull(t) ==
  /\ callee[t] = "reply"
  /\ Steps(t, AfterDrop)
  /\ UNCHANGED <<job, caller, held, handed, wire, broken, crashed, listening>>

WriteReply(t) ==
  /\ callee[t] \in {"found", "missing"}
  /\ Answers(t, IF callee[t] = "found" THEN <<Yes, held[t][2]>> ELSE <<No>>)
  /\ Steps(t, "done")
  /\ UNCHANGED <<job, caller, held, handed, up, broken, crashed, listening>>

(* A read or write fails.  A handler that waits for its consumer, or hands a
   chunk over, does not look at the stream. *)
CalleeFails(t) ==
  /\ Open(t)
  /\ t \in broken
  /\ callee[t] \in Serving \ {"handover", "reply"}
  /\ Steps(t, "failed")
  /\ UNCHANGED <<job, caller, held, handed, wire, broken, crashed, listening>>

-----------------------------------------------------------------------------
(* The world. *)

Break(t) ==
  /\ Underway(t)
  /\ broken' = broken \cup {t}
  /\ UNCHANGED <<job, caller, callees, wire, crashed, listening>>

(* The process of the callees dies, with all it was handed. *)
Crash ==
  /\ ~crashed
  /\ crashed' = TRUE
  /\ broken' = Transfers
  /\ callee' = [t \in Transfers |-> IF callee[t] \in Serving THEN "gone" ELSE callee[t]]
  /\ handed' = {}
  /\ UNCHANGED <<job, caller, held, wire, listening>>

(* The loop of the coordinator ends, and drops its receivers with all they
   hold; the callees are tasks of their own. *)
ConsumerStops ==
  /\ ~crashed
  /\ listening
  /\ listening' = FALSE
  /\ handed' = {}
  /\ UNCHANGED <<job, caller, callee, held, wire, broken, crashed>>

Quiet ==
  /\ \A t \in Transfers : caller[t] \in Results
  /\ UNCHANGED vars

-----------------------------------------------------------------------------
Init ==
  /\ job = [t \in Transfers |-> [hash |-> NoData, data |-> NoData]]
  /\ caller = [t \in Transfers |-> "idle"]
  /\ callee = [t \in Transfers |-> "hash"]
  /\ held = [t \in Transfers |-> <<>>]
  /\ up = [t \in Transfers |-> <<>>]
  /\ down = [t \in Transfers |-> <<>>]
  /\ broken = {}
  /\ handed = {}
  /\ crashed = FALSE
  /\ listening = TRUE

Begins(t) ==
  \/ t \in Pushes /\ \E hash \in Data, data \in Data : Begin(t, hash, data)
  \/ t \in Pulls /\ \E hash \in Data : Begin(t, hash, NoData)

CallerSteps(t) ==
  \/ WriteHash(t) \/ WriteData(t)
  \/ ReadAck(t) \/ ReadReason(t) \/ ReadTag(t) \/ ReadPayload(t)
  \/ CallerFails(t)

CalleeSteps(t) ==
  \/ TakeHash(t) \/ TakeData(t) \/ WriteAck(t) \/ HandOver(t) \/ Refuse(t)
  \/ WriteReply(t)
  \/ CalleeFails(t)

ConsumerSteps(t) == DropPull(t) \/ \E data \in Data : Respond(t, data)

Next ==
  \/ \E t \in Transfers :
       \/ Begins(t) \/ CallerSteps(t) \/ TimesOut(t)
       \/ CalleeSteps(t) \/ ConsumerSteps(t)
       \/ Break(t)
  \/ Crash
  \/ ConsumerStops
  \/ Quiet

Spec == Init /\ [][Next]_vars

(***************************************************************************)
(* Fairness: a task whose stream is ready is polled, and a pull that is     *)
(* handed to the consumer is taken or dropped.  Nothing is assumed of       *)
(* timeouts, of the stream or of the process.                               *)
(***************************************************************************)
Fairness == \A t \in Transfers :
  WF_vars(CallerSteps(t)) /\ WF_vars(CalleeSteps(t)) /\ WF_vars(ConsumerSteps(t))

FairSpec == Spec /\ Fairness

-----------------------------------------------------------------------------
(* Properties. *)

(* Every variable keeps its type. *)
TypeOK ==
  /\ job \in [Transfers -> [hash : Data \cup {NoData}, data : Data \cup {NoData}]]
  /\ caller \in [Transfers -> {"idle"} \cup Calling \cup Results]
  /\ callee \in [Transfers -> Serving \cup {"done", "failed", "gone"}]
  /\ held \in [Transfers -> Seq(Data)]
  /\ up \in [Transfers -> Seq(Data)]
  /\ down \in [Transfers -> Seq(Data \cup {Yes, No, Reason})]
  /\ broken \subseteq Transfers
  /\ handed \subseteq Pushes
  /\ crashed \in BOOLEAN
  /\ listening \in BOOLEAN

(* A push that returns Ok was read in full by the other end, which found that
   the data has the hash: no break, timeout, refusal or death of the peer in
   between makes an Ok of anything else. *)
OkMeansVerified ==
  \A t \in Pushes : caller[t] = "Ok" =>
    held[t] = <<job[t].hash, job[t].data>> /\ job[t].data = job[t].hash

(* What a pull returns is what was asked for, and what the peer served. *)
PulledDataIsAsked ==
  \A t \in Pulls : caller[t] = "Ok" =>
    job[t].data = job[t].hash /\ held[t] = <<job[t].hash, job[t].data>>

(* While a node lives and its consumer listens, a chunk it acknowledged to a
   push that returned Ok was handed over or is about to be: neither the stream,
   which may have broken since the tag was written, nor the caller comes in
   between.  The acknowledgement promises no more than that: a consumer that has
   stopped (line 208 ignores that the send fails) or a death loses the chunk. *)
OkMeansHandedOver ==
  listening /\ ~crashed =>
    \A t \in Pushes : caller[t] = "Ok" => t \in handed \/ callee[t] = "handover"

(* "treat it the same as "don't have it" rather than hanging the requester"
   (on a consumer that drops a pull): every pull gets its result, also when the
   stream breaks or the peer dies. *)
EveryPullReturns == \A t \in Pulls : Underway(t) ~> caller[t] \in Results

(* The refinement mapping to ChunkTransfer.  A push is acknowledged once the
   tag is written, a pull is replied to once its callee is done; what a pull
   was sent and did not accept is not returned. *)
Acks(t) == down[t] = <<Yes>> \/ caller[t] = "Ok"
ResultOf(t) == IF Underway(t) THEN "waiting" ELSE caller[t]
RequestOf(t) ==
  IF t \in Pulls /\ caller[t] # "Ok" THEN [hash |-> job[t].hash, data |-> NoData] ELSE job[t]
RepliesTo(t) ==
  IF callee[t] # "done" THEN {} ELSE {IF Len(held[t]) = 2 THEN held[t][2] ELSE NoData}

requests == [t \in Transfers |-> RequestOf(t)]
results == [t \in Transfers |-> ResultOf(t)]
replies == [t \in Pulls |-> RepliesTo(t)]
acknowledged == {t \in Pushes : Acks(t)}

Service == INSTANCE ChunkTransfer WITH
  request <- requests,
  result <- results,
  delivered <- handed,
  reply <- replies,
  dead <- crashed,
  listening <- listening

(* "`Ok(None)` means they don't have it", and Ok that they had or took it:
   frame by frame, with breaks, timeouts and a death at any point, the protocol
   does what an atomic acknowledgement and an atomic reply would.  Nobody
   returns Ok or None on less than the other end did, nothing is delivered
   unverified or to a consumer that has stopped, and nothing is done after
   death. *)
ImplementsChunkTransfer == Service!Spec
=============================================================================
