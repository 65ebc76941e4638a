---------------------------- MODULE ChunkTransfer ----------------------------
(***************************************************************************)
(* What push and pull promise the two nodes at their ends.  A push returns  *)
(* Ok only when the other end has acknowledged the chunk, which it does     *)
(* only for data that has the hash; a chunk is delivered to that node only  *)
(* when it was acknowledged.  A pull returns data, or that there is none,   *)
(* only when the other end replied so, and the data only when it has the    *)
(* hash.  Any transfer may fail, whatever the other end did; a node that    *)
(* dies does nothing more, and one that has stopped listening delivers no   *)
(* chunk it acknowledges.  Module BlobTransfer implements it.               *)
(***************************************************************************)
CONSTANTS Pushes, Pulls, Data, NoData

VARIABLES
  request,       (* transfer -> its hash, and the data pushed or returned      *)
  result,        (* transfer -> "idle", "waiting" or what it returned          *)
  acknowledged,  (* pushes that were acknowledged                              *)
  delivered,     (* pushes whose chunk was delivered                           *)
  reply,         (* pull -> the reply to it, at most one                       *)
  dead,          (* the node at the other end died                             *)
  listening      (* it still takes chunks                                      *)

vars == <<request, result, acknowledged, delivered, reply, dead, listening>>
Transfers == Pushes \cup Pulls

Init ==
  /\ request = [t \in Transfers |-> [hash |-> NoData, data |-> NoData]]
  /\ result = [t \in Transfers |-> "idle"]
  /\ acknowledged = {}
  /\ delivered = {}
  /\ reply = [t \in Pulls |-> {}]
  /\ dead = FALSE
  /\ listening = TRUE

Begin(t) ==
  /\ result[t] = "idle"
  /\ \E hash \in Data, data \in IF t \in Pushes THEN Data ELSE {NoData} :
       request' = [request EXCEPT ![t] = [hash |-> hash, data |-> data]]
  /\ \E at \in {"waiting", "Err"} : result' = [result EXCEPT ![t] = at]
  /\ UNCHANGED <<acknowledged, delivered, reply, dead, listening>>

Acknowledge(t) ==
  /\ ~dead
  /\ result[t] # "idle"
  /\ request[t].data = request[t].hash
  /\ acknowledged' = acknowledged \cup {t}
  /\ UNCHANGED <<request, result, delivered, reply, dead, listening>>

Deliver(t) ==
  /\ ~dead
  /\ listening
  /\ t \in acknowledged
  /\ delivered' = delivered \cup {t}
  /\ UNCHANGED <<request, result, acknowledged, reply, dead, listening>>

Reply(t, data) ==
  /\ ~dead
  /\ result[t] # "idle"
  /\ reply[t] = {}
  /\ reply' = [reply EXCEPT ![t] = {data}]
  /\ UNCHANGED <<request, result, acknowledged, delivered, dead, listening>>

Returns(t, outcome) ==
  /\ result[t] = "waiting"
  /\ result' = [result EXCEPT ![t] = outcome]
  /\ UNCHANGED <<acknowledged, delivered, reply, dead, listening>>

PushReturns(t) ==
  /\ t \in acknowledged
  /\ Returns(t, "Ok")
  /\ UNCHANGED request

PullReturns(t) ==
  /\ request[t].hash \in reply[t]
  /\ Returns(t, "Ok")
  /\ request' = [request EXCEPT ![t].data = request[t].hash]

PullReturnsNone(t) ==
  /\ NoData \in reply[t]
  /\ Returns(t, "None")
  /\ UNCHANGED request

Fails(t) ==
  /\ \E outcome \in {"Err", "TimedOut"} : Returns(t, outcome)
  /\ UNCHANGED request

(* What was delivered to a node that dies is lost. *)
Die ==
  /\ ~dead
  /\ dead' = TRUE
  /\ delivered' = {}
  /\ UNCHANGED <<request, result, acknowledged, reply, listening>>

(* The node takes no more chunks, and loses those it took: what it acknowledges
   from now on is not delivered. *)
StopListening ==
  /\ ~dead
  /\ listening
  /\ listening' = FALSE
  /\ delivered' = {}
  /\ UNCHANGED <<request, result, acknowledged, reply, dead>>

Next ==
  \/ \E t \in Transfers : Begin(t) \/ Fails(t)
  \/ \E t \in Pushes : Acknowledge(t) \/ Deliver(t) \/ PushReturns(t)
  \/ \E t \in Pulls : PullReturns(t) \/ PullReturnsNone(t)
                      \/ \E data \in Data \cup {NoData} : Reply(t, data)
  \/ Die
  \/ StopListening

Spec == Init /\ [][Next]_vars
=============================================================================
