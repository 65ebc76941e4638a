-------------------------------- MODULE Swarm --------------------------------
(***************************************************************************)
(* The swarm task of a Gozara client, process_swarm in crates/peyk/src/    *)
(* lib.rs: it turns the coordinator's messages into libp2p requests and     *)
(* libp2p's events into messages for the coordinator.  It never waits for   *)
(* room in tx_handler: what finds the channel full is dropped.  Module Node *)
(* composes it with the coordinator.                                        *)
(***************************************************************************)
EXTENDS Integers, Sequences

CONSTANTS
  Peers,       (* storage providers                                            *)
  NoPeer,      (* the source of a gossip message that names none               *)
  HandlerCap   (* capacity of the tx_handler channel                           *)

VARIABLES
  swarm,       (* the task: "running" or "stopped"                             *)
  tx_swarm,    (* RequestStoragePermits messages from the coordinator          *)
  tx_handler,  (* messages to the coordinator                                  *)
  asked        (* providers with an unanswered permit request                  *)

swarmVars == <<swarm, tx_swarm, tx_handler, asked>>

-----------------------------------------------------------------------------
PollsUnlessFull ==  (* mutant: the sends to the handler are awaited *)
  swarm = "running" /\ Len(tx_handler) < HandlerCap
Polls == swarm = "running"

HasRoom == Len(tx_handler) < HandlerCap

TrySend(tag, p) ==
  tx_handler' = IF HasRoom THEN Append(tx_handler, [tag |-> tag, peer |-> p])
                ELSE tx_handler

RequestOneProvider ==  (* mutant: a request to one of the peers only *)
  \E p \in Head(tx_swarm) : asked' = asked \cup {p}
RequestEveryProvider == asked' = asked \cup Head(tx_swarm)

(* SwarmMessage::RequestStoragePermits: a request to every listed provider.
   Requests to one provider that are open at the same time count as one. *)
RequestStoragePermits ==
  /\ Polls
  /\ tx_swarm # <<>>
  /\ tx_swarm' = Tail(tx_swarm)
  /\ RequestEveryProvider
  /\ UNCHANGED <<swarm, tx_handler>>

(* A gossip message: it counts if it names its source and decodes. *)
Gossip(source, decodes) ==
  /\ Polls
  /\ IF source # NoPeer /\ decodes THEN TrySend("WouldStore", source)
     ELSE UNCHANGED tx_handler
  /\ UNCHANGED <<swarm, tx_swarm, asked>>

(* A peer takes us for a storage provider. *)
InboundRequest(p) ==
  /\ Polls
  /\ TrySend("Request", p)
  /\ UNCHANGED <<swarm, tx_swarm, asked>>

(* A provider answers.  tx_handler.send only makes a future, which is dropped
   before anything polls it: the response goes nowhere. *)
InboundResponse(p) ==
  /\ Polls
  /\ p \in asked
  /\ asked' = asked \ {p}
  /\ UNCHANGED <<swarm, tx_swarm, tx_handler>>

(* A request fails, which is logged only. *)
OutboundFailure(p) ==
  /\ Polls
  /\ p \in asked
  /\ asked' = asked \ {p}
  /\ UNCHANGED <<swarm, tx_swarm, tx_handler>>

(* The loop breaks on the shutdown token. *)
StopSwarm(closing) ==
  /\ Polls
  /\ closing
  /\ swarm' = "stopped"
  /\ UNCHANGED <<tx_swarm, tx_handler, asked>>

(* rx.recv returns None: the coordinator dropped its end of tx_swarm, and what
   it had sent is taken. *)
RxCloses(dropped) ==
  /\ Polls
  /\ dropped
  /\ tx_swarm = <<>>
  /\ swarm' = "stopped"
  /\ UNCHANGED <<tx_swarm, tx_handler, asked>>

SwarmInit ==
  /\ swarm = "running"
  /\ tx_swarm = <<>>
  /\ tx_handler = <<>>
  /\ asked = {}

SwarmStep(closing, dropped) ==
  \/ RequestStoragePermits
  \/ \E p \in Peers \cup {NoPeer}, decodes \in BOOLEAN : Gossip(p, decodes)
  \/ \E p \in Peers : InboundRequest(p)
  \/ \E p \in Peers : InboundResponse(p)
  \/ \E p \in Peers : OutboundFailure(p)
  \/ StopSwarm(closing)
  \/ RxCloses(dropped)
=============================================================================
