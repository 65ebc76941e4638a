------------------------------ MODULE Discovery ------------------------------
(***************************************************************************)
(* How nodes find each other: bin/bootnode/src, go_public in bin/client/    *)
(* src/lib.rs, and the two arms of process_swarm that concern Kademlia.     *)
(* Every client knows the bootnode from its configuration and nobody else;  *)
(* the bootnode keeps addresses of those who come, and queries spread them. *)
(* A node may crash and come back with an empty routing table.              *)
(*                                                                         *)
(* Of an address only its peer and its kind are kept.  Queries and          *)
(* connections are libp2p's, and a step that meets a peer is all of them.   *)
(***************************************************************************)
EXTENDS Naturals

CONSTANTS
  Clients, Bootnode,
  Listens,    (* node -> the kinds of the addresses that identify reports of it:
                 those of its interfaces, and of a client its external one     *)
  MaxCrashes  (* bound on the crashes                                          *)

VARIABLES
  up,        (* nodes that run                                                 *)
  dht,       (* node -> the addresses in its routing table                     *)
  querying,  (* nodes with a query in progress                                 *)
  crashes    (* how many crashes there were                                    *)

vars == <<up, dht, querying, crashes>>

Nodes == Clients \cup {Bootnode}
Kinds == {"public", "private", "loopback", "link-local"}
Address == [peer : Nodes, kind : Kinds]

ASSUME NodeAssumption == Bootnode \notin Clients /\ Listens \in [Nodes -> SUBSET Kinds]
ASSUME CrashAssumption == MaxCrashes \in Nat

-----------------------------------------------------------------------------
(* A peer can be dialled where it can be reached. *)
Knows(n, p) == [peer |-> p, kind |-> "public"] \in dht[n]

(* go_public: the bootnode's address from the configuration, and bootstrap. *)
GoPublic(c) ==
  /\ c \in Clients \ up
  /\ up' = up \cup {c}
  /\ dht' = [dht EXCEPT ![c] = {[peer |-> Bootnode, kind |-> "public"]}]
  /\ querying' = querying \cup {c}
  /\ UNCHANGED crashes

(* The bootnode starts to listen and waits for peers. *)
StartBootnode ==
  /\ Bootnode \notin up
  /\ up' = up \cup {Bootnode}
  /\ UNCHANGED <<dht, querying, crashes>>

SearchesOnce(n) == n = Bootnode  (* mutant: a client only bootstraps *)
Searches(n) == TRUE

(* timer_peer_discovery: a query for the peers next to a random id. *)
DiscoverPeers(n) ==
  /\ n \in up
  /\ Searches(n)
  /\ n \notin querying
  /\ querying' = querying \cup {n}
  /\ UNCHANGED <<up, dht, crashes>>

IsPublic(kind) == kind \notin {"private", "loopback"}

(* identify told n of the addresses of a peer it is connected to. *)
NewExternalAddrOfPeer(n, p) ==
  dht' = [dht EXCEPT ![n] =
    @ \cup {[peer |-> p, kind |-> kind] : kind \in {k \in Listens[p] : IsPublic(k)}}]

(* The query of n dials a peer in its table, or one that a peer in its table
   tells of; then identify runs at both ends, or breaks off at one. *)
Meet(n, p, learner) ==
  /\ n \in querying
  /\ p \in up \ {n}
  /\ \E m \in {n} \cup {q \in up : Knows(n, q)} : Knows(m, p)
  /\ \/ learner = n /\ NewExternalAddrOfPeer(n, p)
     \/ learner = p /\ NewExternalAddrOfPeer(p, n)
  /\ UNCHANGED <<up, querying, crashes>>

(* It finishes or times out. *)
QueryEnds(n) ==
  /\ n \in querying
  /\ querying' = querying \ {n}
  /\ UNCHANGED <<up, dht, crashes>>

Crash(n) ==
  /\ n \in up
  /\ crashes < MaxCrashes
  /\ crashes' = crashes + 1
  /\ up' = up \ {n}
  /\ dht' = [dht EXCEPT ![n] = {}]
  /\ querying' = querying \ {n}

-----------------------------------------------------------------------------
Init ==
  /\ up = {}
  /\ dht = [n \in Nodes |-> {}]
  /\ querying = {}
  /\ crashes = 0

Next ==
  \/ \E c \in Clients : GoPublic(c)
  \/ StartBootnode
  \/ \E n \in Nodes : DiscoverPeers(n) \/ QueryEnds(n) \/ Crash(n)
  \/ \E n, p \in Nodes : \E learner \in {n, p} : Meet(n, p, learner)

Spec == Init /\ [][Next]_vars

(* Fairness: timers fire, and what a query can bring to light again and again
   it does in the end.  Nobody has to start, and nothing lasts. *)
Learns(n) == \E p \in Nodes : \E learner \in {n, p} : Meet(n, p, learner) /\ dht' # dht
Fairness == \A n \in Nodes : WF_vars(DiscoverPeers(n)) /\ SF_vars(Learns(n))

FairSpec == Spec /\ Fairness

-----------------------------------------------------------------------------
(* Properties. *)

(* Two clients that are up to stay find each other when the bootnode is there
   to stay: whoever came first, whoever crashed before, and although go_public
   bootstraps only once, before the bootnode may have been there at all. *)
ClientsFindEachOther ==
  \A c \in Clients : \A d \in Clients \ {c} :
    <>[]({c, d, Bootnode} \subseteq up) => <>[]Knows(c, d)
=============================================================================
