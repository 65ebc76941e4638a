----------------------------- MODULE MCDiscovery -----------------------------
(* Small instances of Discovery for TLC. *)
EXTENDS Discovery

(* A host with a public address and one behind a router. *)
PublicAndPrivate == [n \in Nodes |-> {"public", "private"}]
=============================================================================
